------------------------------ MODULE BootProofs ------------------------------
(***************************************************************************)
(* Proofs about the boot code and its serial port, for every nesting of    *)
(* interrupts the transmitter has room for, every divisor and line format, *)
(* and every number of calls and of bytes that arrive.                     *)
(***************************************************************************)
EXTENDS Boot, SequenceTheorems, TLAPS

BootLabels == {"init", "print", "put", "put out", "get", "get in", "flush",
               "booted", "load", "idt", "run", "halt"}
HandlerLabels == {"handler", "put", "put out", "get", "get in", "iretq"}

Activation ==
  [at : BootLabels \cup HandlerLabels, step : Nat, then : {"print", "booted", "run", "iretq"},
   cs : Nat, ss : BootStacks \cup {0}]
Uart ==
  [lcr : Nat, ier : Nat, mcr : Nat, dll : Nat, dlm : Nat, fifo : BOOLEAN,
   tx : Seq(Nat), rx : Seq(Nat)]
Segments ==
  [cs : Nat, ds : Nat, es : Nat, fs : Nat, gs : Nat, ss : BootStacks, tr : Nat]

TypeOK ==
  /\ port \in {"present", "stuck", "absent"} /\ uart \in Uart
  /\ line \in Seq(Nat) /\ sent \in Seq(Nat) /\ arrived \in Seq(Nat) /\ got \in Seq(Nat)
  /\ gdtr \in {"bootloader", "kernel"} /\ seg \in Segments
  /\ active \in Seq(Activation) /\ Len(active) > 0
  /\ calls \in Nat /\ received \in Nat
  /\ idt \in BOOLEAN /\ fault \in BOOLEAN /\ busy \in BOOLEAN
  /\ disturbed \in BOOLEAN /\ raced \in BOOLEAN

(* The boot code is at the bottom and handlers are on top of it.  Before   *)
(* the interrupt table is loaded it runs alone, and it has called nothing. *)
Starting(b) ==
  \/ b.at = "init" /\ b.then = "print"
  \/ b.at \in {"print", "booted", "load", "idt", "halt"}
  \/ b.at \in {"put", "put out"} /\ b.then = "booted"
Running(b) ==
  \/ b.at \in {"run", "halt"}
  \/ b.at \in {"put", "put out", "get", "get in", "flush", "init"} /\ b.then = "run" /\ calls > 0

ActiveInv ==
  /\ Len(active) <= MaxNesting + 1
  /\ \A i \in 2 .. Len(active) :
       /\ active[i].at \in HandlerLabels /\ active[i].then = "iretq"
       /\ active[i].cs = GateSelector /\ active[i].ss = seg.ss
  /\ idt => Running(active[1])
  /\ ~idt => Starting(active[1]) /\ Len(active) = 1 /\ calls = 0

(* The registers, by how far init() has come; Fresh: for the first time.   *)
At1(lo, hi) == active[1].at = "init" /\ active[1].step \in lo .. hi
Fresh == active[1].then = "print"

PortInv ==
  /\ active[1].at = "init" => active[1].step \in 1 .. 7
  /\ uart.ier = 0
  /\ port = "absent" => uart.lcr = 0
  /\ port # "absent" =>
       /\ At1(3, 5) => uart.lcr = 128
       /\ ~At1(3, 5) => uart.lcr = IF At1(1, 2) /\ Fresh THEN 0 ELSE ILCR
       /\ uart.mcr = 11 \/ (At1(1, 7) /\ Fresh)
       /\ uart.fifo \/ (At1(1, 6) /\ Fresh)
       /\ disturbed \/ At1(1, 3) \/ uart.dll = Divisor % 256
       /\ At1(1, 4) \/ uart.dlm = Divisor \div 256
  /\ disturbed => calls > 0

(* Whoever is between the test of put() and its write finds room for the   *)
(* character: those below it have at most one more each to write.          *)
OutInv ==
  /\ OutputInOrder
  /\ port # "absent" =>
       \A i \in 1 .. Len(active) :
         active[i].at = "put out" => Len(uart.tx) + i <= MaxNesting + 1

(* Whoever is between the test of get() and its read finds a byte.         *)
InInv ==
  /\ ReceivedOnce
  /\ port # "absent" /\ ~raced =>
       \A i \in 1 .. Len(active) : active[i].at = "get in" => uart.rx # <<>>

Loaded ==
  /\ gdtr = "kernel" /\ busy /\ seg.cs = 8 /\ seg.tr = 40
  /\ seg.ds = 16 /\ seg.es = 16 /\ seg.fs = 16 /\ seg.gs = 16

(* What load() has loaded, by how far it has come.                         *)
SegInv ==
  /\ fault => idt /\ Top.at = "iretq" /\ ~DataSelector(seg.ss)
  /\ active[1].at = "idt" \/ idt => Loaded
  /\ ~idt /\ active[1].at \notin {"idt", "halt"} => busy = FALSE
  /\ active[1].at = "load" =>
       /\ gdtr = "kernel" /\ active[1].step \in 1 .. 6
       /\ active[1].step > 1 => seg.ds = 16
       /\ active[1].step > 2 => seg.es = 16
       /\ active[1].step > 3 => seg.fs = 16
       /\ active[1].step > 4 => seg.gs = 16
       /\ active[1].step > 5 => seg.cs = 8

BootInv == TypeOK /\ ActiveInv /\ PortInv /\ OutInv /\ InInv /\ SegInv

-----------------------------------------------------------------------------
(* The device.                                                             *)

LEMMA UartRegisters ==
  ASSUME NEW u \in Uart, NEW v \in Nat
  PROVE  /\ [u EXCEPT !.dll = v] \in Uart /\ [u EXCEPT !.dlm = v] \in Uart
         /\ [u EXCEPT !.ier = v] \in Uart /\ [u EXCEPT !.lcr = v] \in Uart
         /\ [u EXCEPT !.mcr = v] \in Uart
<1>1. [u EXCEPT !.dll = v] \in Uart
  BY DEF Uart
<1>2. [u EXCEPT !.dlm = v] \in Uart
  BY DEF Uart
<1>3. [u EXCEPT !.ier = v] \in Uart
  BY DEF Uart
<1>4. [u EXCEPT !.lcr = v] \in Uart
  BY DEF Uart
<1>5. [u EXCEPT !.mcr = v] \in Uart
  BY DEF Uart
<1> QED
  BY <1>1, <1>2, <1>3, <1>4, <1>5

LEMMA UartQueues ==
  ASSUME NEW u \in Uart, NEW t \in Seq(Nat)
  PROVE  [u EXCEPT !.tx = t] \in Uart /\ [u EXCEPT !.rx = t] \in Uart
<1>1. [u EXCEPT !.tx = t] \in Uart
  BY DEF Uart
<1>2. [u EXCEPT !.rx = t] \in Uart
  BY DEF Uart
<1> QED
  BY <1>1, <1>2

LEMMA UartReset ==
  ASSUME NEW u \in Uart
  PROVE  [u EXCEPT !.fifo = TRUE, !.rx = <<>>, !.tx = <<>>] \in Uart
<1>1. PICK e \in Seq(Nat) : e = <<>>
  BY EmptySeq
<1>2. [u EXCEPT !.fifo = TRUE, !.rx = e, !.tx = e] \in Uart
  BY DEF Uart
<1> QED
  BY <1>1, <1>2

(* A write to each register of a port that is there.                       *)
LEMMA OutFacts ==
  ASSUME port # "absent", NEW v
  PROVE  /\ DLAB => out(DATA, v) = [uart EXCEPT !.dll = v]
         /\ ~DLAB => out(DATA, v) = IF Len(uart.tx) < Capacity
                                      THEN [uart EXCEPT !.tx = Append(uart.tx, v)] ELSE uart
         /\ DLAB => out(IER, v) = [uart EXCEPT !.dlm = v]
         /\ ~DLAB => out(IER, v) = [uart EXCEPT !.ier = v]
         /\ out(FCR, 199) = [uart EXCEPT !.fifo = TRUE, !.rx = <<>>, !.tx = <<>>]
         /\ out(LCR, v) = [uart EXCEPT !.lcr = v]
         /\ out(MCR, v) = [uart EXCEPT !.mcr = v]
<1>1. Bit(199, 1) = TRUE /\ Bit(199, 2) = TRUE /\ Bit(199, 4) = TRUE
  BY DEF Bit
<1>2. out(FCR, 199) = [uart EXCEPT !.fifo = TRUE, !.rx = <<>>, !.tx = <<>>]
  <2>1. out(FCR, 199) = [uart EXCEPT !.fifo = Bit(199, 1),
                                     !.rx = IF Bit(199, 2) THEN <<>> ELSE uart.rx,
                                     !.tx = IF Bit(199, 4) THEN <<>> ELSE uart.tx]
    BY DEF out, DATA, IER, FCR, LCR, MCR
  <2> QED
    BY <1>1, <2>1
<1>3. /\ DLAB => out(DATA, v) = [uart EXCEPT !.dll = v]
      /\ ~DLAB => out(DATA, v) = IF Len(uart.tx) < Capacity
                                   THEN [uart EXCEPT !.tx = Append(uart.tx, v)] ELSE uart
  BY DEF out, DLAB, DATA, IER, FCR, LCR, MCR
<1>4. /\ DLAB => out(IER, v) = [uart EXCEPT !.dlm = v]
      /\ ~DLAB => out(IER, v) = [uart EXCEPT !.ier = v]
  BY DEF out, DLAB, DATA, IER, FCR, LCR, MCR
<1>5. /\ out(LCR, v) = [uart EXCEPT !.lcr = v]
      /\ out(MCR, v) = [uart EXCEPT !.mcr = v]
  BY DEF out, DLAB, DATA, IER, FCR, LCR, MCR
<1> QED
  BY <1>2, <1>3, <1>4, <1>5

LEMMA OutAbsent ==
  ASSUME port = "absent", NEW r, NEW v
  PROVE  out(r, v) = uart
  BY DEF out

(* What a write to the data register leaves alone.                         *)
LEMMA DataWrites ==
  ASSUME uart \in Uart, NEW v \in Nat, NEW u, u = out(DATA, v)
  PROVE  /\ u \in Uart
         /\ u.lcr = uart.lcr /\ u.ier = uart.ier /\ u.mcr = uart.mcr /\ u.dlm = uart.dlm
         /\ u.fifo = uart.fifo /\ u.rx = uart.rx
         /\ ~DLAB => u.dll = uart.dll
         /\ DLAB => u.tx = uart.tx
         /\ Len(u.tx) <= Len(uart.tx) + 1
<1>1. PICK t \in Seq(Nat) : t = Append(uart.tx, v) /\ Len(t) = Len(uart.tx) + 1
  <2>1. PICK tx \in Seq(Nat) : tx = uart.tx
    BY DEF Uart
  <2>2. Append(tx, v) \in Seq(Nat) /\ Len(Append(tx, v)) = Len(tx) + 1
    BY AppendProperties
  <2> QED
    BY <2>1, <2>2
<1>2. uart.tx \in Seq(Nat) /\ Len(uart.tx) \in Nat
  BY DEF Uart
<1>3. \/ u = uart
      \/ DLAB /\ u = [uart EXCEPT !.dll = v]
      \/ ~DLAB /\ u = [uart EXCEPT !.tx = t]
  BY <1>1, OutFacts, OutAbsent
<1>4. CASE u = uart
  BY <1>2, <1>4
<1>5. CASE DLAB /\ u = [uart EXCEPT !.dll = v]
  <2>1. u \in Uart
    BY <1>5, UartRegisters
  <2>2. /\ u.lcr = uart.lcr /\ u.ier = uart.ier /\ u.mcr = uart.mcr /\ u.dlm = uart.dlm
        /\ u.fifo = uart.fifo /\ u.rx = uart.rx /\ u.tx = uart.tx
    BY <1>5 DEF Uart
  <2> QED
    BY <1>2, <1>5, <2>1, <2>2
<1>6. CASE ~DLAB /\ u = [uart EXCEPT !.tx = t]
  <2>1. u \in Uart
    BY <1>6, UartQueues
  <2>2. /\ u.lcr = uart.lcr /\ u.ier = uart.ier /\ u.mcr = uart.mcr /\ u.dlm = uart.dlm
        /\ u.fifo = uart.fifo /\ u.rx = uart.rx /\ u.dll = uart.dll /\ u.tx = t
    BY <1>6 DEF Uart
  <2> QED
    BY <1>1, <1>2, <1>6, <2>1, <2>2
<1> QED
  BY <1>3, <1>4, <1>5, <1>6

-----------------------------------------------------------------------------
(* The activations.                                                        *)

(* The one on top goes to a label; it and the others keep the rest.        *)
MovesTo(label, step) ==
  /\ Len(active') = Len(active)
  /\ \A i \in 1 .. Len(active) :
       /\ active'[i].then = active[i].then
       /\ active'[i].cs = active[i].cs /\ active'[i].ss = active[i].ss
       /\ i < Len(active) => active'[i].at = active[i].at /\ active'[i].step = active[i].step
  /\ active'[Len(active)].at = label /\ active'[Len(active)].step = step

LEMMA MovedFacts ==
  ASSUME TypeOK, NEW label \in BootLabels \cup HandlerLabels, NEW step \in Nat,
         active' = Moved(label, step)
  PROVE  active' \in Seq(Activation) /\ MovesTo(label, step)
<1>1. PICK n : n = Len(active)
  OBVIOUS
<1>2. PICK a \in Seq(Activation) : a = active
  BY DEF TypeOK
<1>3. n \in Nat \ {0} /\ n = Len(a) /\ n \in 1 .. n
  BY <1>1, <1>2 DEF TypeOK
<1>4. PICK c \in Activation : c = a[n]
  BY <1>3
<1>5. PICK b \in Activation : b = [c EXCEPT !.at = label, !.step = step]
  BY DEF Activation
<1>6. active' = [a EXCEPT ![n] = b]
  BY <1>4, <1>1, <1>2, <1>3, <1>5 DEF Moved
<1>7. active' \in Seq(Activation) /\ Len(active') = n
  BY <1>3, <1>6
<1>8. /\ active'[n] = b /\ b.at = label /\ b.step = step
      /\ b.then = c.then /\ b.cs = c.cs /\ b.ss = c.ss
  BY <1>3, <1>5, <1>6 DEF Activation
<1>9. \A i \in 1 .. n : i < n => active'[i] = a[i]
  BY <1>3, <1>6
<1> QED
  BY <1>4, <1>1, <1>2, <1>3, <1>7, <1>8, <1>9 DEF MovesTo

LEMMA GotoFacts ==
  ASSUME TypeOK, NEW label \in BootLabels \cup HandlerLabels, Goto(label)
  PROVE  active' \in Seq(Activation) /\ MovesTo(label, 1)
  BY MovedFacts DEF Goto

(* Who is on top: the boot code at its labels, a handler at its own.       *)
LEMMA TopFacts ==
  ASSUME TypeOK, ActiveInv
  PROVE  /\ Len(active) \in Nat \ {0} /\ Len(active) \in 1 .. Len(active)
         /\ 1 \in 1 .. Len(active) /\ Top \in Activation /\ active[1] \in Activation
         /\ Len(active) > 1 => /\ Top.at \in HandlerLabels /\ Top.then = "iretq"
                               /\ Top.cs = GateSelector /\ Top.ss = seg.ss /\ idt
         /\ Len(active) = 1 => Top = active[1] /\ Top.at \in BootLabels
<1>1. Len(active) \in Nat \ {0} /\ active \in Seq(Activation)
  BY DEF TypeOK
<1>2. \A i \in 1 .. Len(active) : active[i] \in Activation
  BY <1>1
<1>3. active[1].at \in BootLabels
  BY DEF ActiveInv, Starting, Running, BootLabels
<1>4. Len(active) > 1 => Len(active) \in 2 .. Len(active)
  BY <1>1
<1> QED
  BY <1>1, <1>2, <1>3, <1>4 DEF Top, ActiveInv

-----------------------------------------------------------------------------
(* A queue whose front has gone on to another one.                         *)

LEMMA NatConcat ==
  ASSUME NEW a \in Seq(Nat), NEW b \in Seq(Nat), NEW c \in Seq(Nat)
  PROVE  (a \o b) \o c = a \o (b \o c)
  BY ConcatAssociative, SMTT(20)

LEMMA QueueAppend ==
  ASSUME NEW a \in Seq(Nat), NEW b \in Seq(Nat), NEW c \in Nat
  PROVE  a \o Append(b, c) = Append(a \o b, c)
<1>1. PICK d \in Seq(Nat) : d = <<c>>
  <2>1. <<c>> \in Seq(Nat)
    OBVIOUS
  <2> QED
    BY <2>1, Zenon
<1>2. PICK ab \in Seq(Nat) : ab = a \o b
  BY ConcatProperties
<1>3. Append(b, c) = b \o d
  BY <1>1, AppendIsConcat
<1>4. Append(ab, c) = ab \o d
  BY <1>1, AppendIsConcat
<1>5. (a \o b) \o d = a \o (b \o d)
  BY NatConcat, Zenon
<1> QED
  BY <1>2, <1>3, <1>4, <1>5

LEMMA QueueMove ==
  ASSUME NEW a \in Seq(Nat), NEW b \in Seq(Nat), b # <<>>
  PROVE  /\ Append(a, Head(b)) \in Seq(Nat) /\ Tail(b) \in Seq(Nat)
         /\ Len(Tail(b)) = Len(b) - 1
         /\ Append(a, Head(b)) \o Tail(b) = a \o b
<1>1. PICK h \in Nat : h = Head(b)
  BY HeadTailProperties
<1>2. PICK t \in Seq(Nat) : t = Tail(b)
  BY HeadTailProperties
<1>3. PICK d \in Seq(Nat) : d = <<h>>
  <2>1. <<h>> \in Seq(Nat)
    OBVIOUS
  <2> QED
    BY <2>1, Zenon
<1>4. Len(d) = 1 /\ d[1] = h
  BY <1>3
<1>5. Append(a, h) = a \o d /\ Append(a, h) \in Seq(Nat)
  BY <1>3, AppendIsConcat, AppendProperties
<1>6. (a \o d) \o t = a \o (d \o t)
  BY NatConcat
<1>7. d \o t = b
  <2>1. PICK m \in Nat : m = Len(b)
    OBVIOUS
  <2>2. m > 0 /\ Len(t) = m - 1 /\ \A i \in 1 .. m - 1 : t[i] = b[i + 1]
    BY <1>2, <2>1, HeadTailProperties
  <2>3. h = b[1]
    BY <1>1
  <2>4. PICK c : c = d \o t
    OBVIOUS
  <2>5. /\ c \in Seq(Nat) /\ Len(c) = Len(d) + Len(t)
        /\ \A i \in 1 .. Len(d) + Len(t) : c[i] = IF i <= Len(d) THEN d[i] ELSE t[i - Len(d)]
    BY <1>4, <2>4, ConcatProperties
  <2>6. Len(c) = m /\ \A i \in 1 .. m : c[i] = IF i <= 1 THEN h ELSE t[i - 1]
    BY <1>4, <2>2, <2>5
  <2>7. ASSUME NEW i \in 1 .. m PROVE c[i] = b[i]
    <3>1. CASE i = 1
      BY <2>3, <2>6, <3>1
    <3>2. CASE i > 1
      <4>1. i - 1 \in 1 .. m - 1 /\ (i - 1) + 1 = i
        BY <2>1, <3>2
      <4>2. c[i] = t[i - 1]
        BY <2>6, <3>2
      <4>3. t[i - 1] = b[(i - 1) + 1]
        BY <2>2, <4>1
      <4> QED
        BY <4>1, <4>2, <4>3
    <3> QED
      BY <3>1, <3>2
  <2>8. c = b
    BY <2>1, <2>5, <2>6, <2>7, SeqEqual
  <2> QED
    BY <2>4, <2>8
<1>8. Len(t) = Len(b) - 1
  BY <1>2, HeadTailProperties
<1> QED
  BY <1>1, <1>2, <1>5, <1>6, <1>7, <1>8

-----------------------------------------------------------------------------
(* Steps that leave a part of the state alone.                             *)

KeepsBoot == /\ active'[1].at = active[1].at /\ active'[1].step = active[1].step
             /\ active'[1].then = active[1].then

LEMMA KeepActive ==
  ASSUME TypeOK, ActiveInv, NEW label, NEW step, MovesTo(label, step),
         UNCHANGED <<idt, calls>>, seg'.ss = seg.ss,
         Len(active) > 1 => label \in HandlerLabels,
         Len(active) = 1 => /\ idt => Running(active[1])'
                            /\ ~idt => Starting(active[1])'
  PROVE  ActiveInv' /\ (Len(active) > 1 => KeepsBoot)
<1>1. PICK n \in Nat \ {0} : n = Len(active)
  BY DEF TypeOK
<1>2. n <= MaxNesting + 1 /\ Len(active') = n
  BY <1>1 DEF ActiveInv, MovesTo
<1>3. n > 1 => KeepsBoot
  BY <1>1 DEF KeepsBoot, MovesTo
<1>4. \A i \in 2 .. n : /\ active[i].at \in HandlerLabels /\ active[i].then = "iretq"
                        /\ active[i].cs = GateSelector /\ active[i].ss = seg.ss
  BY <1>1 DEF ActiveInv
<1>5. ASSUME NEW i \in 2 .. n
      PROVE  /\ active'[i].at \in HandlerLabels /\ active'[i].then = "iretq"
             /\ active'[i].cs = GateSelector /\ active'[i].ss = seg'.ss
  <2>1. CASE i = n
    BY <1>1, <1>4, <2>1 DEF MovesTo
  <2>2. CASE i < n
    BY <1>1, <1>4, <2>2 DEF MovesTo
  <2> QED
    BY <2>1, <2>2
<1>6. (idt => Running(active[1])') /\ (~idt => Starting(active[1])' /\ n = 1 /\ calls = 0)
  <2>1. CASE n = 1
    BY <1>1, <2>1 DEF ActiveInv
  <2>2. CASE n > 1
    BY <1>1, <1>3, <2>2 DEF ActiveInv, Running, KeepsBoot
  <2> QED
    BY <2>1, <2>2
<1> QED
  BY <1>1, <1>2, <1>3, <1>5, <1>6 DEF ActiveInv

LEMMA KeepPort ==
  ASSUME PortInv, UNCHANGED <<port, uart, disturbed>>, calls' = calls,
         \/ KeepsBoot
         \/ active[1].at # "init" /\ active'[1].at # "init"
  PROVE  PortInv'
<1>1. CASE KeepsBoot
  BY <1>1 DEF PortInv, At1, Fresh, KeepsBoot
<1>2. CASE active[1].at # "init" /\ active'[1].at # "init"
  BY <1>2 DEF PortInv, At1
<1> QED
  BY <1>1, <1>2

LEMMA KeepOut ==
  ASSUME OutInv, UNCHANGED <<port, uart, line, sent, disturbed>>,
         \A i \in 1 .. Len(active') :
           active'[i].at = "put out" => i \in 1 .. Len(active) /\ active[i].at = "put out"
  PROVE  OutInv'
  BY DEF OutInv, OutputInOrder

LEMMA KeepIn ==
  ASSUME InInv, UNCHANGED <<port, uart, got, arrived, disturbed, raced>>,
         \A i \in 1 .. Len(active') :
           active'[i].at = "get in" => i \in 1 .. Len(active) /\ active[i].at = "get in"
  PROVE  InInv'
  BY DEF InInv, ReceivedOnce

LEMMA KeepSeg ==
  ASSUME SegInv, UNCHANGED <<gdtr, seg, busy, idt, fault>>, ~fault,
         \/ KeepsBoot
         \/ active[1].at \notin {"load", "idt", "halt"} /\ active'[1].at \notin {"load", "idt"}
  PROVE  SegInv'
<1>1. CASE KeepsBoot
  BY <1>1 DEF SegInv, Loaded, KeepsBoot
<1>2. CASE active[1].at \notin {"load", "idt", "halt"} /\ active'[1].at \notin {"load", "idt"}
  BY <1>2 DEF SegInv, Loaded
<1> QED
  BY <1>1, <1>2

(* No activation but the one on top has come to a label. *)
LEMMA OnlyTop ==
  ASSUME TypeOK, NEW label, NEW step, MovesTo(label, step), NEW l, label # l
  PROVE  \A i \in 1 .. Len(active') :
           active'[i].at = l => i \in 1 .. Len(active) /\ i < Len(active) /\ active[i].at = l
<1>1. Len(active) \in Nat \ {0} /\ Len(active') = Len(active)
  BY DEF TypeOK, MovesTo
<1> QED
  BY <1>1 DEF MovesTo

-----------------------------------------------------------------------------
LEMMA InitialBoot == Init => BootInv
<1> SUFFICES ASSUME Init PROVE BootInv
  OBVIOUS
<1>1. PICK e \in Seq(Nat) : e = <<>>
  BY EmptySeq
<1>2. PICK b \in Activation :
        b = [at |-> "init", step |-> 1, then |-> "print", cs |-> 0, ss |-> 0]
  BY DEF Activation, BootLabels
<1>3. active = <<b>> /\ active \in Seq(Activation) /\ Len(active) = 1 /\ active[1] = b
  BY <1>2 DEF Init
<1>4. b.at = "init" /\ b.step = 1 /\ b.then = "print"
  BY <1>2
<1>5. /\ uart \in Uart /\ uart.lcr = 0 /\ uart.ier = 0 /\ uart.tx = e /\ uart.rx = e
      /\ line = e /\ sent = e /\ arrived = e /\ got = e
  <2>1. uart = [lcr |-> 0, ier |-> 0, mcr |-> 0, dll |-> 0, dlm |-> 0, fifo |-> FALSE,
                tx |-> e, rx |-> e]
    BY <1>1 DEF Init, SerialInit
  <2>2. line = e /\ sent = e /\ arrived = e /\ got = e
    BY <1>1 DEF Init, SerialInit
  <2>3. uart \in Uart
    BY <2>1 DEF Uart
  <2> QED
    BY <2>1, <2>2, <2>3
<1>6. TypeOK
  <2>1. seg \in Segments
    BY DEF Init, GdtInit, Segments
  <2>2. /\ port \in {"present", "stuck", "absent"} /\ gdtr \in {"bootloader", "kernel"}
        /\ calls \in Nat /\ received \in Nat
        /\ idt \in BOOLEAN /\ fault \in BOOLEAN /\ busy \in BOOLEAN
        /\ disturbed \in BOOLEAN /\ raced \in BOOLEAN
    BY DEF Init, SerialInit, GdtInit
  <2> QED
    BY <1>3, <1>5, <2>1, <2>2 DEF TypeOK
<1>7. ActiveInv
  <2>1. Len(active) = 1 /\ 1 <= MaxNesting + 1 /\ 2 .. 1 = {}
    BY <1>3, BootAssumption
  <2>2. ~idt /\ calls = 0 /\ Starting(active[1])
    BY <1>3, <1>4 DEF Init, Starting
  <2> QED
    BY <2>1, <2>2 DEF ActiveInv
<1>8. PortInv
  BY <1>3, <1>4, <1>5 DEF Init, PortInv, At1, Fresh
<1>9. e \o e = e
  BY <1>1, ConcatEmptySeq
<1>10. \A i \in 1 .. Len(active) : active[i].at = "init"
  BY <1>3, <1>4
<1>11. OutInv /\ InInv
  <2>1. line \o uart.tx = sent /\ got \o uart.rx = arrived
    BY <1>5, <1>9
  <2> QED
    BY <1>10, <2>1 DEF OutInv, OutputInOrder, InInv, ReceivedOnce
<1>12. SegInv
  BY <1>3, <1>4 DEF Init, GdtInit, SegInv
<1> QED
  BY <1>6, <1>7, <1>8, <1>11, <1>12 DEF BootInv

LEMMA RoomForOne ==
  ASSUME NEW n \in Nat, NEW m \in Nat, n <= m + 1, NEW i \in 1 .. n, NEW t, t = 0
  PROVE  t + i <= m + 1
  OBVIOUS

LEMMA LenFacts ==
  ASSUME TypeOK
  PROVE  /\ Len(active) \in Nat /\ Len(active) > 0 /\ Len(active) \in 1 .. Len(active)
         /\ Len(active) = 1 \/ Len(active) > 1
         /\ ~(Len(active) = 1 /\ Len(active) > 1)
<1>1. PICK n \in Nat : n = Len(active) /\ n > 0
  BY DEF TypeOK
<1>2. (n = 1 \/ n > 1) /\ ~(n = 1 /\ n > 1) /\ n \in 1 .. n
  BY <1>1
<1> QED
  BY <1>1, <1>2, Zenon

(* What no access of the port comes with: the activation on top goes on.   *)
LEMMA QuietMove ==
  ASSUME BootInv, ~fault, NEW label \in BootLabels \cup HandlerLabels, Goto(label),
         UNCHANGED <<serialVars, gdtVars, control>>,
         Len(active) > 1 => label \in HandlerLabels,
         Len(active) = 1 => /\ idt => Running(active[1])'
                            /\ ~idt => Starting(active[1])'
                            /\ active[1].at \notin {"init", "load", "idt", "halt"}
                            /\ label \notin {"init", "load", "idt"},
         label = "put out" => tx_ready,
         label = "get in" => rx_ready
  PROVE  BootInv'
<1>1. TypeOK /\ ActiveInv /\ PortInv /\ OutInv /\ InInv /\ SegInv
  BY DEF BootInv
<1> USE <1>1
<1>2. active' \in Seq(Activation) /\ MovesTo(label, 1)
  BY GotoFacts
<1>3. /\ UNCHANGED <<port, uart, line, sent, arrived, got>> /\ UNCHANGED <<gdtr, seg, busy>>
      /\ UNCHANGED <<idt, fault, interrupts, calls, received, disturbed, raced>>
  BY DEF serialVars, gdtVars, control
<1>4. PICK n \in Nat : /\ n = Len(active) /\ n = Len(active')
                       /\ n <= MaxNesting + 1 /\ (n = 1 \/ n > 1)
  <2>1. Len(active) \in Nat /\ (Len(active) = 1 \/ Len(active) > 1)
    BY LenFacts
  <2>2. Len(active') = Len(active) /\ Len(active) <= MaxNesting + 1
    BY <1>2 DEF MovesTo, ActiveInv
  <2> QED
    BY <2>1, <2>2, Zenon
<1>5. ActiveInv' /\ (n > 1 => KeepsBoot)
  BY <1>2, <1>3, <1>4, KeepActive
<1>6. n = 1 => active'[1].at = label
  BY <1>2, <1>4 DEF MovesTo
<1>7. TypeOK'
  BY <1>2, <1>3, <1>4 DEF TypeOK
<1>8. \/ KeepsBoot
      \/ /\ active[1].at \notin {"init", "load", "idt", "halt"}
         /\ active'[1].at \notin {"init", "load", "idt"}
  <2>1. CASE n = 1
    BY <1>4, <1>6, <2>1, Zenon
  <2>2. CASE n > 1
    BY <1>5, <2>2
  <2> QED
    BY <1>4, <2>1, <2>2
<1>9. PortInv'
  BY <1>3, <1>8, KeepPort
<1>10. SegInv'
  BY <1>3, <1>8, KeepSeg
<1>11. OutInv'
  <2>1. CASE label # "put out"
    <3>1. \A i \in 1 .. Len(active') :
            active'[i].at = "put out" => i \in 1 .. Len(active) /\ active[i].at = "put out"
      BY <1>2, <2>1, OnlyTop
    <3> QED
      BY <1>3, <3>1, KeepOut
  <2>2. CASE label = "put out"
    <3>1. port # "absent" => uart.tx = <<>> /\ Len(uart.tx) = 0
      BY <2>2, EmptySeq DEF tx_ready
    <3>2. \A i \in 1 .. n : i < n => active'[i].at = active[i].at
      BY <1>2, <1>4 DEF MovesTo
    <3>3. ASSUME port # "absent", NEW i \in 1 .. n PROVE Len(uart.tx) + i <= MaxNesting + 1
      BY <1>4, <3>1, <3>3, RoomForOne, BootAssumption, Zenon
    <3> QED
      BY <1>3, <1>4, <3>3 DEF OutInv, OutputInOrder
  <2> QED
    BY <2>1, <2>2
<1>12. InInv'
  <2>1. CASE label # "get in"
    <3>1. \A i \in 1 .. Len(active') :
            active'[i].at = "get in" => i \in 1 .. Len(active) /\ active[i].at = "get in"
      BY <1>2, <2>1, OnlyTop
    <3> QED
      BY <1>3, <3>1, KeepIn
  <2>2. CASE label = "get in"
    BY <1>3, <2>2 DEF rx_ready, InInv, ReceivedOnce
  <2> QED
    BY <2>1, <2>2
<1> QED
  BY <1>5, <1>7, <1>9, <1>10, <1>11, <1>12 DEF BootInv

-----------------------------------------------------------------------------
(* The actions, one by one.                                                *)

(* Where the activation on top is, and who it is.                          *)
LEMMA WhoIsAt ==
  ASSUME TypeOK, ActiveInv, NEW l, At(l)
  PROVE  /\ ~fault /\ Top.at = l
         /\ Len(active) = 1 \/ Len(active) > 1
         /\ Len(active) > 1 => idt /\ l \in HandlerLabels /\ Top.then = "iretq"
         /\ Len(active) = 1 => /\ active[1].at = l /\ Top = active[1]
                               /\ idt => Running(active[1])
                               /\ ~idt => Starting(active[1])
  BY TopFacts, LenFacts DEF At, ActiveInv

(* The boot code alone is at the labels no handler comes to.              *)
LEMMA BootIsAt ==
  ASSUME TypeOK, ActiveInv, NEW l, At(l), l \notin HandlerLabels
  PROVE  /\ Len(active) = 1 /\ ~(Len(active) > 1) /\ ~fault
         /\ Top = active[1] /\ active[1].at = l
         /\ idt => Running(active[1])
         /\ ~idt => Starting(active[1])
<1>1. ~(Len(active) > 1)
  BY WhoIsAt
<1>2. Len(active) = 1
  BY <1>1, WhoIsAt
<1> QED
  BY <1>1, <1>2, WhoIsAt

LEMMA GotoTop ==
  ASSUME TypeOK, NEW label \in BootLabels \cup HandlerLabels, Goto(label), Len(active) = 1
  PROVE  Len(active') = 1 /\ active'[1].at = label /\ active'[1].then = active[1].then
<1>1. 1 \in 1 .. Len(active)
  OBVIOUS
<1> QED
  BY <1>1, GotoFacts DEF MovesTo

LEMMA PollTxKeeps == ASSUME BootInv, PollTx PROVE BootInv'
<1>1. TypeOK /\ ActiveInv /\ At("put") /\ "put out" \in BootLabels \cup HandlerLabels
  BY DEF BootInv, PollTx, BootLabels
<1>2. /\ ~fault /\ Goto("put out") /\ tx_ready
      /\ UNCHANGED <<serialVars, gdtVars, control>> /\ idt' = idt /\ calls' = calls
  BY DEF PollTx, At, control
<1>3. Len(active) > 1 => "put out" \in HandlerLabels
  BY DEF HandlerLabels
<1>4. ASSUME Len(active) = 1
      PROVE  /\ idt => Running(active[1])'
             /\ ~idt => Starting(active[1])'
             /\ active[1].at \notin {"init", "load", "idt", "halt"}
  <2>1. active[1].at = "put" /\ (idt => Running(active[1])) /\ (~idt => Starting(active[1]))
    BY <1>1, <1>4, WhoIsAt
  <2>2. active'[1].at = "put out" /\ active'[1].then = active[1].then
    BY <1>1, <1>2, <1>4, GotoTop
  <2> QED
    BY <1>2, <2>1, <2>2 DEF Running, Starting
<1> QED
  BY <1>1, <1>2, <1>3, <1>4, QuietMove

LEMMA FlushKeeps == ASSUME BootInv, Flush PROVE BootInv'
<1>1. TypeOK /\ ActiveInv /\ At("flush")
  BY DEF BootInv, Flush
<1>2. /\ ~fault /\ Goto(Top.then)
      /\ UNCHANGED <<serialVars, gdtVars, control>> /\ idt' = idt /\ calls' = calls
  BY DEF Flush, At, control
<1>3. Len(active) = 1 /\ ~(Len(active) > 1) /\ active[1].at = "flush"
  BY <1>1, BootIsAt DEF HandlerLabels
<1>4. Top.then = "run" /\ idt
  <2>1. /\ Top = active[1]
        /\ (idt => Running(active[1])) /\ (~idt => Starting(active[1]))
    BY <1>1, BootIsAt DEF HandlerLabels
  <2> QED
    BY <1>3, <2>1 DEF Running, Starting
<1>5. "run" \in BootLabels \cup HandlerLabels
  BY DEF BootLabels
<1>6. Goto("run") /\ Running(active[1])'
  BY <1>1, <1>2, <1>3, <1>5, <1>4, GotoTop DEF Running
<1> QED
  BY <1>2, <1>3, <1>5, <1>6, <1>4, QuietMove

LEMMA PollRxKeeps == ASSUME BootInv, PollRx PROVE BootInv'
<1>1. TypeOK /\ ActiveInv /\ At("get") /\ "get in" \in BootLabels \cup HandlerLabels
  BY DEF BootInv, PollRx, BootLabels
<1>2. /\ ~fault /\ Goto("get in") /\ rx_ready
      /\ UNCHANGED <<serialVars, gdtVars, control>> /\ idt' = idt /\ calls' = calls
  BY DEF PollRx, At, control
<1>3. Len(active) > 1 => "get in" \in HandlerLabels
  BY DEF HandlerLabels
<1>4. ASSUME Len(active) = 1
      PROVE  /\ idt => Running(active[1])'
             /\ ~idt => Starting(active[1])'
             /\ active[1].at \notin {"init", "load", "idt", "halt"}
  <2>1. active[1].at = "get" /\ (idt => Running(active[1])) /\ (~idt => Starting(active[1]))
    BY <1>1, <1>4, WhoIsAt
  <2>2. active'[1].at = "get in" /\ active'[1].then = active[1].then
    BY <1>1, <1>2, <1>4, GotoTop
  <2> QED
    BY <1>2, <2>1, <2>2 DEF Running, Starting
<1> QED
  BY <1>1, <1>2, <1>3, <1>4, QuietMove

LEMMA HandleKeeps ==
  ASSUME BootInv, NEW f \in {"put", "get", "iretq"}, Handle(f)
  PROVE  BootInv'
<1>1. TypeOK /\ ActiveInv /\ At("handler") /\ f \in BootLabels \cup HandlerLabels
  BY DEF BootInv, Handle, HandlerLabels
<1>2. /\ ~fault /\ Goto(f) /\ UNCHANGED <<serialVars, gdtVars, control>>
  BY DEF Handle, At
<1>3. Len(active) > 1 /\ f \in HandlerLabels /\ ~(Len(active) = 1)
  <2>1. "handler" \notin BootLabels /\ f \in HandlerLabels
    BY DEF BootLabels, HandlerLabels
  <2> QED
    BY <1>1, <2>1, WhoIsAt, TopFacts DEF At
<1> QED
  BY <1>1, <1>2, <1>3, QuietMove

LEMMA HaltKeeps == ASSUME BootInv, Halt PROVE BootInv'
<1>1. TypeOK /\ ActiveInv /\ (At("booted") \/ At("run"))
  BY DEF BootInv, Halt
<1>2. /\ ~fault /\ Goto("halt")
      /\ UNCHANGED <<serialVars, gdtVars, control>> /\ idt' = idt /\ calls' = calls
  BY <1>1 DEF Halt, At, control
<1>3. Len(active) = 1 /\ ~(Len(active) > 1) /\ active[1].at \in {"booted", "run"}
  BY <1>1, BootIsAt DEF HandlerLabels
<1>4. "halt" \in BootLabels \cup HandlerLabels
  BY DEF BootLabels
<1>5. Running(active[1])' /\ Starting(active[1])'
  BY <1>1, <1>2, <1>3, <1>4, GotoTop DEF Running, Starting
<1> QED
  BY <1>2, <1>3, <1>4, <1>5, QuietMove

(* The boot code, alone, makes a call.                                     *)
LEMMA Called ==
  ASSUME TypeOK, Len(active) = 1, NEW f \in BootLabels, NEW th \in {"booted", "run"},
         NEW b, b = active[1], NEW c \in Activation,
         c.at = f /\ c.then = th /\ c.step \in Nat, active' = [active EXCEPT ![1] = c]
  PROVE  active' \in Seq(Activation) /\ Len(active') = 1 /\ active'[1] = c
<1>1. PICK a \in Seq(Activation) : a = active
  BY DEF TypeOK
<1>2. Len(a) = 1 /\ active' = [a EXCEPT ![1] = c]
  BY <1>1
<1>3. active' \in Seq(Activation) /\ Len(active') = 1
  <2>1. 1 \in 1 .. Len(a)
    BY <1>2
  <2>2. [a EXCEPT ![1] = c] \in Seq(Activation) /\ Len([a EXCEPT ![1] = c]) = Len(a)
    BY <2>1, ExceptSeq
  <2> QED
    BY <1>2, <2>2
<1>4. active'[1] = c
  BY <1>2
<1> QED
  BY <1>3, <1>4

(* What the FIFO holds besides the characters of those who nest.            *)
LEMMA FifoFits ==
  ASSUME NEW t \in Nat, NEW n \in Nat \ {0}, t + n <= MaxNesting + 1
  PROVE  t < FifoSize
<1>1. MaxNesting \in Nat /\ MaxNesting < FifoSize
  BY BootAssumption
<1>2. FifoSize \in Nat
  BY SerialAssumption
<1> QED
  BY <1>1, <1>2

LEMMA Alone == 1 <= MaxNesting + 1 /\ 2 .. 1 = {}
  BY BootAssumption

LEMMA BannerKeeps == ASSUME BootInv, Banner PROVE BootInv'
<1>1. TypeOK /\ ActiveInv /\ PortInv /\ OutInv /\ InInv /\ SegInv /\ At("print")
  BY DEF BootInv, Banner
<1>2. /\ Len(active) = 1 /\ active[1].at = "print" /\ ~fault
      /\ (idt => Running(active[1])) /\ active[1] \in Activation
  BY <1>1, BootIsAt, TopFacts DEF HandlerLabels
<1>3. PICK b \in Activation : b = active[1]
  BY <1>2
<1>4. PICK c \in Activation : c = [b EXCEPT !.at = "put", !.then = "booted"]
  BY DEF Activation, BootLabels
<1>5. c.at = "put" /\ c.then = "booted" /\ c.step = b.step /\ c.step \in Nat
  BY <1>4 DEF Activation
<1>6. active' = [active EXCEPT ![1] = c]
  BY <1>2, <1>3, <1>4 DEF Banner
<1>7. active' \in Seq(Activation) /\ Len(active') = 1 /\ active'[1] = c
  BY <1>1, <1>2, <1>3, <1>5, <1>6, Called DEF BootLabels
<1>8. /\ UNCHANGED <<port, uart, line, sent, arrived, got>> /\ UNCHANGED <<gdtr, seg, busy>>
      /\ UNCHANGED <<idt, fault, interrupts, calls, received, disturbed, raced>>
  BY DEF Banner, serialVars, gdtVars, control
<1>9. ~idt
  BY <1>2 DEF Running
<1>10. TypeOK'
  BY <1>1, <1>7, <1>8 DEF TypeOK
<1>11. ActiveInv'
  <2>1. Starting(active[1])'
    BY <1>5, <1>7 DEF Starting
  <2>2. Len(active') <= MaxNesting + 1 /\ 2 .. Len(active') = {}
    BY <1>7, Alone
  <2> QED
    BY <1>1, <1>7, <1>8, <1>9, <2>1, <2>2 DEF ActiveInv
<1>12. active[1].at # "init" /\ active'[1].at = "put"
  BY <1>2, <1>5, <1>7
<1>13. PortInv' /\ SegInv'
  <2>1. PortInv'
    BY <1>1, <1>8, <1>12, KeepPort
  <2>2. SegInv'
    BY <1>1, <1>2, <1>8, <1>12, KeepSeg
  <2> QED
    BY <2>1, <2>2
<1>14. \A i \in 1 .. Len(active') : active'[i].at = "put"
  BY <1>5, <1>7
<1>15. OutInv' /\ InInv'
  BY <1>1, <1>8, <1>14 DEF OutInv, OutputInOrder, InInv, ReceivedOnce
<1> QED
  BY <1>10, <1>11, <1>13, <1>15 DEF BootInv

LEMMA CallKeeps ==
  ASSUME BootInv, NEW f \in {"put", "get", "flush", "init"}, Call(f)
  PROVE  BootInv'
<1>1. TypeOK /\ ActiveInv /\ PortInv /\ OutInv /\ InInv /\ SegInv /\ At("run")
  BY DEF BootInv, Call
<1>2. /\ Len(active) = 1 /\ active[1].at = "run" /\ ~fault
      /\ (~idt => Starting(active[1])) /\ active[1] \in Activation
  BY <1>1, BootIsAt, TopFacts DEF HandlerLabels
<1>3. PICK b \in Activation : b = active[1]
  BY <1>2
<1>4. f \in BootLabels
  BY DEF BootLabels
<1>5. PICK c \in Activation : c = [b EXCEPT !.at = f, !.then = "run", !.step = 1]
  BY <1>4 DEF Activation
<1>6. c.at = f /\ c.then = "run" /\ c.step = 1 /\ c.step \in Nat
  BY <1>5 DEF Activation
<1>7. active' = [active EXCEPT ![1] = c]
  BY <1>2, <1>3, <1>5 DEF Call
<1>8. active' \in Seq(Activation) /\ Len(active') = 1 /\ active'[1] = c
  BY <1>4, <1>1, <1>2, <1>3, <1>6, <1>7, Called
<1>9. /\ UNCHANGED <<port, uart, line, sent, arrived, got>> /\ UNCHANGED <<gdtr, seg, busy>>
      /\ UNCHANGED <<idt, fault, interrupts, received, disturbed, raced>>
  BY DEF Call, serialVars, gdtVars
<1>10. idt
  BY <1>2 DEF Starting
<1>11. calls' \in Nat /\ calls' > 0
  BY <1>1 DEF Call, TypeOK
<1>12. TypeOK'
  BY <1>1, <1>8, <1>9, <1>11 DEF TypeOK
<1>13. ActiveInv'
  <2>1. Running(active[1])'
    BY <1>6, <1>8, <1>11 DEF Running
  <2>2. Len(active') <= MaxNesting + 1 /\ 2 .. Len(active') = {}
    BY <1>8, Alone
  <2> QED
    BY <1>1, <1>8, <1>9, <1>10, <2>1, <2>2 DEF ActiveInv
<1>14. /\ active'[1].at = f /\ active'[1].step = 1 /\ active'[1].then = "run"
  BY <1>6, <1>8
<1>15. PortInv'
  <2>1. ~At1(3, 5) /\ ~At1(1, 2) /\ ~At1(1, 7) /\ ~At1(1, 6) /\ ~At1(1, 3) /\ ~At1(1, 4)
    BY <1>2 DEF At1
  <2>2. ~At1(3, 5)' /\ ~Fresh'
    BY <1>14 DEF At1, Fresh
  <2>3. active'[1].at = "init" => active'[1].step \in 1 .. 7
    BY <1>14
  <2>4. uart.ier = 0 /\ (port = "absent" => uart.lcr = 0)
    BY <1>1 DEF PortInv
  <2>5. port # "absent" =>
          /\ uart.lcr = ILCR /\ uart.mcr = 11 /\ uart.fifo
          /\ disturbed \/ uart.dll = Divisor % 256
          /\ uart.dlm = Divisor \div 256
    BY <1>1, <2>1 DEF PortInv
  <2> QED
    BY <1>9, <1>11, <2>2, <2>3, <2>4, <2>5 DEF PortInv
<1>16. \A i \in 1 .. Len(active') : active'[i].at = f
  BY <1>6, <1>8
<1>17. OutInv' /\ InInv'
  BY <1>1, <1>9, <1>16 DEF OutInv, OutputInOrder, InInv, ReceivedOnce
<1>18. SegInv'
  BY <1>1, <1>2, <1>9, <1>14, KeepSeg
<1> QED
  BY <1>12, <1>13, <1>15, <1>17, <1>18 DEF BootInv

LEMMA ConstantFacts ==
  /\ Divisor % 256 \in Nat /\ Divisor \div 256 \in Nat /\ ILCR \in Nat
  /\ (Divisor % 256) + 256 * (Divisor \div 256) = Divisor
  /\ ~(0 >= 128) /\ ~(ILCR >= 128)
<1>1. PICK d \in Nat : d = Divisor
  BY SerialAssumption
<1>2. d % 256 \in Nat
  OBVIOUS
<1>3. d \div 256 \in Nat
  OBVIOUS
<1>4. (d % 256) + 256 * (d \div 256) = d
  OBVIOUS
<1>5. ILCR \in Nat /\ ~(ILCR >= 128) /\ ~(0 >= 128)
  BY SerialAssumption
<1> QED
  BY <1>1, <1>2, <1>3, <1>4, <1>5

(* What each write of init() does to a port that is there.                 *)
LEMMA InitWritten ==
  ASSUME TypeOK, PortInv, active[1].at = "init", NEW k, k = active[1].step, init(k)
  PROVE  /\ k \in 1 .. 7
         /\ UNCHANGED <<port, line, got>>
         /\ port = "absent" => uart' = uart
         /\ port # "absent" =>
              /\ k = 1 => uart' = [uart EXCEPT !.ier = 0]
              /\ k = 2 => uart' = [uart EXCEPT !.lcr = 128]
              /\ k = 3 => uart' = [uart EXCEPT !.dll = Divisor % 256]
              /\ k = 4 => uart' = [uart EXCEPT !.dlm = Divisor \div 256]
              /\ k = 5 => uart' = [uart EXCEPT !.lcr = ILCR]
              /\ k = 6 => uart' = [uart EXCEPT !.fifo = TRUE, !.rx = <<>>, !.tx = <<>>]
              /\ k = 7 => uart' = [uart EXCEPT !.mcr = 11]
         /\ k = 6 => sent' = line /\ arrived' = got
         /\ k # 6 => sent' = sent /\ arrived' = arrived
<1>1. k \in 1 .. 7 /\ UNCHANGED <<port, line, got>>
  BY DEF PortInv, init
<1>2. port = "absent" => uart' = uart
  BY OutAbsent DEF init
<1>3. ASSUME port # "absent"
      PROVE  (k \in 3 .. 5 => DLAB) /\ (k \in 1 .. 2 => ~DLAB)
  <2>1. k \in 3 .. 5 => uart.lcr = 128
    BY <1>3 DEF PortInv, At1
  <2>2. k \in 1 .. 2 => uart.lcr = 0 \/ uart.lcr = ILCR
    <3>1. k \in 1 .. 2 => ~At1(3, 5)
      BY DEF At1
    <3> QED
      BY <1>3, <3>1 DEF PortInv
  <2> QED
    <3>1. k \in 3 .. 5 => DLAB
      BY <2>1 DEF DLAB
    <3>2. ~(0 >= 128) /\ ~(ILCR >= 128)
      BY ConstantFacts, Zenon
    <3>3. k \in 1 .. 2 => ~DLAB
      BY <2>2, <3>2 DEF DLAB
    <3> QED
      BY <3>1, <3>3
<1>4. /\ k = 1 => InitWrites[k] = <<IER, 0>>
      /\ k = 2 => InitWrites[k] = <<LCR, 128>>
      /\ k = 3 => InitWrites[k] = <<DATA, Divisor % 256>>
      /\ k = 4 => InitWrites[k] = <<IER, Divisor \div 256>>
      /\ k = 5 => InitWrites[k] = <<LCR, ILCR>>
      /\ k = 6 => InitWrites[k] = <<FCR, 199>>
      /\ k = 7 => InitWrites[k] = <<MCR, 11>>
  BY DEF InitWrites
<1>5. /\ k = 1 => uart' = out(IER, 0)
      /\ k = 2 => uart' = out(LCR, 128)
      /\ k = 3 => uart' = out(DATA, Divisor % 256)
      /\ k = 4 => uart' = out(IER, Divisor \div 256)
      /\ k = 5 => uart' = out(LCR, ILCR)
      /\ k = 6 => uart' = out(FCR, 199)
      /\ k = 7 => uart' = out(MCR, 11)
  BY <1>4 DEF init
<1>6. /\ k = 6 => sent' = line /\ arrived' = got
      /\ k # 6 => sent' = sent /\ arrived' = arrived
  <2>1. k = 6 => InitWrites[k][1] = FCR
    BY <1>4
  <2>2. k # 6 => InitWrites[k][1] # FCR
    BY <1>1, <1>4 DEF IER, LCR, DATA, MCR, FCR
  <2> QED
    BY <2>1, <2>2 DEF init
<1>7. ASSUME port # "absent"
      PROVE  /\ k = 1 => uart' = [uart EXCEPT !.ier = 0]
             /\ k = 2 => uart' = [uart EXCEPT !.lcr = 128]
             /\ k = 3 => uart' = [uart EXCEPT !.dll = Divisor % 256]
             /\ k = 4 => uart' = [uart EXCEPT !.dlm = Divisor \div 256]
             /\ k = 5 => uart' = [uart EXCEPT !.lcr = ILCR]
             /\ k = 6 => uart' = [uart EXCEPT !.fifo = TRUE, !.rx = <<>>, !.tx = <<>>]
             /\ k = 7 => uart' = [uart EXCEPT !.mcr = 11]
  <2>1. k = 1 => uart' = [uart EXCEPT !.ier = 0]
    BY <1>3, <1>5, <1>7, OutFacts
  <2>2. k = 2 => uart' = [uart EXCEPT !.lcr = 128]
    BY <1>5, <1>7, OutFacts
  <2>3. k = 3 => uart' = [uart EXCEPT !.dll = Divisor % 256]
    BY <1>3, <1>5, <1>7, OutFacts
  <2>4. k = 4 => uart' = [uart EXCEPT !.dlm = Divisor \div 256]
    BY <1>3, <1>5, <1>7, OutFacts
  <2>5. k = 5 => uart' = [uart EXCEPT !.lcr = ILCR]
    BY <1>5, <1>7, OutFacts
  <2>6. k = 6 => uart' = [uart EXCEPT !.fifo = TRUE, !.rx = <<>>, !.tx = <<>>]
    BY <1>5, <1>7, OutFacts
  <2>7. k = 7 => uart' = [uart EXCEPT !.mcr = 11]
    BY <1>5, <1>7, OutFacts
  <2> QED
    BY <2>1, <2>2, <2>3, <2>4, <2>5, <2>6, <2>7
<1> QED
  BY <1>1, <1>2, <1>6, <1>7

(* The write of step k of init(), as far as each register is concerned.    *)
LEMMA InitRegisters ==
  ASSUME TypeOK, PortInv, active[1].at = "init", NEW k, k = active[1].step, init(k),
         port # "absent"
  PROVE  /\ uart' \in Uart /\ uart'.ier = 0
         /\ uart'.lcr = IF k = 2 THEN 128 ELSE IF k = 5 THEN ILCR ELSE uart.lcr
         /\ uart'.dll = IF k = 3 THEN Divisor % 256 ELSE uart.dll
         /\ uart'.dlm = IF k = 4 THEN Divisor \div 256 ELSE uart.dlm
         /\ uart'.fifo = IF k = 6 THEN TRUE ELSE uart.fifo
         /\ uart'.mcr = IF k = 7 THEN 11 ELSE uart.mcr
         /\ uart'.tx = IF k = 6 THEN <<>> ELSE uart.tx
         /\ uart'.rx = IF k = 6 THEN <<>> ELSE uart.rx
<1>1. PICK u : u = uart'
  OBVIOUS
<1>2. uart \in Uart /\ uart.ier = 0
  BY DEF TypeOK, PortInv
<1>3. Divisor % 256 \in Nat /\ Divisor \div 256 \in Nat /\ ILCR \in Nat
  BY ConstantFacts
<1>4. CASE k = 1
  <2>1. u = [uart EXCEPT !.ier = 0]
    BY <1>1, <1>4, InitWritten
  <2>2. u \in Uart
    BY <1>2, <2>1 DEF Uart
  <2>3. /\ u.ier = 0 /\ u.lcr = uart.lcr /\ u.dll = uart.dll /\ u.dlm = uart.dlm
        /\ u.fifo = uart.fifo /\ u.mcr = uart.mcr /\ u.tx = uart.tx /\ u.rx = uart.rx
    BY <1>2, <2>1 DEF Uart
  <2> QED
    BY <1>1, <1>4, <2>2, <2>3
<1>5. CASE k = 2
  <2>1. u = [uart EXCEPT !.lcr = 128]
    BY <1>1, <1>5, InitWritten
  <2>2. u \in Uart
    <3>1. PICK v \in Nat : v = 128
      OBVIOUS
    <3>2. u = [uart EXCEPT !.lcr = v]
      BY <2>1, <3>1, Zenon
    <3> QED
      BY <1>2, <3>2, UartRegisters, Zenon
  <2>3. /\ u.ier = uart.ier /\ u.lcr = 128 /\ u.dll = uart.dll /\ u.dlm = uart.dlm
        /\ u.fifo = uart.fifo /\ u.mcr = uart.mcr /\ u.tx = uart.tx /\ u.rx = uart.rx
    BY <1>2, <2>1 DEF Uart
  <2> QED
    BY <1>1, <1>2, <1>5, <2>2, <2>3
<1>6. CASE k = 3
  <2>1. u = [uart EXCEPT !.dll = Divisor % 256]
    BY <1>1, <1>6, InitWritten
  <2>2. u \in Uart
    <3>1. PICK v \in Nat : v = Divisor % 256
      BY <1>3
    <3>2. u = [uart EXCEPT !.dll = v]
      BY <2>1, <3>1, Zenon
    <3> QED
      BY <1>2, <3>2, UartRegisters, Zenon
  <2>3. /\ u.ier = uart.ier /\ u.lcr = uart.lcr /\ u.dll = Divisor % 256 /\ u.dlm = uart.dlm
        /\ u.fifo = uart.fifo /\ u.mcr = uart.mcr /\ u.tx = uart.tx /\ u.rx = uart.rx
    BY <1>2, <2>1 DEF Uart
  <2> QED
    BY <1>1, <1>2, <1>6, <2>2, <2>3
<1>7. CASE k = 4
  <2>1. u = [uart EXCEPT !.dlm = Divisor \div 256]
    BY <1>1, <1>7, InitWritten
  <2>2. u \in Uart
    <3>1. PICK v \in Nat : v = Divisor \div 256
      BY <1>3
    <3>2. u = [uart EXCEPT !.dlm = v]
      BY <2>1, <3>1, Zenon
    <3> QED
      BY <1>2, <3>2, UartRegisters, Zenon
  <2>3. /\ u.ier = uart.ier /\ u.lcr = uart.lcr /\ u.dll = uart.dll
        /\ u.dlm = Divisor \div 256
        /\ u.fifo = uart.fifo /\ u.mcr = uart.mcr /\ u.tx = uart.tx /\ u.rx = uart.rx
    BY <1>2, <2>1 DEF Uart
  <2> QED
    BY <1>1, <1>2, <1>7, <2>2, <2>3
<1>8. CASE k = 5
  <2>1. u = [uart EXCEPT !.lcr = ILCR]
    BY <1>1, <1>8, InitWritten
  <2>2. u \in Uart
    BY <1>2, <1>3, <2>1 DEF Uart
  <2>3. /\ u.ier = uart.ier /\ u.lcr = ILCR /\ u.dll = uart.dll /\ u.dlm = uart.dlm
        /\ u.fifo = uart.fifo /\ u.mcr = uart.mcr /\ u.tx = uart.tx /\ u.rx = uart.rx
    BY <1>2, <2>1 DEF Uart
  <2> QED
    BY <1>1, <1>2, <1>8, <2>2, <2>3
<1>9. CASE k = 6
  <2>1. PICK e : e = <<>>
    OBVIOUS
  <2>2. u = [uart EXCEPT !.fifo = TRUE, !.rx = e, !.tx = e]
    BY <1>1, <1>9, <2>1, InitWritten
  <2>3. u \in Uart
    BY <1>2, <2>1, <2>2, UartReset
  <2>4. /\ u.ier = uart.ier /\ u.lcr = uart.lcr /\ u.dll = uart.dll /\ u.dlm = uart.dlm
        /\ u.fifo = TRUE /\ u.mcr = uart.mcr /\ u.tx = e /\ u.rx = e
    BY <1>2, <2>2 DEF Uart
  <2>5. uart'.tx = <<>> /\ uart'.rx = <<>> /\ uart' \in Uart /\ uart'.ier = 0
    BY <1>1, <1>2, <2>1, <2>3, <2>4
  <2>6. /\ uart'.lcr = uart.lcr /\ uart'.dll = uart.dll /\ uart'.dlm = uart.dlm
        /\ uart'.fifo = TRUE /\ uart'.mcr = uart.mcr
    BY <1>1, <2>4
  <2>7. k # 2 /\ k # 5 /\ k # 3 /\ k # 4 /\ k # 7
    BY <1>9
  <2> QED
    BY <1>9, <2>5, <2>6, <2>7
<1>10. CASE k = 7
  <2>1. u = [uart EXCEPT !.mcr = 11]
    BY <1>1, <1>10, InitWritten
  <2>2. u \in Uart
    BY <1>2, <2>1 DEF Uart
  <2>3. /\ u.ier = uart.ier /\ u.lcr = uart.lcr /\ u.dll = uart.dll /\ u.dlm = uart.dlm
        /\ u.fifo = uart.fifo /\ u.mcr = 11 /\ u.tx = uart.tx /\ u.rx = uart.rx
    BY <1>2, <2>1 DEF Uart
  <2> QED
    BY <1>1, <1>2, <1>10, <2>2, <2>3
<1>11. \/ k = 1 \/ k = 2 \/ k = 3 \/ k = 4 \/ k = 5 \/ k = 6 \/ k = 7
  <2>1. k \in 1 .. 7
    BY InitWritten
  <2> QED
    BY <2>1
<1> QED
  BY <1>4, <1>5, <1>6, <1>7, <1>8, <1>9, <1>10, <1>11

LEMMA InitMoves ==
  ASSUME TypeOK, ActiveInv, PortInv, InitPort, NEW k, k = active[1].step
  PROVE  /\ Len(active) = 1 /\ active[1].at = "init" /\ ~fault /\ init(k) /\ k \in 1 .. 7
         /\ active' \in Seq(Activation) /\ Len(active') = 1
         /\ active'[1].then = active[1].then
         /\ k < 7 => active'[1].at = "init" /\ active'[1].step = k + 1
         /\ k = 7 => active'[1].at = active[1].then
         /\ idt => active[1].then = "run" /\ calls > 0
         /\ ~idt => active[1].then = "print"
<1>1. At("init") /\ "init" \notin HandlerLabels
  BY DEF InitPort, HandlerLabels
<1>2. /\ Len(active) = 1 /\ active[1].at = "init" /\ Top = active[1] /\ ~fault
      /\ (idt => Running(active[1])) /\ (~idt => Starting(active[1]))
  BY <1>1, BootIsAt
<1>3. (idt => active[1].then = "run" /\ calls > 0) /\ (~idt => active[1].then = "print")
  BY <1>2 DEF Running, Starting
<1>4. init(k) /\ k \in 1 .. 7
  BY <1>2 DEF InitPort, PortInv
<1>5. Len(InitWrites) = 7
  BY DEF InitWrites
<1>6. 1 \in 1 .. Len(active)
  BY <1>2
<1>7. CASE k = 7
  <2>1. Goto(active[1].then)
    BY <1>2, <1>5, <1>7 DEF InitPort
  <2>2. active[1].then \in BootLabels \cup HandlerLabels
    BY <1>3 DEF BootLabels
  <2>3. active' \in Seq(Activation) /\ MovesTo(active[1].then, 1)
    BY <2>1, <2>2, GotoFacts
  <2>4. ~(k < 7)
    BY <1>7
  <2> QED
    BY <1>2, <1>3, <1>4, <1>6, <1>7, <2>3, <2>4 DEF MovesTo
<1>8. CASE k < 7
  <2>1. k + 1 \in Nat /\ k # 7
    BY <1>4, <1>8
  <2>2. active' = Moved("init", k + 1)
    BY <1>2, <1>5, <2>1 DEF InitPort
  <2>3. active' \in Seq(Activation) /\ MovesTo("init", k + 1)
    BY <2>1, <2>2, MovedFacts DEF BootLabels
  <2> QED
    BY <1>2, <1>3, <1>4, <1>6, <1>8, <2>1, <2>3 DEF MovesTo
<1>9. k < 7 \/ k = 7
  BY <1>4
<1> QED
  BY <1>7, <1>8, <1>9

LEMMA InitPortPort ==
  ASSUME TypeOK, ActiveInv, PortInv, InitPort
  PROVE  PortInv'
<1>1. PICK k : k = active[1].step
  OBVIOUS
<1>2. /\ active[1].at = "init" /\ init(k) /\ k \in 1 .. 7
      /\ active'[1].then = active[1].then
      /\ k < 7 => active'[1].at = "init" /\ active'[1].step = k + 1
      /\ k = 7 => active'[1].at \in {"run", "print"}
      /\ idt \in BOOLEAN
  BY <1>1, InitMoves DEF TypeOK
<1>3. UNCHANGED <<port, disturbed, calls>>
  BY <1>1, <1>2, InitWritten DEF InitPort, control
<1>4. active'[1].at = "init" => k < 7 /\ active'[1].step = k + 1 /\ k + 1 \in 1 .. 7
  BY <1>2
<1>5. uart'.ier = 0 /\ (port = "absent" => uart'.lcr = 0)
  <2>1. CASE port = "absent"
    BY <1>1, <1>2, <2>1, InitWritten DEF PortInv
  <2>2. CASE port # "absent"
    BY <1>1, <1>2, <2>2, InitRegisters
  <2> QED
    BY <2>1, <2>2
<1>6. ASSUME port # "absent"
      PROVE  /\ At1(3, 5)' => uart'.lcr = 128
             /\ ~At1(3, 5)' => uart'.lcr = IF At1(1, 2)' /\ Fresh' THEN 0 ELSE ILCR
             /\ uart'.mcr = 11 \/ (At1(1, 7)' /\ Fresh')
             /\ uart'.fifo \/ (At1(1, 6)' /\ Fresh')
             /\ disturbed \/ At1(1, 3)' \/ uart'.dll = Divisor % 256
             /\ At1(1, 4)' \/ uart'.dlm = Divisor \div 256
  <2>1. Fresh' <=> Fresh
    BY <1>2 DEF Fresh
  <2>2. /\ At1(3, 5)' <=> k \in 2 .. 4
        /\ At1(1, 2)' <=> k = 1
        /\ At1(1, 7)' <=> k \in 1 .. 6
        /\ At1(1, 6)' <=> k \in 1 .. 5
        /\ At1(1, 3)' <=> k \in 1 .. 2
        /\ At1(1, 4)' <=> k \in 1 .. 3
    BY <1>2, <1>4 DEF At1
  <2>3. /\ At1(3, 5) <=> k \in 3 .. 5
        /\ At1(1, 2) <=> k \in 1 .. 2
        /\ At1(1, 7)
        /\ At1(1, 6) <=> k \in 1 .. 6
        /\ At1(1, 3) <=> k \in 1 .. 3
        /\ At1(1, 4) <=> k \in 1 .. 4
    BY <1>1, <1>2 DEF At1
  <2>4. /\ uart'.lcr = IF k = 2 THEN 128 ELSE IF k = 5 THEN ILCR ELSE uart.lcr
        /\ uart'.dll = IF k = 3 THEN Divisor % 256 ELSE uart.dll
        /\ uart'.dlm = IF k = 4 THEN Divisor \div 256 ELSE uart.dlm
        /\ uart'.fifo = IF k = 6 THEN TRUE ELSE uart.fifo
        /\ uart'.mcr = IF k = 7 THEN 11 ELSE uart.mcr
    BY <1>1, <1>2, <1>6, InitRegisters, Zenon
  <2>5. /\ At1(3, 5) => uart.lcr = 128
        /\ ~At1(3, 5) => uart.lcr = IF At1(1, 2) /\ Fresh THEN 0 ELSE ILCR
        /\ uart.mcr = 11 \/ (At1(1, 7) /\ Fresh)
        /\ uart.fifo \/ (At1(1, 6) /\ Fresh)
        /\ disturbed \/ At1(1, 3) \/ uart.dll = Divisor % 256
        /\ At1(1, 4) \/ uart.dlm = Divisor \div 256
    BY <1>6 DEF PortInv
  <2>6. At1(3, 5)' => uart'.lcr = 128
    BY <1>2, <2>2, <2>3, <2>4, <2>5
  <2>7. ~At1(3, 5)' => uart'.lcr = IF At1(1, 2)' /\ Fresh' THEN 0 ELSE ILCR
    BY <1>2, <2>1, <2>2, <2>3, <2>4, <2>5
  <2>8. uart'.mcr = 11 \/ (At1(1, 7)' /\ Fresh')
    BY <1>2, <2>1, <2>2, <2>4, <2>5
  <2>9. uart'.fifo \/ (At1(1, 6)' /\ Fresh')
    BY <1>2, <2>1, <2>2, <2>3, <2>4, <2>5
  <2>10. disturbed \/ At1(1, 3)' \/ uart'.dll = Divisor % 256
    BY <1>2, <2>2, <2>3, <2>4, <2>5
  <2>11. At1(1, 4)' \/ uart'.dlm = Divisor \div 256
    BY <1>2, <2>2, <2>3, <2>4, <2>5
  <2> QED
    BY <2>6, <2>7, <2>8, <2>9, <2>10, <2>11
<1>7. disturbed => calls > 0
  BY DEF PortInv
<1> QED
  BY <1>3, <1>4, <1>5, <1>6, <1>7 DEF PortInv

LEMMA InitPortKeeps == ASSUME BootInv, InitPort PROVE BootInv'
<1>1. TypeOK /\ ActiveInv /\ PortInv /\ OutInv /\ InInv /\ SegInv
  BY DEF BootInv
<1>2. PICK k : k = active[1].step
  OBVIOUS
<1>3. /\ Len(active) = 1 /\ active[1].at = "init" /\ ~fault /\ init(k) /\ k \in 1 .. 7
      /\ active' \in Seq(Activation) /\ Len(active') = 1
      /\ active'[1].then = active[1].then
      /\ active'[1].at = "init" \/ active'[1].at = active[1].then
      /\ idt => active[1].then = "run" /\ calls > 0
      /\ ~idt => active[1].then = "print"
  BY <1>1, <1>2, InitMoves
<1>4. /\ UNCHANGED <<gdtr, seg, busy>>
      /\ UNCHANGED <<idt, fault, interrupts, calls, received, disturbed, raced>>
  BY DEF InitPort, gdtVars, control
<1>5. UNCHANGED <<port, line, got>> /\ (port = "absent" => uart' = uart)
  BY <1>1, <1>2, <1>3, InitWritten
<1>6. uart' \in Uart
  <2>1. uart \in Uart
    BY <1>1 DEF TypeOK
  <2>2. port # "absent" => uart' \in Uart
    BY <1>1, <1>2, <1>3, InitRegisters
  <2> QED
    BY <1>5, <2>1, <2>2
<1>7. /\ k = 6 => sent' = line /\ arrived' = got
      /\ k # 6 => sent' = sent /\ arrived' = arrived
  BY <1>1, <1>2, <1>3, InitWritten
<1>8. TypeOK'
  <2>1. sent' \in Seq(Nat) /\ arrived' \in Seq(Nat)
    BY <1>1, <1>7 DEF TypeOK
  <2> QED
    BY <1>1, <1>3, <1>4, <1>5, <1>6, <2>1 DEF TypeOK
<1>9. active'[1].at \in {"init", "run", "print"}
  BY <1>1, <1>3 DEF TypeOK
<1>10. ActiveInv'
  <2>1. (idt => Running(active[1])') /\ (~idt => Starting(active[1])')
    BY <1>3, <1>4 DEF Running, Starting
  <2>2. Len(active') <= MaxNesting + 1 /\ 2 .. Len(active') = {}
    BY <1>3, Alone
  <2>3. ~idt => calls = 0
    BY <1>1 DEF ActiveInv
  <2> QED
    BY <1>3, <1>4, <2>1, <2>2, <2>3 DEF ActiveInv
<1>11. PortInv'
  BY <1>1, InitPortPort
<1>12. ASSUME NEW i \in 1 .. Len(active') PROVE active'[i].at \notin {"put out", "get in"}
  <2>1. i = 1
    BY <1>3
  <2> QED
    BY <1>9, <2>1
<1>13. port # "absent" => /\ uart'.tx = IF k = 6 THEN <<>> ELSE uart.tx
                          /\ uart'.rx = IF k = 6 THEN <<>> ELSE uart.rx
  BY <1>1, <1>2, <1>3, InitRegisters, Zenon
<1>14. line \o <<>> = line /\ got \o <<>> = got
  BY <1>1, ConcatEmptySeq DEF TypeOK
<1>15. OutInv'
  <2>1. OutputInOrder
    BY <1>1 DEF OutInv
  <2>2. OutputInOrder'
    BY <1>4, <1>5, <1>7, <1>13, <1>14, <2>1 DEF OutputInOrder
  <2> QED
    BY <1>12, <2>2 DEF OutInv
<1>16. InInv'
  <2>1. ReceivedOnce
    BY <1>1 DEF InInv
  <2>2. ReceivedOnce'
    BY <1>4, <1>5, <1>7, <1>13, <1>14, <2>1 DEF ReceivedOnce
  <2> QED
    BY <1>12, <2>2 DEF InInv
<1>17. SegInv'
  BY <1>1, <1>3, <1>4, <1>9, KeepSeg
<1> QED
  BY <1>8, <1>10, <1>11, <1>15, <1>16, <1>17 DEF BootInv

LEMMA UartFacts ==
  ASSUME NEW u \in Uart
  PROVE  /\ u.tx \in Seq(Nat) /\ Len(u.tx) \in Nat
         /\ u.rx \in Seq(Nat) /\ Len(u.rx) \in Nat /\ u.dll \in Nat
<1>1. u.tx \in Seq(Nat) /\ u.rx \in Seq(Nat) /\ u.dll \in Nat
  BY DEF Uart
<1> QED
  BY <1>1

(* The registers are as they were, but perhaps for a disturbed divisor.    *)
LEMMA KeepRegisters ==
  ASSUME PortInv, port' = port, uart'.lcr = uart.lcr, uart'.ier = uart.ier,
         uart'.mcr = uart.mcr, uart'.dlm = uart.dlm, uart'.fifo = uart.fifo,
         disturbed' \/ (~disturbed /\ uart'.dll = uart.dll), disturbed' => calls' > 0,
         \/ KeepsBoot
         \/ active[1].at # "init" /\ active'[1].at # "init"
  PROVE  PortInv'
<1>1. CASE KeepsBoot
  <2>1. /\ At1(3, 5)' <=> At1(3, 5)
        /\ At1(1, 2)' <=> At1(1, 2)
        /\ At1(1, 7)' <=> At1(1, 7)
        /\ At1(1, 6)' <=> At1(1, 6)
        /\ At1(1, 3)' <=> At1(1, 3)
        /\ At1(1, 4)' <=> At1(1, 4)
    BY <1>1 DEF At1, KeepsBoot
  <2>2. (Fresh' <=> Fresh) /\ active'[1].at = active[1].at /\ active'[1].step = active[1].step
    BY <1>1 DEF Fresh, KeepsBoot
  <2> QED
    BY <2>1, <2>2 DEF PortInv
<1>2. CASE active[1].at # "init" /\ active'[1].at # "init"
  BY <1>2 DEF PortInv, At1
<1> QED
  BY <1>1, <1>2

LEMMA RoomForNext ==
  ASSUME NEW w \in Nat, NEW t \in Nat, NEW n \in Nat, NEW m \in Nat, w <= t + 1,
         t + n <= m + 1, NEW i \in 1 .. n, i < n
  PROVE  w + i <= m + 1
  OBVIOUS

(* put() and get() return: where the activation on top goes on.            *)
LEMMA ReturnsTo ==
  ASSUME TypeOK, ActiveInv, NEW l \in {"put out", "get in"}, At(l)
  PROVE  /\ Top.then \in BootLabels \cup HandlerLabels
         /\ Top.then \in {"booted", "run", "iretq"}
         /\ Len(active) > 1 => Top.then \in HandlerLabels
         /\ Len(active) = 1 => /\ Top.then \in {"booted", "run"}
                               /\ active[1].then = Top.then /\ active[1].at = l
                               /\ idt => Top.then = "run"
                               /\ ~idt => Top.then = "booted"
<1>1. CASE Len(active) = 1
  <2>1. /\ active[1].at = l /\ Top = active[1]
        /\ idt => Running(active[1])
        /\ ~idt => Starting(active[1])
    BY <1>1, WhoIsAt
  <2>2. idt => Top.then = "run"
    BY <2>1 DEF Running
  <2>3. ~idt => Top.then = "booted"
    BY <2>1 DEF Starting
  <2>4. ~(Len(active) > 1)
    BY <1>1, LenFacts
  <2> QED
    BY <2>1, <2>2, <2>3, <2>4 DEF BootLabels
<1>2. CASE Len(active) > 1
  <2>1. Top.then = "iretq"
    BY <1>2, WhoIsAt
  <2>2. ~(Len(active) = 1)
    BY <1>2, LenFacts
  <2> QED
    BY <2>1, <2>2 DEF HandlerLabels
<1> QED
  BY <1>1, <1>2, LenFacts

(* The step that ends put() or get(), as far as the activations go.        *)
LEMMA ReturnMoves ==
  ASSUME TypeOK, ActiveInv, SegInv, NEW l \in {"put out", "get in"}, At(l), Goto(Top.then),
         UNCHANGED <<idt, calls, gdtr, seg, busy, fault>>
  PROVE  /\ active' \in Seq(Activation) /\ MovesTo(Top.then, 1) /\ ActiveInv' /\ SegInv'
         /\ \/ KeepsBoot
            \/ active[1].at # "init" /\ active'[1].at # "init"
<1>1. active' \in Seq(Activation) /\ MovesTo(Top.then, 1)
  BY ReturnsTo, GotoFacts
<1>2. Len(active) = 1 => /\ active'[1].at \in {"booted", "run"} /\ active[1].at = l
                         /\ idt => active'[1].at = "run"
                         /\ ~idt => active'[1].at = "booted"
  BY ReturnsTo, GotoTop
<1>3. Len(active) = 1 => /\ idt => Running(active[1])'
                         /\ ~idt => Starting(active[1])'
  BY <1>2 DEF Running, Starting
<1>4. ActiveInv' /\ (Len(active) > 1 => KeepsBoot)
  <2>1. Len(active) > 1 => Top.then \in HandlerLabels
    BY ReturnsTo
  <2> QED
    BY <1>1, <1>3, <2>1, KeepActive
<1>5. \/ KeepsBoot
      \/ active[1].at \in {"put out", "get in"} /\ active'[1].at \in {"booted", "run"}
  BY <1>2, <1>4, LenFacts, Zenon
<1>6. SegInv'
  BY <1>5, KeepSeg, WhoIsAt
<1> QED
  BY <1>1, <1>4, <1>5, <1>6

(* An access of the data register while it is the divisor's is a handler's *)
(* that has come within an init() the boot code has called.                *)
LEMMA DlabWithinInit ==
  ASSUME TypeOK, ActiveInv, PortInv, NEW l \in {"put out", "get in"}, At(l), DLAB
  PROVE  calls > 0 /\ port # "absent"
<1>1. port # "absent"
  BY ConstantFacts DEF PortInv, DLAB
<1>2. active[1].at = "init"
  <2>1. ~(uart.lcr = 0) /\ ~(uart.lcr = ILCR)
    BY ConstantFacts DEF DLAB
  <2>2. At1(3, 5)
    BY <1>1, <2>1 DEF PortInv
  <2> QED
    BY <2>2 DEF At1
<1>3. idt
  BY <1>2, WhoIsAt
<1> QED
  BY <1>1, <1>2, <1>3 DEF ActiveInv, Running

LEMMA FifoEnabled ==
  ASSUME TypeOK, ActiveInv, PortInv, port # "absent", NEW l \in {"put out", "get in"}, At(l)
  PROVE  uart.fifo
<1>1. ~(active[1].at = "init" /\ Fresh)
  <2>1. CASE idt
    BY <2>1 DEF ActiveInv, Running, Fresh
  <2>2. CASE ~idt
    BY <2>2, WhoIsAt
  <2> QED
    BY <2>1, <2>2
<1> QED
  BY <1>1 DEF PortInv, At1

LEMMA PutKeeps == ASSUME BootInv, Put PROVE BootInv'
<1>1. /\ TypeOK /\ ActiveInv /\ PortInv /\ OutInv /\ InInv /\ SegInv
      /\ At("put out") /\ Goto(Top.then) /\ uart \in Uart
  BY DEF BootInv, Put, TypeOK
<1>2. /\ UNCHANGED <<port, line, arrived, got>> /\ UNCHANGED <<gdtr, seg, busy>>
      /\ UNCHANGED <<idt, fault, interrupts, calls, received, raced>>
      /\ disturbed' = (disturbed \/ DLAB) /\ ~fault
  BY <1>1 DEF Put, put, gdtVars, At
<1>3. PICK n \in Nat : n = Len(active) /\ n > 0
  BY <1>1, LenFacts, Zenon
<1>4. PICK u : u = uart'
  OBVIOUS
<1>5. u = out(DATA, n) /\ sent' = Append(sent, n)
  BY <1>3, <1>4 DEF Put, put
<1>6. /\ u \in Uart
      /\ u.lcr = uart.lcr /\ u.ier = uart.ier /\ u.mcr = uart.mcr /\ u.dlm = uart.dlm
      /\ u.fifo = uart.fifo /\ u.rx = uart.rx
      /\ ~DLAB => u.dll = uart.dll
      /\ DLAB => u.tx = uart.tx
      /\ Len(u.tx) <= Len(uart.tx) + 1
  BY <1>1, <1>5, DataWrites
<1>7. /\ active' \in Seq(Activation) /\ MovesTo(Top.then, 1) /\ ActiveInv' /\ SegInv'
      /\ \/ KeepsBoot
         \/ active[1].at # "init" /\ active'[1].at # "init"
  BY <1>1, <1>2, ReturnMoves
<1>8. TypeOK'
  <2>1. sent' \in Seq(Nat) /\ disturbed' \in BOOLEAN /\ Len(active') = n
    BY <1>1, <1>2, <1>3, <1>5, <1>7, AppendProperties DEF TypeOK, MovesTo
  <2> QED
    BY <1>1, <1>2, <1>3, <1>4, <1>6, <1>7, <2>1 DEF TypeOK
<1>9. disturbed' => calls > 0
  BY <1>1, <1>2, DlabWithinInit DEF PortInv
<1>10. PortInv'
  <2>1. /\ uart'.lcr = uart.lcr /\ uart'.ier = uart.ier /\ uart'.mcr = uart.mcr
        /\ uart'.dlm = uart.dlm /\ uart'.fifo = uart.fifo
        /\ disturbed' \/ (~disturbed /\ uart'.dll = uart.dll)
    BY <1>2, <1>4, <1>6
  <2> QED
    BY <1>1, <1>2, <1>7, <1>9, <2>1, KeepRegisters
<1>11. \A i \in 1 .. Len(active') :
         active'[i].at = "put out" => i \in 1 .. n /\ i < n /\ active[i].at = "put out"
  <2>1. Top.then # "put out"
    BY <1>1, ReturnsTo
  <2> QED
    BY <1>1, <1>3, <1>7, <2>1, OnlyTop
<1>12. PICK t \in Nat : t = Len(uart.tx)
  BY <1>1, UartFacts, Zenon
<1>13. PICK w \in Nat : w = Len(u.tx) /\ w <= t + 1
  BY <1>6, <1>12, UartFacts, Zenon
<1>14. port # "absent" => t + n <= MaxNesting + 1
  <2>1. n \in 1 .. Len(active) /\ active[n].at = "put out"
    BY <1>1, <1>3, LenFacts DEF At, Top
  <2> QED
    BY <1>1, <1>3, <1>12, <2>1 DEF OutInv
<1>15. OutputInOrder'
  <2> SUFFICES ASSUME port' # "absent", ~disturbed' PROVE line' \o uart'.tx = sent'
    BY DEF OutputInOrder
  <2>1. port # "absent" /\ ~disturbed /\ ~DLAB
    BY <1>2
  <2>2. t < FifoSize
    BY <1>3, <1>14, <2>1, FifoFits
  <2>3. Capacity = FifoSize
    BY <1>1, <2>1, FifoEnabled DEF Capacity
  <2>4. PICK x \in Seq(Nat) : x = uart.tx
    BY <1>1 DEF Uart
  <2>5. u.tx = Append(x, n)
    <3>1. u = [uart EXCEPT !.tx = Append(x, n)]
      BY <1>5, <1>12, <2>1, <2>2, <2>3, <2>4, OutFacts
    <3> QED
      BY <1>1, <3>1 DEF Uart
  <2>6. line \in Seq(Nat) /\ line \o x = sent
    BY <1>1, <2>1, <2>4 DEF OutInv, OutputInOrder, TypeOK
  <2>7. line \o Append(x, n) = Append(line \o x, n)
    BY <2>6, QueueAppend
  <2> QED
    BY <1>2, <1>4, <1>5, <2>5, <2>6, <2>7
<1>16. OutInv'
  <2>1. ASSUME port # "absent", NEW i \in 1 .. Len(active'), active'[i].at = "put out"
        PROVE  Len(uart'.tx) + i <= MaxNesting + 1
    <3>1. i \in 1 .. n /\ i < n
      BY <1>11, <2>1
    <3>2. w + i <= MaxNesting + 1
      BY <1>13, <1>14, <2>1, <3>1, RoomForNext, BootAssumption, Zenon
    <3> QED
      BY <1>4, <1>13, <3>2
  <2> QED
    BY <1>2, <1>15, <2>1 DEF OutInv
<1>17. InInv'
  <2>1. \A i \in 1 .. Len(active') :
          active'[i].at = "get in" => i \in 1 .. Len(active) /\ active[i].at = "get in"
    <3>1. Top.then # "get in"
      BY <1>1, ReturnsTo
    <3> QED
      BY <1>1, <1>7, <3>1, OnlyTop
  <2>2. uart'.rx = uart.rx
    BY <1>4, <1>6
  <2>3. ReceivedOnce'
    BY <1>1, <1>2, <2>2 DEF InInv, ReceivedOnce
  <2> QED
    BY <1>1, <1>2, <2>1, <2>2, <2>3 DEF InInv
<1> QED
  BY <1>7, <1>8, <1>10, <1>16, <1>17 DEF BootInv

LEMMA Below ==
  ASSUME NEW n \in Nat, NEW i \in 1 .. n, i < n
  PROVE  i \in 1 .. n - 1
  OBVIOUS

LEMMA GetKeeps == ASSUME BootInv, Get PROVE BootInv'
<1>1. /\ TypeOK /\ ActiveInv /\ PortInv /\ OutInv /\ InInv /\ SegInv
      /\ At("get in") /\ Goto(Top.then) /\ uart \in Uart
  BY DEF BootInv, Get, TypeOK
<1>2. /\ UNCHANGED <<port, line, sent, arrived>> /\ UNCHANGED <<gdtr, seg, busy>>
      /\ UNCHANGED <<idt, fault, interrupts, calls, received>>
      /\ disturbed' = (disturbed \/ DLAB) /\ ~fault
      /\ raced' = (raced \/ \E i \in 1 .. Len(active) - 1 : active[i].at = "get in")
  BY <1>1 DEF Get, get, gdtVars, At
<1>3. PICK n \in Nat : n = Len(active) /\ n > 0
  BY <1>1, LenFacts, Zenon
<1>4. PICK x \in Seq(Nat) : x = uart.rx
  BY <1>1, UartFacts, Zenon
<1>5. PICK u : u = uart'
  OBVIOUS
<1>6. u = IF DLAB \/ x = <<>> THEN uart ELSE [uart EXCEPT !.rx = Tail(x)]
  BY <1>4, <1>5 DEF Get, get
<1>7. /\ u \in Uart
      /\ u.lcr = uart.lcr /\ u.ier = uart.ier /\ u.mcr = uart.mcr /\ u.dlm = uart.dlm
      /\ u.fifo = uart.fifo /\ u.tx = uart.tx /\ u.dll = uart.dll
  <2>1. CASE DLAB \/ x = <<>>
    BY <1>1, <1>6, <2>1
  <2>2. CASE ~DLAB /\ x # <<>>
    <3>1. PICK t \in Seq(Nat) : t = Tail(x)
      BY <2>2, HeadTailProperties
    <3>2. u = [uart EXCEPT !.rx = t]
      BY <1>6, <2>2, <3>1
    <3>3. u \in Uart
      BY <1>1, <3>2, UartQueues
    <3> QED
      BY <1>1, <3>2, <3>3 DEF Uart
  <2> QED
    BY <2>1, <2>2
<1>8. /\ active' \in Seq(Activation) /\ MovesTo(Top.then, 1) /\ ActiveInv' /\ SegInv'
      /\ \/ KeepsBoot
         \/ active[1].at # "init" /\ active'[1].at # "init"
  BY <1>1, <1>2, ReturnMoves
<1>9. TypeOK'
  <2>1. in_DATA \in Nat
    <3>1. uart.dll \in Nat
      BY <1>1, UartFacts, Zenon
    <3>2. Stale \in Nat /\ 255 \in Nat
      BY DEF Stale
    <3>3. x # <<>> => Head(x) \in Nat
      BY HeadTailProperties
    <3> QED
      BY <1>4, <3>1, <3>2, <3>3 DEF in_DATA
  <2>2. got' \in Seq(Nat)
    BY <1>1, <2>1, AppendProperties DEF Get, get, TypeOK
  <2>3. disturbed' \in BOOLEAN /\ raced' \in BOOLEAN /\ Len(active') = n
    BY <1>2, <1>3, <1>8 DEF MovesTo
  <2> QED
    BY <1>1, <1>2, <1>3, <1>5, <1>7, <1>8, <2>2, <2>3 DEF TypeOK
<1>10. PortInv'
  <2>1. disturbed' => calls' > 0
    BY <1>1, <1>2, DlabWithinInit DEF PortInv
  <2>2. /\ uart'.lcr = uart.lcr /\ uart'.ier = uart.ier /\ uart'.mcr = uart.mcr
        /\ uart'.dlm = uart.dlm /\ uart'.fifo = uart.fifo
        /\ disturbed' \/ (~disturbed /\ uart'.dll = uart.dll)
    BY <1>2, <1>5, <1>7
  <2> QED
    BY <1>1, <1>2, <1>8, <2>1, <2>2, KeepRegisters
<1>11. OutInv'
  <2>1. \A i \in 1 .. Len(active') :
          active'[i].at = "put out" => i \in 1 .. Len(active) /\ active[i].at = "put out"
    <3>1. Top.then # "put out"
      BY <1>1, ReturnsTo
    <3> QED
      BY <1>1, <1>8, <3>1, OnlyTop
  <2>2. uart'.tx = uart.tx
    BY <1>5, <1>7
  <2>3. OutputInOrder'
    BY <1>1, <1>2, <2>2 DEF OutInv, OutputInOrder
  <2> QED
    BY <1>1, <1>2, <2>1, <2>2, <2>3 DEF OutInv
<1>12. ~raced' => ~raced /\ \A i \in 1 .. Len(active') : active'[i].at # "get in"
  <2> SUFFICES ASSUME ~raced', NEW i \in 1 .. Len(active'), active'[i].at = "get in"
               PROVE  FALSE
    BY <1>2
  <2>1. Top.then # "get in"
    BY <1>1, ReturnsTo
  <2>2. i \in 1 .. Len(active) /\ i < Len(active) /\ active[i].at = "get in"
    BY <1>1, <1>8, <2>1, OnlyTop
  <2>3. i \in 1 .. n - 1
    BY <1>3, <2>2, Below, Zenon
  <2> QED
    BY <1>2, <1>3, <2>2, <2>3
<1>13. ReceivedOnce'
  <2> SUFFICES ASSUME port' # "absent", ~disturbed', ~raced' PROVE got' \o uart'.rx = arrived'
    BY DEF ReceivedOnce
  <2>1. port # "absent" /\ ~disturbed /\ ~DLAB /\ ~raced
    BY <1>2
  <2>2. x # <<>>
    <3>1. n \in 1 .. Len(active) /\ active[n].at = "get in"
      BY <1>1, <1>3, LenFacts DEF At, Top
    <3> QED
      BY <1>1, <1>4, <2>1, <3>1 DEF InInv
  <2>3. in_DATA = Head(x) /\ got' = Append(got, Head(x))
    BY <1>4, <2>1, <2>2 DEF in_DATA, Get, get
  <2>4. u.rx = Tail(x)
    <3>1. u = [uart EXCEPT !.rx = Tail(x)]
      BY <1>6, <2>1, <2>2
    <3> QED
      BY <1>1, <3>1 DEF Uart
  <2>5. got \in Seq(Nat) /\ got \o x = arrived
    BY <1>1, <1>4, <2>1 DEF InInv, ReceivedOnce, TypeOK
  <2>6. Append(got, Head(x)) \o Tail(x) = got \o x
    BY <2>2, <2>5, QueueMove
  <2> QED
    BY <1>2, <1>5, <2>3, <2>4, <2>5, <2>6
<1>14. InInv'
  BY <1>12, <1>13 DEF InInv
<1> QED
  BY <1>8, <1>9, <1>10, <1>11, <1>14 DEF BootInv

(* The port on its own.                                                    *)
LEMMA SendsKeeps == ASSUME BootInv, Sends PROVE BootInv'
<1>1. /\ TypeOK /\ ActiveInv /\ PortInv /\ OutInv /\ InInv /\ SegInv /\ uart \in Uart
  BY DEF BootInv, TypeOK
<1>2. /\ UNCHANGED <<port, sent, arrived, got>> /\ UNCHANGED <<gdtr, seg, busy, active>>
      /\ UNCHANGED <<idt, fault, interrupts, calls, received, disturbed, raced>>
  BY DEF Sends, Transmit, gdtVars, control
<1>3. PICK x \in Seq(Nat) : x = uart.tx
  BY <1>1, UartFacts, Zenon
<1>4. x # <<>> /\ line' = Append(line, Head(x)) /\ uart' = [uart EXCEPT !.tx = Tail(x)]
  BY <1>3 DEF Sends, Transmit
<1>5. line \in Seq(Nat)
  BY <1>1 DEF TypeOK
<1>6. PICK t \in Seq(Nat) : t = Tail(x) /\ Len(t) = Len(x) - 1
  BY <1>3, <1>4, <1>5, QueueMove, Zenon
<1>7. line' \in Seq(Nat) /\ line' \o t = line \o x
  BY <1>3, <1>4, <1>5, <1>6, QueueMove
<1>8. PICK u : u = uart'
  OBVIOUS
<1>9. u \in Uart
  BY <1>1, <1>4, <1>6, <1>8, UartQueues
<1>10. /\ u.lcr = uart.lcr /\ u.ier = uart.ier /\ u.mcr = uart.mcr /\ u.dlm = uart.dlm
       /\ u.fifo = uart.fifo /\ u.rx = uart.rx /\ u.dll = uart.dll /\ u.tx = t
  BY <1>1, <1>4, <1>6, <1>8 DEF Uart
<1>11. TypeOK'
  BY <1>1, <1>2, <1>7, <1>8, <1>9 DEF TypeOK
<1>12. ActiveInv' /\ SegInv'
  <2>1. ActiveInv'
    BY <1>1, <1>2 DEF ActiveInv, Running, Starting
  <2>2. SegInv'
    BY <1>1, <1>2 DEF SegInv, Loaded, Top, DataSelector, KindOf
  <2> QED
    BY <2>1, <2>2
<1>13. PortInv'
  <2>1. KeepsBoot /\ (disturbed' => calls' > 0) /\ (disturbed' \/ ~disturbed)
    BY <1>1, <1>2 DEF KeepsBoot, PortInv, TypeOK
  <2> QED
    BY <1>1, <1>2, <1>8, <1>10, <2>1, KeepRegisters
<1>14. OutInv'
  <2>1. OutputInOrder'
    BY <1>1, <1>2, <1>3, <1>7, <1>8, <1>10 DEF OutInv, OutputInOrder
  <2>2. ASSUME port # "absent", NEW i \in 1 .. Len(active), active[i].at = "put out"
        PROVE  Len(uart'.tx) + i <= MaxNesting + 1
    <3>1. Len(x) + i <= MaxNesting + 1
      BY <1>1, <1>3, <2>2 DEF OutInv
    <3>2. PICK m \in Nat : m = Len(x)
      OBVIOUS
    <3>3. PICK w \in Nat : w = Len(t) /\ w = m - 1
      <4>1. Len(t) \in Nat
        OBVIOUS
      <4> QED
        BY <1>6, <3>2, <4>1, Zenon
    <3>4. PICK j \in Nat : j = i
      OBVIOUS
    <3>5. w + j <= MaxNesting + 1
      BY <3>1, <3>2, <3>3, <3>4, BootAssumption
    <3> QED
      BY <1>8, <1>10, <3>3, <3>4, <3>5
  <2> QED
    BY <1>2, <2>1, <2>2 DEF OutInv
<1>15. InInv'
  BY <1>1, <1>2, <1>8, <1>10 DEF InInv, ReceivedOnce
<1> QED
  BY <1>11, <1>12, <1>13, <1>14, <1>15 DEF BootInv

LEMMA ArrivesKeeps == ASSUME BootInv, Arrives PROVE BootInv'
<1>1. /\ TypeOK /\ ActiveInv /\ PortInv /\ OutInv /\ InInv /\ SegInv /\ uart \in Uart
  BY DEF BootInv, TypeOK
<1>2. /\ UNCHANGED <<port, line, sent, got>> /\ UNCHANGED <<gdtr, seg, busy, active>>
      /\ UNCHANGED <<idt, fault, interrupts, calls, disturbed, raced>>
  BY DEF Arrives, Receive, gdtVars
<1>3. PICK b \in Nat : b = received + 1 /\ received' = b
  BY <1>1 DEF Arrives, TypeOK
<1>4. PICK x \in Seq(Nat) : x = uart.rx
  BY <1>1, UartFacts, Zenon
<1>5. uart' = [uart EXCEPT !.rx = Append(x, b)] /\ arrived' = Append(arrived, b)
  BY <1>3, <1>4 DEF Arrives, Receive
<1>6. PICK t \in Seq(Nat) : t = Append(x, b) /\ t # <<>>
  BY AppendProperties
<1>7. PICK u : u = uart'
  OBVIOUS
<1>8. u \in Uart
  BY <1>1, <1>5, <1>6, <1>7, UartQueues
<1>9. /\ u.lcr = uart.lcr /\ u.ier = uart.ier /\ u.mcr = uart.mcr /\ u.dlm = uart.dlm
      /\ u.fifo = uart.fifo /\ u.tx = uart.tx /\ u.dll = uart.dll /\ u.rx = t
  BY <1>1, <1>5, <1>6, <1>7 DEF Uart
<1>10. TypeOK'
  <2>1. arrived' \in Seq(Nat)
    BY <1>1, <1>5, AppendProperties DEF TypeOK
  <2> QED
    BY <1>1, <1>2, <1>3, <1>7, <1>8, <2>1 DEF TypeOK
<1>11. ActiveInv' /\ SegInv'
  <2>1. ActiveInv'
    BY <1>1, <1>2 DEF ActiveInv, Running, Starting
  <2>2. SegInv'
    BY <1>1, <1>2 DEF SegInv, Loaded, Top, DataSelector, KindOf
  <2> QED
    BY <2>1, <2>2
<1>12. PortInv'
  <2>1. KeepsBoot /\ (disturbed' => calls' > 0) /\ (disturbed' \/ ~disturbed)
    BY <1>1, <1>2 DEF KeepsBoot, PortInv, TypeOK
  <2> QED
    BY <1>1, <1>2, <1>7, <1>9, <2>1, KeepRegisters
<1>13. OutInv'
  BY <1>1, <1>2, <1>7, <1>9 DEF OutInv, OutputInOrder
<1>14. ReceivedOnce'
  <2>1. got \in Seq(Nat)
    BY <1>1 DEF TypeOK
  <2>2. got \o t = Append(got \o x, b)
    BY <1>6, <2>1, QueueAppend
  <2>3. uart'.rx = t
    BY <1>7, <1>9
  <2> QED
    BY <1>1, <1>2, <1>4, <1>5, <2>2, <2>3 DEF InInv, ReceivedOnce
<1>15. InInv'
  BY <1>6, <1>7, <1>9, <1>14 DEF InInv
<1> QED
  BY <1>10, <1>11, <1>12, <1>13, <1>15 DEF BootInv

-----------------------------------------------------------------------------
(* The segments.                                                           *)

LEMMA KernelTable ==
  ASSUME gdtr = "kernel"
  PROVE  KindOf(8) = "code64" /\ KindOf(16) = "data" /\ KindOf(40) = "tss"
<1>1. 8 \div 8 + 1 = 2 /\ 16 \div 8 + 1 = 3 /\ 40 \div 8 + 1 = 6
  OBVIOUS
<1>2. /\ gdt_table[2] = Flat(154, 160) /\ gdt_table[3] = Flat(146, 192)
      /\ gdt_table[6].access = 137
  BY DEF gdt_table, GDTEntry
<1>3. /\ gdt_table[2].access = 154 /\ gdt_table[2].granularity = 160
      /\ gdt_table[3].access = 146
  BY <1>2 DEF Flat, GDTEntry
<1>4. Kernel(gdt_table[2]) /\ Kernel(gdt_table[3]) /\ Kernel(gdt_table[6])
  BY <1>2, <1>3 DEF Kernel
<1>5. Kind(gdt_table[2]) = "code64"
  BY <1>3 DEF Kind
<1>6. Kind(gdt_table[3]) = "data"
  BY <1>3 DEF Kind
<1>7. Kind(gdt_table[6]) = "tss"
  BY <1>2 DEF Kind
<1> QED
  BY <1>1, <1>4, <1>5, <1>6, <1>7 DEF KindOf

(* A step of the boot code that leaves the port alone.                     *)
LEMMA BootMove ==
  ASSUME TypeOK, PortInv, OutInv, InInv, Len(active) = 1, active[1].at # "init",
         NEW label \in {"load", "idt", "run"}, NEW step, MovesTo(label, step),
         UNCHANGED <<port, uart, line, sent, arrived, got, disturbed, raced, calls>>
  PROVE  /\ PortInv' /\ OutInv' /\ InInv' /\ Len(active') = 1
         /\ active'[1].at = label /\ active'[1].step = step /\ active'[1].then = active[1].then
<1>1. /\ Len(active') = 1 /\ active'[1].at = label /\ active'[1].step = step
      /\ active'[1].then = active[1].then
  <2>1. 1 \in 1 .. Len(active)
    OBVIOUS
  <2> QED
    BY <2>1 DEF MovesTo
<1>2. PortInv'
  BY <1>1, KeepPort
<1>3. OutInv'
  <2>1. \A i \in 1 .. Len(active') :
          active'[i].at = "put out" => i \in 1 .. Len(active) /\ active[i].at = "put out"
    BY OnlyTop
  <2> QED
    BY <2>1, KeepOut
<1>4. InInv'
  <2>1. \A i \in 1 .. Len(active') :
          active'[i].at = "get in" => i \in 1 .. Len(active) /\ active[i].at = "get in"
    BY OnlyTop
  <2> QED
    BY <2>1, KeepIn
<1> QED
  BY <1>1, <1>2, <1>3, <1>4

LEMMA LoadGdtKeeps == ASSUME BootInv, LoadGdt PROVE BootInv'
<1>1. /\ TypeOK /\ ActiveInv /\ PortInv /\ OutInv /\ InInv /\ SegInv
      /\ At("booted") /\ "booted" \notin HandlerLabels
  BY DEF BootInv, LoadGdt, HandlerLabels
<1>2. /\ Len(active) = 1 /\ active[1].at = "booted" /\ ~fault /\ (idt => Running(active[1]))
  BY <1>1, BootIsAt
<1>3. ~idt /\ calls = 0 /\ busy = FALSE
  BY <1>1, <1>2 DEF Running, ActiveInv, SegInv
<1>4. /\ UNCHANGED <<port, uart, line, sent, arrived, got>> /\ UNCHANGED <<seg, busy>>
      /\ UNCHANGED <<idt, fault, interrupts, calls, received, disturbed, raced>>
      /\ gdtr' = "kernel" /\ Goto("load")
  BY DEF LoadGdt, lgdt, serialVars, control
<1>5. active' \in Seq(Activation) /\ MovesTo("load", 1)
  BY <1>1, <1>4, GotoFacts DEF BootLabels
<1>6. /\ PortInv' /\ OutInv' /\ InInv' /\ Len(active') = 1
      /\ active'[1].at = "load" /\ active'[1].step = 1
  BY <1>1, <1>2, <1>4, <1>5, BootMove
<1>7. TypeOK'
  BY <1>1, <1>4, <1>5, <1>6 DEF TypeOK
<1>8. ActiveInv'
  <2>1. Starting(active[1])' /\ Len(active') <= MaxNesting + 1 /\ 2 .. Len(active') = {}
    BY <1>6, Alone DEF Starting
  <2> QED
    BY <1>3, <1>4, <1>6, <2>1 DEF ActiveInv
<1>9. SegInv'
  <2>1. 1 \in 1 .. 6 /\ ~(1 > 1) /\ ~(1 > 2) /\ ~(1 > 3) /\ ~(1 > 4) /\ ~(1 > 5)
    OBVIOUS
  <2> QED
    BY <1>2, <1>3, <1>4, <1>6, <2>1 DEF SegInv
<1> QED
  BY <1>6, <1>7, <1>8, <1>9 DEF BootInv

LEMMA LoadIdtKeeps == ASSUME BootInv, LoadIdt PROVE BootInv'
<1>1. /\ TypeOK /\ ActiveInv /\ PortInv /\ OutInv /\ InInv /\ SegInv
      /\ At("idt") /\ "idt" \notin HandlerLabels
  BY DEF BootInv, LoadIdt, HandlerLabels
<1>2. /\ Len(active) = 1 /\ active[1].at = "idt" /\ ~fault
  BY <1>1, BootIsAt
<1>3. Loaded
  BY <1>1, <1>2 DEF SegInv
<1>4. /\ UNCHANGED <<port, uart, line, sent, arrived, got>> /\ UNCHANGED <<gdtr, seg, busy>>
      /\ UNCHANGED <<fault, interrupts, calls, received, disturbed, raced>>
      /\ idt' = TRUE /\ Goto("run")
  BY DEF LoadIdt, gdtVars, serialVars
<1>5. active' \in Seq(Activation) /\ MovesTo("run", 1)
  BY <1>1, <1>4, GotoFacts DEF BootLabels
<1>6. /\ PortInv' /\ OutInv' /\ InInv' /\ Len(active') = 1
      /\ active'[1].at = "run"
  BY <1>1, <1>2, <1>4, <1>5, BootMove
<1>7. TypeOK'
  BY <1>1, <1>4, <1>5, <1>6 DEF TypeOK
<1>8. ActiveInv'
  <2>1. Running(active[1])' /\ Len(active') <= MaxNesting + 1 /\ 2 .. Len(active') = {}
    BY <1>6, Alone DEF Running
  <2> QED
    BY <1>4, <1>6, <2>1 DEF ActiveInv
<1>9. SegInv'
  BY <1>2, <1>3, <1>4, <1>6 DEF SegInv, Loaded
<1> QED
  BY <1>6, <1>7, <1>8, <1>9 DEF BootInv

(* Each of the loads of load() succeeds.                                   *)
LEMMA LoadsSucceed ==
  ASSUME gdtr = "kernel", busy = FALSE, NEW k \in 1 .. 6
  PROVE  Loadable(LoadSteps[k][1], LoadSteps[k][2])
<1>1. /\ k = 1 => LoadSteps[k] = <<"ds", 16>>
      /\ k = 2 => LoadSteps[k] = <<"es", 16>>
      /\ k = 3 => LoadSteps[k] = <<"fs", 16>>
      /\ k = 4 => LoadSteps[k] = <<"gs", 16>>
      /\ k = 5 => LoadSteps[k] = <<"cs", 8>>
      /\ k = 6 => LoadSteps[k] = <<"tr", 40>>
  BY DEF LoadSteps
<1>2. \A r \in {"ds", "es", "fs", "gs"} : Loadable(r, 16)
  BY KernelTable DEF Loadable, DataSelector
<1>3. Loadable("cs", 8)
  BY KernelTable DEF Loadable, CodeSelector
<1>4. Loadable("tr", 40)
  BY KernelTable DEF Loadable
<1>5. k = 1 \/ k = 2 \/ k = 3 \/ k = 4 \/ k = 5 \/ k = 6
  OBVIOUS
<1> QED
  BY <1>1, <1>2, <1>3, <1>4, <1>5

(* What each of them leaves in the registers.                              *)
LEMMA LoadRegisters ==
  ASSUME seg \in Segments, NEW k \in 1 .. 6, load(k)
  PROVE  /\ seg' \in Segments /\ seg'.ss = seg.ss
         /\ seg'.ds = IF k = 1 THEN 16 ELSE seg.ds
         /\ seg'.es = IF k = 2 THEN 16 ELSE seg.es
         /\ seg'.fs = IF k = 3 THEN 16 ELSE seg.fs
         /\ seg'.gs = IF k = 4 THEN 16 ELSE seg.gs
         /\ seg'.cs = IF k = 5 THEN 8 ELSE seg.cs
         /\ seg'.tr = IF k = 6 THEN 40 ELSE seg.tr
         /\ busy' = (busy \/ k = 6) /\ gdtr' = gdtr
<1>1. PICK s \in Segments : s = seg
  OBVIOUS
<1>2. CASE k = 1
  <2>1. LoadSteps[k][1] = "ds" /\ LoadSteps[k][2] = 16
    BY <1>2 DEF LoadSteps
  <2>2. seg' = [s EXCEPT !.ds = 16] /\ busy' = (busy \/ "ds" = "tr") /\ gdtr' = gdtr
    BY <1>1, <2>1 DEF load
  <2>3. [s EXCEPT !.ds = 16] \in Segments
    BY DEF Segments
  <2> QED
    BY <1>1, <1>2, <2>2, <2>3 DEF Segments
<1>3. CASE k = 2
  <2>1. LoadSteps[k][1] = "es" /\ LoadSteps[k][2] = 16
    BY <1>3 DEF LoadSteps
  <2>2. seg' = [s EXCEPT !.es = 16] /\ busy' = (busy \/ "es" = "tr") /\ gdtr' = gdtr
    BY <1>1, <2>1 DEF load
  <2>3. [s EXCEPT !.es = 16] \in Segments
    BY DEF Segments
  <2> QED
    BY <1>1, <1>3, <2>2, <2>3 DEF Segments
<1>4. CASE k = 3
  <2>1. LoadSteps[k][1] = "fs" /\ LoadSteps[k][2] = 16
    BY <1>4 DEF LoadSteps
  <2>2. seg' = [s EXCEPT !.fs = 16] /\ busy' = (busy \/ "fs" = "tr") /\ gdtr' = gdtr
    BY <1>1, <2>1 DEF load
  <2>3. [s EXCEPT !.fs = 16] \in Segments
    BY DEF Segments
  <2> QED
    BY <1>1, <1>4, <2>2, <2>3 DEF Segments
<1>5. CASE k = 4
  <2>1. LoadSteps[k][1] = "gs" /\ LoadSteps[k][2] = 16
    BY <1>5 DEF LoadSteps
  <2>2. seg' = [s EXCEPT !.gs = 16] /\ busy' = (busy \/ "gs" = "tr") /\ gdtr' = gdtr
    BY <1>1, <2>1 DEF load
  <2>3. [s EXCEPT !.gs = 16] \in Segments
    BY DEF Segments
  <2> QED
    BY <1>1, <1>5, <2>2, <2>3 DEF Segments
<1>6. CASE k = 5
  <2>1. LoadSteps[k][1] = "cs" /\ LoadSteps[k][2] = 8
    BY <1>6 DEF LoadSteps
  <2>2. seg' = [s EXCEPT !.cs = 8] /\ busy' = (busy \/ "cs" = "tr") /\ gdtr' = gdtr
    BY <1>1, <2>1 DEF load
  <2>3. [s EXCEPT !.cs = 8] \in Segments
    BY DEF Segments
  <2> QED
    BY <1>1, <1>6, <2>2, <2>3 DEF Segments
<1>7. CASE k = 6
  <2>1. LoadSteps[k][1] = "tr" /\ LoadSteps[k][2] = 40
    BY <1>7 DEF LoadSteps
  <2>2. seg' = [s EXCEPT !.tr = 40] /\ busy' = (busy \/ "tr" = "tr") /\ gdtr' = gdtr
    BY <1>1, <2>1 DEF load
  <2>3. [s EXCEPT !.tr = 40] \in Segments
    BY DEF Segments
  <2> QED
    BY <1>1, <1>7, <2>2, <2>3 DEF Segments
<1>8. k = 1 \/ k = 2 \/ k = 3 \/ k = 4 \/ k = 5 \/ k = 6
  OBVIOUS
<1> QED
  BY <1>2, <1>3, <1>4, <1>5, <1>6, <1>7, <1>8

LEMMA LoadSegmentKeeps == ASSUME BootInv, LoadSegment PROVE BootInv'
<1>1. /\ TypeOK /\ ActiveInv /\ PortInv /\ OutInv /\ InInv /\ SegInv
      /\ At("load") /\ "load" \notin HandlerLabels
  BY DEF BootInv, LoadSegment, HandlerLabels
<1>2. /\ Len(active) = 1 /\ active[1].at = "load" /\ Top = active[1] /\ ~fault
      /\ (idt => Running(active[1]))
  BY <1>1, BootIsAt
<1>3. PICK k : k = active[1].step
  OBVIOUS
<1>4. /\ ~idt /\ calls = 0 /\ busy = FALSE /\ gdtr = "kernel" /\ k \in 1 .. 6
      /\ k > 1 => seg.ds = 16
      /\ k > 2 => seg.es = 16
      /\ k > 3 => seg.fs = 16
      /\ k > 4 => seg.gs = 16
      /\ k > 5 => seg.cs = 8
  BY <1>1, <1>2, <1>3 DEF Running, ActiveInv, SegInv
<1>5. /\ load(k) /\ UNCHANGED fault
      /\ IF k = Len(LoadSteps) THEN Goto("idt") ELSE active' = Moved("load", k + 1)
  BY <1>2, <1>3, <1>4, LoadsSucceed DEF LoadSegment
<1>6. /\ UNCHANGED <<port, uart, line, sent, arrived, got>>
      /\ UNCHANGED <<idt, interrupts, calls, received, disturbed, raced>>
  BY DEF LoadSegment, serialVars
<1>7. Len(LoadSteps) = 6
  BY DEF LoadSteps
<1>8. /\ seg' \in Segments /\ seg'.ss = seg.ss
      /\ seg'.ds = IF k = 1 THEN 16 ELSE seg.ds
      /\ seg'.es = IF k = 2 THEN 16 ELSE seg.es
      /\ seg'.fs = IF k = 3 THEN 16 ELSE seg.fs
      /\ seg'.gs = IF k = 4 THEN 16 ELSE seg.gs
      /\ seg'.cs = IF k = 5 THEN 8 ELSE seg.cs
      /\ seg'.tr = IF k = 6 THEN 40 ELSE seg.tr
      /\ busy' = (busy \/ k = 6) /\ gdtr' = gdtr
  BY <1>1, <1>4, <1>5, LoadRegisters DEF TypeOK
<1>9. PICK l \in {"load", "idt"}, j \in Nat :
        /\ active' \in Seq(Activation) /\ MovesTo(l, j)
        /\ k = 6 => l = "idt"
        /\ k # 6 => l = "load" /\ j = k + 1
  <2>1. CASE k = 6
    <3>1. active' \in Seq(Activation) /\ MovesTo("idt", 1)
      BY <1>1, <1>5, <1>7, <2>1, GotoFacts DEF BootLabels
    <3> QED
      BY <2>1, <3>1
  <2>2. CASE k # 6
    <3>1. k + 1 \in Nat
      BY <1>4
    <3>2. active' \in Seq(Activation) /\ MovesTo("load", k + 1)
      BY <1>1, <1>5, <1>7, <2>2, <3>1, MovedFacts DEF BootLabels
    <3> QED
      BY <2>2, <3>1, <3>2, Zenon
  <2> QED
    BY <2>1, <2>2
<1>10. /\ PortInv' /\ OutInv' /\ InInv' /\ Len(active') = 1
       /\ active'[1].at = l /\ active'[1].step = j
  BY <1>1, <1>2, <1>6, <1>9, BootMove
<1>11. TypeOK'
  <2>1. busy' \in BOOLEAN /\ gdtr' \in {"bootloader", "kernel"} /\ fault' \in BOOLEAN
    BY <1>1, <1>5, <1>8 DEF TypeOK
  <2> QED
    BY <1>1, <1>6, <1>8, <1>9, <1>10, <2>1 DEF TypeOK
<1>12. ActiveInv'
  <2>1. Starting(active[1])' /\ Len(active') <= MaxNesting + 1 /\ 2 .. Len(active') = {}
    BY <1>10, Alone DEF Starting
  <2> QED
    BY <1>4, <1>6, <1>10, <2>1 DEF ActiveInv
<1>13. SegInv'
  <2>1. CASE k = 6
    <3>1. k > 1 /\ k > 2 /\ k > 3 /\ k > 4 /\ k > 5 /\ k # 1 /\ k # 2 /\ k # 3 /\ k # 4 /\ k # 5
      BY <2>1
    <3>2. Loaded' /\ active'[1].at = "idt"
      BY <1>4, <1>8, <1>9, <1>10, <2>1, <3>1 DEF Loaded
    <3> QED
      BY <1>2, <1>5, <3>2 DEF SegInv
  <2>2. CASE k # 6
    <3>1. j \in 1 .. 6
      BY <1>4, <1>9, <2>2
    <3>2. j \in 1 .. 6 /\ active'[1].at = "load" /\ active'[1].step = j /\ busy' = FALSE
      BY <1>4, <1>8, <1>9, <1>10, <2>2, <3>1
    <3>3. /\ j > 1 => seg'.ds = 16
          /\ j > 2 => seg'.es = 16
          /\ j > 3 => seg'.fs = 16
          /\ j > 4 => seg'.gs = 16
          /\ j > 5 => seg'.cs = 8
      BY <1>4, <1>8, <1>9, <2>2
    <3> QED
      BY <1>2, <1>4, <1>5, <1>6, <1>8, <3>2, <3>3 DEF SegInv
  <2> QED
    BY <2>1, <2>2
<1> QED
  BY <1>10, <1>11, <1>12, <1>13 DEF BootInv

(* A handler comes or goes; those below it stay as they are.               *)
LEMMA Interrupted ==
  ASSUME BootInv, idt, ~fault, active' \in Seq(Activation), NEW m \in Nat, m > 0,
         Len(active') = m, m <= MaxNesting + 1,
         \A i \in 1 .. m : \/ i \in 1 .. Len(active) /\ active'[i] = active[i]
                           \/ i > 1 /\ active'[i].at = "handler" /\ active'[i].then = "iretq"
                                    /\ active'[i].cs = GateSelector /\ active'[i].ss = seg.ss,
         active'[1] = active[1],
         UNCHANGED <<serialVars, gdtVars, idt, fault, calls, received, disturbed, raced>>
  PROVE  BootInv'
<1>1. TypeOK /\ ActiveInv /\ PortInv /\ OutInv /\ InInv /\ SegInv
  BY DEF BootInv
<1>2. /\ UNCHANGED <<port, uart, line, sent, arrived, got>> /\ UNCHANGED <<gdtr, seg, busy>>
      /\ UNCHANGED <<idt, fault, calls, received, disturbed, raced>>
  BY DEF serialVars, gdtVars
<1>3. KeepsBoot
  BY DEF KeepsBoot
<1>4. TypeOK'
  BY <1>1, <1>2 DEF TypeOK
<1>5. ActiveInv'
  <2>1. Running(active[1])'
    BY <1>1, <1>2 DEF ActiveInv, Running
  <2>2. ASSUME NEW i \in 2 .. m
        PROVE  /\ active'[i].at \in HandlerLabels /\ active'[i].then = "iretq"
               /\ active'[i].cs = GateSelector /\ active'[i].ss = seg.ss
    <3>1. i \in 1 .. m
      OBVIOUS
    <3>2. CASE i \in 1 .. Len(active) /\ active'[i] = active[i]
      <4>1. i \in 2 .. Len(active)
        BY <3>2
      <4> QED
        BY <1>1, <3>2, <4>1 DEF ActiveInv
    <3>3. CASE active'[i].at = "handler" /\ active'[i].then = "iretq"
               /\ active'[i].cs = GateSelector /\ active'[i].ss = seg.ss
      BY <3>3 DEF HandlerLabels
    <3> QED
      BY <3>1, <3>2, <3>3
  <2> QED
    BY <1>2, <2>1, <2>2 DEF ActiveInv
<1>6. PortInv' /\ SegInv'
  BY <1>1, <1>2, <1>3, KeepPort, KeepSeg
<1>7. OutInv'
  BY <1>1, <1>2, KeepOut
<1>8. InInv'
  BY <1>1, <1>2, KeepIn
<1> QED
  BY <1>4, <1>5, <1>6, <1>7, <1>8 DEF BootInv

LEMMA SameSegments ==
  ASSUME seg \in Segments
  PROVE  /\ [seg EXCEPT !.cs = seg.cs] = seg
         /\ [seg EXCEPT !.cs = seg.cs, !.ss = seg.ss] = seg
  BY DEF Segments

LEMMA InterruptKeeps == ASSUME BootInv, Interrupt PROVE BootInv'
<1>1. /\ TypeOK /\ ActiveInv /\ SegInv /\ idt /\ ~fault /\ seg \in Segments /\ Loaded
  BY DEF BootInv, Interrupt, TypeOK, SegInv
<1>2. CodeSelector(GateSelector) /\ seg.cs = GateSelector
  BY <1>1, KernelTable DEF CodeSelector, GateSelector, Loaded
<1>3. PICK h : h = [at |-> "handler", step |-> 1, then |-> "iretq", cs |-> seg.cs, ss |-> seg.ss]
  OBVIOUS
<1>4. /\ h \in Activation /\ h.at = "handler" /\ h.then = "iretq"
      /\ h.cs = GateSelector /\ h.ss = seg.ss
  <2>1. seg.cs \in Nat /\ seg.ss \in BootStacks
    BY <1>1 DEF Segments
  <2> QED
    BY <1>2, <1>3, <2>1 DEF Activation, HandlerLabels
<1>5. /\ active' = Append(active, h) /\ seg' = seg /\ UNCHANGED fault
      /\ Len(active) <= MaxNesting
  <2>1. seg' = [seg EXCEPT !.cs = seg.cs]
    BY <1>2 DEF Interrupt
  <2> QED
    BY <1>1, <1>2, <1>3, <2>1, SameSegments DEF Interrupt
<1>6. PICK a \in Seq(Activation) : a = active
  BY <1>1 DEF TypeOK
<1>7. PICK n \in Nat : n = Len(a) /\ n > 0
  BY <1>1, <1>6, LenFacts, Zenon
<1>8. /\ Append(a, h) \in Seq(Activation) /\ Len(Append(a, h)) = n + 1
      /\ \A i \in 1 .. n : Append(a, h)[i] = a[i]
      /\ Append(a, h)[n + 1] = h
  BY <1>4, <1>7, AppendProperties
<1>9. PICK m \in Nat : m = n + 1 /\ m > 1 /\ m > 0 /\ m <= MaxNesting + 1
  BY <1>5, <1>6, <1>7, BootAssumption
<1>10. active' \in Seq(Activation) /\ Len(active') = m
  BY <1>5, <1>6, <1>8, <1>9
<1>11. active'[1] = active[1]
  BY <1>5, <1>6, <1>7, <1>8
<1>12. ASSUME NEW i \in 1 .. m
       PROVE  \/ i \in 1 .. Len(active) /\ active'[i] = active[i]
              \/ i > 1 /\ active'[i].at = "handler" /\ active'[i].then = "iretq"
                       /\ active'[i].cs = GateSelector /\ active'[i].ss = seg.ss
  <2>1. i \in 1 .. n \/ (i = n + 1 /\ i > 1)
    BY <1>7, <1>9
  <2>2. CASE i \in 1 .. n
    BY <1>5, <1>6, <1>7, <1>8, <2>2
  <2>3. CASE i = n + 1 /\ i > 1
    BY <1>4, <1>5, <1>6, <1>8, <2>3
  <2> QED
    BY <2>1, <2>2, <2>3
<1>13. UNCHANGED <<serialVars, gdtVars, idt, fault, calls, received, disturbed, raced>>
  BY <1>5 DEF Interrupt, gdtVars
<1> QED
  BY <1>1, <1>9, <1>10, <1>11, <1>12, <1>13, Interrupted

LEMMA ReturnKeeps == ASSUME BootInv, Return PROVE BootInv'
<1>1. /\ TypeOK /\ ActiveInv /\ PortInv /\ OutInv /\ InInv /\ SegInv
      /\ At("iretq") /\ seg \in Segments
  BY DEF BootInv, Return, TypeOK
<1>2. Len(active) > 1
  <2>1. "iretq" \notin BootLabels
    BY DEF BootLabels
  <2> QED
    BY <1>1, <2>1, TopFacts, LenFacts DEF At
<1>3. /\ Top.cs = GateSelector /\ Top.ss = seg.ss /\ idt /\ ~fault /\ Top.at = "iretq"
  BY <1>1, <1>2, TopFacts DEF At
<1>4. Loaded /\ CodeSelector(Top.cs) /\ seg.cs = Top.cs
  BY <1>1, <1>3, KernelTable DEF CodeSelector, GateSelector, Loaded, SegInv
<1>5. /\ UNCHANGED <<port, uart, line, sent, arrived, got>>
      /\ UNCHANGED <<gdtr, busy, idt, interrupts, calls, received, disturbed, raced>>
  BY DEF Return, serialVars
<1>6. CASE DataSelector(Top.ss)
  <2>1. /\ active' = SubSeq(active, 1, Len(active) - 1) /\ seg' = seg /\ UNCHANGED fault
    <3>1. seg' = [seg EXCEPT !.cs = seg.cs, !.ss = seg.ss]
      BY <1>3, <1>4, <1>6 DEF Return
    <3> QED
      BY <1>1, <1>4, <1>6, <3>1, SameSegments DEF Return
  <2>2. PICK a \in Seq(Activation) : a = active
    BY <1>1 DEF TypeOK
  <2>3. PICK n \in Nat : n = Len(a) /\ n > 1 /\ n <= MaxNesting + 1
    <3>1. Len(active) \in Nat /\ Len(active) <= MaxNesting + 1
      BY <1>1, LenFacts DEF ActiveInv
    <3> QED
      BY <1>2, <2>2, <3>1, Zenon
  <2>4. PICK m \in Nat : m = n - 1 /\ m > 0 /\ m <= MaxNesting + 1
    BY <2>3, BootAssumption
  <2>5. PICK s : s = SubSeq(a, 1, m)
    OBVIOUS
  <2>6. s \in Seq(Activation) /\ Len(s) = m /\ \A i \in 1 .. m : s[i] = a[i]
    BY <2>3, <2>4, <2>5
  <2>7. active' = s
    BY <2>1, <2>2, <2>3, <2>4, <2>5
  <2>8. ASSUME NEW i \in 1 .. m PROVE i \in 1 .. Len(active) /\ active'[i] = active[i]
    <3>1. i \in 1 .. n
      BY <2>3, <2>4
    <3> QED
      BY <2>2, <2>3, <2>6, <2>7, <3>1
  <2>9. 1 \in 1 .. m
    BY <2>4
  <2>10. active' \in Seq(Activation) /\ Len(active') = m /\ active'[1] = active[1]
    BY <2>6, <2>7, <2>8, <2>9
  <2>11. UNCHANGED <<serialVars, gdtVars, idt, fault, calls, received, disturbed, raced>>
    BY <1>5, <2>1 DEF serialVars, gdtVars
  <2> QED
    BY <1>3, <2>4, <2>8, <2>10, <2>11, Interrupted
<1>7. CASE ~DataSelector(Top.ss)
  <2>1. fault' = TRUE /\ UNCHANGED <<active, seg>>
    BY <1>7 DEF Return
  <2>2. TypeOK'
    BY <1>1, <1>5, <2>1 DEF TypeOK
  <2>3. ActiveInv' /\ PortInv' /\ OutInv' /\ InInv'
    <3>1. ActiveInv'
      BY <1>1, <1>5, <2>1 DEF ActiveInv, Running, Starting
    <3>2. PortInv'
      BY <1>1, <1>5, <2>1, KeepPort DEF KeepsBoot
    <3>3. OutInv'
      BY <1>1, <1>5, <2>1, KeepOut
    <3>4. InInv'
      BY <1>1, <1>5, <2>1, KeepIn
    <3> QED
      BY <3>1, <3>2, <3>3, <3>4
  <2>4. SegInv'
    <3>1. idt' /\ (Top.at = "iretq")' /\ ~DataSelector(seg.ss)'
      BY <1>3, <1>5, <1>7, <2>1 DEF Top, DataSelector, KindOf
    <3>2. Loaded' /\ active'[1].at # "load"
      BY <1>1, <1>3, <1>4, <1>5, <2>1 DEF Loaded, ActiveInv, Running
    <3> QED
      BY <1>3, <1>5, <3>1, <3>2 DEF SegInv
  <2> QED
    BY <2>2, <2>3, <2>4 DEF BootInv
<1> QED
  BY <1>6, <1>7

-----------------------------------------------------------------------------
LEMMA BootSteps == ASSUME BootInv, [Next]_vars PROVE BootInv'
<1>1. CASE Step
  BY <1>1, InitPortKeeps, BannerKeeps, PollTxKeeps, PutKeeps, FlushKeeps, PollRxKeeps, GetKeeps,
     LoadGdtKeeps, LoadSegmentKeeps, LoadIdtKeeps, ReturnKeeps DEF Step
<1>2. CASE Halt \/ Interrupt \/ Sends \/ Arrives
  BY <1>2, HaltKeeps, InterruptKeeps, SendsKeeps, ArrivesKeeps
<1>3. CASE \E f \in {"put", "get", "flush", "init"} : Call(f)
  BY <1>3, CallKeeps
<1>4. CASE \E f \in {"put", "get", "iretq"} : Handle(f)
  BY <1>4, HandleKeeps
<1>5. CASE UNCHANGED vars
  <2>1. /\ UNCHANGED <<port, uart, line, sent, arrived, got>> /\ UNCHANGED <<gdtr, seg, busy>>
        /\ UNCHANGED <<active, idt, fault, calls, received, disturbed, raced>>
    BY <1>5 DEF vars, serialVars, gdtVars
  <2>2. TypeOK' /\ ActiveInv'
    <3>1. TypeOK'
      BY <2>1 DEF BootInv, TypeOK
    <3>2. ActiveInv'
      BY <2>1 DEF BootInv, ActiveInv, Running, Starting
    <3> QED
      BY <3>1, <3>2
  <2>3. PortInv' /\ OutInv' /\ InInv'
    <3>1. PortInv'
      BY <2>1 DEF BootInv, PortInv, At1, Fresh
    <3>2. OutInv'
      BY <2>1 DEF BootInv, OutInv, OutputInOrder
    <3>3. InInv'
      BY <2>1 DEF BootInv, InInv, ReceivedOnce
    <3> QED
      BY <3>1, <3>2, <3>3
  <2>4. SegInv'
    BY <2>1 DEF BootInv, SegInv, Loaded, Top, DataSelector, KindOf
  <2> QED
    BY <2>2, <2>3, <2>4 DEF BootInv
<1> QED
  BY <1>1, <1>2, <1>3, <1>4, <1>5 DEF Next

(* The inductive invariant of the boot code: who is active and where, what *)
(* init() and load() have set up so far, and that whoever is between a     *)
(* test and the access that follows it finds what it has tested.           *)
THEOREM BootIsInvariant == Spec => []BootInv
<1>1. Init => BootInv
  BY InitialBoot
<1>2. BootInv /\ [Next]_vars => BootInv'
  BY BootSteps
<1> QED
  BY <1>1, <1>2, PTL DEF Spec

(* Serial::init(): outside of it the line has the speed and the format     *)
(* that were asked for, unless a handler has used the data register while  *)
(* it was the divisor latch's, which only an init() after the interrupt    *)
(* table is loaded makes possible.  For every divisor and every format.    *)
THEOREM LineSpeedIsKept == Spec => []LineSpeedKept
<1>1. BootInv => LineSpeedKept
  <2> SUFFICES ASSUME BootInv PROVE LineSpeedKept
    OBVIOUS
  <2>1. PortInv
    BY DEF BootInv
  <2>2. ASSUME port # "absent", ~disturbed, active[1].at # "init" PROVE SetUp
    <3>1. /\ uart.lcr = ILCR /\ uart.ier = 0 /\ uart.mcr = 11 /\ uart.fifo
          /\ uart.dll = Divisor % 256 /\ uart.dlm = Divisor \div 256
      BY <2>1, <2>2 DEF PortInv, At1
    <3> QED
      BY <3>1, ConstantFacts DEF SetUp
  <2> QED
    BY <2>1, <2>2 DEF LineSpeedKept, PortInv
<1> QED
  BY <1>1, BootIsInvariant, PTL

(* put(): for every number of nested handlers the transmitter has room     *)
(* for, no byte is lost or overtaken between the test and the write.       *)
THEOREM OutputStaysInOrder == Spec => []OutputInOrder
<1>1. BootInv => OutputInOrder
  BY DEF BootInv, OutInv
<1> QED
  BY <1>1, BootIsInvariant, PTL

(* get(): every byte that arrives is returned by one get(), once and in    *)
(* order, as long as no handler's get() comes between the test and the     *)
(* read of another one.                                                    *)
THEOREM BytesAreReceivedOnce == Spec => []ReceivedOnce
<1>1. BootInv => ReceivedOnce
  BY DEF BootInv, InInv
<1> QED
  BY <1>1, BootIsInvariant, PTL

(* The bytes of the address of the TSS, put together from the descriptor.  *)
LEMMA TssBase ==
  gdt_table[6].base \o <<gdt_table[7].limit_low % 256, gdt_table[7].limit_low \div 256,
                         gdt_table[7].base[1], gdt_table[7].base[2]>> = TssAddress
<1>1. \A i \in 1 .. 8 : TssAddress[i] \in 0 .. 255
  BY TssAddressAssumption
<1>2. PICK a \in Nat, b \in Nat : a = TssAddress[5] /\ b = TssAddress[6] /\ a < 256 /\ b < 256
  <2>1. /\ TssAddress[5] \in Nat /\ TssAddress[5] < 256
        /\ TssAddress[6] \in Nat /\ TssAddress[6] < 256
    BY <1>1
  <2> QED
    BY <2>1, Zenon
<1>3. (a + 256 * b) % 256 = a /\ (a + 256 * b) \div 256 = b
  BY <1>2
<1>4. gdt_table[6].base = <<TssAddress[1], TssAddress[2], TssAddress[3], TssAddress[4]>>
  BY DEF gdt_table, GDTEntry
<1>5. /\ gdt_table[7].limit_low = a + 256 * b
      /\ gdt_table[7].base[1] = TssAddress[7] /\ gdt_table[7].base[2] = TssAddress[8]
  BY <1>2 DEF gdt_table, GDTEntry
<1>6. PICK l : l = <<TssAddress[1], TssAddress[2], TssAddress[3], TssAddress[4]>>
  OBVIOUS
<1>7. PICK h : h = <<TssAddress[5], TssAddress[6], TssAddress[7], TssAddress[8]>>
  OBVIOUS
<1>8. PICK B : B = 0 .. 255 /\ TssAddress \in [1 .. 8 -> B]
  BY TssAddressAssumption, Zenon
<1>9. /\ l \in Seq(B) /\ Len(l) = 4 /\ h \in Seq(B) /\ Len(h) = 4
  <2>1. \A i \in 1 .. 8 : TssAddress[i] \in B
    BY <1>8, Zenon
  <2> QED
    BY <1>6, <1>7, <2>1
<1>10. PICK c : c = l \o h
  OBVIOUS
<1>11. c \in Seq(B) /\ Len(c) = 8 /\ \A i \in 1 .. 8 : c[i] = IF i <= 4 THEN l[i] ELSE h[i - 4]
  <2>1. /\ l \o h \in Seq(B) /\ Len(l \o h) = Len(l) + Len(h)
        /\ \A i \in 1 .. Len(l) + Len(h) :
             (l \o h)[i] = IF i <= Len(l) THEN l[i] ELSE h[i - Len(l)]
    BY <1>9, ConcatProperties, Zenon
  <2>2. Len(l) = 4 /\ Len(l) + Len(h) = 8
    BY <1>9
  <2>3. c \in Seq(B) /\ Len(c) = 8
    BY <1>10, <2>1, <2>2, Zenon
  <2>4. \A i \in 1 .. 8 : c[i] = IF i <= 4 THEN l[i] ELSE h[i - 4]
    BY <1>10, <2>1, <2>2
  <2> QED
    BY <2>3, <2>4, Zenon
<1>12. TssAddress \in Seq(B) /\ Len(TssAddress) = 8
  <2>1. TssAddress \in Seq(B) /\ DOMAIN TssAddress = 1 .. 8
    <3>1. 8 \in Nat
      OBVIOUS
    <3>2. TssAddress \in UNION {[1 .. n -> B] : n \in Nat}
      BY <1>8, <3>1, Zenon
    <3>3. TssAddress \in Seq(B)
      BY <3>2, SeqDef
    <3>4. DOMAIN TssAddress = 1 .. 8
      BY <1>8
    <3> QED
      BY <3>3, <3>4
  <2>2. DOMAIN TssAddress = 1 .. Len(TssAddress) /\ Len(TssAddress) \in Nat
    BY <2>1, LenProperties
  <2> QED
    BY <2>1, <2>2
<1>13. ASSUME NEW i \in 1 .. 8 PROVE c[i] = TssAddress[i]
  <2>1. i = 1 \/ i = 2 \/ i = 3 \/ i = 4 \/ i = 5 \/ i = 6 \/ i = 7 \/ i = 8
    OBVIOUS
  <2>2. /\ l[1] = TssAddress[1] /\ l[2] = TssAddress[2]
        /\ l[3] = TssAddress[3] /\ l[4] = TssAddress[4]
    BY <1>6
  <2>3. /\ h[1] = TssAddress[5] /\ h[2] = TssAddress[6]
        /\ h[3] = TssAddress[7] /\ h[4] = TssAddress[8]
    BY <1>7
  <2>4. /\ c[1] = l[1] /\ c[2] = l[2] /\ c[3] = l[3] /\ c[4] = l[4]
    BY <1>11
  <2>5. /\ c[5] = h[1] /\ c[6] = h[2] /\ c[7] = h[3] /\ c[8] = h[4]
    BY <1>11
  <2> QED
    BY <2>1, <2>2, <2>3, <2>4, <2>5
<1>14. l \o h = TssAddress
  <2>1. Len(c) = Len(TssAddress) /\ \A i \in 1 .. Len(c) : c[i] = TssAddress[i]
    BY <1>12, <1>13, <1>11
  <2> QED
    BY <1>10, <1>11, <1>12, <2>1, SeqEqual, Zenon
<1> QED
  BY <1>2, <1>3, <1>4, <1>5, <1>6, <1>7, <1>14

(* load(): with both tables loaded, gates and registers hold the kernel's  *)
(* selectors and tr leads to the TSS and to nothing else; the only fault   *)
(* there can be is the one of a handler that returns to an ss load() has   *)
(* not replaced.  The bits 24 to 27 of the address of the TSS, which end   *)
(* up in the limit of its descriptor, have to be zero for that.            *)
THEOREM SegmentsStayUsable ==
  ASSUME TssAddress[4] % 16 = 0
  PROVE  Spec => []SegmentsUsable
<1>1. BootInv => SegmentsUsable
  <2> SUFFICES ASSUME BootInv PROVE SegmentsUsable
    OBVIOUS
  <2>1. SegInv /\ fault \in BOOLEAN
    BY DEF BootInv, TypeOK
  <2>2. CASE fault
    BY <2>1, <2>2 DEF SegInv, SegmentsUsable
  <2>3. CASE ~fault
    <3> SUFFICES ASSUME idt
                 PROVE  /\ CodeSelector(GateSelector) /\ CodeSelector(seg.cs) /\ TssReached
                        /\ \A r \in {"ds", "es", "fs", "gs"} : KindOf(seg[r]) = "data"
      BY <2>3 DEF SegmentsUsable
    <3>1. Loaded
      BY <2>1 DEF SegInv
    <3>2. CodeSelector(GateSelector) /\ CodeSelector(seg.cs)
      BY <3>1, KernelTable DEF Loaded, CodeSelector, GateSelector
    <3>3. \A r \in {"ds", "es", "fs", "gs"} : KindOf(seg[r]) = "data"
      <4>1. \A r \in {"ds", "es", "fs", "gs"} : seg[r] = 16
        BY <3>1 DEF Loaded
      <4> QED
        BY <3>1, <4>1, KernelTable DEF Loaded
    <3>4. Limit(gdt_table[6]) = TssSize - 1 /\ io_map_base > TssSize - 1
      <4>1. gdt_table[6].limit_low = 103 /\ gdt_table[6].granularity = 0
        BY DEF gdt_table, GDTEntry, TssSize, TssGranularity
      <4> QED
        BY <4>1 DEF Limit, TssSize, io_map_base
    <3>5. TssReached
      <4>1. busy /\ seg.tr = 40 /\ 40 \div 8 + 1 = 6 /\ 40 \div 8 + 2 = 7
        BY <3>1 DEF Loaded
      <4> QED
        BY <3>4, <4>1, TssBase DEF TssReached
    <3> QED
      BY <3>2, <3>3, <3>5
  <2> QED
    BY <2>1, <2>2, <2>3
<1> QED
  BY <1>1, BootIsInvariant, PTL
=============================================================================
