------------------------------- MODULE Serial -------------------------------
(***************************************************************************)
(* A serial port of arch/serial.hh: the registers init() writes, the tests *)
(* put(), get() and flush() wait for, and what one read or write of the    *)
(* data register does.  Who is between a test and the access that follows  *)
(* it is the business of the module that extends this one.                 *)
(*                                                                         *)
(* The port is a 16550: a transmitter and a receiver with a FIFO each, and *)
(* a divisor latch that takes the place of two registers while bit 7 of    *)
(* the line control register (DLAB) is set.  An absent port reads as 0xFF, *)
(* so that every test succeeds; a stuck one never transmits.               *)
(*                                                                         *)
(* InitWritesNoReset is a faulty variant of the definition that follows    *)
(* it, used only to see that a property notices the fault.                 *)
(***************************************************************************)
EXTENDS Integers, Sequences

CONSTANTS
  FifoSize,  \* what a FIFO holds: 16 in a 16550A
  Divisor,   \* 115200 / BAUD
  ILCR       \* ILCR: the line format

ASSUME SerialAssumption ==
  /\ FifoSize \in Nat \ {0}
  /\ Divisor \in Nat \ {0} /\ Divisor < 65536
  /\ ILCR \in Nat /\ ILCR < 128

VARIABLES
  port,     \* "present", "stuck" or "absent"
  uart,     \* the registers and FIFOs of the port
  line,     \* history: the bytes the port has transmitted
  sent,     \* history: the bytes put() has written, less those init() discards
  arrived,  \* history: the bytes the port has taken in, less those init() discards
  got       \* history: the bytes get() has returned, less those init() discards

serialVars == <<port, uart, line, sent, arrived, got>>

SerialInit ==
  /\ port \in {"present", "stuck", "absent"}
  /\ uart = [lcr |-> 0, ier |-> 0, mcr |-> 0, dll |-> 0, dlm |-> 0, fifo |-> FALSE,
             tx |-> <<>>, rx |-> <<>>]
  /\ line = <<>> /\ sent = <<>> /\ arrived = <<>> /\ got = <<>>

DATA == 0
IER == 1
FCR == 2
LCR == 3
MCR == 4

-----------------------------------------------------------------------------
(* The device. *)

DLAB == uart.lcr >= 128
Capacity == IF uart.fifo THEN FifoSize ELSE 1
Bit(v, weight) == (v \div weight) % 2 = 1

(* The port after v is written to register r.  A byte that finds the        *)
(* transmitter full is lost.                                               *)
out(r, v) ==
  IF port = "absent" THEN uart
  ELSE CASE r = DATA /\ DLAB  -> [uart EXCEPT !.dll = v]
         [] r = DATA /\ ~DLAB -> IF Len(uart.tx) < Capacity
                                   THEN [uart EXCEPT !.tx = Append(@, v)] ELSE uart
         [] r = IER /\ DLAB   -> [uart EXCEPT !.dlm = v]
         [] r = IER /\ ~DLAB  -> [uart EXCEPT !.ier = v]
         [] r = FCR           -> [uart EXCEPT !.fifo = Bit(v, 1),
                                              !.rx = IF Bit(v, 2) THEN <<>> ELSE @,
                                              !.tx = IF Bit(v, 4) THEN <<>> ELSE @]
         [] r = LCR           -> [uart EXCEPT !.lcr = v]
         [] r = MCR           -> [uart EXCEPT !.mcr = v]

(* A read of the data register: the divisor latch, or the oldest byte; an   *)
(* empty receiver gives some old byte.                                     *)
Stale == 0
in_DATA ==
  IF port = "absent" THEN 255
  ELSE IF DLAB THEN uart.dll
  ELSE IF uart.rx = <<>> THEN Stale ELSE Head(uart.rx)

Transmit ==
  /\ port = "present" /\ uart.tx # <<>>
  /\ line' = Append(line, Head(uart.tx))
  /\ uart' = [uart EXCEPT !.tx = Tail(@)]
  /\ UNCHANGED <<port, sent, arrived, got>>

(* A byte that finds the receiver full is lost. *)
Receive(b) ==
  /\ port # "absent" /\ Len(uart.rx) < Capacity
  /\ uart' = [uart EXCEPT !.rx = Append(@, b)]
  /\ arrived' = Append(arrived, b)
  /\ UNCHANGED <<port, line, sent, got>>

-----------------------------------------------------------------------------
(* The driver. *)

(* The writes of init(), in order: the divisor is written through DLAB, and *)
(* the FIFOs are enabled and emptied.                                      *)
InitWritesNoReset ==
  << <<IER, 0>>, <<LCR, 128>>, <<DATA, Divisor % 256>>, <<IER, Divisor \div 256>>,
     <<FCR, 199>>, <<MCR, 11>>, <<MCR, 11>> >>

InitWrites ==
  << <<IER, 0>>, <<LCR, 128>>, <<DATA, Divisor % 256>>, <<IER, Divisor \div 256>>,
     <<LCR, ILCR>>, <<FCR, 199>>, <<MCR, 11>> >>

init(k) ==
  /\ uart' = out(InitWrites[k][1], InitWrites[k][2])
  /\ IF InitWrites[k][1] = FCR THEN sent' = line /\ arrived' = got
                               ELSE UNCHANGED <<sent, arrived>>
  /\ UNCHANGED <<port, line, got>>

(* Bits 5 and 0 of the line status register. *)
tx_ready == port = "absent" \/ uart.tx = <<>>
rx_ready == port = "absent" \/ uart.rx # <<>>

(* What put() does when the transmitter is ready, and get() when there is a *)
(* byte.                                                                   *)
put(c) ==
  /\ uart' = out(DATA, c)
  /\ sent' = Append(sent, c)
  /\ UNCHANGED <<port, line, arrived, got>>

get ==
  /\ got' = Append(got, in_DATA)
  /\ uart' = IF DLAB \/ uart.rx = <<>> THEN uart ELSE [uart EXCEPT !.rx = Tail(@)]
  /\ UNCHANGED <<port, line, sent, arrived>>

(* The registers are as init() leaves them. *)
SetUp ==
  /\ uart.lcr = ILCR /\ uart.dll + 256 * uart.dlm = Divisor
  /\ uart.ier = 0 /\ uart.mcr = 11 /\ uart.fifo
=============================================================================
