------------------------- MODULE InterruptStubProofs -------------------------
(***************************************************************************)
(* Proofs about the interrupt stubs, for every nesting of interrupts, every *)
(* vector they have and every point of the stubs and handlers they come at. *)
(*                                                                         *)
(* The state of the processor is a sequence of levels: the program, and on  *)
(* it what each interrupt has come to.  An interrupt turns the registers,   *)
(* rip and stack there are into a frame of the history, so the invariant    *)
(* of a level, InStub, is about the frame it started from and either the    *)
(* present state or the next frame.                                        *)
(***************************************************************************)
EXTENDS InterruptStub, SequenceTheorems, TLAPS

Registers == General \cup Special
Frame ==
  [vector : 0 .. 255, regs : [Registers -> Nat], rip : Nat, rflagsIF : BOOLEAN, stack : Seq(Nat)]

TypeOK ==
  /\ regs \in [Registers -> Nat] /\ rip \in Nat /\ rflagsIF \in BOOLEAN
  /\ stack \in Seq(Nat) /\ frames \in Seq(Frame)

-----------------------------------------------------------------------------
(* The words from the aligned end of the interrupted stack: what the        *)
(* processor has pushed, what the stub has, the saved registers, and the    *)
(* address a handler returns to.                                           *)

Aligned(f) == Len(f.stack) + (Len(f.stack) % 2)
ErrorWords(v) == IF v \in PushesErrorCode THEN 1 ELSE 0
FrameWords(v) == IF v \in Misframed THEN 8 ELSE 7

Word(f, m) ==
  LET n == FrameWords(f.vector)
  IN  IF m = 1 THEN f.regs["ss"]
      ELSE IF m = 2 THEN Len(f.stack)
      ELSE IF m = 3 THEN IF f.rflagsIF THEN 1 ELSE 0
      ELSE IF m = 4 THEN f.regs["cs"]
      ELSE IF m = 5 THEN f.rip
      ELSE IF m = 6 THEN IF f.vector \in PushesErrorCode THEN ErrorCode ELSE 0
      ELSE IF m < n THEN 0
      ELSE IF m = n THEN f.vector
      ELSE IF m <= n + 15 THEN f.regs[SaveOrder[m - n]]
      ELSE IF m <= n + 21 THEN f.regs[SystemOrder[m - n - 15]]
      ELSE 31

(* How many of them there are at an instruction: of the vector's own stub,  *)
(* of a handler, and of common_stub.                                       *)
Depth(v, pc) ==
  LET n == FrameWords(v)
  IN  IF pc >= HandlerAddress(0) THEN n + 22
      ELSE IF pc >= StubBase(0) THEN 5 + ErrorWords(v) + (pc - StubBase(v))
      ELSE IF pc <= 16 THEN n + pc - 1
      ELSE IF pc <= 28 THEN n + 15 + (pc - 16) \div 2
      ELSE IF pc <= 31 THEN n + 21
      ELSE IF pc = 32 THEN n + 17
      ELSE IF pc <= 48 THEN n + 48 - pc
      ELSE n - 2

Within(v, pc) ==
  \/ pc \in 1 .. 49
  \/ pc \in StubBase(v) .. StubBase(v) + FrameWords(v) - 5 - ErrorWords(v)
  \/ pc >= HandlerAddress(0)

Entry(pc) == pc >= HandlerAddress(0) /\ (pc - HandlerAddress(0)) % 2 = 0

(* The registers that are still, or again, those of the frame.             *)
RegistersAt(f, rg, pc) ==
  /\ \A r \in CalleeSaved \cup Special : rg[r] = f.regs[r]
  /\ pc <= 16 \/ (pc >= StubBase(0) /\ pc < HandlerAddress(0)) => rg = f.regs
  /\ pc \in 17 .. 28 => \A r \in General \ {"rax"} : rg[r] = f.regs[r]
  /\ pc \in 17 .. 27 /\ pc % 2 = 1 => rg["rax"] = f.regs[SystemOrder[(pc - 15) \div 2]]
  /\ pc \in 29 .. 30 \/ Entry(pc) => rg["rdi"] = Aligned(f) + FrameWords(f.vector) + 21
  /\ pc \in 33 .. 49 => \A j \in 1 .. 15 : j >= 49 - pc => rg[SaveOrder[j]] = f.regs[SaveOrder[j]]

(* The interrupted stack is as it was, and d words are on it.              *)
StackAt(f, d, st) ==
  /\ Len(st) = Aligned(f) + d
  /\ \A m \in 1 .. Len(f.stack) : st[m] = f.stack[m]
  /\ \A m \in 1 .. d : \A k : k = Aligned(f) + m => st[k] = Word(f, m)

InStub(f, rg, pc, st) ==
  /\ Within(f.vector, pc) /\ RegistersAt(f, rg, pc) /\ StackAt(f, Depth(f.vector, pc), st)

(* A vector whose frame is a word too long is an exception, which is not    *)
(* raised within a stub.                                                   *)
Raisable(f) == f.vector \in Misframed => f.rip = Program \/ f.rip >= HandlerAddress(0)

Levels ==
  \A i \in 1 .. Len(frames) :
    /\ Raisable(frames[i]) /\ frames[i].regs["cs"] = 8
    /\ IF i = Len(frames) THEN InStub(frames[i], regs, rip, stack)
       ELSE InStub(frames[i], frames[i + 1].regs, frames[i + 1].rip, frames[i + 1].stack)

(* The levels rest on the program, and each stack on the one before it.    *)
Grounded == IF frames = <<>> THEN rip = Program ELSE frames[1].rip = Program
Under(u, t) == Len(u) <= Len(t) /\ \A m \in 1 .. Len(u) : u[m] = t[m]
Nested ==
  \A i \in 1 .. Len(frames) : \A j \in 1 .. Len(frames) :
    i < j => Under(frames[i].stack, frames[j].stack)

StubInv == TypeOK /\ regs["cs"] = 8 /\ Levels /\ Grounded /\ Nested

-----------------------------------------------------------------------------
(* The code.                                                               *)

IsJoin(c, a, b) ==
  /\ Len(c) = Len(a) + Len(b)
  /\ \A i \in 1 .. Len(a) : c[i] = a[i]
  /\ \A i \in 1 .. Len(b) : \A k : k = Len(a) + i => c[k] = b[i]

LEMMA Joined ==
  ASSUME NEW S, NEW a \in Seq(S), NEW b \in Seq(S)
  PROVE  IsJoin(a \o b, a, b) /\ a \o b \in Seq(S)
<1>1. PICK m \in Nat : m = Len(a)
  BY LenProperties
<1>2. PICK n \in Nat : n = Len(b)
  BY LenProperties
<1>3. PICK c : c = a \o b
  OBVIOUS
<1>4. /\ c \in Seq(S) /\ Len(c) = m + n
      /\ \A i \in 1 .. m + n : c[i] = IF i <= m THEN a[i] ELSE b[i - m]
  BY <1>1, <1>2, <1>3, ConcatProperties
<1>5. ASSUME NEW i \in 1 .. m PROVE c[i] = a[i]
  <2>1. i \in 1 .. m + n /\ i <= m
    OBVIOUS
  <2> QED
    BY <1>4, <2>1
<1>6. ASSUME NEW i \in 1 .. n, NEW k, k = m + i PROVE c[k] = b[i]
  <2>1. k \in 1 .. m + n /\ ~(k <= m) /\ k - m = i
    BY <1>6
  <2> QED
    BY <1>4, <2>1
<1>7. \A i \in 1 .. Len(a) : c[i] = a[i]
  BY <1>1, <1>5, Zenon
<1>8. \A i \in 1 .. Len(b) : \A k : k = Len(a) + i => c[k] = b[i]
  BY <1>1, <1>2, <1>6
<1>9. Len(c) = Len(a) + Len(b)
  BY <1>1, <1>2, <1>4
<1> QED
  BY <1>3, <1>4, <1>7, <1>8, <1>9, Zenon DEF IsJoin


LEMMA Orders ==
  /\ Len(SaveOrder) = 15 /\ DOMAIN SaveOrder = 1 .. 15
  /\ Len(SystemOrder) = 6 /\ DOMAIN SystemOrder = 1 .. 6
  /\ \A j \in 1 .. 15 : SaveOrder[j] \in General
  /\ \A j \in 1 .. 6 : SystemOrder[j] \in Special
<1>1. Len(SaveOrder) = 15 /\ DOMAIN SaveOrder = 1 .. 15
  BY DEF SaveOrder
<1>2. Len(SystemOrder) = 6 /\ DOMAIN SystemOrder = 1 .. 6
  BY DEF SystemOrder
<1>3. ASSUME NEW j \in 1 .. 15 PROVE SaveOrder[j] \in General
  BY DEF SaveOrder, General, CallerSaved, CalleeSaved
<1>4. ASSUME NEW j \in 1 .. 6 PROVE SystemOrder[j] \in Special
  BY DEF SystemOrder, Special
<1> QED
  BY <1>1, <1>2, <1>3, <1>4

(* The registers a handler may overwrite are among those that are saved.   *)
LEMMA AllSaved ==
  ASSUME NEW r \in General
  PROVE  \E j \in 1 .. 15 : SaveOrder[j] = r
<1>1. /\ SaveOrder[1] = "r15" /\ SaveOrder[2] = "r14" /\ SaveOrder[3] = "r13"
      /\ SaveOrder[4] = "r12" /\ SaveOrder[5] = "r11" /\ SaveOrder[6] = "r10"
      /\ SaveOrder[7] = "r9" /\ SaveOrder[8] = "r8"
  BY DEF SaveOrder
<1>2. /\ SaveOrder[9] = "rax" /\ SaveOrder[10] = "rbx" /\ SaveOrder[11] = "rcx"
      /\ SaveOrder[12] = "rdx" /\ SaveOrder[13] = "rsi" /\ SaveOrder[14] = "rdi"
      /\ SaveOrder[15] = "rbp"
  BY DEF SaveOrder
<1>3. r \in {"rax", "rcx", "rdx", "rsi", "rdi", "r8", "r9", "r10", "r11",
             "rbx", "rbp", "r12", "r13", "r14", "r15"}
  BY DEF General, CallerSaved, CalleeSaved
<1>4. {1, 2, 3, 4, 5, 6, 7, 8, 9, 10, 11, 12, 13, 14, 15} \subseteq 1 .. 15
  OBVIOUS
<1> QED
  BY <1>1, <1>2, <1>3, <1>4, Zenon

Op ==
  {<<"push", r>> : r \in Registers} \cup {<<"pop", r>> : r \in Registers}
    \cup {<<"movrax", r>> : r \in Registers}
    \cup {<<"leardi", 0>>, <<"loadrax", 15>>, <<"call", 0>>,
          <<"addrsp", 4>>, <<"addrsp", 2>>, <<"iretq", 0>>}

LEMMA CodeParts ==
  /\ Pushes(SaveOrder) \in Seq(Op) /\ Len(Pushes(SaveOrder)) = 15
  /\ PushesViaRax(SystemOrder) \in Seq(Op) /\ Len(PushesViaRax(SystemOrder)) = 12
  /\ Dispatch \in Seq(Op) /\ Len(Dispatch) = 3
  /\ Leave \in Seq(Op) /\ Len(Leave) = 2
  /\ Pops(SaveOrder) \in Seq(Op) /\ Len(Pops(SaveOrder)) = 15
  /\ Finish \in Seq(Op) /\ Len(Finish) = 2
<1>1. \A j \in 1 .. 15 : SaveOrder[j] \in Registers
  BY Orders DEF Registers
<1>2. \A j \in 1 .. 6 : SystemOrder[j] \in Registers
  BY Orders DEF Registers
<1>3. Pushes(SaveOrder) \in Seq(Op) /\ Len(Pushes(SaveOrder)) = 15
  <2>1. Pushes(SaveOrder) = [i \in 1 .. 15 |-> <<"push", SaveOrder[i]>>]
    BY Orders DEF Pushes
  <2>2. \A i \in 1 .. 15 : <<"push", SaveOrder[i]>> \in Op
    BY <1>1 DEF Op
  <2> QED
    BY <2>1, <2>2
<1>4. PushesViaRax(SystemOrder) \in Seq(Op) /\ Len(PushesViaRax(SystemOrder)) = 12
  <2>1. PushesViaRax(SystemOrder) =
          [i \in 1 .. 12 |-> IF i % 2 = 1 THEN <<"movrax", SystemOrder[(i + 1) \div 2]>>
                                          ELSE <<"push", "rax">>]
    BY Orders DEF PushesViaRax
  <2>2. ASSUME NEW i \in 1 .. 12, i % 2 = 1 PROVE <<"movrax", SystemOrder[(i + 1) \div 2]>> \in Op
    <3>1. (i + 1) \div 2 \in 1 .. 6
      OBVIOUS
    <3> QED
      BY <1>2, <3>1 DEF Op
  <2>3. <<"push", "rax">> \in Op
    BY DEF Op, Registers, General, CallerSaved
  <2> QED
    BY <2>1, <2>2, <2>3
<1>5. Dispatch \in Seq(Op) /\ Len(Dispatch) = 3
  BY DEF Dispatch, Op
<1>6. Leave \in Seq(Op) /\ Len(Leave) = 2
  BY DEF Leave, Op
<1>7. Pops(SaveOrder) \in Seq(Op) /\ Len(Pops(SaveOrder)) = 15
  <2>1. Pops(SaveOrder) = [i \in 1 .. 15 |-> <<"pop", SaveOrder[16 - i]>>]
    BY Orders DEF Pops
  <2>2. ASSUME NEW i \in 1 .. 15 PROVE <<"pop", SaveOrder[16 - i]>> \in Op
    <3>1. 16 - i \in 1 .. 15
      OBVIOUS
    <3> QED
      BY <1>1, <3>1 DEF Op
  <2> QED
    BY <2>1, <2>2
<1>8. Finish \in Seq(Op) /\ Len(Finish) = 2
  BY DEF Finish, Op
<1> QED
  BY <1>3, <1>4, <1>5, <1>6, <1>7, <1>8

LEMMA OddEven ==
  ASSUME NEW j \in 1 .. 12, NEW i, i = 15 + j
  PROVE  j % 2 = 1 <=> i % 2 = 0
<1>1. j % 2 \in 0 .. 1
  OBVIOUS
<1>2. CASE j % 2 = 1
  BY <1>2
<1>3. CASE j % 2 = 0
  BY <1>3
<1> QED
  BY <1>1, <1>2, <1>3

(* common_stub, instruction by instruction.                                *)
LEMMA CommonStub ==
  /\ \A i \in 1 .. 15 : common_stub[i] = <<"push", SaveOrder[i]>>
  /\ \A i \in 16 .. 27 :
       common_stub[i] = IF i % 2 = 0 THEN <<"movrax", SystemOrder[(i - 14) \div 2]>>
                                     ELSE <<"push", "rax">>
  /\ common_stub[28] = <<"leardi", 0>> /\ common_stub[29] = <<"loadrax", 15>>
  /\ common_stub[30] = <<"call", 0>>
  /\ common_stub[31] = <<"addrsp", 4>> /\ common_stub[32] = <<"addrsp", 2>>
  /\ \A i \in 33 .. 47 : common_stub[i] = <<"pop", SaveOrder[48 - i]>>
  /\ common_stub[48] = <<"addrsp", 2>> /\ common_stub[49] = <<"iretq", 0>>
<1>1. PICK p \in Seq(Op) : p = Pushes(SaveOrder) /\ Len(p) = 15
  BY CodeParts, Zenon
<1>2. PICK q \in Seq(Op) : q = PushesViaRax(SystemOrder) /\ Len(q) = 12
  BY CodeParts, Zenon
<1>3. PICK d \in Seq(Op) : d = Dispatch /\ Len(d) = 3
  BY CodeParts, Zenon
<1>4. PICK l \in Seq(Op) : l = Leave /\ Len(l) = 2
  BY CodeParts, Zenon
<1>5. PICK o \in Seq(Op) : o = Pops(SaveOrder) /\ Len(o) = 15
  BY CodeParts, Zenon
<1>6. PICK f \in Seq(Op) : f = Finish /\ Len(f) = 2
  BY CodeParts, Zenon
<1>7. PICK c2 \in Seq(Op) :
        /\ c2 = p \o q /\ Len(c2) = 27
        /\ \A i \in 1 .. 15 : c2[i] = p[i]
        /\ \A i \in 1 .. 12 : \A k : k = 15 + i => c2[k] = q[i]
  <2>1. PICK c \in Seq(Op) : c = p \o q /\ IsJoin(c, p, q)
    BY Joined, Zenon
  <2>2. Len(c) = 27
    <3>1. Len(c) = Len(p) + Len(q)
      BY <2>1, Zenon DEF IsJoin
    <3> QED
      BY <1>1, <1>2, <3>1
  <2>3. ASSUME NEW i \in 1 .. 15 PROVE c[i] = p[i]
    <3>1. i \in 1 .. Len(p)
      BY <1>1
    <3> QED
      BY <2>1, <3>1, Zenon DEF IsJoin
  <2>4. ASSUME NEW i \in 1 .. 12, NEW k, k = 15 + i PROVE c[k] = q[i]
    <3>1. i \in 1 .. Len(q) /\ k = Len(p) + i
      BY <1>1, <1>2, <2>4
    <3> QED
      BY <2>1, <3>1, Zenon DEF IsJoin
  <2> QED
    BY <2>1, <2>2, <2>3, <2>4, Zenon
<1>8. PICK c3 \in Seq(Op) :
        /\ c3 = c2 \o d /\ Len(c3) = 30
        /\ \A i \in 1 .. 27 : c3[i] = c2[i]
        /\ \A i \in 1 .. 3 : \A k : k = 27 + i => c3[k] = d[i]
  <2>1. PICK c \in Seq(Op) : c = c2 \o d /\ IsJoin(c, c2, d)
    BY Joined, Zenon
  <2>2. Len(c) = 30
    <3>1. Len(c) = Len(c2) + Len(d)
      BY <2>1, Zenon DEF IsJoin
    <3> QED
      BY <1>7, <1>3, <3>1
  <2>3. ASSUME NEW i \in 1 .. 27 PROVE c[i] = c2[i]
    <3>1. i \in 1 .. Len(c2)
      BY <1>7
    <3> QED
      BY <2>1, <3>1, Zenon DEF IsJoin
  <2>4. ASSUME NEW i \in 1 .. 3, NEW k, k = 27 + i PROVE c[k] = d[i]
    <3>1. i \in 1 .. Len(d) /\ k = Len(c2) + i
      BY <1>7, <1>3, <2>4
    <3> QED
      BY <2>1, <3>1, Zenon DEF IsJoin
  <2> QED
    BY <2>1, <2>2, <2>3, <2>4, Zenon
<1>9. PICK c4 \in Seq(Op) :
        /\ c4 = c3 \o l /\ Len(c4) = 32
        /\ \A i \in 1 .. 30 : c4[i] = c3[i]
        /\ \A i \in 1 .. 2 : \A k : k = 30 + i => c4[k] = l[i]
  <2>1. PICK c \in Seq(Op) : c = c3 \o l /\ IsJoin(c, c3, l)
    BY Joined, Zenon
  <2>2. Len(c) = 32
    <3>1. Len(c) = Len(c3) + Len(l)
      BY <2>1, Zenon DEF IsJoin
    <3> QED
      BY <1>8, <1>4, <3>1
  <2>3. ASSUME NEW i \in 1 .. 30 PROVE c[i] = c3[i]
    <3>1. i \in 1 .. Len(c3)
      BY <1>8
    <3> QED
      BY <2>1, <3>1, Zenon DEF IsJoin
  <2>4. ASSUME NEW i \in 1 .. 2, NEW k, k = 30 + i PROVE c[k] = l[i]
    <3>1. i \in 1 .. Len(l) /\ k = Len(c3) + i
      BY <1>8, <1>4, <2>4
    <3> QED
      BY <2>1, <3>1, Zenon DEF IsJoin
  <2> QED
    BY <2>1, <2>2, <2>3, <2>4, Zenon
<1>10. PICK c5 \in Seq(Op) :
        /\ c5 = c4 \o o /\ Len(c5) = 47
        /\ \A i \in 1 .. 32 : c5[i] = c4[i]
        /\ \A i \in 1 .. 15 : \A k : k = 32 + i => c5[k] = o[i]
  <2>1. PICK c \in Seq(Op) : c = c4 \o o /\ IsJoin(c, c4, o)
    BY Joined, Zenon
  <2>2. Len(c) = 47
    <3>1. Len(c) = Len(c4) + Len(o)
      BY <2>1, Zenon DEF IsJoin
    <3> QED
      BY <1>9, <1>5, <3>1
  <2>3. ASSUME NEW i \in 1 .. 32 PROVE c[i] = c4[i]
    <3>1. i \in 1 .. Len(c4)
      BY <1>9
    <3> QED
      BY <2>1, <3>1, Zenon DEF IsJoin
  <2>4. ASSUME NEW i \in 1 .. 15, NEW k, k = 32 + i PROVE c[k] = o[i]
    <3>1. i \in 1 .. Len(o) /\ k = Len(c4) + i
      BY <1>9, <1>5, <2>4
    <3> QED
      BY <2>1, <3>1, Zenon DEF IsJoin
  <2> QED
    BY <2>1, <2>2, <2>3, <2>4, Zenon
<1>11. PICK c6 \in Seq(Op) :
        /\ c6 = c5 \o f /\ Len(c6) = 49
        /\ \A i \in 1 .. 47 : c6[i] = c5[i]
        /\ \A i \in 1 .. 2 : \A k : k = 47 + i => c6[k] = f[i]
  <2>1. PICK c \in Seq(Op) : c = c5 \o f /\ IsJoin(c, c5, f)
    BY Joined, Zenon
  <2>2. Len(c) = 49
    <3>1. Len(c) = Len(c5) + Len(f)
      BY <2>1, Zenon DEF IsJoin
    <3> QED
      BY <1>10, <1>6, <3>1
  <2>3. ASSUME NEW i \in 1 .. 47 PROVE c[i] = c5[i]
    <3>1. i \in 1 .. Len(c5)
      BY <1>10
    <3> QED
      BY <2>1, <3>1, Zenon DEF IsJoin
  <2>4. ASSUME NEW i \in 1 .. 2, NEW k, k = 47 + i PROVE c[k] = f[i]
    <3>1. i \in 1 .. Len(f) /\ k = Len(c5) + i
      BY <1>10, <1>6, <2>4
    <3> QED
      BY <2>1, <3>1, Zenon DEF IsJoin
  <2> QED
    BY <2>1, <2>2, <2>3, <2>4, Zenon
<1>12. c6 = common_stub
  BY <1>1, <1>2, <1>3, <1>4, <1>5, <1>6, <1>7, <1>8, <1>9, <1>10, <1>11, Zenon DEF common_stub
<1>13. ASSUME NEW i \in 1 .. 15 PROVE c6[i] = <<"push", SaveOrder[i]>>
  <2>1. i \in 1 .. 27 /\ i \in 1 .. 30 /\ i \in 1 .. 32 /\ i \in 1 .. 47
    OBVIOUS
  <2>2. c6[i] = c5[i] /\ c5[i] = c4[i] /\ c4[i] = c3[i] /\ c3[i] = c2[i]
    BY <1>8, <1>9, <1>10, <1>11, <2>1, Zenon
  <2>3. c2[i] = p[i]
    BY <1>7, Zenon
  <2>4. p[i] = <<"push", SaveOrder[i]>>
    BY <1>1, Orders DEF Pushes
  <2> QED
    BY <2>2, <2>3, <2>4, Zenon
<1>14. ASSUME NEW i \in 16 .. 27
       PROVE  c6[i] = IF i % 2 = 0 THEN <<"movrax", SystemOrder[(i - 14) \div 2]>>
                                   ELSE <<"push", "rax">>
  <2>1. PICK j \in 1 .. 12 : i = 15 + j
    OBVIOUS
  <2>2. i \in 1 .. 27 /\ i \in 1 .. 30 /\ i \in 1 .. 32 /\ i \in 1 .. 47
    OBVIOUS
  <2>3. c6[i] = c5[i] /\ c5[i] = c4[i] /\ c4[i] = c3[i] /\ c3[i] = c2[i]
    BY <1>8, <1>9, <1>10, <1>11, <2>2, Zenon
  <2>4. q[j] = IF j % 2 = 1 THEN <<"movrax", SystemOrder[(j + 1) \div 2]>> ELSE <<"push", "rax">>
    BY <1>2, Orders DEF PushesViaRax
  <2>5. j % 2 = 1 <=> i % 2 = 0
    BY <2>1, OddEven, Zenon
  <2>6. j + 1 = i - 14
    BY <2>1
  <2>7. c2[i] = q[j]
    BY <1>7, <2>1, Zenon
  <2> QED
    BY <2>3, <2>4, <2>5, <2>6, <2>7, Zenon
<1>15. c6[28] = d[1] /\ c6[29] = d[2] /\ c6[30] = d[3]
  <2>1. ASSUME NEW i \in 1 .. 3, NEW k, k = 27 + i PROVE c6[k] = d[i]
    <3>1. k \in 1 .. 30 /\ k \in 1 .. 32 /\ k \in 1 .. 47
      BY <2>1
    <3>2. c6[k] = c5[k] /\ c5[k] = c4[k] /\ c4[k] = c3[k]
      BY <1>9, <1>10, <1>11, <3>1, Zenon
    <3>3. c3[k] = d[i]
      BY <1>8, <2>1, Zenon
    <3> QED
      BY <3>2, <3>3, Zenon
  <2> QED
    BY <2>1
<1>16. c6[31] = l[1] /\ c6[32] = l[2]
  <2>1. /\ 1 \in 1 .. 2 /\ 2 \in 1 .. 2 /\ 31 = 30 + 1 /\ 32 = 30 + 2
        /\ 31 \in 1 .. 32 /\ 32 \in 1 .. 32 /\ 31 \in 1 .. 47 /\ 32 \in 1 .. 47
    OBVIOUS
  <2>2. c4[31] = l[1] /\ c4[32] = l[2]
    BY <1>9, <2>1, Zenon
  <2>3. c5[31] = c4[31] /\ c5[32] = c4[32]
    BY <1>10, <2>1, Zenon
  <2>4. c6[31] = c5[31] /\ c6[32] = c5[32]
    BY <1>11, <2>1, Zenon
  <2> QED
    BY <2>2, <2>3, <2>4, Zenon
<1>17. ASSUME NEW i \in 33 .. 47 PROVE c6[i] = <<"pop", SaveOrder[48 - i]>>
  <2>1. PICK j \in 1 .. 15 : i = 32 + j
    OBVIOUS
  <2>2. i \in 1 .. 47 /\ 16 - j = 48 - i
    BY <2>1
  <2>3. c6[i] = c5[i] /\ c5[i] = o[j]
    BY <1>10, <1>11, <2>1, <2>2, Zenon
  <2>4. o[j] = <<"pop", SaveOrder[16 - j]>>
    BY <1>5, Orders DEF Pops
  <2> QED
    BY <2>2, <2>3, <2>4, Zenon
<1>18. c6[48] = f[1] /\ c6[49] = f[2]
  <2>1. 1 \in 1 .. 2 /\ 2 \in 1 .. 2 /\ 48 = 47 + 1 /\ 49 = 47 + 2
    OBVIOUS
  <2>2. c6[48] = f[1]
    BY <1>11, <2>1, Zenon
  <2>3. c6[49] = f[2]
    <3>1. \A i \in 1 .. 2 : \A k : k = 47 + i => c6[k] = f[i]
      BY <1>11, Zenon
    <3> QED
      BY <2>1, <3>1
  <2> QED
    BY <2>2, <2>3
<1>19. d[1] = <<"leardi", 0>> /\ d[2] = <<"loadrax", 15>> /\ d[3] = <<"call", 0>>
  BY <1>3 DEF Dispatch
<1>20. l[1] = <<"addrsp", 4>> /\ l[2] = <<"addrsp", 2>>
  BY <1>4 DEF Leave
<1>21. f[1] = <<"addrsp", 2>> /\ f[2] = <<"iretq", 0>>
  BY <1>6 DEF Finish
<1> QED
  BY <1>12, <1>13, <1>14, <1>15, <1>16, <1>17, <1>18, <1>19, <1>20, <1>21, Zenon

-----------------------------------------------------------------------------
(* Frames and their words.                                                 *)

LEMMA FrameFields ==
  ASSUME NEW f \in Frame
  PROVE  /\ f.vector \in 0 .. 255 /\ f.regs \in [Registers -> Nat] /\ f.rip \in Nat
         /\ f.rflagsIF \in BOOLEAN /\ f.stack \in Seq(Nat) /\ Len(f.stack) \in Nat
<1>1. /\ f.vector \in 0 .. 255 /\ f.regs \in [Registers -> Nat] /\ f.rip \in Nat
      /\ f.rflagsIF \in BOOLEAN /\ f.stack \in Seq(Nat)
  BY DEF Frame
<1>2. Len(f.stack) \in Nat
  BY <1>1, LenProperties
<1> QED
  BY <1>1, <1>2

LEMMA AlignedNat ==
  ASSUME NEW f \in Frame
  PROVE  /\ Aligned(f) \in Nat /\ Len(f.stack) <= Aligned(f) /\ Aligned(f) % 2 = 0
<1>1. PICK n \in Nat : n = Len(f.stack)
  BY FrameFields
<1>2. n + (n % 2) \in Nat /\ n <= n + (n % 2) /\ (n + (n % 2)) % 2 = 0
  <2>1. n % 2 \in 0 .. 1
    OBVIOUS
  <2>2. CASE n % 2 = 0
    BY <2>2
  <2>3. CASE n % 2 = 1
    BY <2>3
  <2> QED
    BY <2>1, <2>2, <2>3
<1> QED
  BY <1>1, <1>2 DEF Aligned

IsAppended(t, st, x) ==
  /\ Len(t) = Len(st) + 1
  /\ (\A m \in 1 .. Len(st) : t[m] = st[m]) /\ \A k : k = Len(st) + 1 => t[k] = x

LEMMA Appended ==
  ASSUME NEW st \in Seq(Nat), NEW x \in Nat
  PROVE  Append(st, x) \in Seq(Nat) /\ IsAppended(Append(st, x), st, x)
<1>1. PICK n \in Nat : n = Len(st)
  BY LenProperties
<1>2. PICK t : t = Append(st, x)
  OBVIOUS
<1>3. t \in Seq(Nat)
  BY <1>2, AppendProperties
<1>4. Len(t) = n + 1
  BY <1>1, <1>2, AppendProperties
<1>5. \A m \in 1 .. n : t[m] = st[m]
  BY <1>1, <1>2, AppendProperties
<1>6. t[n + 1] = x
  BY <1>1, <1>2, AppendProperties
<1>7. IsAppended(t, st, x)
  BY <1>1, <1>4, <1>5, <1>6 DEF IsAppended
<1> QED
  BY <1>2, <1>3, <1>7, Zenon

LEMMA Shortened ==
  ASSUME NEW st \in Seq(Nat), NEW n \in Nat, n <= Len(st)
  PROVE  \E t \in Seq(Nat) :
           t = SubSeq(st, 1, n) /\ Len(t) = n /\ \A m \in 1 .. n : t[m] = st[m]
<1>1. PICK l \in Nat : l = Len(st) /\ n <= l
  BY LenProperties
<1>2. \A m \in 1 .. l : st[m] \in Nat
  BY <1>1, LenProperties
<1>3. \A m \in 1 .. n : st[m] \in Nat
  BY <1>1, <1>2
<1>4. PICK t : t = SubSeq(st, 1, n)
  OBVIOUS
<1>5. n \in Int /\ 1 \in Int
  OBVIOUS
<1>6. /\ t \in Seq(Nat) /\ Len(t) = IF 1 <= n THEN n - 1 + 1 ELSE 0
      /\ \A i \in 1 .. n - 1 + 1 : t[i] = st[1 + i - 1]
  BY <1>3, <1>4, <1>5, SubSeqProperties
<1> QED
  BY <1>4, <1>6

LEMMA PushedWord ==
  ASSUME NEW f \in Frame, NEW st \in Seq(Nat), NEW d \in Nat, NEW x \in Nat,
         StackAt(f, d, st), x = Word(f, d + 1)
  PROVE  Append(st, x) \in Seq(Nat) /\ StackAt(f, d + 1, Append(st, x))
<1>1. PICK a \in Nat : a = Aligned(f) /\ Len(f.stack) <= a
  BY AlignedNat
<1>2. PICK l \in Nat : l = Len(f.stack) /\ l <= a
  BY <1>1, FrameFields
<1>3. PICK n \in Nat : n = Len(st) /\ n = a + d
  BY <1>1, LenProperties DEF StackAt
<1>4. PICK t \in Seq(Nat) :
        /\ t = Append(st, x) /\ Len(t) = n + 1
        /\ (\A m \in 1 .. n : t[m] = st[m]) /\ t[n + 1] = x
  <2>1. PICK t \in Seq(Nat) : t = Append(st, x) /\ IsAppended(t, st, x)
    BY Appended, Zenon
  <2>2. Len(t) = n + 1
    BY <1>3, <2>1 DEF IsAppended
  <2>3. \A m \in 1 .. n : t[m] = st[m]
    BY <1>3, <2>1 DEF IsAppended
  <2>4. t[n + 1] = x
    BY <1>3, <2>1 DEF IsAppended
  <2> QED
    BY <2>1, <2>2, <2>3, <2>4
<1>5. ASSUME NEW m \in 1 .. l PROVE t[m] = f.stack[m]
  <2>1. m \in 1 .. n
    BY <1>2, <1>3
  <2>2. st[m] = f.stack[m]
    BY <1>2 DEF StackAt
  <2> QED
    BY <1>4, <2>1, <2>2
<1>6. ASSUME NEW m \in 1 .. d + 1, NEW k, k = a + m PROVE t[k] = Word(f, m)
  <2>1. CASE m = d + 1
    <3>1. k = n + 1
      BY <1>3, <1>6, <2>1
    <3> QED
      BY <1>4, <2>1, <3>1
  <2>2. CASE m # d + 1
    <3>1. m \in 1 .. d /\ k \in 1 .. n
      BY <1>3, <1>6, <2>2
    <3>2. st[k] = Word(f, m)
      BY <1>1, <1>6, <3>1 DEF StackAt
    <3> QED
      BY <1>4, <3>1, <3>2
  <2> QED
    BY <2>1, <2>2
<1>7. Len(t) = a + (d + 1)
  BY <1>3, <1>4
<1>8. StackAt(f, d + 1, t)
  BY <1>1, <1>2, <1>5, <1>6, <1>7, Zenon DEF StackAt
<1> QED
  BY <1>4, <1>8, Zenon

LEMMA DroppedWords ==
  ASSUME NEW f \in Frame, NEW st \in Seq(Nat), NEW d \in Nat, NEW k \in Nat,
         StackAt(f, d + k, st)
  PROVE  /\ SubSeq(st, 1, Len(st) - k) \in Seq(Nat)
         /\ StackAt(f, d, SubSeq(st, 1, Len(st) - k))
<1>1. PICK a \in Nat : a = Aligned(f) /\ Len(f.stack) <= a
  BY AlignedNat
<1>2. PICK l \in Nat : l = Len(f.stack) /\ l <= a
  BY <1>1, FrameFields
<1>3. PICK n \in Nat : n = Len(st) /\ n = a + (d + k)
  BY <1>1, LenProperties DEF StackAt
<1>4. PICK e \in Nat : e = n - k /\ e = a + d /\ e <= n
  BY <1>3
<1>5. PICK t \in Seq(Nat) :
        t = SubSeq(st, 1, e) /\ Len(t) = e /\ \A m \in 1 .. e : t[m] = st[m]
  BY <1>3, <1>4, Shortened
<1>6. Len(t) = a + d /\ \A m \in 1 .. a + d : t[m] = st[m]
  BY <1>4, <1>5
<1>7. ASSUME NEW m \in 1 .. l PROVE t[m] = f.stack[m]
  <2>1. m \in 1 .. a + d
    BY <1>2
  <2>2. st[m] = f.stack[m]
    BY <1>2 DEF StackAt
  <2> QED
    BY <1>6, <2>1, <2>2
<1>8. ASSUME NEW m \in 1 .. d, NEW i, i = a + m PROVE t[i] = Word(f, m)
  <2>1. m \in 1 .. d + k /\ i \in 1 .. a + d
    BY <1>8
  <2>2. st[i] = Word(f, m)
    BY <1>1, <1>8, <2>1 DEF StackAt
  <2> QED
    BY <1>6, <2>1, <2>2
<1>9. StackAt(f, d, t)
  BY <1>1, <1>2, <1>6, <1>7, <1>8, Zenon DEF StackAt
<1> QED
  BY <1>3, <1>4, <1>5, <1>9

LEMMA WordOnTop ==
  ASSUME NEW f \in Frame, NEW st \in Seq(Nat), NEW d \in Nat, NEW k \in Nat,
         StackAt(f, d + k, st), d > 0
  PROVE  st[Len(st) - k] = Word(f, d)
<1>1. PICK a \in Nat : a = Aligned(f)
  BY AlignedNat
<1>2. PICK n \in Nat : n = Len(st) /\ n = a + (d + k)
  BY <1>1, LenProperties DEF StackAt
<1>3. d \in 1 .. d + k /\ n - k = a + d
  BY <1>2
<1>4. st[n - k] = Word(f, d)
  BY <1>1, <1>3 DEF StackAt
<1> QED
  BY <1>2, <1>4

-----------------------------------------------------------------------------
(* Where the instructions are, and how many words there are at each.       *)

(* The words the stub of v pushes besides the vector: none after an error   *)
(* code it knows of, a 0 otherwise.                                        *)
LEMMA StubShape ==
  ASSUME NEW v \in 0 .. 255
  PROVE  /\ ErrorWords(v) \in 0 .. 1
         /\ v \in ErrorStubs => FrameWords(v) = 7 /\ ErrorWords(v) = 1
         /\ v \notin ErrorStubs /\ v \notin Misframed => FrameWords(v) = 7 /\ ErrorWords(v) = 0
         /\ v \in Misframed => v \notin ErrorStubs /\ FrameWords(v) = 8 /\ ErrorWords(v) = 1
<1>1. v \in ErrorStubs => v \notin Misframed /\ v \in PushesErrorCode
  BY DEF ErrorStubs, Misframed, PushesErrorCode
<1>2. v \in Misframed => v \in PushesErrorCode
  BY DEF Misframed, PushesErrorCode
<1>3. v \in PushesErrorCode => v \in ErrorStubs \/ v \in Misframed
  BY DEF ErrorStubs, Misframed, PushesErrorCode
<1>4. v \in PushesErrorCode => ErrorWords(v) = 1
  BY DEF ErrorWords
<1>5. v \notin PushesErrorCode => ErrorWords(v) = 0
  BY DEF ErrorWords
<1>6. v \in Misframed => FrameWords(v) = 8
  BY DEF FrameWords
<1>7. v \notin Misframed => FrameWords(v) = 7
  BY DEF FrameWords
<1>8. 0 \in 0 .. 1 /\ 1 \in 0 .. 1
  OBVIOUS
<1>9. ErrorWords(v) \in 0 .. 1
  BY <1>4, <1>5, <1>8, Zenon
<1> QED
  BY <1>1, <1>2, <1>3, <1>4, <1>5, <1>6, <1>7, <1>9, Zenon

LEMMA SevenOrEight ==
  ASSUME NEW v \in 0 .. 255
  PROVE  FrameWords(v) \in 7 .. 8
  BY DEF FrameWords

(* Instruction k of the stub of v. *)
IsInstruction(pc, v, k) == pc = StubBase(v) + k

Code(pc) ==
  IF pc < StubBase(0) THEN common_stub[pc]
  ELSE STUB((pc - StubBase(0)) \div 10)[((pc - StubBase(0)) % 10) + 1]

LEMMA StubCode ==
  ASSUME NEW v \in 0 .. 255, NEW k \in 0 .. 2, NEW pc, IsInstruction(pc, v, k)
  PROVE  /\ k = 0 => Code(pc) = STUB(v)[1]
         /\ k = 1 => Code(pc) = STUB(v)[2]
         /\ k = 2 => Code(pc) = STUB(v)[3]
<1>1. StubBase(0) = 1000 /\ pc = 1000 + 10 * v + k
  BY DEF StubBase, IsInstruction
<1>2. (pc - 1000) \div 10 = v /\ (pc - 1000) % 10 = k /\ ~(pc < 1000)
  BY <1>1
<1>3. PICK i, l : i = (pc - StubBase(0)) \div 10 /\ l = ((pc - StubBase(0)) % 10) + 1
  OBVIOUS
<1>4. i = v /\ l = k + 1 /\ ~(pc < StubBase(0))
  BY <1>1, <1>2, <1>3
<1>5. Code(pc) = STUB(i)[l]
  BY <1>3, <1>4, Zenon DEF Code
<1> QED
  BY <1>4, <1>5

LEMMA CommonCode ==
  ASSUME NEW pc \in 1 .. 49
  PROVE  Code(pc) = common_stub[pc]
  BY DEF Code, StubBase

(* The code of common_stub and of the vector's own stub.                   *)
InCode(v, pc) == Within(v, pc) /\ pc < HandlerAddress(0)

(* What the stub of a vector does.                                         *)
OwnOp(v, pc) ==
  \E k \in 0 .. 2 :
    /\ IsInstruction(pc, v, k)
    /\ \/ /\ v \in ErrorStubs /\ k = 0
          /\ Code(pc)[1] = "pushi" /\ Code(pc)[2] = v
       \/ v \in ErrorStubs /\ k = 1 /\ Code(pc)[1] = "jmp" /\ Code(pc)[2] = 1
       \/ v \notin ErrorStubs /\ k = 0 /\ Code(pc)[1] = "pushi" /\ Code(pc)[2] = 0
       \/ v \notin ErrorStubs /\ k = 1 /\ Code(pc)[1] = "pushi" /\ Code(pc)[2] = v
       \/ v \notin ErrorStubs /\ k = 2 /\ Code(pc)[1] = "jmp" /\ Code(pc)[2] = 1

LEMMA OwnStub ==
  ASSUME NEW v \in 0 .. 255, NEW pc \in Nat, InCode(v, pc), pc \notin 1 .. 49
  PROVE  OwnOp(v, pc)
<1>1. pc \in StubBase(v) .. StubBase(v) + FrameWords(v) - 5 - ErrorWords(v)
  BY DEF Within, InCode, HandlerAddress
<1>2. StubBase(v) \in Nat
  BY DEF StubBase
<1>3. CASE v \in ErrorStubs
  <2>1. PICK k \in 0 .. 1 : IsInstruction(pc, v, k)
    BY <1>1, <1>2, <1>3, StubShape DEF IsInstruction
  <2>2. /\ k = 0 => Code(pc) = STUB(v)[1]
        /\ k = 1 => Code(pc) = STUB(v)[2]
        /\ k = 2 => Code(pc) = STUB(v)[3]
    <3>1. k \in 0 .. 2
      OBVIOUS
    <3> QED
      BY <2>1, <3>1, StubCode
  <2>3. STUB(v)[1] = <<"pushi", v>> /\ STUB(v)[2] = <<"jmp", 1>>
    BY <1>3 DEF STUB
  <2>4. CASE k = 0
    <3>1. Code(pc) = <<"pushi", v>>
      BY <2>2, <2>3, <2>4
    <3> QED
      BY <1>3, <2>1, <2>4, <3>1 DEF OwnOp
  <2>5. CASE k = 1
    <3>1. Code(pc) = <<"jmp", 1>>
      BY <2>2, <2>3, <2>5
    <3> QED
      BY <1>3, <2>1, <2>5, <3>1 DEF OwnOp
  <2> QED
    BY <2>4, <2>5
<1>4. CASE v \notin ErrorStubs
  <2>1. PICK k \in 0 .. 2 : IsInstruction(pc, v, k)
    <3>1. FrameWords(v) - 5 - ErrorWords(v) = 2
      BY <1>4, StubShape
    <3> QED
      BY <1>1, <1>2, <3>1, StubShape, SevenOrEight DEF IsInstruction
  <2>2. /\ k = 0 => Code(pc) = STUB(v)[1]
        /\ k = 1 => Code(pc) = STUB(v)[2]
        /\ k = 2 => Code(pc) = STUB(v)[3]
    <3>1. k \in 0 .. 2
      OBVIOUS
    <3> QED
      BY <2>1, <3>1, StubCode
  <2>3. STUB(v)[1] = <<"pushi", 0>> /\ STUB(v)[2] = <<"pushi", v>> /\ STUB(v)[3] = <<"jmp", 1>>
    BY <1>4 DEF STUB
  <2>4. CASE k = 0
    <3>1. Code(pc) = <<"pushi", 0>>
      BY <2>2, <2>3, <2>4
    <3> QED
      BY <1>4, <2>1, <2>4, <3>1 DEF OwnOp
  <2>5. CASE k = 1
    <3>1. Code(pc) = <<"pushi", v>>
      BY <2>2, <2>3, <2>5
    <3> QED
      BY <1>4, <2>1, <2>5, <3>1 DEF OwnOp
  <2>6. CASE k = 2
    <3>1. Code(pc) = <<"jmp", 1>>
      BY <2>2, <2>3, <2>6
    <3> QED
      BY <1>4, <2>1, <2>6, <3>1 DEF OwnOp
  <2> QED
    BY <2>4, <2>5, <2>6
<1> QED
  BY <1>3, <1>4

(* What common_stub does.                                                  *)
CommonOp(pc) ==
  \/ pc \in 1 .. 15 /\ Code(pc)[1] = "push" /\ Code(pc)[2] = SaveOrder[pc]
  \/ /\ pc \in 16 .. 27 /\ pc % 2 = 0
     /\ Code(pc)[1] = "movrax" /\ Code(pc)[2] = SystemOrder[(pc - 14) \div 2]
  \/ pc \in 16 .. 27 /\ pc % 2 = 1 /\ Code(pc)[1] = "push" /\ Code(pc)[2] = "rax"
  \/ pc = 28 /\ Code(pc)[1] = "leardi"
  \/ pc = 29 /\ Code(pc)[1] = "loadrax" /\ Code(pc)[2] = 15
  \/ pc = 30 /\ Code(pc)[1] = "call"
  \/ pc = 31 /\ Code(pc)[1] = "addrsp" /\ Code(pc)[2] = 4
  \/ pc = 32 /\ Code(pc)[1] = "addrsp" /\ Code(pc)[2] = 2
  \/ pc \in 33 .. 47 /\ Code(pc)[1] = "pop" /\ Code(pc)[2] = SaveOrder[48 - pc]
  \/ pc = 48 /\ Code(pc)[1] = "addrsp" /\ Code(pc)[2] = 2
  \/ pc = 49 /\ Code(pc)[1] = "iretq"

LEMMA CommonOps ==
  ASSUME NEW pc \in 1 .. 49
  PROVE  CommonOp(pc)
<1>1. PICK c : c = common_stub[pc]
  OBVIOUS
<1>2. Code(pc) = c
  BY <1>1, CommonCode
<1>3. CASE pc \in 1 .. 15
  <2>1. c = <<"push", SaveOrder[pc]>>
    BY <1>1, <1>3, CommonStub
  <2> QED
    BY <1>2, <1>3, <2>1 DEF CommonOp
<1>4. CASE pc \in 16 .. 27
  <2>1. c = IF pc % 2 = 0 THEN <<"movrax", SystemOrder[(pc - 14) \div 2]>> ELSE <<"push", "rax">>
    BY <1>1, <1>4, CommonStub
  <2>2. pc % 2 = 0 \/ pc % 2 = 1
    OBVIOUS
  <2> QED
    BY <1>2, <1>4, <2>1, <2>2 DEF CommonOp
<1>5. CASE pc \in 28 .. 32
  <2>1. /\ pc = 28 => c = <<"leardi", 0>>
        /\ pc = 29 => c = <<"loadrax", 15>>
        /\ pc = 30 => c = <<"call", 0>>
        /\ pc = 31 => c = <<"addrsp", 4>>
        /\ pc = 32 => c = <<"addrsp", 2>>
    BY <1>1, CommonStub
  <2> QED
    BY <1>2, <1>5, <2>1 DEF CommonOp
<1>6. CASE pc \in 33 .. 47
  <2>1. c = <<"pop", SaveOrder[48 - pc]>>
    BY <1>1, <1>6, CommonStub
  <2> QED
    BY <1>2, <1>6, <2>1 DEF CommonOp
<1>7. CASE pc \in 48 .. 49
  <2>1. /\ pc = 48 => c = <<"addrsp", 2>>
        /\ pc = 49 => c = <<"iretq", 0>>
    BY <1>1, CommonStub
  <2> QED
    BY <1>2, <1>7, <2>1 DEF CommonOp
<1> QED
  BY <1>3, <1>4, <1>5, <1>6, <1>7

LEMMA Decoded ==
  ASSUME NEW v \in 0 .. 255, NEW pc \in Nat, InCode(v, pc)
  PROVE  CommonOp(pc) \/ OwnOp(v, pc)
<1>1. CASE pc \in 1 .. 49
  BY <1>1, CommonOps, Zenon
<1>2. CASE pc \notin 1 .. 49
  BY <1>2, OwnStub, Zenon
<1> QED
  BY <1>1, <1>2

LEMMA Words ==
  ASSUME NEW f \in Frame, NEW n \in 7 .. 8, n = FrameWords(f.vector)
  PROVE  /\ Word(f, 1) = f.regs["ss"] /\ Word(f, 2) = Len(f.stack)
         /\ Word(f, 3) = (IF f.rflagsIF THEN 1 ELSE 0)
         /\ Word(f, 4) = f.regs["cs"] /\ Word(f, 5) = f.rip
         /\ Word(f, 6) = (IF f.vector \in PushesErrorCode THEN ErrorCode ELSE 0)
         /\ n = 8 => Word(f, 7) = 0
         /\ Word(f, n) = f.vector
  BY DEF Word

LEMMA SavedWords ==
  ASSUME NEW f \in Frame, NEW n \in 7 .. 8, n = FrameWords(f.vector), NEW j \in 1 .. 15
  PROVE  Word(f, n + j) = f.regs[SaveOrder[j]]
<1>1. /\ n + j # 1 /\ n + j # 2 /\ n + j # 3 /\ n + j # 4 /\ n + j # 5 /\ n + j # 6
      /\ ~(n + j < n) /\ n + j # n /\ n + j <= n + 15 /\ (n + j) - n = j
  OBVIOUS
<1> QED
  BY <1>1 DEF Word

LEMMA SystemWords ==
  ASSUME NEW f \in Frame, NEW n \in 7 .. 8, n = FrameWords(f.vector), NEW j \in 1 .. 6
  PROVE  Word(f, n + 15 + j) = f.regs[SystemOrder[j]]
<1>1. PICK m \in Nat : m = n + 15 + j
  OBVIOUS
<1>2. /\ m # 1 /\ m # 2 /\ m # 3 /\ m # 4 /\ m # 5 /\ m # 6
      /\ ~(m < n) /\ m # n /\ ~(m <= n + 15) /\ m <= n + 21 /\ m - n - 15 = j
  BY <1>1
<1>3. Word(f, m) = f.regs[SystemOrder[j]]
  BY <1>2 DEF Word
<1> QED
  BY <1>1, <1>3

LEMMA ReturnWord ==
  ASSUME NEW f \in Frame, NEW n \in 7 .. 8, n = FrameWords(f.vector)
  PROVE  Word(f, n + 22) = 31
  BY DEF Word

-----------------------------------------------------------------------------
(* Where the instructions of each kind are.                                *)

LEMMA PushAt ==
  ASSUME NEW v \in 0 .. 255, NEW pc \in Nat, InCode(v, pc), Code(pc)[1] = "push"
  PROVE  \/ pc \in 1 .. 15 /\ Code(pc)[2] = SaveOrder[pc]
         \/ pc \in 16 .. 27 /\ pc % 2 = 1 /\ Code(pc)[2] = "rax"
<1>1. CommonOp(pc) \/ OwnOp(v, pc)
  BY Decoded, Zenon
<1> QED
  BY <1>1 DEF CommonOp, OwnOp

LEMMA PushImmediateAt ==
  ASSUME NEW v \in 0 .. 255, NEW pc \in Nat, InCode(v, pc), Code(pc)[1] = "pushi"
  PROVE  \E k \in 0 .. 1 :
           /\ IsInstruction(pc, v, k)
           /\ \/ v \in ErrorStubs /\ k = 0 /\ Code(pc)[2] = v
              \/ v \notin ErrorStubs /\ k = 0 /\ Code(pc)[2] = 0
              \/ v \notin ErrorStubs /\ k = 1 /\ Code(pc)[2] = v
<1>1. CommonOp(pc) \/ OwnOp(v, pc)
  BY Decoded, Zenon
<1> QED
  BY <1>1 DEF CommonOp, OwnOp

LEMMA JumpAt ==
  ASSUME NEW v \in 0 .. 255, NEW pc \in Nat, InCode(v, pc), Code(pc)[1] = "jmp"
  PROVE  \E k \in 0 .. 2 :
           /\ IsInstruction(pc, v, k)
           /\ \/ v \in ErrorStubs /\ k = 1 /\ Code(pc)[2] = 1
              \/ v \notin ErrorStubs /\ k = 2 /\ Code(pc)[2] = 1
<1>1. CommonOp(pc) \/ OwnOp(v, pc)
  BY Decoded, Zenon
<1>2. OwnOp(v, pc)
  BY <1>1 DEF CommonOp
<1> QED
  BY <1>2 DEF OwnOp

LEMMA MoveAt ==
  ASSUME NEW v \in 0 .. 255, NEW pc \in Nat, InCode(v, pc), Code(pc)[1] = "movrax"
  PROVE  pc \in 16 .. 27 /\ pc % 2 = 0 /\ Code(pc)[2] = SystemOrder[(pc - 14) \div 2]
<1>1. CommonOp(pc) \/ OwnOp(v, pc)
  BY Decoded, Zenon
<1> QED
  BY <1>1 DEF CommonOp, OwnOp

LEMMA ContextAt ==
  ASSUME NEW v \in 0 .. 255, NEW pc \in Nat, InCode(v, pc), Code(pc)[1] = "leardi"
  PROVE  pc = 28
<1>1. CommonOp(pc) \/ OwnOp(v, pc)
  BY Decoded, Zenon
<1> QED
  BY <1>1 DEF CommonOp, OwnOp

LEMMA LoadAt ==
  ASSUME NEW v \in 0 .. 255, NEW pc \in Nat, InCode(v, pc), Code(pc)[1] = "loadrax"
  PROVE  pc = 29 /\ Code(pc)[2] = 15
<1>1. CommonOp(pc) \/ OwnOp(v, pc)
  BY Decoded, Zenon
<1> QED
  BY <1>1 DEF CommonOp, OwnOp

LEMMA CallAt ==
  ASSUME NEW v \in 0 .. 255, NEW pc \in Nat, InCode(v, pc), Code(pc)[1] = "call"
  PROVE  pc = 30
<1>1. CommonOp(pc) \/ OwnOp(v, pc)
  BY Decoded, Zenon
<1> QED
  BY <1>1 DEF CommonOp, OwnOp

LEMMA AddRspAt ==
  ASSUME NEW v \in 0 .. 255, NEW pc \in Nat, InCode(v, pc), Code(pc)[1] = "addrsp"
  PROVE  \/ pc = 31 /\ Code(pc)[2] = 4
         \/ pc = 32 /\ Code(pc)[2] = 2
         \/ pc = 48 /\ Code(pc)[2] = 2
<1>1. CommonOp(pc) \/ OwnOp(v, pc)
  BY Decoded, Zenon
<1> QED
  BY <1>1 DEF CommonOp, OwnOp

LEMMA PopAt ==
  ASSUME NEW v \in 0 .. 255, NEW pc \in Nat, InCode(v, pc), Code(pc)[1] = "pop"
  PROVE  pc \in 33 .. 47 /\ Code(pc)[2] = SaveOrder[48 - pc]
<1>1. CommonOp(pc) \/ OwnOp(v, pc)
  BY Decoded, Zenon
<1> QED
  BY <1>1 DEF CommonOp, OwnOp

LEMMA ReturnAt ==
  ASSUME NEW v \in 0 .. 255, NEW pc \in Nat, InCode(v, pc), Code(pc)[1] = "iretq"
  PROVE  pc = 49
<1>1. CommonOp(pc) \/ OwnOp(v, pc)
  BY Decoded, Zenon
<1> QED
  BY <1>1 DEF CommonOp, OwnOp

-----------------------------------------------------------------------------
(* What each instruction does to the level it is executed in.              *)

Level(f, rg, pc, st) ==
  rg \in [Registers -> Nat] /\ pc \in Nat /\ st \in Seq(Nat) /\ InStub(f, rg, pc, st)

LEMMA RegisterNames ==
  /\ "rax" \in Registers /\ "rdi" \in Registers /\ "r10" \in Registers
  /\ "rax" \in General /\ "rdi" \in General
  /\ "rax" \notin CalleeSaved \cup Special /\ "rdi" \notin CalleeSaved \cup Special
  /\ "cs" \in Special /\ "ss" \in Special /\ SaveOrder[6] = "r10"
<1>1. "rax" \in Registers /\ "rdi" \in Registers /\ "r10" \in Registers
  BY DEF Registers, General, CallerSaved
<1>2. "rax" \in General /\ "rdi" \in General
  BY DEF General, CallerSaved
<1>3. "rax" \notin CalleeSaved \cup Special
  BY DEF CalleeSaved, Special
<1>4. "rdi" \notin CalleeSaved \cup Special
  BY DEF CalleeSaved, Special
<1>5. "cs" \in Special /\ "ss" \in Special
  BY DEF Special
<1>6. SaveOrder[6] = "r10"
  BY DEF SaveOrder
<1> QED
  BY <1>1, <1>2, <1>3, <1>4, <1>5, <1>6, Zenon

(* The code is followed by its next instruction.                           *)
LEMMA CommonWithin ==
  ASSUME NEW v, NEW pc \in 1 .. 49
  PROVE  Within(v, pc)
  BY DEF Within

LEMMA InCommon ==
  ASSUME NEW f, NEW rg, NEW pc \in 1 .. 49,
         \A r \in CalleeSaved \cup Special : rg[r] = f.regs[r],
         pc <= 16 => rg = f.regs,
         pc \in 17 .. 28 => \A r \in General \ {"rax"} : rg[r] = f.regs[r],
         pc \in 17 .. 27 /\ pc % 2 = 1 => rg["rax"] = f.regs[SystemOrder[(pc - 15) \div 2]],
         pc \in 29 .. 30 => rg["rdi"] = Aligned(f) + FrameWords(f.vector) + 21,
         pc \in 33 .. 49 => \A j \in 1 .. 15 :
                              j >= 49 - pc => rg[SaveOrder[j]] = f.regs[SaveOrder[j]]
  PROVE  RegistersAt(f, rg, pc)
<1>1. ~(pc >= StubBase(0)) /\ ~Entry(pc)
  BY DEF StubBase, HandlerAddress, Entry
<1> QED
  BY <1>1 DEF RegistersAt

(* At the first pushes, and while system registers go through rax.         *)
LEMMA InSaves ==
  ASSUME NEW f, NEW rg, NEW pc \in 1 .. 16, rg = f.regs
  PROVE  RegistersAt(f, rg, pc)
<1>1. /\ pc \notin 17 .. 28 /\ pc \notin 17 .. 27 /\ pc \notin 29 .. 30 /\ pc \notin 33 .. 49
      /\ ~Entry(pc)
  BY DEF HandlerAddress, Entry
<1> QED
  BY <1>1, Zenon DEF RegistersAt

LEMMA InSystemSaves ==
  ASSUME NEW f, NEW rg, NEW pc \in 17 .. 28,
         \A r \in CalleeSaved \cup Special : rg[r] = f.regs[r],
         \A r \in General \ {"rax"} : rg[r] = f.regs[r],
         pc % 2 = 1 => rg["rax"] = f.regs[SystemOrder[(pc - 15) \div 2]]
  PROVE  RegistersAt(f, rg, pc)
<1>1. /\ ~(pc <= 16) /\ ~(pc >= StubBase(0)) /\ pc \notin 29 .. 30 /\ pc \notin 33 .. 49
      /\ ~Entry(pc)
  BY DEF StubBase, HandlerAddress, Entry
<1> QED
  BY <1>1, Zenon DEF RegistersAt

LEMMA PushStep ==
  ASSUME NEW f \in Frame, NEW rg, NEW pc, NEW st, Level(f, rg, pc, st),
         InCode(f.vector, pc), Code(pc)[1] = "push", NEW npc, npc = pc + 1
  PROVE  Level(f, rg, npc, Append(st, rg[Code(pc)[2]]))
<1>1. rg \in [Registers -> Nat] /\ pc \in Nat /\ st \in Seq(Nat)
  BY Zenon DEF Level
<1>2. Within(f.vector, pc) /\ RegistersAt(f, rg, pc) /\ StackAt(f, Depth(f.vector, pc), st)
  BY Zenon DEF Level, InStub
<1>3. PICK v \in 0 .. 255 : v = f.vector
  BY FrameFields
<1>4. PICK n \in 7 .. 8 : n = FrameWords(v)
  BY SevenOrEight
<1>5. CASE pc \in 1 .. 15 /\ Code(pc)[2] = SaveOrder[pc]
  <2>1. PICK d \in Nat : d = n + pc - 1 /\ d + 1 = n + pc
    BY <1>5
  <2>2. Depth(v, pc) = d /\ Depth(v, npc) = d + 1
    BY <1>4, <1>5, <2>1 DEF Depth, StubBase, HandlerAddress
  <2>3. rg = f.regs
    BY <1>2, <1>5 DEF RegistersAt
  <2>4. SaveOrder[pc] \in Registers
    BY <1>5, Orders DEF Registers
  <2>5. PICK x \in Nat : x = rg[Code(pc)[2]]
    BY <1>1, <1>5, <2>4
  <2>6. x = Word(f, d + 1)
    BY <1>3, <1>4, <1>5, <2>1, <2>3, <2>5, SavedWords
  <2>7. Append(st, x) \in Seq(Nat) /\ StackAt(f, d + 1, Append(st, x))
    BY <1>1, <1>2, <1>3, <2>2, <2>6, PushedWord
  <2>8. npc \in 1 .. 49 /\ npc \in 1 .. 16
    BY <1>5
  <2>9. RegistersAt(f, rg, npc)
    BY <2>3, <2>8, InSaves, Zenon
  <2>10. StackAt(f, Depth(f.vector, npc), Append(st, x)) /\ Within(f.vector, npc)
    BY <1>3, <2>2, <2>7, <2>8, CommonWithin
  <2>11. npc \in Nat
    BY <1>1
  <2> QED
    BY <1>1, <2>5, <2>7, <2>9, <2>10, <2>11, Zenon DEF Level, InStub
<1>6. CASE pc \in 16 .. 27 /\ pc % 2 = 1 /\ Code(pc)[2] = "rax"
  <2>1. PICK j \in 1 .. 6 : pc = 15 + 2 * j /\ (pc - 15) \div 2 = j
    BY <1>6
  <2>2. PICK d \in Nat : d = n + 15 + j - 1 /\ d + 1 = n + 15 + j
    BY <2>1
  <2>3. Depth(v, pc) = d
    <3>1. pc \in 17 .. 27 /\ (pc - 16) \div 2 = j - 1
      BY <2>1
    <3> QED
      BY <1>4, <2>1, <2>2, <3>1 DEF Depth, StubBase, HandlerAddress
  <2>4. Depth(v, npc) = d + 1
    <3>1. npc \in 18 .. 28 /\ (npc - 16) \div 2 = j
      BY <2>1
    <3> QED
      BY <1>4, <2>1, <2>2, <3>1 DEF Depth, StubBase, HandlerAddress
  <2>5. PICK x \in Nat : x = rg[Code(pc)[2]]
    BY <1>1, <1>6, RegisterNames
  <2>6. x = f.regs[SystemOrder[j]]
    BY <1>2, <1>6, <2>1, <2>5 DEF RegistersAt
  <2>7. x = Word(f, d + 1)
    BY <1>3, <1>4, <2>2, <2>6, SystemWords
  <2>8. Append(st, x) \in Seq(Nat) /\ StackAt(f, d + 1, Append(st, x))
    BY <1>1, <1>2, <1>3, <2>3, <2>7, PushedWord
  <2>9. npc \in 1 .. 49 /\ npc \in 18 .. 28 /\ npc % 2 # 1
    BY <2>1
  <2>10. RegistersAt(f, rg, npc)
    <3>1. \A r \in CalleeSaved \cup Special : rg[r] = f.regs[r]
      BY <1>2 DEF RegistersAt
    <3>2. \A r \in General \ {"rax"} : rg[r] = f.regs[r]
      BY <1>2, <1>6 DEF RegistersAt
    <3>3. npc \in 17 .. 28
      BY <2>9
    <3> QED
      BY <2>9, <3>1, <3>2, <3>3, InSystemSaves, Zenon
  <2>11. StackAt(f, Depth(f.vector, npc), Append(st, x)) /\ Within(f.vector, npc)
    BY <1>3, <2>4, <2>8, <2>9, CommonWithin
  <2>12. npc \in Nat
    BY <1>1
  <2> QED
    BY <1>1, <2>5, <2>8, <2>10, <2>11, <2>12, Zenon DEF Level, InStub
<1> QED
  BY <1>1, <1>3, <1>5, <1>6, PushAt

LEMMA MoveStep ==
  ASSUME NEW f \in Frame, NEW rg, NEW pc, NEW st, Level(f, rg, pc, st),
         InCode(f.vector, pc), Code(pc)[1] = "movrax", NEW npc, npc = pc + 1
  PROVE  Level(f, [rg EXCEPT !["rax"] = rg[Code(pc)[2]]], npc, st)
<1>1. rg \in [Registers -> Nat] /\ pc \in Nat /\ st \in Seq(Nat)
  BY Zenon DEF Level
<1>2. Within(f.vector, pc) /\ RegistersAt(f, rg, pc) /\ StackAt(f, Depth(f.vector, pc), st)
  BY Zenon DEF Level, InStub
<1>3. PICK v \in 0 .. 255 : v = f.vector
  BY FrameFields
<1>4. PICK n \in 7 .. 8 : n = FrameWords(v)
  BY SevenOrEight
<1>5. pc \in 16 .. 27 /\ pc % 2 = 0 /\ Code(pc)[2] = SystemOrder[(pc - 14) \div 2]
  BY <1>1, <1>3, MoveAt
<1>6. PICK j \in 1 .. 6 : pc = 14 + 2 * j /\ (pc - 14) \div 2 = j
  BY <1>5
<1>7. PICK x \in Nat : x = rg[Code(pc)[2]] /\ x = f.regs[SystemOrder[j]]
  <2>1. SystemOrder[j] \in Special
    BY Orders
  <2>2. SystemOrder[j] \in Registers
    BY <2>1 DEF Registers
  <2>3. rg[SystemOrder[j]] = f.regs[SystemOrder[j]]
    BY <1>2, <2>1 DEF RegistersAt
  <2> QED
    BY <1>1, <1>5, <1>6, <2>2, <2>3
<1>8. PICK g : g = [rg EXCEPT !["rax"] = x]
  OBVIOUS
<1>9. g \in [Registers -> Nat] /\ g["rax"] = x /\ \A r \in Registers : r # "rax" => g[r] = rg[r]
  BY <1>1, <1>8, RegisterNames
<1>10. Depth(v, npc) = Depth(v, pc)
  <2>1. npc \in 17 .. 27 /\ (npc - 16) \div 2 = j - 1
    BY <1>6
  <2>2. Depth(v, npc) = n + 14 + j
    BY <1>4, <2>1 DEF Depth, StubBase, HandlerAddress
  <2>3. CASE j = 1
    <3>1. Depth(v, pc) = n + 15
      BY <1>4, <1>6, <2>3 DEF Depth, StubBase, HandlerAddress
    <3> QED
      BY <2>2, <2>3, <3>1
  <2>4. CASE j # 1
    <3>1. pc \in 17 .. 28 /\ (pc - 16) \div 2 = j - 1
      BY <1>6, <2>4
    <3>2. Depth(v, pc) = n + 14 + j
      BY <1>4, <3>1 DEF Depth, StubBase, HandlerAddress
    <3> QED
      BY <2>2, <3>2
  <2> QED
    BY <2>3, <2>4
<1>11. npc \in 1 .. 49 /\ npc \in 17 .. 28 /\ (npc - 15) \div 2 = j
  BY <1>6
<1>12. RegistersAt(f, g, npc)
  <2>1. \A r \in CalleeSaved \cup Special : g[r] = f.regs[r]
    <3>1. \A r \in CalleeSaved \cup Special : rg[r] = f.regs[r]
      BY <1>2 DEF RegistersAt
    <3>2. \A r \in CalleeSaved \cup Special : r \in Registers /\ r # "rax"
      BY RegisterNames DEF Registers, General
    <3> QED
      BY <1>9, <3>1, <3>2
  <2>2. \A r \in General \ {"rax"} : g[r] = f.regs[r]
    <3>1. \A r \in General \ {"rax"} : rg[r] = f.regs[r]
      BY <1>2, <1>5 DEF RegistersAt
    <3>2. \A r \in General \ {"rax"} : r \in Registers /\ r # "rax"
      BY DEF Registers
    <3> QED
      BY <1>9, <3>1, <3>2
  <2>3. g["rax"] = f.regs[SystemOrder[(npc - 15) \div 2]]
    BY <1>7, <1>9, <1>11
  <2> QED
    BY <1>11, <2>1, <2>2, <2>3, InSystemSaves, Zenon
<1>13. StackAt(f, Depth(f.vector, npc), st) /\ Within(f.vector, npc) /\ npc \in Nat
  BY <1>2, <1>3, <1>10, <1>11, CommonWithin
<1>14. Level(f, g, npc, st)
  BY <1>1, <1>9, <1>12, <1>13, Zenon DEF Level, InStub
<1> QED
  BY <1>7, <1>8, <1>14, Zenon

LEMMA ContextStep ==
  ASSUME NEW f \in Frame, NEW rg, NEW pc, NEW st, Level(f, rg, pc, st),
         InCode(f.vector, pc), Code(pc)[1] = "leardi", NEW npc, npc = pc + 1
  PROVE  Level(f, [rg EXCEPT !["rdi"] = Len(st)], npc, st)
<1>1. rg \in [Registers -> Nat] /\ pc \in Nat /\ st \in Seq(Nat)
  BY Zenon DEF Level
<1>2. Within(f.vector, pc) /\ RegistersAt(f, rg, pc) /\ StackAt(f, Depth(f.vector, pc), st)
  BY Zenon DEF Level, InStub
<1>3. PICK v \in 0 .. 255 : v = f.vector
  BY FrameFields
<1>4. PICK n \in 7 .. 8 : n = FrameWords(v)
  BY SevenOrEight
<1>5. pc = 28 /\ npc = 29
  <2>1. pc = 28
    BY <1>1, <1>3, ContextAt
  <2> QED
    BY <2>1
<1>6. Depth(v, pc) = n + 21 /\ Depth(v, npc) = n + 21
  BY <1>4, <1>5 DEF Depth, StubBase, HandlerAddress
<1>7. PICK x \in Nat : x = Len(st) /\ x = Aligned(f) + FrameWords(f.vector) + 21
  <2>1. Len(st) = Aligned(f) + (n + 21)
    BY <1>2, <1>3, <1>6 DEF StackAt
  <2>2. PICK a \in Nat : a = Aligned(f)
    BY AlignedNat
  <2> QED
    BY <1>1, <1>3, <1>4, <2>1, <2>2, LenProperties
<1>8. PICK g : g = [rg EXCEPT !["rdi"] = x]
  OBVIOUS
<1>9. g \in [Registers -> Nat] /\ g["rdi"] = x /\ \A r \in Registers : r # "rdi" => g[r] = rg[r]
  BY <1>1, <1>8, RegisterNames
<1>10. RegistersAt(f, g, npc)
  <2>1. \A r \in CalleeSaved \cup Special : g[r] = f.regs[r]
    <3>1. \A r \in CalleeSaved \cup Special : rg[r] = f.regs[r]
      BY <1>2 DEF RegistersAt
    <3>2. \A r \in CalleeSaved \cup Special : r \in Registers /\ r # "rdi"
      BY RegisterNames DEF Registers, General
    <3> QED
      BY <1>9, <3>1, <3>2
  <2>2. npc \in 1 .. 49
    BY <1>5
  <2>3. g["rdi"] = Aligned(f) + FrameWords(f.vector) + 21
    BY <1>7, <1>9
  <2> QED
    BY <1>5, <2>1, <2>2, <2>3, InCommon
<1>11. StackAt(f, Depth(f.vector, npc), st) /\ Within(f.vector, npc) /\ npc \in Nat
  <2>1. npc \in 1 .. 49 /\ npc \in Nat
    BY <1>5
  <2> QED
    BY <1>2, <1>3, <1>6, <2>1, CommonWithin
<1>12. Level(f, g, npc, st)
  BY <1>1, <1>9, <1>10, <1>11, Zenon DEF Level, InStub
<1> QED
  BY <1>7, <1>8, <1>12, Zenon

LEMMA LoadStep ==
  ASSUME NEW f \in Frame, NEW rg, NEW pc, NEW st, Level(f, rg, pc, st),
         InCode(f.vector, pc), Code(pc)[1] = "loadrax", NEW npc, npc = pc + 1
  PROVE  Level(f, [rg EXCEPT !["rax"] = st[Len(st) - Code(pc)[2]]], npc, st)
<1>1. rg \in [Registers -> Nat] /\ pc \in Nat /\ st \in Seq(Nat)
  BY Zenon DEF Level
<1>2. Within(f.vector, pc) /\ RegistersAt(f, rg, pc) /\ StackAt(f, Depth(f.vector, pc), st)
  BY Zenon DEF Level, InStub
<1>3. PICK v \in 0 .. 255 : v = f.vector
  BY FrameFields
<1>4. PICK n \in 7 .. 8 : n = FrameWords(v)
  BY SevenOrEight
<1>5. pc = 29 /\ npc = 30 /\ Code(pc)[2] = 15
  <2>1. pc = 29 /\ Code(pc)[2] = 15
    BY <1>1, <1>3, LoadAt
  <2> QED
    BY <2>1
<1>6. Depth(v, pc) = n + 21 /\ Depth(v, npc) = n + 21
  BY <1>4, <1>5 DEF Depth, StubBase, HandlerAddress
<1>7. PICK x \in Nat : x = st[Len(st) - Code(pc)[2]]
  <2>1. PICK l \in Nat : l = Len(st)
    BY <1>1, LenProperties
  <2>2. l = Aligned(f) + (n + 21)
    BY <1>2, <1>3, <1>6, <2>1 DEF StackAt
  <2>3. PICK a \in Nat : a = Aligned(f)
    BY AlignedNat
  <2>4. l - 15 \in 1 .. l
    BY <2>2, <2>3
  <2>5. st[l - 15] \in Nat
    BY <1>1, <2>1, <2>4, LenProperties
  <2> QED
    BY <1>5, <2>1, <2>5
<1>8. PICK g : g = [rg EXCEPT !["rax"] = x]
  OBVIOUS
<1>9. g \in [Registers -> Nat] /\ \A r \in Registers : r # "rax" => g[r] = rg[r]
  BY <1>1, <1>8, RegisterNames
<1>10. RegistersAt(f, g, npc)
  <2>1. \A r \in CalleeSaved \cup Special : g[r] = f.regs[r]
    <3>1. \A r \in CalleeSaved \cup Special : rg[r] = f.regs[r]
      BY <1>2 DEF RegistersAt
    <3>2. \A r \in CalleeSaved \cup Special : r \in Registers /\ r # "rax"
      BY RegisterNames DEF Registers, General
    <3> QED
      BY <1>9, <3>1, <3>2
  <2>2. npc \in 1 .. 49
    BY <1>5
  <2>3. rg["rdi"] = Aligned(f) + FrameWords(f.vector) + 21
    BY <1>2, <1>5 DEF RegistersAt
  <2>4. g["rdi"] = rg["rdi"]
    BY <1>9, RegisterNames
  <2> QED
    BY <1>5, <2>1, <2>2, <2>3, <2>4, InCommon
<1>11. StackAt(f, Depth(f.vector, npc), st) /\ Within(f.vector, npc) /\ npc \in Nat
  <2>1. npc \in 1 .. 49 /\ npc \in Nat
    BY <1>5
  <2> QED
    BY <1>2, <1>3, <1>6, <2>1, CommonWithin
<1>12. Level(f, g, npc, st)
  BY <1>1, <1>9, <1>10, <1>11, Zenon DEF Level, InStub
<1> QED
  BY <1>7, <1>8, <1>12, Zenon

Restored(f, rg, k) == \A j \in 1 .. 15 : j >= k => rg[SaveOrder[j]] = f.regs[SaveOrder[j]]

LEMMA InPops ==
  ASSUME NEW f, NEW rg, NEW pc \in 33 .. 49, NEW k, k = 49 - pc, Restored(f, rg, k),
         \A r \in CalleeSaved \cup Special : rg[r] = f.regs[r]
  PROVE  RegistersAt(f, rg, pc)
<1>1. /\ ~(pc >= StubBase(0)) /\ ~Entry(pc) /\ ~(pc <= 16) /\ pc \notin 17 .. 28
      /\ pc \notin 17 .. 27 /\ pc \notin 29 .. 30
  BY DEF StubBase, HandlerAddress, Entry
<1>2. \A j \in 1 .. 15 : j >= 49 - pc => rg[SaveOrder[j]] = f.regs[SaveOrder[j]]
  BY DEF Restored
<1> QED
  BY <1>1, <1>2, Zenon DEF RegistersAt

LEMMA PopsRestore ==
  ASSUME NEW f, NEW rg, NEW pc \in 33 .. 49, NEW k, k = 49 - pc, RegistersAt(f, rg, pc)
  PROVE  Restored(f, rg, k)
  BY DEF RegistersAt, Restored

LEMMA AddRspStep ==
  ASSUME NEW f \in Frame, NEW rg, NEW pc, NEW st, Level(f, rg, pc, st),
         InCode(f.vector, pc), Code(pc)[1] = "addrsp", NEW npc, npc = pc + 1
  PROVE  Level(f, rg, npc, SubSeq(st, 1, Len(st) - Code(pc)[2]))
<1>1. rg \in [Registers -> Nat] /\ pc \in Nat /\ st \in Seq(Nat)
  BY Zenon DEF Level
<1>2. Within(f.vector, pc) /\ RegistersAt(f, rg, pc) /\ StackAt(f, Depth(f.vector, pc), st)
  BY Zenon DEF Level, InStub
<1>3. PICK v \in 0 .. 255 : v = f.vector
  BY FrameFields
<1>4. PICK n \in 7 .. 8 : n = FrameWords(v)
  BY SevenOrEight
<1>5. \/ pc = 31 /\ Code(pc)[2] = 4
      \/ pc = 32 /\ Code(pc)[2] = 2
      \/ pc = 48 /\ Code(pc)[2] = 2
  BY <1>1, <1>3, AddRspAt
<1>6. PICK k \in Nat : k = Code(pc)[2]
  BY <1>5
<1>7. PICK d \in Nat : d = Depth(v, npc) /\ d + k = Depth(v, pc)
  <2>1. CASE pc = 31
    <3>1. Depth(v, pc) = n + 21 /\ Depth(v, npc) = n + 17 /\ k = 4
      BY <1>4, <1>5, <1>6, <2>1 DEF Depth, StubBase, HandlerAddress
    <3> QED
      BY <3>1
  <2>2. CASE pc = 32
    <3>1. Depth(v, pc) = n + 17 /\ Depth(v, npc) = n + 15 /\ k = 2
      BY <1>4, <1>5, <1>6, <2>2 DEF Depth, StubBase, HandlerAddress
    <3> QED
      BY <3>1
  <2>3. CASE pc = 48
    <3>1. Depth(v, pc) = n /\ Depth(v, npc) = n - 2 /\ k = 2
      BY <1>4, <1>5, <1>6, <2>3 DEF Depth, StubBase, HandlerAddress
    <3> QED
      BY <3>1
  <2> QED
    BY <1>5, <2>1, <2>2, <2>3
<1>8. PICK t \in Seq(Nat) : t = SubSeq(st, 1, Len(st) - k) /\ StackAt(f, d, t)
  <2>1. StackAt(f, d + k, st)
    BY <1>2, <1>3, <1>7
  <2> QED
    BY <1>1, <2>1, DroppedWords
<1>9. (pc = 31 => npc = 32) /\ (pc = 32 => npc = 33) /\ (pc = 48 => npc = 49)
  OBVIOUS
<1>10. npc \in 1 .. 49 /\ npc \in Nat /\ RegistersAt(f, rg, npc)
  <2>1. \A r \in CalleeSaved \cup Special : rg[r] = f.regs[r]
    BY <1>2 DEF RegistersAt
  <2>2. CASE pc = 31
    <3>1. npc = 32 /\ 32 \in 1 .. 49
      BY <1>9, <2>2
    <3> QED
      BY <2>1, <3>1, InCommon
  <2>3. CASE pc = 32
    <3>1. npc \in 33 .. 49 /\ 16 = 49 - npc
      BY <1>9, <2>3
    <3>2. Restored(f, rg, 16)
      BY DEF Restored
    <3> QED
      BY <2>1, <3>1, <3>2, InPops
  <2>4. CASE pc = 48
    <3>1. npc \in 33 .. 49 /\ 0 = 49 - npc
      BY <1>9, <2>4
    <3>2. Restored(f, rg, 0)
      <4>1. pc \in 33 .. 49 /\ 1 = 49 - pc
        BY <2>4
      <4>2. Restored(f, rg, 1)
        BY <1>2, <4>1, PopsRestore
      <4>3. \A j \in 1 .. 15 : j >= 1
        OBVIOUS
      <4> QED
        BY <4>2, <4>3, Zenon DEF Restored
    <3> QED
      BY <2>1, <3>1, <3>2, InPops
  <2> QED
    BY <1>5, <2>2, <2>3, <2>4
<1>11. StackAt(f, Depth(f.vector, npc), t) /\ Within(f.vector, npc)
  BY <1>3, <1>7, <1>8, <1>10, CommonWithin
<1>12. Level(f, rg, npc, t)
  BY <1>1, <1>8, <1>10, <1>11, Zenon DEF Level, InStub
<1> QED
  BY <1>6, <1>8, <1>12, Zenon

LEMMA PopStep ==
  ASSUME NEW f \in Frame, NEW rg, NEW pc, NEW st, Level(f, rg, pc, st),
         InCode(f.vector, pc), Code(pc)[1] = "pop", NEW npc, npc = pc + 1
  PROVE  Level(f, [rg EXCEPT ![Code(pc)[2]] = st[Len(st) - 0]], npc, SubSeq(st, 1, Len(st) - 1))
<1>1. rg \in [Registers -> Nat] /\ pc \in Nat /\ st \in Seq(Nat)
  BY Zenon DEF Level
<1>2. Within(f.vector, pc) /\ RegistersAt(f, rg, pc) /\ StackAt(f, Depth(f.vector, pc), st)
  BY Zenon DEF Level, InStub
<1>3. PICK v \in 0 .. 255 : v = f.vector
  BY FrameFields
<1>4. PICK n \in 7 .. 8 : n = FrameWords(v)
  BY SevenOrEight
<1>5. pc \in 33 .. 47 /\ Code(pc)[2] = SaveOrder[48 - pc]
  BY <1>1, <1>3, PopAt
<1>6. PICK j \in 1 .. 15 : j = 48 - pc
  BY <1>5
<1>7. PICK r : r = SaveOrder[j] /\ r \in General /\ r \in Registers /\ r = Code(pc)[2]
  BY <1>5, <1>6, Orders DEF Registers
<1>8. PICK d \in Nat : d = n + j /\ d > 0 /\ d - 1 \in Nat
  BY <1>6
<1>9. Depth(v, pc) = d /\ Depth(v, npc) = d - 1
  BY <1>4, <1>5, <1>6, <1>8 DEF Depth, StubBase, HandlerAddress
<1>10. PICK x \in Nat : x = st[Len(st) - 0] /\ x = f.regs[r]
  <2>1. 0 \in Nat /\ d + 0 = d
    BY <1>8
  <2>2. StackAt(f, d + 0, st)
    BY <1>2, <1>3, <1>9, <2>1
  <2>3. st[Len(st) - 0] = Word(f, d)
    BY <1>1, <1>8, <2>1, <2>2, WordOnTop
  <2>4. Word(f, d) = f.regs[r]
    BY <1>3, <1>4, <1>6, <1>7, <1>8, SavedWords
  <2>5. f.regs[r] \in Nat
    BY <1>7, FrameFields
  <2> QED
    BY <2>3, <2>4, <2>5
<1>11. PICK t \in Seq(Nat) : t = SubSeq(st, 1, Len(st) - 1) /\ StackAt(f, d - 1, t)
  <2>1. PICK c \in Nat : c = d - 1 /\ c + 1 = d
    BY <1>8
  <2>2. StackAt(f, c + 1, st)
    BY <1>2, <1>3, <1>9, <2>1
  <2> QED
    BY <1>1, <2>1, <2>2, DroppedWords
<1>12. PICK g : g = [rg EXCEPT ![r] = x]
  OBVIOUS
<1>13. g \in [Registers -> Nat] /\ g[r] = x /\ \A q \in Registers : q # r => g[q] = rg[q]
  BY <1>1, <1>7, <1>12
<1>14. npc \in 1 .. 49 /\ npc \in 34 .. 48 /\ npc \in Nat /\ 49 - npc = j
  BY <1>5, <1>6
<1>15. \A q \in Registers : rg[q] = f.regs[q] => g[q] = f.regs[q]
  BY <1>10, <1>13
<1>16. RegistersAt(f, g, npc)
  <2>1. \A q \in CalleeSaved \cup Special : g[q] = f.regs[q]
    <3>1. \A q \in CalleeSaved \cup Special : rg[q] = f.regs[q]
      BY <1>2 DEF RegistersAt
    <3>2. \A q \in CalleeSaved \cup Special : q \in Registers
      BY DEF Registers, General
    <3> QED
      BY <1>15, <3>1, <3>2
  <2>2. Restored(f, g, j)
    <3>1. PICK k \in Nat : k = 49 - pc /\ k = j + 1
      BY <1>5, <1>6
    <3>2. Restored(f, rg, k)
      <4>1. pc \in 33 .. 49
        BY <1>5
      <4> QED
        BY <1>2, <3>1, <4>1, PopsRestore
    <3>3. ASSUME NEW i \in 1 .. 15, i >= j PROVE g[SaveOrder[i]] = f.regs[SaveOrder[i]]
      <4>1. SaveOrder[i] \in Registers
        BY Orders DEF Registers
      <4>2. CASE i = j
        BY <1>7, <1>10, <1>13, <4>2
      <4>3. CASE i # j
        <5>1. i >= k
          BY <3>1, <3>3, <4>3
        <5>2. rg[SaveOrder[i]] = f.regs[SaveOrder[i]]
          BY <3>2, <5>1, Zenon DEF Restored
        <5> QED
          BY <1>15, <4>1, <5>2
      <4> QED
        BY <4>2, <4>3
    <3> QED
      BY <3>3, Zenon DEF Restored
  <2>3. npc \in 33 .. 49 /\ j = 49 - npc
    BY <1>14
  <2> QED
    BY <2>1, <2>2, <2>3, InPops
<1>17. StackAt(f, Depth(f.vector, npc), t) /\ Within(f.vector, npc)
  BY <1>3, <1>9, <1>11, <1>14, CommonWithin
<1>18. Level(f, g, npc, t)
  BY <1>11, <1>13, <1>14, <1>16, <1>17, Zenon DEF Level, InStub
<1> QED
  BY <1>7, <1>10, <1>11, <1>12, <1>18, Zenon

LEMMA InOwnStub ==
  ASSUME NEW f, NEW rg, NEW pc \in Nat, pc >= StubBase(0), pc < HandlerAddress(0), rg = f.regs
  PROVE  RegistersAt(f, rg, pc)
<1>1. /\ ~(pc >= HandlerAddress(0)) /\ ~Entry(pc) /\ pc \notin 17 .. 28
      /\ pc \notin 17 .. 27 /\ pc \notin 29 .. 30 /\ pc \notin 33 .. 49
  BY DEF StubBase, HandlerAddress, Entry
<1> QED
  BY <1>1, Zenon DEF RegistersAt

LEMMA PushImmediateStep ==
  ASSUME NEW f \in Frame, NEW rg, NEW pc, NEW st, Level(f, rg, pc, st),
         InCode(f.vector, pc), Code(pc)[1] = "pushi", NEW npc, npc = pc + 1
  PROVE  Level(f, rg, npc, Append(st, Code(pc)[2]))
<1>1. rg \in [Registers -> Nat] /\ pc \in Nat /\ st \in Seq(Nat)
  BY Zenon DEF Level
<1>2. Within(f.vector, pc) /\ RegistersAt(f, rg, pc) /\ StackAt(f, Depth(f.vector, pc), st)
  BY Zenon DEF Level, InStub
<1>3. PICK v \in 0 .. 255 : v = f.vector
  BY FrameFields
<1>4. PICK n \in 7 .. 8 : n = FrameWords(v)
  BY SevenOrEight
<1>5. PICK e \in 0 .. 1 : e = ErrorWords(v)
  BY StubShape
<1>6. /\ v \in ErrorStubs => n = 7 /\ e = 1
      /\ v \notin ErrorStubs /\ v \notin Misframed => n = 7 /\ e = 0
      /\ v \in Misframed => v \notin ErrorStubs /\ n = 8 /\ e = 1
  BY <1>4, <1>5, StubShape
<1>7. PICK k \in 0 .. 1 :
        /\ IsInstruction(pc, v, k)
        /\ \/ v \in ErrorStubs /\ k = 0 /\ Code(pc)[2] = v
           \/ v \notin ErrorStubs /\ k = 0 /\ Code(pc)[2] = 0
           \/ v \notin ErrorStubs /\ k = 1 /\ Code(pc)[2] = v
  BY <1>1, <1>3, PushImmediateAt
<1>8. PICK b \in Nat : b = StubBase(v) /\ b >= StubBase(0) /\ b + 9 < HandlerAddress(0) /\ b > 49
  BY DEF StubBase, HandlerAddress
<1>9. pc = b + k /\ npc = b + (k + 1)
  BY <1>7, <1>8 DEF IsInstruction
<1>10. PICK d \in Nat : d = 5 + e + k
  OBVIOUS
<1>11. Depth(v, pc) = d
  <2>1. pc >= StubBase(0) /\ ~(pc >= HandlerAddress(0)) /\ pc - b = k
    BY <1>8, <1>9 DEF StubBase, HandlerAddress
  <2>2. Depth(v, pc) = 5 + ErrorWords(v) + (pc - StubBase(v))
    BY <2>1, Zenon DEF Depth
  <2> QED
    BY <1>5, <1>8, <1>10, <2>1, <2>2
<1>12. Depth(v, npc) = d + 1
  <2>1. npc >= StubBase(0) /\ ~(npc >= HandlerAddress(0)) /\ npc - b = k + 1
    BY <1>8, <1>9 DEF StubBase, HandlerAddress
  <2>2. Depth(v, npc) = 5 + ErrorWords(v) + (npc - StubBase(v))
    BY <2>1, Zenon DEF Depth
  <2> QED
    BY <1>5, <1>8, <1>10, <2>1, <2>2
<1>13. PICK x \in Nat : x = Code(pc)[2]
  BY <1>7
<1>14. x = Word(f, d + 1)
  <2>1. Word(f, n) = v
    BY <1>3, <1>4, Words
  <2>2. CASE v \in ErrorStubs
    <3>1. x = v /\ d + 1 = n
      BY <1>6, <1>7, <1>10, <1>13, <2>2
    <3> QED
      BY <2>1, <3>1
  <2>3. CASE v \notin ErrorStubs /\ k = 0
    <3>1. x = 0
      BY <1>7, <1>13, <2>3
    <3>2. CASE v \in Misframed
      <4>1. d + 1 = 7 /\ n = 8
        BY <1>6, <1>10, <2>3, <3>2
      <4>2. Word(f, 7) = 0
        BY <1>3, <1>4, <4>1, Words
      <4> QED
        BY <3>1, <4>1, <4>2
    <3>3. CASE v \notin Misframed
      <4>1. d + 1 = 6 /\ e = 0
        BY <1>6, <1>10, <2>3, <3>3
      <4>2. v \notin PushesErrorCode
        BY <1>5, <4>1 DEF ErrorWords
      <4>3. Word(f, 6) = 0
        BY <1>3, <1>4, <4>2, Words
      <4> QED
        BY <3>1, <4>1, <4>3
    <3> QED
      BY <3>2, <3>3
  <2>4. CASE v \notin ErrorStubs /\ k = 1
    <3>1. x = v /\ d + 1 = n
      BY <1>6, <1>7, <1>10, <1>13, <2>4
    <3> QED
      BY <2>1, <3>1
  <2> QED
    BY <2>2, <2>3, <2>4
<1>15. Append(st, x) \in Seq(Nat) /\ StackAt(f, d + 1, Append(st, x))
  BY <1>1, <1>2, <1>3, <1>11, <1>14, PushedWord
<1>16. Within(f.vector, npc)
  <2>1. k + 1 <= n - 5 - e
    BY <1>6, <1>7
  <2>2. npc \in b .. b + n - 5 - e
    BY <1>8, <1>9, <2>1
  <2> QED
    BY <1>3, <1>4, <1>5, <1>8, <2>2 DEF Within
<1>17. RegistersAt(f, rg, npc)
  <2>1. pc >= StubBase(0) /\ pc < HandlerAddress(0) /\ npc >= StubBase(0) /\ npc < HandlerAddress(0)
    BY <1>8, <1>9 DEF StubBase, HandlerAddress
  <2>2. rg = f.regs
    BY <1>2, <2>1 DEF RegistersAt
  <2>3. npc \in Nat
    BY <1>1
  <2> QED
    BY <2>1, <2>2, <2>3, InOwnStub
<1>18. StackAt(f, Depth(f.vector, npc), Append(st, x)) /\ npc \in Nat
  BY <1>1, <1>3, <1>12, <1>15
<1> QED
  BY <1>1, <1>13, <1>15, <1>16, <1>17, <1>18, Zenon DEF Level, InStub

LEMMA JumpStep ==
  ASSUME NEW f \in Frame, NEW rg, NEW pc, NEW st, Level(f, rg, pc, st),
         InCode(f.vector, pc), Code(pc)[1] = "jmp"
  PROVE  Level(f, rg, Code(pc)[2], st)
<1>1. rg \in [Registers -> Nat] /\ pc \in Nat /\ st \in Seq(Nat)
  BY Zenon DEF Level
<1>2. Within(f.vector, pc) /\ RegistersAt(f, rg, pc) /\ StackAt(f, Depth(f.vector, pc), st)
  BY Zenon DEF Level, InStub
<1>3. PICK v \in 0 .. 255 : v = f.vector
  BY FrameFields
<1>4. PICK n \in 7 .. 8 : n = FrameWords(v)
  BY SevenOrEight
<1>5. PICK e \in 0 .. 1 : e = ErrorWords(v)
  BY StubShape
<1>6. /\ v \in ErrorStubs => n = 7 /\ e = 1
      /\ v \notin ErrorStubs /\ v \notin Misframed => n = 7 /\ e = 0
      /\ v \in Misframed => v \notin ErrorStubs /\ n = 8 /\ e = 1
  BY <1>4, <1>5, StubShape
<1>7. PICK k \in 0 .. 2 :
        /\ IsInstruction(pc, v, k)
        /\ \/ v \in ErrorStubs /\ k = 1 /\ Code(pc)[2] = 1
           \/ v \notin ErrorStubs /\ k = 2 /\ Code(pc)[2] = 1
  BY <1>1, <1>3, JumpAt
<1>8. PICK b \in Nat : b = StubBase(v) /\ b >= StubBase(0) /\ b + 9 < HandlerAddress(0) /\ b > 49
  BY DEF StubBase, HandlerAddress
<1>9. pc = b + k /\ Code(pc)[2] = 1
  BY <1>7, <1>8 DEF IsInstruction
<1>10. Depth(v, pc) = n
  <2>1. Depth(v, pc) = 5 + e + k
    <3>1. pc >= StubBase(0) /\ ~(pc >= HandlerAddress(0)) /\ pc - b = k
      BY <1>8, <1>9 DEF StubBase, HandlerAddress
    <3>2. Depth(v, pc) = 5 + ErrorWords(v) + (pc - StubBase(v))
      BY <3>1, Zenon DEF Depth
    <3> QED
      BY <1>5, <1>8, <3>1, <3>2
  <2>2. 5 + e + k = n
    BY <1>6, <1>7
  <2> QED
    BY <2>1, <2>2
<1>11. Depth(v, 1) = n
  BY <1>4 DEF Depth, StubBase, HandlerAddress
<1>12. RegistersAt(f, rg, 1)
  <2>1. pc >= StubBase(0) /\ pc < HandlerAddress(0)
    BY <1>8, <1>9 DEF StubBase, HandlerAddress
  <2>2. rg = f.regs
    BY <1>2, <2>1 DEF RegistersAt
  <2>3. 1 \in 1 .. 49 /\ 1 \notin 17 .. 28
    OBVIOUS
  <2> QED
    BY <2>2, <2>3, InCommon
<1>13. StackAt(f, Depth(f.vector, 1), st) /\ Within(f.vector, 1) /\ 1 \in Nat
  <2>1. 1 \in 1 .. 49 /\ 1 \in Nat
    OBVIOUS
  <2> QED
    BY <1>2, <1>3, <1>10, <1>11, <2>1, CommonWithin
<1> QED
  BY <1>1, <1>9, <1>12, <1>13, Zenon DEF Level, InStub

(* A handler leaves alone what its caller relies on.                       *)
LEMMA InHandlers ==
  ASSUME NEW f, NEW rg, NEW pc \in Nat, pc >= HandlerAddress(0),
         \A r \in CalleeSaved \cup Special : rg[r] = f.regs[r],
         Entry(pc) => rg["rdi"] = Aligned(f) + FrameWords(f.vector) + 21
  PROVE  RegistersAt(f, rg, pc)
<1>1. /\ ~(pc <= 16) /\ ~(pc < HandlerAddress(0)) /\ pc \notin 17 .. 28
      /\ pc \notin 17 .. 27 /\ pc \notin 29 .. 30 /\ pc \notin 33 .. 49
  BY DEF HandlerAddress
<1> QED
  BY <1>1, Zenon DEF RegistersAt

LEMMA CallStep ==
  ASSUME NEW f \in Frame, NEW rg, NEW pc, NEW st, Level(f, rg, pc, st),
         InCode(f.vector, pc), Code(pc)[1] = "call", NEW h \in 0 .. 255, NEW ret, ret = pc + 1
  PROVE  Level(f, rg, HandlerAddress(h), Append(st, ret))
<1>1. rg \in [Registers -> Nat] /\ pc \in Nat /\ st \in Seq(Nat)
  BY Zenon DEF Level
<1>2. Within(f.vector, pc) /\ RegistersAt(f, rg, pc) /\ StackAt(f, Depth(f.vector, pc), st)
  BY Zenon DEF Level, InStub
<1>3. PICK v \in 0 .. 255 : v = f.vector
  BY FrameFields
<1>4. PICK n \in 7 .. 8 : n = FrameWords(v)
  BY SevenOrEight
<1>5. pc = 30
  BY <1>1, <1>3, CallAt
<1>6. PICK npc \in Nat : npc = HandlerAddress(h) /\ npc >= HandlerAddress(0)
  BY DEF HandlerAddress
<1>7. PICK d \in Nat : d = n + 21 /\ d + 1 = n + 22
  OBVIOUS
<1>8. Depth(v, pc) = d
  BY <1>4, <1>5, <1>7 DEF Depth, StubBase, HandlerAddress
<1>9. Depth(v, npc) = d + 1
  BY <1>4, <1>6, <1>7, Zenon DEF Depth
<1>10. PICK x \in Nat : x = ret /\ x = 31
  BY <1>5
<1>11. x = Word(f, d + 1)
  BY <1>3, <1>4, <1>7, <1>10, ReturnWord
<1>12. Append(st, x) \in Seq(Nat) /\ StackAt(f, d + 1, Append(st, x))
  BY <1>1, <1>2, <1>3, <1>8, <1>11, PushedWord
<1>13. RegistersAt(f, rg, npc)
  <2>1. \A r \in CalleeSaved \cup Special : rg[r] = f.regs[r]
    BY <1>2 DEF RegistersAt
  <2>2. rg["rdi"] = Aligned(f) + FrameWords(f.vector) + 21
    BY <1>2, <1>5 DEF RegistersAt
  <2> QED
    BY <1>6, <2>1, <2>2, InHandlers, Zenon
<1>14. Within(f.vector, npc)
  BY <1>6, Zenon DEF Within
<1>15. StackAt(f, Depth(f.vector, npc), Append(st, x))
  BY <1>3, <1>9, <1>12
<1> QED
  BY <1>1, <1>6, <1>10, <1>12, <1>13, <1>14, <1>15, Zenon DEF Level, InStub

LEMMA BodyStep ==
  ASSUME NEW f \in Frame, NEW rg, NEW pc, NEW st, Level(f, rg, pc, st), pc >= HandlerAddress(0),
         Entry(pc), NEW r10 \in Nat, NEW npc, npc = pc + 1
  PROVE  Level(f, [r \in DOMAIN rg |->
                     IF r = "r10" THEN r10 ELSE IF r \in CallerSaved THEN Junk ELSE rg[r]],
               npc, st)
<1>1. rg \in [Registers -> Nat] /\ pc \in Nat /\ st \in Seq(Nat)
  BY Zenon DEF Level
<1>2. Within(f.vector, pc) /\ RegistersAt(f, rg, pc) /\ StackAt(f, Depth(f.vector, pc), st)
  BY Zenon DEF Level, InStub
<1>3. PICK g : g = [r \in DOMAIN rg |->
                      IF r = "r10" THEN r10 ELSE IF r \in CallerSaved THEN Junk ELSE rg[r]]
  OBVIOUS
<1>4. g \in [Registers -> Nat]
  BY <1>1, <1>3 DEF Junk
<1>5. \A r \in CalleeSaved \cup Special : g[r] = f.regs[r]
  <2>1. \A r \in CalleeSaved \cup Special : rg[r] = f.regs[r]
    BY <1>2 DEF RegistersAt
  <2>2. \A r \in CalleeSaved \cup Special : r \in Registers
    BY DEF Registers, General
  <2>3. \A r \in CalleeSaved : r # "r10" /\ r \notin CallerSaved
    BY DEF CalleeSaved, CallerSaved
  <2>4. \A r \in Special : r # "r10" /\ r \notin CallerSaved
    BY DEF Special, CallerSaved
  <2>5. \A r \in CalleeSaved \cup Special : g[r] = rg[r]
    BY <1>1, <1>3, <2>2, <2>3, <2>4
  <2> QED
    BY <2>1, <2>5
<1>6. npc \in Nat /\ npc >= HandlerAddress(0) /\ ~Entry(npc)
  BY <1>1 DEF HandlerAddress, Entry
<1>7. RegistersAt(f, g, npc)
  BY <1>5, <1>6, InHandlers, Zenon
<1>8. Depth(f.vector, npc) = Depth(f.vector, pc)
  BY <1>6, Zenon DEF Depth
<1>9. Within(f.vector, npc)
  BY <1>6, Zenon DEF Within
<1> QED
  BY <1>1, <1>2, <1>3, <1>4, <1>6, <1>7, <1>8, <1>9, Zenon DEF Level, InStub

LEMMA HandlerReturnStep ==
  ASSUME NEW f \in Frame, NEW rg, NEW pc, NEW st, Level(f, rg, pc, st), pc >= HandlerAddress(0)
  PROVE  Level(f, rg, st[Len(st) - 0], SubSeq(st, 1, Len(st) - 1))
<1>1. rg \in [Registers -> Nat] /\ pc \in Nat /\ st \in Seq(Nat)
  BY Zenon DEF Level
<1>2. Within(f.vector, pc) /\ RegistersAt(f, rg, pc) /\ StackAt(f, Depth(f.vector, pc), st)
  BY Zenon DEF Level, InStub
<1>3. PICK v \in 0 .. 255 : v = f.vector
  BY FrameFields
<1>4. PICK n \in 7 .. 8 : n = FrameWords(v)
  BY SevenOrEight
<1>5. Depth(v, pc) = n + 22
  BY <1>4, Zenon DEF Depth
<1>6. PICK c \in Nat : c = n + 21 /\ c + 1 = n + 22
  OBVIOUS
<1>7. PICK x : x = st[Len(st) - 0] /\ x = 31
  <2>1. PICK d \in Nat : d = n + 22 /\ d + 0 = n + 22 /\ d > 0
    OBVIOUS
  <2>2. StackAt(f, d + 0, st)
    BY <1>2, <1>3, <1>5, <2>1
  <2>3. 0 \in Nat
    OBVIOUS
  <2>4. st[Len(st) - 0] = Word(f, d)
    BY <1>1, <2>1, <2>2, <2>3, WordOnTop
  <2>5. Word(f, d) = 31
    BY <1>3, <1>4, <2>1, ReturnWord
  <2> QED
    BY <2>4, <2>5
<1>8. PICK t \in Seq(Nat) : t = SubSeq(st, 1, Len(st) - 1) /\ StackAt(f, c, t)
  <2>1. StackAt(f, c + 1, st) /\ 1 \in Nat
    BY <1>2, <1>3, <1>5, <1>6
  <2> QED
    BY <1>1, <2>1, DroppedWords
<1>9. Depth(v, x) = c
  BY <1>4, <1>6, <1>7 DEF Depth, StubBase, HandlerAddress
<1>10. x \in 1 .. 49 /\ x \in Nat /\ x \notin 17 .. 28 /\ x \notin 33 .. 49
  BY <1>7
<1>11. RegistersAt(f, rg, x)
  <2>1. \A r \in CalleeSaved \cup Special : rg[r] = f.regs[r]
    BY <1>2 DEF RegistersAt
  <2> QED
    BY <1>7, <1>10, <2>1, InCommon
<1>12. StackAt(f, Depth(f.vector, x), t) /\ Within(f.vector, x)
  BY <1>3, <1>8, <1>9, <1>10, CommonWithin
<1>13. Level(f, rg, x, t)
  BY <1>1, <1>8, <1>10, <1>11, <1>12, Zenon DEF Level, InStub
<1> QED
  BY <1>7, <1>8, <1>13

(* What iretq finds, unless the frame is a word too long.                  *)
LEMMA ReturnStep ==
  ASSUME NEW f \in Frame, NEW rg, NEW pc, NEW st, Level(f, rg, pc, st),
         InCode(f.vector, pc), Code(pc)[1] = "iretq", f.regs["cs"] = 8, Raisable(f),
         st[Len(st) - 1] = rg["cs"]
  PROVE  /\ st[Len(st) - 0] = f.rip
         /\ (st[Len(st) - 2] = 1) = f.rflagsIF
         /\ SubSeq(st, 1, st[Len(st) - 3]) = f.stack
         /\ [rg EXCEPT !["ss"] = st[Len(st) - 4]] = f.regs
<1>1. rg \in [Registers -> Nat] /\ pc \in Nat /\ st \in Seq(Nat)
  BY Zenon DEF Level
<1>2. Within(f.vector, pc) /\ RegistersAt(f, rg, pc) /\ StackAt(f, Depth(f.vector, pc), st)
  BY Zenon DEF Level, InStub
<1>3. PICK v \in 0 .. 255 : v = f.vector
  BY FrameFields
<1>4. PICK n \in 7 .. 8 : n = FrameWords(v)
  BY SevenOrEight
<1>5. pc = 49
  BY <1>1, <1>3, ReturnAt
<1>6. PICK d \in Nat : d = n - 2 /\ Depth(v, pc) = d
  BY <1>4, <1>5 DEF Depth, StubBase, HandlerAddress
<1>7. StackAt(f, d, st)
  BY <1>2, <1>3, <1>6
<1>8. \A r \in CalleeSaved \cup Special : rg[r] = f.regs[r]
  BY <1>2 DEF RegistersAt
<1>9. rg["cs"] = 8
  BY <1>8, RegisterNames
<1>10. ASSUME NEW k \in Nat, k < d PROVE st[Len(st) - k] = Word(f, d - k)
  <2>1. PICK c \in Nat : c = d - k /\ c + k = d /\ c > 0
    BY <1>10
  <2>2. StackAt(f, c + k, st)
    BY <1>7, <2>1
  <2>3. st[Len(st) - k] = Word(f, c)
    BY <1>1, <2>1, <2>2, WordOnTop
  <2> QED
    BY <2>1, <2>3
<1>11. n = 7
  <2>1. SUFFICES ASSUME n = 8 PROVE FALSE
    OBVIOUS
  <2>2. v \in Misframed
    BY <1>4, <2>1 DEF FrameWords
  <2>3. f.rip # 8
    BY <1>3, <2>2 DEF Raisable, Program, HandlerAddress
  <2>4. 1 \in Nat /\ 1 < d /\ d - 1 = 5
    BY <1>6, <2>1
  <2>5. st[Len(st) - 1] = Word(f, 5)
    BY <1>10, <2>4
  <2>6. Word(f, 5) = f.rip
    BY <1>3, <1>4, Words
  <2> QED
    BY <1>9, <2>3, <2>5, <2>6
<1>12. d = 5
  BY <1>6, <1>11
<1>13. /\ Word(f, 1) = f.regs["ss"] /\ Word(f, 2) = Len(f.stack)
       /\ Word(f, 3) = (IF f.rflagsIF THEN 1 ELSE 0) /\ Word(f, 5) = f.rip
  BY <1>3, <1>4, Words
<1>14. st[Len(st) - 0] = f.rip
  <2>1. 0 \in Nat /\ 0 < d /\ d - 0 = 5
    BY <1>12
  <2> QED
    BY <1>10, <1>13, <2>1
<1>15. (st[Len(st) - 2] = 1) = f.rflagsIF
  <2>1. 2 \in Nat /\ 2 < d /\ d - 2 = 3
    BY <1>12
  <2>2. st[Len(st) - 2] = IF f.rflagsIF THEN 1 ELSE 0
    BY <1>10, <1>13, <2>1
  <2>3. f.rflagsIF \in BOOLEAN
    BY FrameFields
  <2> QED
    BY <2>2, <2>3
<1>16. SubSeq(st, 1, st[Len(st) - 3]) = f.stack
  <2>1. 3 \in Nat /\ 3 < d /\ d - 3 = 2
    BY <1>12
  <2>2. st[Len(st) - 3] = Len(f.stack)
    BY <1>10, <1>13, <2>1
  <2>3. PICK l \in Nat : l = Len(f.stack) /\ l <= Aligned(f)
    BY AlignedNat, FrameFields
  <2>4. PICK a \in Nat : a = Aligned(f)
    BY AlignedNat
  <2>5. l <= Len(st)
    <3>1. Len(st) = a + d
      BY <1>7, <2>4 DEF StackAt
    <3> QED
      BY <2>3, <2>4, <3>1
  <2>6. PICK t \in Seq(Nat) :
          t = SubSeq(st, 1, l) /\ Len(t) = l /\ \A m \in 1 .. l : t[m] = st[m]
    BY <1>1, <2>3, <2>5, Shortened
  <2>7. \A m \in 1 .. l : t[m] = f.stack[m]
    BY <1>7, <2>3, <2>6 DEF StackAt
  <2>8. PICK s \in Seq(Nat) : s = f.stack
    BY FrameFields
  <2>9. t = s
    BY <2>3, <2>6, <2>7, <2>8, SeqEqual
  <2> QED
    BY <2>2, <2>3, <2>6, <2>8, <2>9
<1>17. [rg EXCEPT !["ss"] = st[Len(st) - 4]] = f.regs
  <2>1. 4 \in Nat /\ 4 < d /\ d - 4 = 1
    BY <1>12
  <2>2. PICK x : x = st[Len(st) - 4] /\ x = f.regs["ss"]
    BY <1>10, <1>13, <2>1
  <2>3. f.regs \in [Registers -> Nat]
    BY FrameFields
  <2>4. ASSUME NEW r \in Registers PROVE rg[r] = f.regs[r]
    <3>1. CASE r \in Special
      BY <1>8, <3>1
    <3>2. CASE r \in General
      <4>1. PICK j \in 1 .. 15 : SaveOrder[j] = r
        BY <3>2, AllSaved
      <4>2. Restored(f, rg, 0)
        <5>1. pc \in 33 .. 49 /\ 0 = 49 - pc
          BY <1>5
        <5> QED
          BY <1>2, <5>1, PopsRestore
      <4>3. j >= 0
        OBVIOUS
      <4> QED
        BY <4>1, <4>2, <4>3 DEF Restored
    <3> QED
      BY <3>1, <3>2 DEF Registers
  <2>5. [rg EXCEPT !["ss"] = x] = f.regs
    BY <1>1, <2>2, <2>3, <2>4
  <2> QED
    BY <2>2, <2>5
<1> QED
  BY <1>14, <1>15, <1>16, <1>17

(* The processor and the new frame.                                        *)
LEMMA EntryStep ==
  ASSUME NEW f \in Frame, NEW pad, NEW error, NEW fl,
         pad = (IF Len(f.stack) % 2 = 1 THEN <<Junk>> ELSE <<>>),
         error = (IF f.vector \in PushesErrorCode THEN <<ErrorCode>> ELSE <<>>),
         fl = (IF f.rflagsIF THEN 1 ELSE 0)
  PROVE  Level(f, f.regs, StubBase(f.vector),
               f.stack \o pad \o <<f.regs["ss"], Len(f.stack), fl, f.regs["cs"], f.rip>> \o error)
<1>1. PICK st \in Seq(Nat) : st = f.stack
  BY FrameFields
<1>2. PICK l \in Nat : l = Len(st) /\ l = Len(f.stack)
  BY <1>1, LenProperties
<1>3. PICK a \in Nat : a = Aligned(f) /\ a = l + (l % 2)
  BY <1>2, AlignedNat DEF Aligned
<1>4. PICK p \in Seq(Nat) : p = pad /\ Len(p) = l % 2
  <2>1. l % 2 = 0 \/ l % 2 = 1
    OBVIOUS
  <2>2. <<>> \in Seq(Nat) /\ Len(<<>>) = 0
    OBVIOUS
  <2>3. <<Junk>> \in Seq(Nat) /\ Len(<<Junk>>) = 1
    BY DEF Junk
  <2>4. pad = IF l % 2 = 1 THEN <<Junk>> ELSE <<>>
    BY <1>2, Zenon
  <2>5. CASE l % 2 = 0
    <3>1. l % 2 # 1
      BY <2>5
    <3>2. pad = <<>>
      BY <2>4, <3>1, Zenon
    <3> QED
      BY <2>2, <2>5, <3>2, Zenon
  <2>6. CASE l % 2 = 1
    BY <2>3, <2>4, <2>6, Zenon
  <2> QED
    BY <2>1, <2>5, <2>6
<1>5. PICK s1 \in Seq(Nat) :
        s1 = st \o p /\ Len(s1) = a /\ \A m \in 1 .. l : s1[m] = st[m]
  <2>1. PICK s \in Seq(Nat) : s = st \o p /\ IsJoin(s, st, p)
    BY Joined, Zenon
  <2>2. Len(s) = Len(st) + Len(p)
    BY <2>1, Zenon DEF IsJoin
  <2>3. Len(s) = a
    BY <1>2, <1>3, <1>4, <2>2
  <2>4. \A m \in 1 .. l : s[m] = st[m]
    BY <1>2, <2>1, Zenon DEF IsJoin
  <2> QED
    BY <2>1, <2>3, <2>4, Zenon
<1>6. PICK ss \in Nat, cs \in Nat, fn \in Nat, ip \in Nat :
        ss = f.regs["ss"] /\ cs = f.regs["cs"] /\ fn = fl /\ ip = f.rip
  <2>1. "ss" \in Registers /\ "cs" \in Registers
    BY RegisterNames DEF Registers
  <2>2. f.regs["ss"] \in Nat /\ f.regs["cs"] \in Nat /\ f.rip \in Nat
    BY <2>1, FrameFields
  <2>3. fl \in Nat
    OBVIOUS
  <2> QED
    BY <2>2, <2>3
<1>7. PICK q \in Seq(Nat) :
        /\ q = <<ss, l, fn, cs, ip>> /\ Len(q) = 5
        /\ q[1] = ss /\ q[2] = l /\ q[3] = fn /\ q[4] = cs /\ q[5] = ip
  <2>1. PICK q : q = <<ss, l, fn, cs, ip>>
    OBVIOUS
  <2>2. q \in Seq(Nat) /\ Len(q) = 5
    BY <2>1
  <2>3. q[1] = ss /\ q[2] = l /\ q[3] = fn /\ q[4] = cs /\ q[5] = ip
    BY <2>1
  <2> QED
    BY <2>1, <2>2, <2>3
<1>8. PICK s2 \in Seq(Nat) :
        /\ s2 = s1 \o q /\ Len(s2) = a + 5 /\ (\A m \in 1 .. a : s2[m] = s1[m])
        /\ \A m \in 1 .. 5 : \A k : k = a + m => s2[k] = q[m]
  <2>1. PICK s \in Seq(Nat) : s = s1 \o q /\ IsJoin(s, s1, q)
    BY Joined, Zenon
  <2>2. Len(s) = Len(s1) + Len(q)
    BY <2>1, Zenon DEF IsJoin
  <2>3. Len(s) = a + 5
    BY <1>5, <1>7, <2>2
  <2>4. \A m \in 1 .. a : s[m] = s1[m]
    BY <1>5, <2>1, Zenon DEF IsJoin
  <2>5. ASSUME NEW m \in 1 .. 5, NEW k, k = a + m PROVE s[k] = q[m]
    <3>1. m \in 1 .. Len(q) /\ k = Len(s1) + m
      BY <1>5, <1>7, <2>5
    <3> QED
      BY <2>1, <3>1, Zenon DEF IsJoin
  <2> QED
    BY <2>1, <2>3, <2>4, <2>5, Zenon
<1>9. PICK v \in 0 .. 255 : v = f.vector
  BY FrameFields
<1>10. PICK e \in 0 .. 1 : e = ErrorWords(v)
  BY StubShape
<1>11. PICK r \in Seq(Nat) : r = error /\ Len(r) = e /\ (e = 1 => r[1] = ErrorCode)
  <2>1. CASE v \in PushesErrorCode
    <3>1. error = <<ErrorCode>> /\ e = 1
      BY <1>9, <1>10, <2>1 DEF ErrorWords
    <3>2. PICK x \in Nat : x = ErrorCode
      BY DEF ErrorCode
    <3>3. <<x>> \in Seq(Nat) /\ Len(<<x>>) = 1 /\ <<x>>[1] = x
      OBVIOUS
    <3>4. PICK r \in Seq(Nat) : r = <<x>> /\ Len(r) = 1 /\ r[1] = x
      BY <3>3, Zenon
    <3> QED
      BY <3>1, <3>2, <3>3, <3>4, Zenon
  <2>2. CASE v \notin PushesErrorCode
    <3>1. error = <<>>
      BY <1>9, <2>2, Zenon
    <3>2. e = 0 /\ e # 1
      BY <1>10, <2>2 DEF ErrorWords
    <3>3. <<>> \in Seq(Nat) /\ Len(<<>>) = 0
      OBVIOUS
    <3> QED
      BY <3>1, <3>2, <3>3, Zenon
  <2> QED
    BY <2>1, <2>2
<1>12. PICK t \in Seq(Nat) :
        /\ t = s2 \o r /\ Len(t) = a + 5 + e /\ (\A m \in 1 .. a + 5 : t[m] = s2[m])
        /\ e = 1 => t[a + 6] = ErrorCode
  <2>1. PICK s \in Seq(Nat) : s = s2 \o r /\ IsJoin(s, s2, r)
    BY Joined, Zenon
  <2>2. Len(s) = Len(s2) + Len(r)
    BY <2>1, Zenon DEF IsJoin
  <2>3. Len(s) = a + 5 + e
    BY <1>8, <1>11, <2>2
  <2>4. ASSUME NEW m \in 1 .. a + 5 PROVE s[m] = s2[m]
    <3>1. m \in 1 .. Len(s2)
      BY <1>8
    <3> QED
      BY <2>1, <3>1, Zenon DEF IsJoin
  <2>5. ASSUME e = 1 PROVE s[a + 6] = ErrorCode
    <3>1. PICK k : k = a + 6
      OBVIOUS
    <3>2. 1 \in 1 .. Len(r) /\ k = Len(s2) + 1 /\ r[1] = ErrorCode
      BY <1>8, <1>11, <2>5, <3>1
    <3>3. s[k] = r[1]
      BY <2>1, <3>2 DEF IsJoin
    <3> QED
      BY <3>1, <3>2, <3>3
  <2> QED
    BY <2>1, <2>3, <2>4, <2>5
<1>13. t = f.stack \o pad \o <<f.regs["ss"], Len(f.stack), fl, f.regs["cs"], f.rip>> \o error
  BY <1>1, <1>2, <1>4, <1>5, <1>6, <1>7, <1>8, <1>11, <1>12, Zenon
<1>14. PICK n \in 7 .. 8 : n = FrameWords(v)
  BY SevenOrEight
<1>15. ASSUME NEW m \in 1 .. l PROVE t[m] = f.stack[m]
  <2>1. m \in 1 .. a /\ m \in 1 .. a + 5
    BY <1>3
  <2>2. t[m] = s2[m] /\ s2[m] = s1[m] /\ s1[m] = st[m]
    BY <1>5, <1>8, <1>12, <2>1
  <2> QED
    BY <1>1, <2>2
<1>16. ASSUME NEW m \in 1 .. 5 + e, NEW k, k = a + m PROVE t[k] = Word(f, m)
  <2>1. CASE m = 6
    <3>1. e = 1
      BY <2>1
    <3>2. v \in PushesErrorCode
      BY <1>10, <3>1 DEF ErrorWords
    <3>3. Word(f, 6) = ErrorCode
      BY <1>9, <1>14, <3>2, Words
    <3> QED
      BY <1>12, <1>16, <2>1, <3>1, <3>3
  <2>2. CASE m \in 1 .. 5
    <3>1. k \in 1 .. a + 5
      BY <1>16, <2>2
    <3>2. t[k] = s2[k] /\ s2[k] = q[m]
      BY <1>8, <1>12, <1>16, <2>2, <3>1
    <3>3. /\ Word(f, 1) = ss /\ Word(f, 2) = l /\ Word(f, 3) = fn
          /\ Word(f, 4) = cs /\ Word(f, 5) = ip
      BY <1>2, <1>6, <1>9, <1>14, Words
    <3>4. m = 1 \/ m = 2 \/ m = 3 \/ m = 4 \/ m = 5
      BY <2>2
    <3>5. q[m] = Word(f, m)
      BY <1>7, <3>3, <3>4
    <3> QED
      BY <3>2, <3>5
  <2>3. m = 6 \/ m \in 1 .. 5
    OBVIOUS
  <2> QED
    BY <2>1, <2>2, <2>3
<1>17. PICK pc \in Nat :
         /\ pc = StubBase(v) /\ pc >= StubBase(0) /\ pc < HandlerAddress(0) /\ pc - StubBase(v) = 0
         /\ ~(pc >= HandlerAddress(0))
  BY DEF StubBase, HandlerAddress
<1>18. StackAt(f, Depth(f.vector, pc), t)
  <2>1. Depth(v, pc) = 5 + ErrorWords(v) + (pc - StubBase(v))
    BY <1>17, Zenon DEF Depth
  <2>2. PICK d \in Nat : d = 5 + e /\ d = Depth(v, pc)
    BY <1>10, <1>17, <2>1
  <2>3. Len(t) = a + d
    BY <1>12, <2>2
  <2>4. StackAt(f, d, t)
    BY <1>2, <1>3, <1>15, <1>16, <2>2, <2>3 DEF StackAt
  <2> QED
    BY <1>9, <2>2, <2>4
<1>19. Within(f.vector, pc)
  <2>1. pc \in StubBase(v) .. StubBase(v) + FrameWords(v) - 5 - ErrorWords(v)
    <3>1. PICK b \in Nat : b = StubBase(v) /\ b = pc
      BY <1>17
    <3>2. b \in b .. b + n - 5 - e
      OBVIOUS
    <3> QED
      BY <1>10, <1>14, <3>1, <3>2, Zenon
  <2> QED
    BY <1>9, <2>1, Zenon DEF Within
<1>20. RegistersAt(f, f.regs, pc)
  BY <1>17, InOwnStub
<1>21. Level(f, f.regs, pc, t)
  BY <1>18, <1>19, <1>20, FrameFields, Zenon DEF Level, InStub
<1> QED
  BY <1>9, <1>13, <1>17, <1>21, Zenon

-----------------------------------------------------------------------------
(* The invariant, one action at a time.                                    *)

LEMMA Innermost ==
  ASSUME StubInv, frames # <<>>
  PROVE  /\ Len(frames) \in Nat \ {0} /\ Interrupted = frames[Len(frames)]
         /\ Interrupted \in Frame /\ Raisable(Interrupted) /\ Interrupted.regs["cs"] = 8
         /\ Level(Interrupted, regs, rip, stack)
<1>1. PICK s \in Seq(Frame) : s = frames /\ s # <<>>
  BY Zenon DEF StubInv, TypeOK
<1>2. PICK n \in Nat : n = Len(s)
  BY LenProperties
<1>3. n # 0
  BY <1>1, <1>2, EmptySeq
<1>4. n \in 1 .. n
  BY <1>3
<1>5. s[n] \in Frame
  BY <1>2, <1>4, LenProperties
<1>6. Interrupted = s[n]
  BY <1>1, <1>2, Zenon DEF Interrupted, Last
<1>7. Raisable(s[n]) /\ s[n].regs["cs"] = 8 /\ InStub(s[n], regs, rip, stack)
  BY <1>1, <1>2, <1>4, Zenon DEF StubInv, Levels
<1>8. Level(s[n], regs, rip, stack)
  BY <1>7, Zenon DEF StubInv, TypeOK, Level
<1> QED
  BY <1>1, <1>2, <1>3, <1>5, <1>6, <1>7, <1>8

LEMMA Executing ==
  ASSUME StubInv, NEW op, Running(op)
  PROVE  /\ frames # <<>> /\ InCode(Interrupted.vector, rip)
         /\ Code(rip)[1] = op /\ Operand = Code(rip)[2]
<1>1. rip # Program /\ ~(rip >= HandlerAddress(0)) /\ Instruction[1] = op
  BY Zenon DEF Running, InHandler
<1>2. frames # <<>>
  BY <1>1, Zenon DEF StubInv, Grounded
<1>3. Instruction = Code(rip)
  BY Zenon DEF Instruction, Code
<1>4. Within(Interrupted.vector, rip)
  BY <1>2, Innermost, Zenon DEF Level, InStub
<1>5. rip < HandlerAddress(0)
  <2>1. rip \in Nat
    BY Zenon DEF StubInv, TypeOK
  <2> QED
    BY <1>1, <2>1 DEF HandlerAddress
<1>6. InCode(Interrupted.vector, rip)
  BY <1>4, <1>5, Zenon DEF InCode
<1> QED
  BY <1>1, <1>2, <1>3, <1>6, Zenon DEF Operand

(* A step within the innermost level.                                      *)
LEMMA LevelStep ==
  ASSUME StubInv, frames # <<>>, frames' = frames, rflagsIF' = rflagsIF,
         Level(Interrupted, regs', rip', stack')
  PROVE  StubInv'
<1>1. PICK n \in Nat : n = Len(frames) /\ Interrupted = frames[n]
  BY Innermost
<1>2. TypeOK'
  BY Zenon DEF StubInv, TypeOK, Level
<1>3. \A r \in CalleeSaved \cup Special : regs'[r] = Interrupted.regs[r]
  BY Zenon DEF Level, InStub, RegistersAt
<1>4. regs'["cs"] = 8
  BY <1>3, Innermost, RegisterNames
<1>5. Levels'
  <2>1. ASSUME NEW i \in 1 .. Len(frames)
        PROVE  /\ Raisable(frames[i]) /\ frames[i].regs["cs"] = 8
               /\ IF i = Len(frames) THEN InStub(frames[i], regs', rip', stack')
                  ELSE InStub(frames[i], frames[i + 1].regs, frames[i + 1].rip, frames[i + 1].stack)
    <3>1. /\ Raisable(frames[i]) /\ frames[i].regs["cs"] = 8
          /\ i # Len(frames) =>
               InStub(frames[i], frames[i + 1].regs, frames[i + 1].rip, frames[i + 1].stack)
      BY Zenon DEF StubInv, Levels
    <3>2. i = Len(frames) => InStub(frames[i], regs', rip', stack')
      BY <1>1, Zenon DEF Level
    <3> QED
      BY <3>1, <3>2, Zenon
  <2> QED
    BY <2>1, Zenon DEF Levels
<1>6. Grounded'
  BY Zenon DEF StubInv, Grounded
<1>7. Nested'
  <2>1. Nested
    BY Zenon DEF StubInv
  <2> QED
    BY <2>1 DEF Nested
<1> QED
  BY <1>2, <1>4, <1>5, <1>6, <1>7, Zenon DEF StubInv

LEMMA KeepPushRegister ==
  ASSUME StubInv, PushRegister
  PROVE  StubInv'
<1>1. /\ frames # <<>> /\ InCode(Interrupted.vector, rip) /\ Code(rip)[1] = "push"
      /\ Operand = Code(rip)[2]
  BY Executing, Zenon DEF PushRegister
<1>2. /\ regs' = regs /\ stack' = Append(stack, regs[Operand]) /\ rip' = rip + 1
      /\ frames' = frames /\ rflagsIF' = rflagsIF
  BY Zenon DEF PushRegister, Retire
<1>3. Interrupted \in Frame /\ Level(Interrupted, regs, rip, stack)
  BY <1>1, Innermost, Zenon
<1>4. Level(Interrupted, regs', rip', stack')
  BY <1>1, <1>2, <1>3, PushStep, Zenon
<1> QED
  BY <1>1, <1>2, <1>4, LevelStep, Zenon

LEMMA KeepPushImmediate ==
  ASSUME StubInv, PushImmediate
  PROVE  StubInv'
<1>1. /\ frames # <<>> /\ InCode(Interrupted.vector, rip) /\ Code(rip)[1] = "pushi"
      /\ Operand = Code(rip)[2]
  BY Executing, Zenon DEF PushImmediate
<1>2. /\ regs' = regs /\ stack' = Append(stack, Operand) /\ rip' = rip + 1
      /\ frames' = frames /\ rflagsIF' = rflagsIF
  BY Zenon DEF PushImmediate, Retire
<1>3. Interrupted \in Frame /\ Level(Interrupted, regs, rip, stack)
  BY <1>1, Innermost, Zenon
<1>4. Level(Interrupted, regs', rip', stack')
  BY <1>1, <1>2, <1>3, PushImmediateStep, Zenon
<1> QED
  BY <1>1, <1>2, <1>4, LevelStep, Zenon

LEMMA KeepMoveSystem ==
  ASSUME StubInv, MoveSystem
  PROVE  StubInv'
<1>1. /\ frames # <<>> /\ InCode(Interrupted.vector, rip) /\ Code(rip)[1] = "movrax"
      /\ Operand = Code(rip)[2]
  BY Executing, Zenon DEF MoveSystem
<1>2. /\ regs' = [regs EXCEPT !["rax"] = regs[Operand]] /\ stack' = stack /\ rip' = rip + 1
      /\ frames' = frames /\ rflagsIF' = rflagsIF
  BY Zenon DEF MoveSystem, Retire
<1>3. Interrupted \in Frame /\ Level(Interrupted, regs, rip, stack)
  BY <1>1, Innermost, Zenon
<1>4. Level(Interrupted, regs', rip', stack')
  BY <1>1, <1>2, <1>3, MoveStep, Zenon
<1> QED
  BY <1>1, <1>2, <1>4, LevelStep, Zenon

LEMMA KeepPassContext ==
  ASSUME StubInv, PassContext
  PROVE  StubInv'
<1>1. /\ frames # <<>> /\ InCode(Interrupted.vector, rip) /\ Code(rip)[1] = "leardi"
      /\ Operand = Code(rip)[2]
  BY Executing, Zenon DEF PassContext
<1>2. /\ regs' = [regs EXCEPT !["rdi"] = Len(stack)] /\ stack' = stack /\ rip' = rip + 1
      /\ frames' = frames /\ rflagsIF' = rflagsIF
  BY Zenon DEF PassContext, Retire
<1>3. Interrupted \in Frame /\ Level(Interrupted, regs, rip, stack)
  BY <1>1, Innermost, Zenon
<1>4. Level(Interrupted, regs', rip', stack')
  BY <1>1, <1>2, <1>3, ContextStep, Zenon
<1> QED
  BY <1>1, <1>2, <1>4, LevelStep, Zenon

LEMMA KeepLoadVector ==
  ASSUME StubInv, LoadVector
  PROVE  StubInv'
<1>1. /\ frames # <<>> /\ InCode(Interrupted.vector, rip) /\ Code(rip)[1] = "loadrax"
      /\ Operand = Code(rip)[2]
  BY Executing, Zenon DEF LoadVector
<1>2. /\ regs' = [regs EXCEPT !["rax"] = stack[Len(stack) - Operand]] /\ stack' = stack
      /\ rip' = rip + 1
      /\ frames' = frames /\ rflagsIF' = rflagsIF
  BY Zenon DEF LoadVector, Retire, Top
<1>3. Interrupted \in Frame /\ Level(Interrupted, regs, rip, stack)
  BY <1>1, Innermost, Zenon
<1>4. Level(Interrupted, regs', rip', stack')
  BY <1>1, <1>2, <1>3, LoadStep, Zenon
<1> QED
  BY <1>1, <1>2, <1>4, LevelStep, Zenon

LEMMA KeepAddRsp ==
  ASSUME StubInv, AddRsp
  PROVE  StubInv'
<1>1. /\ frames # <<>> /\ InCode(Interrupted.vector, rip) /\ Code(rip)[1] = "addrsp"
      /\ Operand = Code(rip)[2]
  BY Executing, Zenon DEF AddRsp
<1>2. /\ regs' = regs /\ stack' = SubSeq(stack, 1, Len(stack) - Operand) /\ rip' = rip + 1
      /\ frames' = frames /\ rflagsIF' = rflagsIF
  BY Zenon DEF AddRsp, Retire, Drop
<1>3. Interrupted \in Frame /\ Level(Interrupted, regs, rip, stack)
  BY <1>1, Innermost, Zenon
<1>4. Level(Interrupted, regs', rip', stack')
  BY <1>1, <1>2, <1>3, AddRspStep, Zenon
<1> QED
  BY <1>1, <1>2, <1>4, LevelStep, Zenon

LEMMA KeepPopRegister ==
  ASSUME StubInv, PopRegister
  PROVE  StubInv'
<1>1. /\ frames # <<>> /\ InCode(Interrupted.vector, rip) /\ Code(rip)[1] = "pop"
      /\ Operand = Code(rip)[2]
  BY Executing, Zenon DEF PopRegister
<1>2. /\ regs' = [regs EXCEPT ![Operand] = stack[Len(stack) - 0]]
      /\ stack' = SubSeq(stack, 1, Len(stack) - 1) /\ rip' = rip + 1
      /\ frames' = frames /\ rflagsIF' = rflagsIF
  BY Zenon DEF PopRegister, Retire, Top, Drop
<1>3. Interrupted \in Frame /\ Level(Interrupted, regs, rip, stack)
  BY <1>1, Innermost, Zenon
<1>4. Level(Interrupted, regs', rip', stack')
  BY <1>1, <1>2, <1>3, PopStep, Zenon
<1> QED
  BY <1>1, <1>2, <1>4, LevelStep, Zenon

LEMMA KeepJump ==
  ASSUME StubInv, Jump
  PROVE  StubInv'
<1>1. /\ frames # <<>> /\ InCode(Interrupted.vector, rip) /\ Code(rip)[1] = "jmp"
      /\ Operand = Code(rip)[2]
  BY Executing, Zenon DEF Jump
<1>2. /\ regs' = regs /\ stack' = stack /\ rip' = Operand
      /\ frames' = frames /\ rflagsIF' = rflagsIF
  BY Zenon DEF Jump, Retire
<1>3. Interrupted \in Frame /\ Level(Interrupted, regs, rip, stack)
  BY <1>1, Innermost, Zenon
<1>4. Level(Interrupted, regs', rip', stack')
  BY <1>1, <1>2, <1>3, JumpStep, Zenon
<1> QED
  BY <1>1, <1>2, <1>4, LevelStep, Zenon

(* Where nothing but the mode changes. *)
LEMMA KeepsLevels ==
  ASSUME StubInv, UNCHANGED <<regs, rip, rflagsIF, stack, frames>>
  PROVE  StubInv'
<1>1. TypeOK'
  BY Zenon DEF StubInv, TypeOK
<1>2. Levels'
  BY Zenon DEF StubInv, Levels
<1>3. Grounded'
  BY Zenon DEF StubInv, Grounded
<1>4. Nested'
  <2>1. Nested
    BY Zenon DEF StubInv
  <2> QED
    BY <2>1 DEF Nested
<1> QED
  BY <1>1, <1>2, <1>3, <1>4, Zenon DEF StubInv

LEMMA KeepCallHandler ==
  ASSUME StubInv, CallHandler
  PROVE  StubInv'
<1>1. /\ frames # <<>> /\ InCode(Interrupted.vector, rip) /\ Code(rip)[1] = "call"
  BY Executing, Zenon DEF CallHandler
<1>2. regs' = regs /\ frames' = frames /\ rflagsIF' = rflagsIF
  BY Zenon DEF CallHandler
<1>3. Interrupted \in Frame /\ Level(Interrupted, regs, rip, stack)
  BY <1>1, Innermost, Zenon
<1>4. CASE regs["rax"] \in 0 .. 255
  <2>1. rip' = HandlerAddress(regs["rax"]) /\ stack' = Append(stack, rip + 1)
    BY <1>4, Zenon DEF CallHandler
  <2>2. Level(Interrupted, regs', rip', stack')
    BY <1>1, <1>2, <1>3, <1>4, <2>1, CallStep, Zenon
  <2> QED
    BY <1>1, <1>2, <2>2, LevelStep, Zenon
<1>5. CASE regs["rax"] \notin 0 .. 255
  <2>1. rip' = rip /\ stack' = stack
    BY <1>5, Zenon DEF CallHandler
  <2> QED
    BY <1>2, <2>1, KeepsLevels, Zenon
<1> QED
  BY <1>4, <1>5

LEMMA HandlersInterrupt ==
  ASSUME StubInv, InHandler
  PROVE  /\ frames # <<>> /\ rip \in Nat /\ rip >= HandlerAddress(0)
         /\ Interrupted \in Frame /\ Level(Interrupted, regs, rip, stack)
<1>1. rip \in Nat /\ rip >= HandlerAddress(0)
  BY Zenon DEF StubInv, TypeOK, InHandler
<1>2. rip # Program
  BY <1>1 DEF HandlerAddress, Program
<1>3. frames # <<>>
  BY <1>2, Zenon DEF StubInv, Grounded
<1> QED
  BY <1>1, <1>3, Innermost, Zenon

LEMMA KeepHandlerBody ==
  ASSUME StubInv, NEW r10 \in R10Values, HandlerBody(r10)
  PROVE  StubInv'
<1>1. /\ frames # <<>> /\ rip \in Nat /\ rip >= HandlerAddress(0)
      /\ Interrupted \in Frame /\ Level(Interrupted, regs, rip, stack)
  BY HandlersInterrupt, Zenon DEF HandlerBody
<1>2. Entry(rip)
  <2>1. PICK k \in Nat : k = rip - HandlerAddress(0)
    BY <1>1 DEF HandlerAddress
  <2>2. rip = HandlerAddress(k \div 2)
    BY <2>1, Zenon DEF HandlerBody, HandlerVector
  <2>3. k = 2 * (k \div 2)
    BY <2>1, <2>2 DEF HandlerAddress
  <2>4. k % 2 = 0
    BY <2>3
  <2> QED
    BY <1>1, <2>1, <2>4 DEF Entry
<1>3. r10 \in Nat
  BY StubAssumption DEF StubAssumption
<1>4. /\ regs' = [r \in DOMAIN regs |->
                    IF r = "r10" THEN r10 ELSE IF r \in CallerSaved THEN Junk ELSE regs[r]]
      /\ rip' = rip + 1 /\ stack' = stack /\ frames' = frames /\ rflagsIF' = rflagsIF
  BY Zenon DEF HandlerBody
<1>5. Level(Interrupted, regs', rip', stack')
  BY <1>1, <1>2, <1>3, <1>4, BodyStep, Zenon
<1> QED
  BY <1>1, <1>4, <1>5, LevelStep, Zenon

LEMMA KeepHandlerReturn ==
  ASSUME StubInv, HandlerReturn
  PROVE  StubInv'
<1>1. /\ frames # <<>> /\ rip \in Nat /\ rip >= HandlerAddress(0)
      /\ Interrupted \in Frame /\ Level(Interrupted, regs, rip, stack)
  BY HandlersInterrupt, Zenon DEF HandlerReturn
<1>2. /\ regs' = regs /\ rip' = stack[Len(stack) - 0]
      /\ stack' = SubSeq(stack, 1, Len(stack) - 1)
      /\ frames' = frames /\ rflagsIF' = rflagsIF
  BY Zenon DEF HandlerReturn, Top, Drop
<1>3. Level(Interrupted, regs', rip', stack')
  BY <1>1, <1>2, HandlerReturnStep, Zenon
<1> QED
  BY <1>1, <1>2, <1>3, LevelStep, Zenon

LEMMA KeepHandlerPanics ==
  ASSUME StubInv, HandlerPanics
  PROVE  StubInv'
  BY KeepsLevels, Zenon DEF HandlerPanics

LEMMA KeepReturnFaults ==
  ASSUME StubInv, ReturnFaults
  PROVE  StubInv'
  BY KeepsLevels, Zenon DEF ReturnFaults

(* iretq takes the innermost level away, and what is below it is as it was  *)
(* when it was interrupted.                                                *)
LEMMA ReturnRestoresFrame ==
  ASSUME StubInv, ReturnFromInterrupt
  PROVE  /\ frames # <<>> /\ Interrupted \in Frame
         /\ regs' = Interrupted.regs /\ rip' = Interrupted.rip
         /\ rflagsIF' = Interrupted.rflagsIF /\ stack' = Interrupted.stack
<1>1. /\ frames # <<>> /\ InCode(Interrupted.vector, rip) /\ Code(rip)[1] = "iretq"
  BY Executing, Zenon DEF ReturnFromInterrupt
<1>2. /\ Interrupted \in Frame /\ Raisable(Interrupted) /\ Interrupted.regs["cs"] = 8
      /\ Level(Interrupted, regs, rip, stack)
  BY <1>1, Innermost, Zenon
<1>3. stack[Len(stack) - 1] = regs["cs"]
  BY Zenon DEF ReturnFromInterrupt, Top
<1>4. /\ rip' = stack[Len(stack) - 0] /\ rflagsIF' = (stack[Len(stack) - 2] = 1)
      /\ stack' = SubSeq(stack, 1, stack[Len(stack) - 3])
      /\ regs' = [regs EXCEPT !["ss"] = stack[Len(stack) - 4]]
  BY Zenon DEF ReturnFromInterrupt, Top
<1>5. /\ stack[Len(stack) - 0] = Interrupted.rip
      /\ (stack[Len(stack) - 2] = 1) = Interrupted.rflagsIF
      /\ SubSeq(stack, 1, stack[Len(stack) - 3]) = Interrupted.stack
      /\ [regs EXCEPT !["ss"] = stack[Len(stack) - 4]] = Interrupted.regs
  BY <1>1, <1>2, <1>3, ReturnStep, Zenon
<1> QED
  BY <1>1, <1>2, <1>4, <1>5, Zenon

LEMMA KeepReturnFromInterrupt ==
  ASSUME StubInv, ReturnFromInterrupt
  PROVE  StubInv'
<1>1. /\ frames # <<>> /\ Interrupted \in Frame
      /\ regs' = Interrupted.regs /\ rip' = Interrupted.rip
      /\ rflagsIF' = Interrupted.rflagsIF /\ stack' = Interrupted.stack
  BY ReturnRestoresFrame, Zenon
<1>2. PICK n \in Nat : n = Len(frames) /\ n > 0 /\ Interrupted = frames[n]
  BY <1>1, Innermost
<1>3. PICK s \in Seq(Frame) : s = frames /\ n = Len(s)
  BY <1>2, Zenon DEF StubInv, TypeOK
<1>4. PICK l \in Nat : l = n - 1 /\ l + 1 = n
  BY <1>2
<1>5. PICK t \in Seq(Frame) :
        t = frames' /\ Len(t) = l /\ \A i \in 1 .. l : t[i] = s[i]
  <2>1. frames' = SubSeq(s, 1, l)
    BY <1>2, <1>3, <1>4 DEF ReturnFromInterrupt, Front
  <2>2. \A i \in 1 .. l : s[i] \in Frame
    <3>1. \A i \in 1 .. n : s[i] \in Frame
      BY <1>3, LenProperties
    <3> QED
      BY <1>4, <3>1
  <2>3. PICK t : t = SubSeq(s, 1, l)
    OBVIOUS
  <2>4. l \in Int /\ 1 \in Int
    OBVIOUS
  <2>5. /\ t \in Seq(Frame) /\ Len(t) = IF 1 <= l THEN l - 1 + 1 ELSE 0
        /\ \A i \in 1 .. l - 1 + 1 : t[i] = s[1 + i - 1]
    BY <2>2, <2>3, <2>4, SubSeqProperties
  <2>6. Len(t) = l /\ \A i \in 1 .. l : t[i] = s[i]
    BY <2>5
  <2> QED
    BY <2>1, <2>3, <2>5, <2>6, Zenon
<1>6. TypeOK'
  BY <1>1, <1>5, FrameFields, Zenon DEF TypeOK
<1>7. regs'["cs"] = 8
  BY <1>1, Innermost, Zenon
<1>8. Levels'
  <2>1. ASSUME NEW i \in 1 .. l
        PROVE  /\ Raisable(t[i]) /\ t[i].regs["cs"] = 8
               /\ IF i = l THEN InStub(t[i], regs', rip', stack')
                  ELSE InStub(t[i], t[i + 1].regs, t[i + 1].rip, t[i + 1].stack)
    <3>1. i \in 1 .. n /\ i # n /\ i + 1 \in 1 .. n
      BY <1>4
    <3>2. /\ Raisable(s[i]) /\ s[i].regs["cs"] = 8
          /\ InStub(s[i], s[i + 1].regs, s[i + 1].rip, s[i + 1].stack)
      BY <1>2, <1>3, <3>1, Zenon DEF StubInv, Levels
    <3>3. t[i] = s[i]
      BY <1>5
    <3>4. CASE i = l
      <4>1. s[i + 1] = Interrupted
        BY <1>2, <1>3, <1>4, <3>4
      <4> QED
        BY <1>1, <3>2, <3>3, <3>4, <4>1, Zenon
    <3>5. CASE i # l
      <4>1. i + 1 \in 1 .. l
        BY <3>5
      <4>2. t[i + 1] = s[i + 1]
        BY <1>5, <4>1
      <4> QED
        BY <3>2, <3>3, <3>5, <4>2, Zenon
    <3> QED
      BY <3>4, <3>5
  <2> QED
    BY <1>5, <2>1, Zenon DEF Levels
<1>9. Grounded'
  <2>1. s[1].rip = Program
    BY <1>1, <1>3, Zenon DEF StubInv, Grounded
  <2>2. CASE l = 0
    <3>1. rip' = Program
      BY <1>1, <1>2, <1>3, <1>4, <2>1, <2>2
    <3>2. t = <<>>
      BY <1>5, <2>2, EmptySeq
    <3> QED
      BY <1>5, <3>1, <3>2, Zenon DEF Grounded
  <2>3. CASE l # 0
    <3>1. 1 \in 1 .. l
      BY <2>3
    <3>2. t[1].rip = Program
      BY <1>5, <2>1, <3>1
    <3>3. t # <<>>
      BY <1>5, <2>3, EmptySeq
    <3> QED
      BY <1>5, <3>2, <3>3, Zenon DEF Grounded
  <2> QED
    BY <2>2, <2>3
<1>10. Nested'
  <2>1. ASSUME NEW i \in 1 .. l, NEW j \in 1 .. l, i < j
        PROVE  Under(t[i].stack, t[j].stack)
    <3>1. i \in 1 .. n /\ j \in 1 .. n
      BY <1>4
    <3>2. Under(s[i].stack, s[j].stack)
      BY <1>2, <1>3, <2>1, <3>1, Zenon DEF StubInv, Nested
    <3>3. t[i] = s[i] /\ t[j] = s[j]
      BY <1>5
    <3> QED
      BY <3>2, <3>3, Zenon
  <2>2. Len(t) = l
    BY <1>5
  <2>3. \A i \in 1 .. Len(t) : \A j \in 1 .. Len(t) :
          i < j => Under(t[i].stack, t[j].stack)
    BY <2>1, <2>2, Zenon
  <2>4. t = frames'
    BY <1>5
  <2> QED
    BY <2>3, <2>4, Zenon DEF Nested
<1> QED
  BY <1>6, <1>7, <1>8, <1>9, <1>10, Zenon DEF StubInv

(* Every interrupted stack is still there.                                 *)
LEMMA Beneath ==
  ASSUME StubInv, NEW i \in 1 .. Len(frames)
  PROVE  Under(frames[i].stack, stack)
<1>1. PICK s \in Seq(Frame) : s = frames
  BY Zenon DEF StubInv, TypeOK
<1>2. PICK n \in Nat : n = Len(s)
  BY LenProperties
<1>3. i \in 1 .. n /\ n \in 1 .. n
  BY <1>1, <1>2
<1>4. s[i] \in Frame /\ s[n] \in Frame
  BY <1>2, <1>3, LenProperties
<1>5. PICK f \in Frame : f = s[i]
  BY <1>4
<1>6. PICK g \in Frame : g = s[n]
  BY <1>4
<1>7. PICK lf \in Nat : lf = Len(f.stack)
  BY FrameFields
<1>8. PICK lg \in Nat : lg = Len(g.stack) /\ lg <= Aligned(g)
  BY FrameFields, AlignedNat
<1>9. StackAt(g, Depth(g.vector, rip), stack)
  BY <1>1, <1>2, <1>3, <1>6, Zenon DEF StubInv, Levels, InStub
<1>10. \A m \in 1 .. lg : stack[m] = g.stack[m]
  BY <1>8, <1>9, Zenon DEF StackAt
<1>11. lg <= Len(stack)
  <2>1. PICK d \in Nat : d = Depth(g.vector, rip)
    <3>1. PICK v \in 0 .. 255 : v = g.vector
      BY FrameFields
    <3>2. PICK w \in 7 .. 8 : w = FrameWords(v)
      BY SevenOrEight
    <3>3. PICK e \in 0 .. 1 : e = ErrorWords(v)
      BY StubShape
    <3>4. PICK b \in Nat : b = StubBase(v) /\ b >= StubBase(0) /\ b > 49
      BY DEF StubBase
    <3>5. Within(v, rip) /\ rip \in Nat
      BY <1>1, <1>2, <1>3, <1>6, <3>1, Zenon DEF StubInv, TypeOK, Levels, InStub
    <3>6. CASE rip >= HandlerAddress(0)
      BY <3>1, <3>2, <3>6 DEF Depth
    <3>7. CASE ~(rip >= HandlerAddress(0)) /\ rip \in 1 .. 49
      <4>1. ~(rip >= StubBase(0))
        BY <3>7 DEF StubBase
      <4>2. Depth(v, rip) = IF rip <= 16 THEN w + rip - 1
                            ELSE IF rip <= 28 THEN w + 15 + (rip - 16) \div 2
                            ELSE IF rip <= 31 THEN w + 21
                            ELSE IF rip = 32 THEN w + 17
                            ELSE IF rip <= 48 THEN w + 48 - rip
                            ELSE w - 2
        BY <3>2, <3>7, <4>1, Zenon DEF Depth
      <4>3. PICK q : q = (rip - 16) \div 2
        OBVIOUS
      <4>4. rip > 16 => q \in Nat
        BY <3>7, <4>3
      <4>5. rip <= 16 => w + rip - 1 \in Nat
        BY <3>7
      <4>6. rip > 16 => w + 15 + q \in Nat
        BY <4>4
      <4>7. rip \in 1 .. 48 => w + 48 - rip \in Nat
        OBVIOUS
      <4>8. w + 21 \in Nat /\ w + 17 \in Nat /\ w - 2 \in Nat
        OBVIOUS
      <4>9. rip <= 16 \/ rip > 16
        BY <3>7
      <4>10. rip <= 48 => rip \in 1 .. 48
        BY <3>7
      <4>11. Depth(v, rip) \in Nat
        BY <4>2, <4>3, <4>5, <4>6, <4>7, <4>8, <4>9, <4>10, Zenon
      <4> QED
        BY <3>1, <4>11
    <3>8. CASE ~(rip >= HandlerAddress(0)) /\ rip \notin 1 .. 49
      <4>1. rip \in b .. b + w - 5 - e
        BY <3>2, <3>3, <3>4, <3>5, <3>8 DEF Within
      <4>2. rip >= StubBase(0)
        BY <3>4, <4>1 DEF StubBase
      <4>3. Depth(v, rip) = 5 + ErrorWords(v) + (rip - StubBase(v))
        BY <3>8, <4>2, Zenon DEF Depth
      <4>4. PICK k \in Nat : k = rip - b
        BY <4>1
      <4>5. Depth(v, rip) = 5 + e + k
        BY <3>3, <3>4, <4>3, <4>4
      <4> QED
        BY <3>1, <4>5
    <3> QED
      BY <3>6, <3>7, <3>8
  <2>2. PICK a \in Nat : a = Aligned(g)
    BY AlignedNat
  <2>3. Len(stack) = a + d
    BY <1>9, <2>1, <2>2 DEF StackAt
  <2> QED
    BY <1>8, <2>2, <2>3
<1>12. CASE i = n
  <2>1. f = g /\ lf = lg
    BY <1>5, <1>6, <1>7, <1>8, <1>12
  <2> QED
    BY <1>1, <1>5, <1>7, <1>10, <1>11, <2>1 DEF Under
<1>13. CASE i # n
  <2>1. i < n
    BY <1>3, <1>13
  <2>2. Nested
    BY Zenon DEF StubInv
  <2>3. lf <= lg /\ \A m \in 1 .. lf : f.stack[m] = g.stack[m]
    BY <1>1, <1>2, <1>3, <1>5, <1>6, <1>7, <1>8, <2>1, <2>2, Zenon DEF Nested, Under
  <2>4. PICK ls \in Nat : ls = Len(stack) /\ lg <= ls
    BY <1>11, LenProperties DEF StubInv, TypeOK
  <2>5. lf <= ls
    BY <2>3, <2>4
  <2>6. ASSUME NEW m \in 1 .. lf PROVE f.stack[m] = stack[m]
    <3>1. m \in 1 .. lg
      BY <2>3
    <3> QED
      BY <1>10, <2>3, <3>1
  <2> QED
    BY <1>1, <1>5, <1>7, <2>4, <2>5, <2>6 DEF Under
<1> QED
  BY <1>12, <1>13

LEMMA KeepInterrupt ==
  ASSUME StubInv, NEW v \in Vectors, Interrupt(v)
  PROVE  StubInv'
<1>1. PICK f : f = [vector |-> v, regs |-> regs, rip |-> rip, rflagsIF |-> rflagsIF, stack |-> stack]
  OBVIOUS
<1>2. v \in 0 .. 255
  BY StubAssumption DEF StubAssumption
<1>3. /\ f.vector = v /\ f.regs = regs /\ f.rip = rip /\ f.rflagsIF = rflagsIF /\ f.stack = stack
  BY <1>1
<1>4. f \in Frame
  BY <1>1, <1>2 DEF StubInv, TypeOK, Frame
<1>5. PICK s \in Seq(Frame) : s = frames
  BY Zenon DEF StubInv, TypeOK
<1>6. PICK n \in Nat : n = Len(s)
  BY LenProperties
<1>7. PICK t \in Seq(Frame) :
        t = frames' /\ Len(t) = n + 1 /\ (\A i \in 1 .. n : t[i] = s[i]) /\ t[n + 1] = f
  <2>1. PICK t : t = Append(s, f)
    OBVIOUS
  <2>2. t = frames'
    BY <1>1, <1>5, <2>1, Zenon DEF Interrupt
  <2>3. t \in Seq(Frame)
    BY <1>4, <2>1, AppendProperties
  <2>4. Len(t) = n + 1
    BY <1>4, <1>6, <2>1, AppendProperties
  <2>5. \A i \in 1 .. n : t[i] = s[i]
    BY <1>4, <1>6, <2>1, AppendProperties
  <2>6. t[n + 1] = f
    BY <1>4, <1>6, <2>1, AppendProperties
  <2> QED
    BY <2>2, <2>3, <2>4, <2>5, <2>6
<1>8. Level(f, regs', rip', stack')
  <2>1. PICK pad : pad = (IF Len(stack) % 2 = 1 THEN <<Junk>> ELSE <<>>)
    OBVIOUS
  <2>2. PICK error : error = (IF v \in PushesErrorCode THEN <<ErrorCode>> ELSE <<>>)
    OBVIOUS
  <2>3. PICK fl : fl = (IF rflagsIF THEN 1 ELSE 0)
    OBVIOUS
  <2>4. /\ regs' = regs /\ rip' = StubBase(v)
        /\ stack' = stack \o pad \o <<regs["ss"], Len(stack), fl, regs["cs"], rip>> \o error
    BY <2>1, <2>2, <2>3, Zenon DEF Interrupt, rflags
  <2>5. Level(f, f.regs, StubBase(f.vector),
              f.stack \o pad \o <<f.regs["ss"], Len(f.stack), fl, f.regs["cs"], f.rip>> \o error)
    BY <1>3, <1>4, <2>1, <2>2, <2>3, EntryStep, Zenon
  <2> QED
    BY <1>3, <2>4, <2>5, Zenon
<1>9. Raisable(f) /\ f.regs["cs"] = 8
  <2>1. v \in Misframed => v < 32
    BY DEF Misframed
  <2>2. v < 32 => rip = Program \/ rip >= HandlerAddress(0)
    BY Zenon DEF Interrupt, MayRaise, InHandler
  <2>3. regs["cs"] = 8
    BY Zenon DEF StubInv
  <2> QED
    BY <1>3, <2>1, <2>2, <2>3, Zenon DEF Raisable
<1>10. rflagsIF' \in BOOLEAN
  BY DEF Interrupt, StubInv, TypeOK
<1>11. TypeOK'
  BY <1>7, <1>8, <1>10, Zenon DEF TypeOK, Level
<1>12. regs'["cs"] = 8
  BY Zenon DEF Interrupt, StubInv
<1>13. Levels'
  <2>1. ASSUME NEW i \in 1 .. n + 1
        PROVE  /\ Raisable(t[i]) /\ t[i].regs["cs"] = 8
               /\ IF i = n + 1 THEN InStub(t[i], regs', rip', stack')
                  ELSE InStub(t[i], t[i + 1].regs, t[i + 1].rip, t[i + 1].stack)
    <3>1. CASE i = n + 1
      <4>1. t[i] = f /\ InStub(f, regs', rip', stack')
        BY <1>7, <1>8, <3>1 DEF Level
      <4> QED
        BY <1>9, <3>1, <4>1, Zenon
    <3>2. CASE i = n /\ i \in 1 .. n
      <4>1. Raisable(s[i]) /\ s[i].regs["cs"] = 8 /\ InStub(s[i], regs, rip, stack)
        BY <1>5, <1>6, <3>2, Zenon DEF StubInv, Levels
      <4>2. t[i] = s[i] /\ t[i + 1] = f /\ i # n + 1
        BY <1>7, <3>2
      <4> QED
        BY <1>3, <4>1, <4>2, Zenon
    <3>3. CASE i # n /\ i \in 1 .. n
      <4>1. /\ Raisable(s[i]) /\ s[i].regs["cs"] = 8
            /\ InStub(s[i], s[i + 1].regs, s[i + 1].rip, s[i + 1].stack)
        BY <1>5, <1>6, <3>3, Zenon DEF StubInv, Levels
      <4>2. i + 1 \in 1 .. n /\ i # n + 1
        BY <3>3
      <4>3. t[i] = s[i] /\ t[i + 1] = s[i + 1]
        BY <1>7, <3>3, <4>2
      <4> QED
        BY <4>1, <4>2, <4>3, Zenon
    <3>4. i = n + 1 \/ i \in 1 .. n
      OBVIOUS
    <3> QED
      BY <3>1, <3>2, <3>3, <3>4
  <2>2. PICK l : l = n + 1 /\ l = Len(t)
    BY <1>7
  <2> QED
    BY <1>7, <2>1, <2>2, Zenon DEF Levels
<1>14. Grounded'
  <2>1. t # <<>>
    BY <1>7, EmptySeq
  <2>2. CASE n = 0
    <3>1. s = <<>>
      BY <1>6, <2>2, EmptySeq
    <3>2. rip = Program
      BY <1>5, <3>1, Zenon DEF StubInv, Grounded
    <3>3. t[1] = f
      BY <1>7, <2>2
    <3>4. t[1].rip = Program
      BY <1>3, <3>2, <3>3, Zenon
    <3> QED
      BY <1>7, <2>1, <3>4, Zenon DEF Grounded
  <2>3. CASE n # 0
    <3>1. s # <<>>
      BY <1>6, <2>3, EmptySeq
    <3>2. s[1].rip = Program
      BY <1>5, <3>1, Zenon DEF StubInv, Grounded
    <3>3. t[1] = s[1]
      BY <1>7, <2>3
    <3> QED
      BY <1>7, <2>1, <3>2, <3>3, Zenon DEF Grounded
  <2> QED
    BY <2>2, <2>3
<1>15. Nested'
  <2>1. PICK l : l = n + 1 /\ l = Len(t)
    BY <1>7
  <2>2. ASSUME NEW i \in 1 .. l, NEW j \in 1 .. l, i < j
        PROVE  Under(t[i].stack, t[j].stack)
    <3>1. i \in 1 .. n
      BY <2>1, <2>2
    <3>2. t[i] = s[i]
      BY <1>7, <3>1
    <3>3. CASE j = n + 1
      <4>1. t[j].stack = stack
        BY <1>3, <1>7, <3>3
      <4>2. i \in 1 .. Len(frames)
        BY <1>5, <1>6, <3>1
      <4>3. Under(frames[i].stack, stack)
        BY <4>2, Beneath, Zenon
      <4> QED
        BY <1>5, <3>2, <4>1, <4>3, Zenon
    <3>4. CASE j # n + 1
      <4>1. j \in 1 .. n
        BY <2>1, <3>4
      <4>2. t[j] = s[j]
        BY <1>7, <4>1
      <4>3. Under(s[i].stack, s[j].stack)
        BY <1>5, <1>6, <2>2, <3>1, <4>1, Zenon DEF StubInv, Nested
      <4> QED
        BY <3>2, <4>2, <4>3, Zenon
    <3> QED
      BY <3>3, <3>4
  <2>3. Len(t) = l
    BY <2>1
  <2>4. \A i \in 1 .. Len(t) : \A j \in 1 .. Len(t) :
          i < j => Under(t[i].stack, t[j].stack)
    BY <2>2, <2>3, Zenon
  <2>5. t = frames'
    BY <1>7
  <2> QED
    BY <2>4, <2>5, Zenon DEF Nested
<1> QED
  BY <1>11, <1>12, <1>13, <1>14, <1>15, Zenon DEF StubInv

LEMMA AllSystem ==
  ASSUME NEW r \in Special, r # "cs", r # "ss"
  PROVE  \E j \in 1 .. 6 : SystemOrder[j] = r
<1>1. /\ SystemOrder[1] = "ds" /\ SystemOrder[2] = "es" /\ SystemOrder[3] = "cr0"
      /\ SystemOrder[4] = "cr2" /\ SystemOrder[5] = "cr3" /\ SystemOrder[6] = "cr4"
  BY DEF SystemOrder
<1>2. r \in {"ds", "es", "cr0", "cr2", "cr3", "cr4"}
  BY DEF Special
<1>3. 1 \in 1 .. 6 /\ 2 \in 1 .. 6 /\ 3 \in 1 .. 6 /\ 4 \in 1 .. 6 /\ 5 \in 1 .. 6 /\ 6 \in 1 .. 6
  OBVIOUS
<1> QED
  BY <1>1, <1>2, <1>3, Zenon

(* Init numbers the registers by this order.                               *)
LEMMA AllOrdered ==
  ASSUME NEW r \in Registers, r # "cs"
  PROVE  \E i \in 1 .. 22 : r = (SaveOrder \o SystemOrder \o <<"ss">>)[i]
<1>1. SaveOrder \in Seq(Registers) /\ SystemOrder \in Seq(Registers)
  <2>1. SaveOrder = [i \in 1 .. 15 |-> SaveOrder[i]]
    BY Orders DEF SaveOrder
  <2>2. SystemOrder = [i \in 1 .. 6 |-> SystemOrder[i]]
    BY Orders DEF SystemOrder
  <2>3. \A i \in 1 .. 15 : SaveOrder[i] \in Registers
    BY Orders DEF Registers
  <2>4. \A i \in 1 .. 6 : SystemOrder[i] \in Registers
    BY Orders DEF Registers
  <2>5. SaveOrder \in Seq(Registers)
    BY <2>1, <2>3
  <2>6. SystemOrder \in Seq(Registers)
    BY <2>2, <2>4
  <2> QED
    BY <2>5, <2>6
<1>2. PICK p \in Seq(Registers) : p = SaveOrder /\ Len(p) = 15
  BY <1>1, Orders
<1>3. PICK q \in Seq(Registers) : q = SystemOrder /\ Len(q) = 6
  BY <1>1, Orders
<1>4. <<"ss">> \in Seq(Registers) /\ Len(<<"ss">>) = 1 /\ <<"ss">>[1] = "ss"
  <2>1. PICK w \in Registers : w = "ss"
    BY DEF Registers, Special
  <2>2. <<w>> \in Seq(Registers) /\ Len(<<w>>) = 1 /\ <<w>>[1] = w
    OBVIOUS
  <2> QED
    BY <2>1, <2>2, Zenon
<1>5. PICK d \in Seq(Registers) : d = <<"ss">> /\ Len(d) = 1 /\ d[1] = "ss"
  BY <1>4, Zenon
<1>6. PICK c \in Seq(Registers) : c = p \o q /\ IsJoin(c, p, q)
  BY Joined, Zenon
<1>7. PICK x \in Seq(Registers) : x = c \o d /\ IsJoin(x, c, d)
  BY Joined, Zenon
<1>8. Len(c) = 21
  <2>1. Len(c) = Len(p) + Len(q)
    BY <1>6, Zenon DEF IsJoin
  <2> QED
    BY <1>2, <1>3, <2>1
<1>9. ASSUME NEW i \in 1 .. 21 PROVE x[i] = c[i]
  <2>1. i \in 1 .. Len(c)
    BY <1>8
  <2> QED
    BY <1>7, <2>1, Zenon DEF IsJoin
<1>10. ASSUME NEW i \in 1 .. 15 PROVE x[i] = SaveOrder[i]
  <2>1. i \in 1 .. Len(p) /\ i \in 1 .. 21
    BY <1>2
  <2>2. c[i] = p[i]
    BY <1>6, <2>1, Zenon DEF IsJoin
  <2> QED
    BY <1>2, <1>9, <2>1, <2>2
<1>11. ASSUME NEW i \in 1 .. 6, NEW k, k = 15 + i PROVE x[k] = SystemOrder[i]
  <2>1. i \in 1 .. Len(q) /\ k = Len(p) + i /\ k \in 1 .. 21
    BY <1>2, <1>3, <1>11
  <2>2. c[k] = q[i]
    BY <1>6, <2>1, Zenon DEF IsJoin
  <2> QED
    BY <1>3, <1>9, <2>1, <2>2
<1>12. x[22] = "ss"
  <2>1. PICK k : k = 22 /\ k = Len(c) + 1
    BY <1>8
  <2>2. 1 \in 1 .. Len(d)
    BY <1>5
  <2>3. x[k] = d[1]
    BY <1>7, <2>1, <2>2 DEF IsJoin
  <2> QED
    BY <1>5, <2>1, <2>3
<1>13. x = SaveOrder \o SystemOrder \o <<"ss">>
  BY <1>2, <1>3, <1>5, <1>6, <1>7, Zenon
<1>14. \E i \in 1 .. 22 : r = x[i]
  <2>1. CASE r = "ss"
    <3>1. 22 \in 1 .. 22
      OBVIOUS
    <3> QED
      BY <1>12, <2>1, <3>1, Zenon
  <2>2. CASE r \in General
    <3>1. PICK j \in 1 .. 15 : SaveOrder[j] = r
      BY <2>2, AllSaved
    <3>2. j \in 1 .. 22
      OBVIOUS
    <3>3. x[j] = r
      BY <1>10, <3>1, Zenon
    <3> QED
      BY <3>2, <3>3, Zenon
  <2>3. CASE r \in Special /\ r # "ss"
    <3>1. PICK j \in 1 .. 6 : SystemOrder[j] = r
      BY <2>3, AllSystem
    <3>2. PICK k : k = 15 + j
      OBVIOUS
    <3>3. k \in 1 .. 22
      BY <3>2
    <3>4. x[k] = r
      BY <1>11, <3>1, <3>2, Zenon
    <3> QED
      BY <3>3, <3>4, Zenon
  <2> QED
    BY <2>1, <2>2, <2>3 DEF Registers
<1> QED
  BY <1>13, <1>14, Zenon

LEMMA InitInv ==
  ASSUME Init
  PROVE  StubInv
<1>1. PICK r10 \in R10Values :
        regs = [r \in General \cup Special |->
                  CASE r = "r10" -> r10
                    [] r = "cs"  -> 8
                    [] OTHER     -> 500 + CHOOSE i \in 1 .. 22 :
                         r = (SaveOrder \o SystemOrder \o <<"ss">>)[i]]
  BY Zenon DEF Init
<1>2. r10 \in Nat
  BY StubAssumption DEF StubAssumption
<1>3. ASSUME NEW r \in Registers, r # "cs"
      PROVE  500 + (CHOOSE i \in 1 .. 22 :
                      r = (SaveOrder \o SystemOrder \o <<"ss">>)[i]) \in Nat
  <2>1. PICK n : n = CHOOSE i \in 1 .. 22 : r = (SaveOrder \o SystemOrder \o <<"ss">>)[i]
    OBVIOUS
  <2>2. n \in 1 .. 22
    BY <1>3, <2>1, AllOrdered, Zenon
  <2>3. 500 + n \in Nat
    BY <2>2
  <2> QED
    BY <2>1, <2>3, Zenon
<1>4. "cs" # "r10"
  OBVIOUS
<1>5. regs \in [Registers -> Nat] /\ regs["cs"] = 8
  <2>1. ASSUME NEW r \in Registers, r # "cs", r # "r10" PROVE regs[r] \in Nat
    <3>1. regs[r] = 500 + (CHOOSE i \in 1 .. 22 :
                             r = (SaveOrder \o SystemOrder \o <<"ss">>)[i])
      BY <1>1, <2>1, Zenon DEF Registers
    <3>2. 500 + (CHOOSE i \in 1 .. 22 :
                   r = (SaveOrder \o SystemOrder \o <<"ss">>)[i]) \in Nat
      BY <1>3, <2>1, Zenon
    <3>3. PICK y : y = 500 + (CHOOSE i \in 1 .. 22 :
                   r = (SaveOrder \o SystemOrder \o <<"ss">>)[i])
      OBVIOUS
    <3>4. y \in Nat
      BY <3>2, <3>3, Zenon
    <3>5. regs[r] = y
      BY <3>1, <3>3, Zenon
    <3> QED
      BY <3>4, <3>5, Zenon
  <2>2. regs["r10"] = r10 /\ regs["cs"] = 8
    <3>1. "cs" \in General \cup Special /\ "r10" \in General \cup Special
      BY RegisterNames DEF Registers
    <3> QED
      BY <1>1, <1>4, <3>1, Zenon
  <2>3. \A r \in Registers : regs[r] \in Nat
    BY <1>2, <2>1, <2>2
  <2>4. regs = [r \in Registers |-> regs[r]]
    <3> DEFINE V(r) == CASE r = "r10" -> r10
                         [] r = "cs"  -> 8
                         [] OTHER     -> 500 + CHOOSE i \in 1 .. 22 :
                              r = (SaveOrder \o SystemOrder \o <<"ss">>)[i]
    <3>1. regs = [r \in Registers |-> V(r)]
      BY <1>1, Zenon DEF Registers
    <3> HIDE DEF V
    <3> QED
      BY <3>1
  <2> QED
    BY <2>2, <2>3, <2>4, Zenon
<1>6. /\ rip = 0 /\ rflagsIF = TRUE /\ (stack = <<>> \/ stack = <<Junk>>) /\ frames = <<>>
  BY Zenon DEF Init, Program
<1>7. stack \in Seq(Nat)
  <2>1. <<>> \in Seq(Nat) /\ <<Junk>> \in Seq(Nat)
    BY DEF Junk
  <2> QED
    BY <1>6, <2>1
<1>8. frames \in Seq(Frame) /\ Len(frames) = 0
  BY <1>6, EmptySeq
<1>9. TypeOK
  BY <1>5, <1>6, <1>7, <1>8 DEF TypeOK
<1>10. \A i \in 1 .. Len(frames) : FALSE
  BY <1>8
<1>11. Levels
  BY <1>10, Zenon DEF Levels
<1>12. Nested
  BY <1>10, Zenon DEF Nested
<1>13. Grounded
  BY <1>6 DEF Grounded, Program
<1> QED
  BY <1>5, <1>9, <1>11, <1>12, <1>13, Zenon DEF StubInv

LEMMA NextInv ==
  ASSUME StubInv, [Next]_vars
  PROVE  StubInv'
<1>1. CASE Step
  BY <1>1, KeepPushRegister, KeepPushImmediate, KeepMoveSystem, KeepPassContext, KeepLoadVector,
     KeepAddRsp, KeepPopRegister, KeepJump, KeepCallHandler, KeepHandlerBody, KeepHandlerReturn,
     KeepHandlerPanics, KeepReturnFromInterrupt, KeepReturnFaults, Zenon DEF Step
<1>2. CASE \E v \in Vectors : Interrupt(v)
  BY <1>2, KeepInterrupt, Zenon
<1>3. CASE UNCHANGED vars
  BY <1>3, KeepsLevels, Zenon DEF vars
<1> QED
  BY <1>1, <1>2, <1>3, Zenon DEF Next, Undisturbed

(* However interrupts nest, each has its own words on the stack of what it  *)
(* interrupted, and the registers it has not restored yet are saved there. *)
THEOREM StubIsInvariant == Spec => []StubInv
<1>1. Init => StubInv
  BY InitInv
<1>2. StubInv /\ [Next]_vars => StubInv'
  BY NextInv
<1> QED
  BY <1>1, <1>2, PTL DEF Spec

(* Nothing above the interrupted program's stack pointer is written to      *)
(* while the stub saves the registers and handlers run, in whatever order   *)
(* interrupts nest: the processor and the pushes of idt.S only add words.   *)
THEOREM InterruptedStacksStay == Spec => []InterruptedStackUntouched
<1>1. ASSUME StubInv PROVE InterruptedStackUntouched
  <2>1. PICK s \in Seq(Frame) : s = frames
    BY <1>1, Zenon DEF StubInv, TypeOK
  <2>2. DOMAIN s = 1 .. Len(s)
    BY LenProperties
  <2>3. ASSUME NEW i \in 1 .. Len(frames) PROVE IsPrefix(frames[i].stack, stack)
    <3>1. s[i] \in Frame
      BY <2>1, LenProperties
    <3>2. PICK t \in Seq(Nat) : t = frames[i].stack
      BY <2>1, <3>1, FrameFields, Zenon
    <3>3. PICK u \in Seq(Nat) : u = stack
      BY <1>1, Zenon DEF StubInv, TypeOK
    <3>4. PICK n \in Nat : n = Len(t)
      BY LenProperties
    <3>5. n <= Len(u) /\ \A m \in 1 .. n : t[m] = u[m]
      BY <1>1, <2>3, <3>2, <3>3, <3>4, Beneath, Zenon DEF Under
    <3>6. n <= Len(t)
      BY <3>4
    <3>7. PICK a \in Seq(Nat) : a = SubSeq(t, 1, n) /\ Len(a) = n /\ \A m \in 1 .. n : a[m] = t[m]
      BY <3>6, Shortened, Zenon
    <3>8. PICK b \in Seq(Nat) : b = SubSeq(u, 1, n) /\ Len(b) = n /\ \A m \in 1 .. n : b[m] = u[m]
      BY <3>5, Shortened, Zenon
    <3>9. a = b
      <4>1. Len(a) = Len(b) /\ \A m \in 1 .. Len(a) : a[m] = b[m]
        BY <3>5, <3>7, <3>8, Zenon
      <4> QED
        BY <4>1, SeqEqual, Zenon
    <3> QED
      BY <3>2, <3>3, <3>4, <3>5, <3>7, <3>8, <3>9, Zenon DEF IsPrefix
  <2> QED
    BY <2>1, <2>2, <2>3, Zenon DEF InterruptedStackUntouched
<1> QED
  BY <1>1, StubIsInvariant, PTL

(* iretq of idt.S, at whatever point of the stubs the interrupts came and   *)
(* however they nest, gives back the registers, the instruction, the        *)
(* interrupt flag and the whole stack that were interrupted.               *)
THEOREM ReturnsRestore == Spec => ReturnRestores
<1> DEFINE Given ==
      frames' = Front(frames) /\ frames # <<>> =>
        /\ \A r \in General \cup Special : regs'[r] = Interrupted.regs[r]
        /\ rip' = Interrupted.rip /\ rflagsIF' = Interrupted.rflagsIF
        /\ stack' = Interrupted.stack
<1>1. ASSUME StubInv, [Next]_vars PROVE Given
  <2> SUFFICES ASSUME frames' = Front(frames), frames # <<>>
               PROVE  /\ \A r \in General \cup Special : regs'[r] = Interrupted.regs[r]
                      /\ rip' = Interrupted.rip /\ rflagsIF' = Interrupted.rflagsIF
                      /\ stack' = Interrupted.stack
    OBVIOUS
  <2>1. PICK s \in Seq(Frame) : s = frames
    BY <1>1, Zenon DEF StubInv, TypeOK
  <2>2. PICK n \in Nat \ {0} : n = Len(s)
    BY <1>1, <2>1, Innermost
  <2>3. PICK l \in Nat : l = n - 1
    BY <2>2
  <2>4. Len(frames') = l
    <3>1. frames' = SubSeq(s, 1, l)
      BY <2>1, <2>2, <2>3 DEF Front
    <3>2. \A i \in 1 .. l : s[i] \in Frame
      <4>1. \A i \in 1 .. n : s[i] \in Frame
        BY <2>2, LenProperties
      <4> QED
        BY <2>3, <4>1
    <3>3. PICK t : t = SubSeq(s, 1, l)
      OBVIOUS
    <3>4. l \in Int /\ 1 \in Int
      OBVIOUS
    <3>5. Len(t) = IF 1 <= l THEN l - 1 + 1 ELSE 0
      BY <3>2, <3>3, <3>4, SubSeqProperties
    <3>6. Len(t) = l
      BY <3>5
    <3> QED
      BY <3>1, <3>3, <3>6, Zenon
  <2>5. frames' # frames
    BY <2>1, <2>2, <2>3, <2>4
  <2>6. ASSUME NEW v \in Vectors, Interrupt(v) PROVE FALSE
    <3>1. PICK f : f = [vector |-> v, regs |-> regs, rip |-> rip, rflagsIF |-> rflagsIF, stack |-> stack]
      OBVIOUS
    <3>2. frames' = Append(s, f)
      BY <2>1, <2>6, <3>1, Zenon DEF Interrupt
    <3>3. v \in 0 .. 255
      BY StubAssumption DEF StubAssumption
    <3>4. f \in Frame
      BY <1>1, <3>1, <3>3, Zenon DEF StubInv, TypeOK, Frame
    <3>5. Len(Append(s, f)) = n + 1
      BY <2>2, <3>4, AppendProperties
    <3> QED
      BY <2>3, <2>4, <3>2, <3>5
  <2>7. ReturnFromInterrupt
    BY <1>1, <2>5, <2>6, Zenon
       DEF Next, Step, Undisturbed, vars, PushRegister, PushImmediate, MoveSystem, PassContext,
           LoadVector, AddRsp, PopRegister, Retire, Jump, CallHandler, HandlerBody, HandlerReturn,
           HandlerPanics, ReturnFaults
  <2> QED
    BY <1>1, <2>7, ReturnRestoresFrame, Zenon
<1>2. StubInv /\ [Next]_vars => Given
  BY <1>1
<1>3. StubInv /\ [Next]_vars => [Given]_vars
  BY <1>2
<1> QED
  BY <1>3, StubIsInvariant, PTL DEF Spec, ReturnRestores

(* Where registers_ctx has what the processor and the stub push first.     *)
LEMMA FieldIndices ==
  /\ FieldIndex("interrupt_vector") = 22 /\ FieldIndex("error_code") = 23
  /\ FieldIndex("rip") = 24 /\ FieldIndex("cs") = 25 /\ FieldIndex("rflags") = 26
  /\ FieldIndex("rsp") = 27 /\ FieldIndex("ss") = 28
<1>1. DOMAIN ContextFields = 1 .. 28
  BY DEF ContextFields
<1>2. /\ ContextFields[22] = "interrupt_vector" /\ ContextFields[23] = "error_code"
      /\ ContextFields[24] = "rip" /\ ContextFields[25] = "cs" /\ ContextFields[26] = "rflags"
      /\ ContextFields[27] = "rsp" /\ ContextFields[28] = "ss"
  BY DEF ContextFields
<1>3. ASSUME NEW i \in 1 .. 21
      PROVE  ContextFields[i] \notin {"interrupt_vector", "error_code", "rip", "cs", "rflags", "rsp", "ss"}
  BY DEF ContextFields
<1>4. ASSUME NEW k \in 22 .. 28, NEW i \in 1 .. 28, ContextFields[i] = ContextFields[k]
      PROVE  i = k
  BY <1>2, <1>3, <1>4
<1>5. ASSUME NEW k \in 22 .. 28 PROVE FieldIndex(ContextFields[k]) = k
  <2>1. k \in 1 .. 28
    OBVIOUS
  <2> QED
    BY <1>1, <1>4, <2>1, Zenon DEF FieldIndex
<1> QED
  BY <1>2, <1>5

(* At the call of a handler in common_stub rsp is on a 16-byte boundary,    *)
(* and the registers_ctx that rdi points to holds the vector, the error     *)
(* code and the state that was interrupted: for every vector but the three  *)
(* whose error code STUB does not know of.                                 *)
THEOREM ContextIsShown == Spec => []ContextShowsInterrupt
<1>1. ASSUME StubInv, FramedHandlerEntered PROVE ContextShowsInterrupt
  <2>1. /\ frames # <<>> /\ rip \in Nat /\ rip >= HandlerAddress(0)
        /\ Interrupted \in Frame /\ Level(Interrupted, regs, rip, stack)
    BY <1>1, HandlersInterrupt, Zenon DEF FramedHandlerEntered, HandlerEntered
  <2>2. PICK f \in Frame : f = Interrupted
    BY <2>1
  <2>3. PICK n \in 7 .. 8 : n = FrameWords(f.vector) /\ n = 7
    BY <1>1, <2>2 DEF FrameWords, FramedHandlerEntered
  <2>4. Entry(rip)
    <3>1. PICK k \in Nat : k = rip - HandlerAddress(0)
      BY <2>1 DEF HandlerAddress
    <3>2. rip = HandlerAddress(k \div 2)
      BY <1>1, <3>1, Zenon DEF FramedHandlerEntered, HandlerEntered, HandlerVector
    <3>3. k = 2 * (k \div 2)
      BY <3>1, <3>2 DEF HandlerAddress
    <3>4. k % 2 = 0
      BY <3>3
    <3> QED
      BY <2>1, <3>1, <3>4 DEF Entry
  <2>5. RegistersAt(f, regs, rip) /\ StackAt(f, Depth(f.vector, rip), stack)
    BY <2>1, <2>2, Zenon DEF Level, InStub
  <2>6. Depth(f.vector, rip) = n + 22
    BY <2>1, <2>3, Zenon DEF Depth
  <2>7. PICK a \in Nat : a = Aligned(f) /\ a % 2 = 0
    BY AlignedNat
  <2>8. regs["rdi"] = a + 28
    BY <2>3, <2>4, <2>5, <2>7 DEF RegistersAt
  <2>9. Len(stack) = a + 29
    BY <2>3, <2>5, <2>6, <2>7 DEF StackAt
  <2>10. (Len(stack) - 1) % 2 = 0
    BY <2>7, <2>9
  <2>11. ASSUME NEW x, NEW i \in 22 .. 28, FieldIndex(x) = i, NEW m \in 1 .. 7, m = 29 - i
         PROVE  ContextField(x) = Word(f, m)
    <3>1. PICK k \in Nat : k = a + m
      OBVIOUS
    <3>2. regs["rdi"] + 1 - FieldIndex(x) = k
      BY <2>8, <2>11, <3>1
    <3>3. m \in 1 .. Depth(f.vector, rip)
      BY <2>3, <2>6
    <3>4. stack[k] = Word(f, m)
      BY <2>5, <2>7, <3>1, <3>3, Zenon DEF StackAt
    <3> QED
      BY <3>2, <3>4, Zenon DEF ContextField
  <2>12. /\ ContextField("interrupt_vector") = Word(f, 7) /\ ContextField("error_code") = Word(f, 6)
         /\ ContextField("rip") = Word(f, 5) /\ ContextField("cs") = Word(f, 4)
         /\ ContextField("rflags") = Word(f, 3) /\ ContextField("rsp") = Word(f, 2)
         /\ ContextField("ss") = Word(f, 1)
    BY <2>11, FieldIndices
  <2>13. /\ Word(f, 7) = f.vector
         /\ Word(f, 6) = (IF f.vector \in PushesErrorCode THEN ErrorCode ELSE 0)
         /\ Word(f, 5) = f.rip /\ Word(f, 4) = f.regs["cs"]
         /\ Word(f, 3) = (IF f.rflagsIF THEN 1 ELSE 0)
         /\ Word(f, 2) = Len(f.stack) /\ Word(f, 1) = f.regs["ss"]
    BY <2>3, Words
  <2> QED
    BY <2>2, <2>10, <2>12, <2>13, Zenon DEF ContextShowsInterrupt
<1>2. StubInv => ContextShowsInterrupt
  BY <1>1, Zenon DEF ContextShowsInterrupt
<1> QED
  BY <1>2, StubIsInvariant, PTL
=============================================================================
