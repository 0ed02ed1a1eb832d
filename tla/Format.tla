-------------------------------- MODULE Format --------------------------------
(***************************************************************************)
(* FmtBase::printf() and what it calls (core/format.hh), for one port, on  *)
(* a processor on which interrupt handlers print too.  Numbers are turned  *)
(* into digits in static buffers, one for each base, that all calls share. *)
(* A step puts one character, or writes one digit.                         *)
(*                                                                         *)
(* Characters are strings of length one.  A word has 2^WordBits values.    *)
(*                                                                         *)
(* ScanBraceOnce, AfterSpecUnchecked and WriteDigitDropsLast are faulty    *)
(* variants of the definitions that follow them, used only to see that a   *)
(* property notices the fault.                                             *)
(***************************************************************************)
EXTENDS Integers, Sequences, FiniteSets, SequencesExt, Functions

CONSTANTS
  WordBits,    \* 64
  BufferSize,  \* the size of each static buffer: hex 16, bin 64, dec 24
  Calls,       \* the calls of printf() that the program may make
  Interrupted, \* those of them that handlers interrupt
  Nested,      \* the calls of printf() that handlers may make
  MaxCalls     \* how many calls there are

Kinds == {"hex", "bin", "dec"}
Base(k) == CASE k = "hex" -> 16 [] k = "bin" -> 2 [] k = "dec" -> 10

(* A number fits into its buffer: so it is for 16, 64 and 24.               *)
ASSUME BufferAssumption ==
  /\ WordBits \in Nat /\ 2 ^ WordBits \in Nat \ {0}
  /\ BufferSize \in [Kinds -> Nat \ {0}]
  /\ \A k \in Kinds : Base(k) ^ BufferSize[k] >= 2 ^ WordBits

(* A format is a sequence of characters; an argument has one of the types   *)
(* that route() tells apart.                                                *)
ArgumentTypes == {"int", "ptr", "str", "view", "atomic", "slice", "pair", "other"}
ASSUME CallsAssumption ==
  \A c \in Calls \cup Nested :
    /\ c.fmt \in Seq(STRING)
    /\ c.args \in Seq(Range(c.args))
    /\ \A i \in DOMAIN c.args :
         /\ c.args[i].type \in ArgumentTypes
         /\ c.args[i].type \in {"int", "ptr"} => c.args[i].v \in Int

VARIABLES
  calls,     \* the calls that were made: their formats and arguments
  text,      \* what each of them has put out
  frames,    \* the calls in progress, the one that executes last
  buf,       \* the static buffers
  disturbed  \* history: calls whose buffer was written by one that interrupted them

vars == <<calls, text, frames, buf, disturbed>>

-----------------------------------------------------------------------------
(* Characters. *)

upper == <<"0", "1", "2", "3", "4", "5", "6", "7", "8", "9", "A", "B", "C", "D", "E", "F">>
lower == <<"0", "1", "2", "3", "4", "5", "6", "7", "8", "9", "a", "b", "c", "d", "e", "f">>
Decimal == {upper[d] : d \in 1 .. 10}
DigitValue(c) == (CHOOSE d \in 1 .. 16 : upper[d] = c \/ lower[d] = c) - 1

(* The character at i, or the terminating zero. *)
Char(s, i) == IF i \in DOMAIN s THEN s[i] ELSE ""

Lines(c) == IF c = "\n" THEN <<"\r", "\n">> ELSE <<c>>
puts(s) == FlattenSeq([i \in DOMAIN s |-> Lines(s[i])])

(* The padding in front of a number of that many digits. *)
Padding(width, len, zero_pad) ==
  [i \in 1 .. (IF width > len THEN width - len ELSE 0) |-> IF zero_pad THEN "0" ELSE " "]

(* static_cast<u64> *)
Word(v) == v % 2 ^ WordBits

(* put_dec() has a buffer of its own on the stack. *)
put_dec(v) ==
  LET digits[n \in 0 .. v] ==
        IF n < 10 THEN <<upper[n + 1]>> ELSE digits[n \div 10] \o <<upper[(n % 10) + 1]>>
  IN  digits[v]

(* print() of an integer, and of an atomic, a slice or array, and a pair of *)
(* integers.                                                               *)
printInt(v) == put_dec(Word(v))
printAtomic(v) == printInt(v)
printSlice(s) ==
  <<"[">> \o FlattenSeq([i \in DOMAIN s |->
     printInt(s[i]) \o (IF i < Len(s) THEN <<",", " ">> ELSE <<>>)]) \o <<"]">>
printPair(a, b) == <<"(">> \o printInt(a) \o <<",", " ">> \o printInt(b) \o <<")">>
Unsupported == <<"[unsupported]">>   \* as one character

-----------------------------------------------------------------------------
(* parse_spec(): what is between the braces. *)

NumberOf(s) == FoldLeft(LAMBDA n, c : 10 * n + DigitValue(c), 0, s)

parse_spec(s) ==
  LET first     == IF Char(s, 1) = ":" THEN 2 ELSE 1
      alternate == Char(s, first) = "#"
      flags     == first + (IF alternate THEN 1 ELSE 0)
      zero_pad  == Char(s, flags) = "0"
      digits    == flags + (IF zero_pad THEN 1 ELSE 0)
      end       == CHOOSE i \in digits .. Len(s) + 1 :
                     /\ Char(s, i) \notin Decimal
                     /\ \A j \in digits .. i - 1 : s[j] \in Decimal
  IN  [alternate |-> alternate, zero_pad |-> zero_pad,
       width |-> NumberOf(SubSeq(s, digits, end - 1)), type |-> Char(s, end)]

-----------------------------------------------------------------------------
(* The calls in progress.  A call puts the characters that are pending;     *)
(* then it goes on with the number it is at, or with the format.            *)

NoNumber == [kind |-> "none", v |-> 0, len |-> 0, next |-> 0,
             lowercase |-> FALSE, width |-> 0, zero_pad |-> FALSE]

Frame(n) == [call |-> n, p |-> 1, arg |-> 1, pending |-> <<>>,
             phase |-> "scan", number |-> NoNumber]

Top == frames[Len(frames)]
fmt(n) == calls[n].fmt
args(n) == calls[n].args

(* The executing call is at this phase, and all it had to put is put. *)
At(phase) == frames # <<>> /\ Top.pending = <<>> /\ Top.phase = phase
Continue(f) == frames' = [frames EXCEPT ![Len(frames)] = f]
SetText(n, s) == text' = [text EXCEPT ![n] = s]

Init ==
  /\ calls = <<>> /\ text = <<>> /\ frames = <<>>
  /\ buf = [k \in Kinds |-> [i \in 0 .. BufferSize[k] - 1 |-> ""]]
  /\ disturbed = {}

Put ==
  /\ frames # <<>> /\ Top.pending # <<>>
  /\ SetText(Top.call, Append(text[Top.call], Head(Top.pending)))
  /\ Continue([Top EXCEPT !.pending = Tail(@)])
  /\ UNCHANGED <<calls, buf, disturbed>>

-----------------------------------------------------------------------------
(* The loop over the format.  When every argument is used, what is left is  *)
(* put as it is, with puts().                                              *)

ArgsLeft == Top.arg <= Len(args(Top.call))
Next1 == Char(fmt(Top.call), Top.p)
Next2 == Char(fmt(Top.call), Top.p + 1)

ScanCharacter ==
  /\ At("scan") /\ Next1 # "" /\ (ArgsLeft => Next1 # "{")
  /\ Continue([Top EXCEPT !.p = @ + 1, !.pending = Lines(Next1)])
  /\ UNCHANGED <<calls, text, buf, disturbed>>

ScanBraceOnce ==
  /\ At("scan") /\ ArgsLeft /\ Next1 = "{" /\ Next2 = "{"
  /\ Continue([Top EXCEPT !.p = @ + 1, !.pending = <<"{">>])
  /\ UNCHANGED <<calls, text, buf, disturbed>>

ScanBrace ==
  /\ At("scan") /\ ArgsLeft /\ Next1 = "{" /\ Next2 = "{"
  /\ Continue([Top EXCEPT !.p = @ + 2, !.pending = <<"{">>])
  /\ UNCHANGED <<calls, text, buf, disturbed>>

(* Where the closing brace is, or the end of the format. *)
SpecEnd ==
  LET s == fmt(Top.call)
  IN  CHOOSE i \in Top.p + 1 .. Len(s) + 1 :
        /\ Char(s, i) \in {"}", ""}
        /\ \A j \in Top.p + 1 .. i - 1 : s[j] # "}"

(* Behind the closing brace; the terminating zero is not skipped. *)
AfterSpecUnchecked == SpecEnd + 1
AfterSpec == IF SpecEnd <= Len(fmt(Top.call)) THEN SpecEnd + 1 ELSE SpecEnd

Number(kind, v, fs) ==
  [kind |-> kind, v |-> Word(v), len |-> 0, next |-> 0, lowercase |-> fs.type = "x",
   width |-> fs.width, zero_pad |-> fs.zero_pad]

(* route(): by the type of the argument and the type in the format.  A      *)
(* "str" may also be an array of characters, a "view" a wide string, which  *)
(* print() writes without a carriage return, and a "slice" an array.        *)
KindOf(a, fs) ==
  CASE a.type = "ptr" \/ fs.type \in {"x", "X"} -> "hex"
    [] a.type = "int" /\ fs.type = "b"          -> "bin"
    [] OTHER                                    -> "dec"
Prefix(a, fs) ==
  IF a.type = "int" /\ fs.alternate /\ fs.type \in {"x", "X", "b"}
    THEN <<"0", fs.type>> ELSE <<>>

ScanPlaceholder ==
  /\ At("scan") /\ ArgsLeft /\ Next1 = "{" /\ Next2 # "{"
  /\ LET fs == parse_spec(SubSeq(fmt(Top.call), Top.p + 1, SpecEnd - 1))
         a  == args(Top.call)[Top.arg]
         f  == [Top EXCEPT !.p = AfterSpec, !.arg = @ + 1]
     IN  CASE a.type \in {"int", "ptr"} ->
                Continue([f EXCEPT !.phase = "digits", !.pending = Prefix(a, fs),
                            !.number = Number(KindOf(a, fs), a.v, [fs EXCEPT
                               !.type = IF a.type = "ptr" THEN "X" ELSE @])])
           [] a.type = "str"    -> Continue([f EXCEPT !.pending = puts(a.s)])
           [] a.type = "view"   -> Continue([f EXCEPT !.pending = a.s])
           [] a.type = "atomic" -> Continue([f EXCEPT !.pending = printAtomic(a.v)])
           [] a.type = "slice"  -> Continue([f EXCEPT !.pending = printSlice(a.s)])
           [] a.type = "pair"   -> Continue([f EXCEPT !.pending = printPair(a.s[1], a.s[2])])
           [] a.type = "other"  -> Continue([f EXCEPT !.pending = Unsupported])
  /\ UNCHANGED <<calls, text, buf, disturbed>>

Return ==
  /\ At("scan") /\ Next1 = ""
  /\ frames' = Front(frames)
  /\ UNCHANGED <<calls, text, buf, disturbed>>

-----------------------------------------------------------------------------
(* make_hex_string(), make_bin_string(), make_dec_string(): the digits are  *)
(* written from the last to the first, then swapped; then print_padded().   *)

Num == Top.number
Digits(n) == IF n.lowercase THEN lower ELSE upper

(* Interrupted calls that have digits in the same buffer. *)
Sharing ==
  {frames[i].call : i \in {j \in 1 .. Len(frames) - 1 :
     frames[j].number.kind = Num.kind /\ frames[j].number.len > 0}}

WriteDigitDropsLast ==
  /\ At("digits")
  /\ LET b == Base(Num.kind)
         n == [Num EXCEPT !.v = @ \div b, !.len = @ + 1]
     IN  /\ buf' = [buf EXCEPT ![Num.kind][Num.len] = Digits(Num)[(Num.v % b) + 1]]
         /\ Continue([Top EXCEPT !.number = n,
              !.phase = IF n.v > b /\ n.len < BufferSize[n.kind] THEN "digits" ELSE "swap"])
  /\ disturbed' = disturbed \cup Sharing
  /\ UNCHANGED <<calls, text>>

WriteDigit ==
  /\ At("digits")
  /\ LET b == Base(Num.kind)
         n == [Num EXCEPT !.v = @ \div b, !.len = @ + 1]
     IN  /\ buf' = [buf EXCEPT ![Num.kind][Num.len] = Digits(Num)[(Num.v % b) + 1]]
         /\ Continue([Top EXCEPT !.number = n,
              !.phase = IF n.v # 0 /\ n.len < BufferSize[n.kind] THEN "digits" ELSE "swap"])
  /\ disturbed' = disturbed \cup Sharing
  /\ UNCHANGED <<calls, text>>

Swap ==
  /\ At("swap") /\ Num.next < Num.len \div 2
  /\ LET i == Num.next
         j == Num.len - 1 - Num.next
         b == buf[Num.kind]
     IN  buf' = [buf EXCEPT ![Num.kind] = [b EXCEPT ![i] = b[j], ![j] = b[i]]]
  /\ Continue([Top EXCEPT !.number.next = @ + 1])
  /\ disturbed' = disturbed \cup Sharing
  /\ UNCHANGED <<calls, text>>

Pad ==
  /\ At("swap") /\ Num.next >= Num.len \div 2
  /\ Continue([Top EXCEPT !.phase = "emit", !.number.next = 0,
                           !.pending = Padding(Num.width, Num.len, Num.zero_pad)])
  /\ UNCHANGED <<calls, text, buf, disturbed>>

PutDigit ==
  /\ At("emit") /\ Num.next < Num.len
  /\ SetText(Top.call, Append(text[Top.call], buf[Num.kind][Num.next]))
  /\ Continue([Top EXCEPT !.number.next = @ + 1])
  /\ UNCHANGED <<calls, buf, disturbed>>

NumberDone ==
  /\ At("emit") /\ Num.next >= Num.len
  /\ Continue([Top EXCEPT !.phase = "scan", !.number = NoNumber])
  /\ UNCHANGED <<calls, text, buf, disturbed>>

-----------------------------------------------------------------------------
(* The program calls printf(); handlers that interrupt that call, or one    *)
(* another, or come after it, call it too.                                  *)
Call ==
  /\ Len(calls) < MaxCalls
  /\ calls # <<>> => calls[1] \in Interrupted
  /\ \E c \in (IF calls = <<>> THEN Calls ELSE Nested) : calls' = Append(calls, c)
  /\ text' = Append(text, <<>>)
  /\ frames' = Append(frames, Frame(Len(calls) + 1))
  /\ UNCHANGED <<buf, disturbed>>

Idle == frames = <<>> /\ UNCHANGED vars

Step ==
  \/ Put \/ ScanCharacter \/ ScanBrace \/ ScanPlaceholder \/ Return
  \/ WriteDigit \/ Swap \/ Pad \/ PutDigit \/ NumberDone

Next == Step \/ Call \/ Idle

Spec == Init /\ [][Next]_vars

-----------------------------------------------------------------------------
(* A reference for what printf() is to put out.  A format is given as a     *)
(* sequence of parts: a character, an escaped brace, or a placeholder.      *)

Text(c) == [part |-> "text", c |-> c]
Brace == [part |-> "brace"]
Placeholder(alternate, zero_pad, width, type) ==
  [part |-> "placeholder", alternate |-> alternate, zero_pad |-> zero_pad,
   width |-> width, type |-> type]

Written(part) ==
  CASE part.part = "text"  -> <<part.c>>
    [] part.part = "brace" -> <<"{", "{">>
    [] OTHER -> <<"{", ":">> \o (IF part.alternate THEN <<"#">> ELSE <<>>)
                  \o (IF part.zero_pad THEN <<"0">> ELSE <<>>)
                  \o (IF part.width > 0 THEN put_dec(part.width) ELSE <<>>)
                  \o (IF part.type # "" THEN <<part.type>> ELSE <<>>) \o <<"}">>
FormatOf(parts) == FlattenSeq([i \in DOMAIN parts |-> Written(parts[i])])

(* The numeral of a number: the digits that add up to it, without leading   *)
(* zeros.                                                                   *)
Numeral(v, b, digits) ==
  LET size == CHOOSE n \in 1 .. WordBits : v < b ^ n /\ (n > 1 => v >= b ^ (n - 1))
  IN  [i \in 1 .. size |-> digits[((v \div b ^ (size - i)) % b) + 1]]

Padded(part, s) == Padding(part.width, Len(s), part.zero_pad) \o s

Rendered(part, a) ==
  CASE a.type = "int" /\ part.type = "x" ->
         (IF part.alternate THEN <<"0", "x">> ELSE <<>>) \o Padded(part, Numeral(a.v, 16, lower))
    [] a.type = "int" /\ part.type = "X" ->
         (IF part.alternate THEN <<"0", "X">> ELSE <<>>) \o Padded(part, Numeral(a.v, 16, upper))
    [] a.type = "int" /\ part.type = "b" ->
         (IF part.alternate THEN <<"0", "b">> ELSE <<>>) \o Padded(part, Numeral(a.v, 2, upper))
    [] a.type = "int" /\ part.type = ""  -> Padded(part, Numeral(a.v, 10, upper))
    [] a.type = "ptr"   -> Padded(part, Numeral(a.v, 16, upper))
    [] a.type = "str"   -> puts(a.s)
    [] a.type = "view"  -> a.s
    [] a.type = "slice" -> printSlice(a.s)
    [] a.type = "pair"  -> printPair(a.s[1], a.s[2])
    [] a.type = "atomic" -> Numeral(Word(a.v), 10, upper)
    [] a.type = "other"  -> Unsupported

IsPlaceholder(part) == part.part = "placeholder"
ArgumentAt(parts, i) == Cardinality({j \in 1 .. i : IsPlaceholder(parts[j])})
Expected(c) ==
  FlattenSeq([i \in DOMAIN c.parts |->
    CASE c.parts[i].part = "text"  -> Lines(c.parts[i].c)
      [] c.parts[i].part = "brace" -> <<"{">>
      [] OTHER -> Rendered(c.parts[i], c.args[ArgumentAt(c.parts, i)])])

(* The reference applies to a call that has an argument for each            *)
(* placeholder, that passes no negative number, and that escapes no brace   *)
(* behind its last placeholder (printf() puts both braces there).           *)
Conforms(c) ==
  /\ c.fmt = FormatOf(c.parts)
  /\ ArgumentAt(c.parts, Len(c.parts)) = Len(c.args)
  /\ \A i \in DOMAIN c.args : c.args[i].type = "int" => c.args[i].v >= 0
  /\ \A i \in DOMAIN c.parts : c.parts[i].part = "brace" =>
       ArgumentAt(c.parts, i) < Len(c.args)

-----------------------------------------------------------------------------
Returned(n) == \A i \in DOMAIN frames : frames[i].call # n

(* Whatever the format and the arguments are, and whoever interrupts it, a  *)
(* call does not scan past the end of its format or of its arguments, and   *)
(* no number outgrows the static buffer of its base.  What the call is to   *)
(* put from the buffer are digits of that base, and no zero bytes: also     *)
(* when calls that interrupted it have written there, and reversed the      *)
(* order of what it has written.                                            *)
DigitsOf(k) == {upper[d] : d \in 1 .. Base(k)} \cup {lower[d] : d \in 1 .. Base(k)}
StaysInBounds ==
  \A i \in DOMAIN frames :
    LET n == frames[i].number
    IN  /\ frames[i].p <= Len(fmt(frames[i].call)) + 1
        /\ frames[i].arg <= Len(args(frames[i].call)) + 1
        /\ n.kind \in Kinds =>
             /\ n.len <= BufferSize[n.kind]
             /\ \A d \in 0 .. n.len - 1 : buf[n.kind][d] \in DigitsOf(n.kind)

(* printf() puts what the format asks for, whatever interrupts it, unless a *)
(* call that interrupts it formats a number in the same base between the    *)
(* first digit that it writes to the buffer and the last that it puts.      *)
PrintsAsSpecified ==
  \A n \in DOMAIN calls :
    Returned(n) /\ Conforms(calls[n]) /\ n \notin disturbed =>
      text[n] = Expected(calls[n])

(* A call whose buffer was written by another one still puts as many        *)
(* characters as it should, and only digits of its numbers are wrong: in    *)
(* their place are other digits, never a zero byte of the buffer or a digit *)
(* that the base does not have.                                             *)
DamageIsDigits ==
  \A n \in DOMAIN calls :
    Returned(n) /\ Conforms(calls[n]) =>
      /\ Len(text[n]) = Len(Expected(calls[n]))
      /\ \A i \in DOMAIN text[n] : text[n][i] # Expected(calls[n])[i] =>
           {text[n][i], Expected(calls[n])[i]} \subseteq Range(upper) \cup Range(lower)
=============================================================================
