------------------------------ MODULE NumberText ------------------------------
(***************************************************************************)
(* Numbers to text and back: itoa(), atoi() and strtol() of util/string.c. *)
(* (ltoa() and lltoa(), atol() and atoll(), strtoll() are the same code    *)
(* for other widths.)  A number is printed, and what was printed is read   *)
(* again, in the middle of other text.                                     *)
(*                                                                         *)
(* Characters are their codes, texts are sequences of them.  Signed        *)
(* overflow is undefined; no step of the module overflows.                 *)
(*                                                                         *)
(* SignIgnored is a faulty variant of the definition that follows it, used *)
(* only to see that a property notices the fault.                          *)
(***************************************************************************)
EXTENDS Integers, Sequences, SequencesExt

CONSTANTS
  Bits,    \* the width of the integers: not 0
  Bases,   \* the bases that are asked for: some of 2 .. 36
  Before,  \* what may stand before a number
  After    \* what may stand after it

MAX == 2 ^ (Bits - 1) - 1
MIN == -MAX - 1

VARIABLES
  num, base,    \* the number and the base
  text,         \* what itoa() writes, and what surrounds it
  value, end,   \* what the function that reads it returns; its *endptr
  stage

vars == <<num, base, text, value, end, stage>>

-----------------------------------------------------------------------------
(* Characters and C arithmetic. *)

Char(s, i) == IF i \in DOMAIN s THEN s[i] ELSE 0
Unset == 0   \* *endptr is left as it was
Minus == 45
Plus == 43

isspace(c) == c \in {32} \cup 9 .. 13
isdigit(c) == c \in 48 .. 57
isupper(c) == c \in 65 .. 90
islower(c) == c \in 97 .. 122
isalpha(c) == isupper(c) \/ islower(c)
isalnum(c) == isalpha(c) \/ isdigit(c)
tolower(c) == IF isupper(c) THEN c + 32 ELSE c

(* Division rounds toward 0. *)
Quot(a, b) == IF a >= 0 THEN a \div b ELSE -((-a) \div b)
Rem(a, b) == a - b * Quot(a, b)

-----------------------------------------------------------------------------
DigitChar(rem) == IF rem > 9 THEN rem - 10 + 97 ELSE rem + 48

(* The loop of itoa(): the digits of n, the last one first. *)
LowFirst(n, b) ==
  LET low[k \in MIN .. MAX] ==
        IF k = 0 THEN <<>> ELSE <<DigitChar(Rem(k, b))>> \o low[Quot(k, b)]
  IN  low[n]

reverse(s) == [i \in DOMAIN s |-> s[Len(s) + 1 - i]]

itoa(n, b) ==
  LET negative == n < 0 /\ b = 10
  IN  IF n = 0 THEN <<48>>
      ELSE reverse(LowFirst(IF negative THEN -n ELSE n, b) \o (IF negative THEN <<Minus>> ELSE <<>>))

(* The first character from i on that is no blank. *)
SkipBlanks(s, i) ==
  CHOOSE j \in i .. Len(s) + 1 : ~isspace(Char(s, j)) /\ \A k \in i .. j - 1 : isspace(s[k])

(* Where the digits start, and what sign stands before them. *)
Signed(s) == Char(s, SkipBlanks(s, 1)) \in {Minus, Plus}
Digits(s) == SkipBlanks(s, 1) + (IF Signed(s) THEN 1 ELSE 0)
SignIgnored(s) == 1
Sign(s) == IF Char(s, SkipBlanks(s, 1)) = Minus THEN -1 ELSE 1

atoi(s) ==
  LET read[i \in 1 .. Len(s) + 1, res \in 0 .. MAX] ==
        IF isdigit(Char(s, i)) THEN read[i + 1, res * 10 + Char(s, i) - 48] ELSE res
  IN  Sign(s) * read[Digits(s), 0]

(* 99 is beyond every base: the loop ends at such a character. *)
DigitValue(c) ==
  CASE isdigit(c) -> c - 48
    [] isalpha(c) -> tolower(c) - 97 + 10
    [] OTHER      -> 99

(* The loop of strtol() from the character at i on; valid says that a digit *)
(* was read.  A result below the threshold ends it with the limit.          *)
strtol(s, b) ==
  LET limit     == IF Sign(s) = -1 THEN MIN ELSE MAX
      threshold == Quot(limit, b)
      loop[i \in 1 .. Len(s) + 1, res \in 0 .. MAX, valid \in BOOLEAN] ==
        LET digit == DigitValue(Char(s, i))
        IN  IF digit >= b THEN [valid |-> valid, res |-> res, i |-> i]
            ELSE IF res < threshold \/ (res = threshold /\ digit > Rem(limit, b))
              THEN [valid |-> TRUE, res |-> limit, i |-> i]
            ELSE loop[i + 1, res * b + digit, TRUE]
      last == loop[Digits(s), 0, FALSE]
  IN  CASE b < 0 \/ b = 1 \/ b > 36 -> [value |-> 0, end |-> Unset]
        [] OTHER -> IF last.valid THEN [value |-> Sign(s) * last.res, end |-> last.i]
                                  ELSE [value |-> 0, end |-> 1]

-----------------------------------------------------------------------------
(* In base 10 itoa() negates the number, so the least one is left out.      *)
Init ==
  /\ num \in MIN .. MAX /\ base \in Bases /\ (num = MIN => base # 10)
  /\ text = <<>> /\ value = 0 /\ end = Unset /\ stage = "print"

WriteNumber(before, after) ==
  /\ stage = "print"
  /\ text' = before \o itoa(num, base) \o after
  /\ stage' = "read"
  /\ UNCHANGED <<num, base, value, end>>

(* A number in another base has no sign. *)
Readable == num >= 0 \/ base = 10

ReadInt ==
  /\ stage = "read" /\ Readable /\ base = 10
  /\ value' = atoi(text) /\ stage' = "atoi"
  /\ UNCHANGED <<num, base, text, end>>

ReadLong ==
  /\ stage = "read" /\ Readable
  /\ LET r == strtol(text, base) IN value' = r.value /\ end' = r.end
  /\ stage' = "strtol"
  /\ UNCHANGED <<num, base, text>>

(* A text without a number. *)
ReadNothing(s) ==
  /\ stage = "print"
  /\ text' = s
  /\ LET r == strtol(s, base) IN value' = r.value /\ end' = r.end
  /\ stage' = "nothing"
  /\ UNCHANGED <<num, base>>

(* No digits go with such a base.  (0 is not refused: it is divided by.)    *)
ReadRefused(b) ==
  /\ stage = "read"
  /\ LET r == strtol(text, b) IN value' = r.value /\ end' = r.end
  /\ stage' = "refused"
  /\ UNCHANGED <<num, base, text>>

Done == stage # "print" /\ UNCHANGED vars

Next ==
  \/ \E b \in Before, a \in After : WriteNumber(b, a)
  \/ ReadInt \/ ReadLong
  \/ \E s \in Before : ReadNothing(s)
  \/ \E b \in {-1, 1, 37} : ReadRefused(b)
  \/ Done

Spec == Init /\ [][Next]_vars

-----------------------------------------------------------------------------
(* A reference: the value of a numeral. *)
NumeralValue(s, b) == FoldLeft(LAMBDA n, c : n * b + DigitValue(c), 0, s)
Magnitude == IF num < 0 THEN -num ELSE num

(* The numeral in the text. *)
Printed == SelectSeq(text, isalnum)

(* Every number is printed as its numeral, without a leading 0, with a sign *)
(* when the base is 10.  In another base a negative number has no sign, and *)
(* its digits are as far below the character 0 as they should be above.     *)
DigitBelow(c) == 48 - c
PrintsNumeral ==
  /\ stage = "read" /\ Readable =>
       /\ NumeralValue(Printed, base) = Magnitude
       /\ num # 0 => Head(Printed) # 48
       /\ num < 0 <=> \E i \in DOMAIN text : text[i] = Minus
  /\ stage = "read" /\ ~Readable =>
       \E i \in DOMAIN text : \E j \in i .. Len(text) :
         /\ SubSeq(text, 1, i - 1) \in Before /\ SubSeq(text, j + 1, Len(text)) \in After
         /\ text[i] # 48 /\ \A k \in i .. j : DigitBelow(text[k]) \in 0 .. base - 1
         /\ FoldLeft(LAMBDA n, c : n * base + DigitBelow(c), 0, SubSeq(text, i, j)) = Magnitude

(* What itoa() has printed in base 10, atoi() reads, blanks before and      *)
(* other text behind it or not.                                            *)
AtoiInverts == stage = "atoi" => value = num

(* strtol() reads back negative numbers, and leaves *endptr behind them.    *)
(* Of any other, it makes the greatest number, and leaves *endptr at the    *)
(* first digit: its result 0 is below the overflow threshold at once.       *)
(* Of a text without a number it makes 0, and *endptr is its start; of a    *)
(* base that there is not it makes 0, and leaves *endptr alone.             *)
StrtolInvertsNegative ==
  /\ stage = "strtol" =>
       IF num < 0
         THEN value = num /\ SubSeq(text, end, Len(text)) \in After
         ELSE value = MAX /\ \E i \in DOMAIN text :
                end = i /\ SubSeq(text, 1, i - 1) \in Before
  /\ stage = "nothing" => value = 0 /\ end = 1
  /\ stage = "refused" => value = 0 /\ end = Unset
=============================================================================
