----------------------------- MODULE CStringCalls -----------------------------
(***************************************************************************)
(* Calls of the functions of module CString, one for each behaviour, with  *)
(* a reference for what they are to do.                                    *)
(***************************************************************************)
EXTENDS CString

CONSTANTS
  Contents,  \* the memories there may be before the call
  Calls      \* the calls that are made: [fn, d, s, n, c]

ASSUME CallsAssumption ==
  /\ Contents \subseteq [Addr -> Byte]
  /\ \A c \in Calls : c.d \in Addr /\ c.s \in Addr /\ c.n \in Nat /\ c.c \in Int

VARIABLES
  bytes,   \* memory
  before,  \* history: memory before the call
  call,    \* the call that was made
  result   \* what it returned

callVars == <<bytes, before, call, result>>

NoCall == [fn |-> "none"]

-----------------------------------------------------------------------------
(* What a caller has to see to. *)

InMemory(p, n) == p + n <= Size
Apart(d, n, s, k) == d + n <= s \/ s + k <= d

Shorter(a, b) == IF a < b THEN a ELSE b

Valid(m, c) ==
  CASE c.fn = "memmove" -> InMemory(c.d, c.n) /\ InMemory(c.s, c.n)
    [] c.fn = "memcmp"  -> InMemory(c.d, c.n) /\ InMemory(c.s, c.n)
    [] c.fn = "memcpy"  -> InMemory(c.d, c.n) /\ InMemory(c.s, c.n) /\ Apart(c.d, c.n, c.s, c.n)
    [] c.fn \in {"memset", "memchr"} -> InMemory(c.s, c.n)
    [] c.fn = "strcpy"  ->
         /\ HasString(m, c.s) /\ InMemory(c.d, Len(Text(m, c.s)) + 1)
         /\ Apart(c.d, Len(Text(m, c.s)) + 1, c.s, Len(Text(m, c.s)) + 1)
    [] c.fn = "strncpy" ->
         HasString(m, c.s) /\ InMemory(c.d, c.n + 1) /\ Apart(c.d, c.n + 1, c.s, Len(Text(m, c.s)) + 1)
    [] c.fn \in {"strcat", "strncat"} ->
         /\ HasString(m, c.s) /\ HasString(m, c.d)
         /\ LET n == Len(Text(m, c.d)) + Len(Text(m, c.s)) + 1
            IN  InMemory(c.d, n) /\ Apart(c.d, n, c.s, Len(Text(m, c.s)) + 1)
    [] c.fn \in {"strlen", "strnlen", "strchr", "strrchr"} -> HasString(m, c.s)
    [] OTHER -> HasString(m, c.d) /\ HasString(m, c.s)

CallInit ==
  /\ bytes \in Contents /\ before = bytes
  /\ call = NoCall /\ result = nullptr

(* The memory after a call, and what it returns. *)
MemoryAfter(m, c) ==
  CASE c.fn = "memcpy"  -> memcpy(m, c.d, c.s, c.n)
    [] c.fn = "memmove" -> memmove(m, c.d, c.s, c.n)
    [] c.fn = "memset"  -> memset(m, c.s, c.c, c.n)
    [] c.fn = "strcpy"  -> strcpy(m, c.d, c.s)
    [] c.fn = "strncpy" -> strncpy(m, c.d, c.s, c.n)
    [] c.fn = "strcat"  -> strcat(m, c.d, c.s)
    [] c.fn = "strncat" -> strncat(m, c.d, c.s, c.n)
    [] OTHER            -> m

ResultOf(m, c) ==
  CASE c.fn \in {"memcpy", "memmove", "strcpy", "strncpy", "strcat", "strncat"} -> c.d
    [] c.fn = "memset"  -> c.s
    [] c.fn = "memcmp"  -> memcmp(m, c.d, c.s, c.n)
    [] c.fn = "memchr"  -> memchr(m, c.s, c.c, c.n)
    [] c.fn = "strlen"  -> strlen(m, c.s)
    [] c.fn = "strnlen" -> strnlen(m, c.s, c.n)
    [] c.fn = "strchr"  -> strchr(m, c.s, c.c)
    [] c.fn = "strrchr" -> strrchr(m, c.s, c.c)
    [] c.fn = "strcmp"  -> strcmp(m, c.d, c.s)
    [] c.fn = "strncmp" -> strncmp(m, c.d, c.s, c.n)
    [] c.fn = "strspn"  -> strspn(m, c.d, c.s)
    [] c.fn = "strcspn" -> strcspn(m, c.d, c.s)
    [] c.fn = "strpbrk" -> strpbrk(m, c.d, c.s)
    [] c.fn = "strstr"  -> strstr(m, c.d, c.s)

Do(c) ==
  /\ Valid(bytes, c)
  /\ bytes' = MemoryAfter(bytes, c)
  /\ result' = ResultOf(bytes, c)
  /\ call' = c
  /\ UNCHANGED before

CallDone == call # NoCall /\ UNCHANGED callVars

CallNext == (call = NoCall /\ \E c \in Calls : Do(c)) \/ CallDone

CallSpec == CallInit /\ [][CallNext]_callVars

-----------------------------------------------------------------------------
(* The reference: what the functions mean, in terms of the bytes and the    *)
(* strings there were before the call.                                     *)

(* Memory is as it was, but for these bytes at d. *)
Overwritten(d, t) ==
  bytes = [a \in Addr |-> IF a - d + 1 \in DOMAIN t THEN t[a - d + 1] ELSE before[a]]

Raw(p, n) == [i \in 1 .. n |-> before[p + i - 1]]
Truncated(t, n) == SubSeq(t, 1, Shorter(Len(t), n))
Zeros(n) == [i \in 1 .. n |-> 0]

(* A position among those that qualify, or nullptr; from either end. *)
FirstOf(S) == IF S = {} THEN nullptr ELSE CHOOSE p \in S : \A q \in S : p <= q
LastOf(S) == IF S = {} THEN nullptr ELSE CHOOSE p \in S : \A q \in S : p >= q

Positions(s) == s .. s + Len(Text(before, s)) - 1
CharsOf(t) == {t[i] : i \in DOMAIN t}

(* Is c the character whose byte is b?  Only if c is in the range of char:   *)
(* strchr() and strrchr() find the byte 233 when they are asked for -23, and *)
(* not when they are asked for 233.                                         *)
IsChar(b, c) == c \in -128 .. 127 /\ b = c % 256

(* The difference of the first characters that differ, a string being       *)
(* followed by a 0.                                                        *)
CharAt(t, i) == IF i <= Len(t) THEN t[i] ELSE 0
Compared(a, b) ==
  LET D == {i \in 1 .. Size : CharAt(a, i) # CharAt(b, i)}
  IN  IF D = {} THEN 0 ELSE CharAt(a, FirstOf(D)) - CharAt(b, FirstOf(D))

(* memmove() copies right however source and destination overlap; nothing   *)
(* is written outside the destination; and every copy ends in a 0 that      *)
(* should.  strncpy() writes a 0 behind its n bytes, too, when the string   *)
(* is shorter.                                                             *)
MemoryAsSpecified ==
  LET c == call
      src == Text(before, c.s)
  IN  CASE c.fn \in {"memcpy", "memmove"} -> Overwritten(c.d, Raw(c.s, c.n))
        [] c.fn = "memset"  -> Overwritten(c.s, [i \in 1 .. c.n |-> c.c % 256])
        [] c.fn = "strcpy"  -> Overwritten(c.d, src \o <<0>>)
        [] c.fn = "strncpy" -> Overwritten(c.d, Truncated(src, c.n) \o
              (IF Len(src) < c.n THEN Zeros(c.n - Len(src) + 1) ELSE <<>>))
        [] c.fn = "strcat"  -> Overwritten(c.d, Text(before, c.d) \o src \o <<0>>)
        [] c.fn = "strncat" -> Overwritten(c.d, Text(before, c.d) \o Truncated(src, c.n) \o <<0>>)
        [] OTHER            -> bytes = before

(* The functions that search and compare return what they are to return,    *)
(* for empty strings, for bounds of 0, and for a string or a bound that     *)
(* ends with memory.                                                       *)
ResultAsSpecified ==
  LET c == call
      a == Text(before, c.d)
      b == Text(before, c.s)
  IN  CASE c.fn = "memcmp"  -> result = Compared(Raw(c.d, c.n), Raw(c.s, c.n))
        [] c.fn = "memchr"  -> result = FirstOf({p \in c.s .. c.s + c.n - 1 : before[p] = c.c})
        [] c.fn = "strlen"  -> result = Len(b)
        [] c.fn = "strnlen" -> result = Shorter(Len(b), c.n)
        [] c.fn = "strchr"  -> result = FirstOf({p \in c.s .. c.s + Len(b) : IsChar(before[p], c.c)})
        [] c.fn = "strrchr" -> result = LastOf({p \in c.s .. c.s + Len(b) : IsChar(before[p], c.c)})
        [] c.fn = "strcmp"  -> result = Compared(a, b)
        [] c.fn = "strncmp" -> result = Compared(Truncated(a, c.n), Truncated(b, c.n))
        [] c.fn = "strspn"  ->
             result = FirstOf({i \in 0 .. Len(a) : i = Len(a) \/ a[i + 1] \notin CharsOf(b)})
        [] c.fn = "strcspn" ->
             result = FirstOf({i \in 0 .. Len(a) : i = Len(a) \/ a[i + 1] \in CharsOf(b)})
        [] c.fn = "strpbrk" -> result = FirstOf({p \in Positions(c.d) : before[p] \in CharsOf(b)})
        [] c.fn = "strstr"  ->
             result = FirstOf({p \in Positions(c.d) \cup {c.d} : Truncated(Text(before, p), Len(b)) = b})
        [] OTHER            -> TRUE

(* Every function of string.h writes and returns what its reference says.   *)
CallsAsSpecified == MemoryAsSpecified /\ ResultAsSpecified
=============================================================================
