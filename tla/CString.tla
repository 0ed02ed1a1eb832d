------------------------------- MODULE CString -------------------------------
(***************************************************************************)
(* The memory and string functions of util/string.c.  Memory is a function *)
(* from addresses to bytes, a pointer is an address, a string ends at the  *)
(* first 0.  The functions are translated loop by loop.  An application of *)
(* memory outside its domain is a wild access, which TLC reports.  A       *)
(* function that is given a character gets it as an int.                   *)
(*                                                                         *)
(* memmoveUp is a faulty variant of the definition that follows it, used   *)
(* only to see that a property notices the fault.                          *)
(***************************************************************************)
EXTENDS Integers, Sequences

CONSTANT Size   \* the size of memory

ASSUME SizeAssumption == Size \in Nat \ {0}

Addr == 0 .. Size - 1
Byte == 0 .. 255
nullptr == -1

(* An int as an unsigned char, and a byte as a char, which is signed.       *)
Unsigned(c) == c % 256
Signed(b) == IF b < 128 THEN b ELSE b - 256

-----------------------------------------------------------------------------
(* Loops over memory. *)

(* The first address from p on whose byte ends the loop. *)
Walk(m, p, Stop(_)) ==
  CHOOSE i \in p .. Size - 1 : Stop(m[i]) /\ \A j \in p .. i - 1 : ~Stop(m[j])

(* How many times the body of a loop is executed, n times at most. *)
Rounds(n, Stop(_)) == CHOOSE i \in 0 .. n : Stop(i) /\ \A j \in 0 .. i - 1 : ~Stop(j)

(* How many bytes there are before the first 0, of n at most. *)
Span(m, p, n) == Rounds(n, LAMBDA i : i = n \/ m[p + i] = 0)

-----------------------------------------------------------------------------
(* Functions that write. *)

memcpy(m, d, s, n) ==
  LET copied[i \in 0 .. n] ==
        IF i = 0 THEN m ELSE [copied[i - 1] EXCEPT ![d + i - 1] = copied[i - 1][s + i - 1]]
  IN  copied[n]

memmoveUp(m, d, s, n) == memcpy(m, d, s, n)

memmove(m, d, s, n) ==
  LET copied[i \in 0 .. n] ==
        IF i = 0 THEN m ELSE [copied[i - 1] EXCEPT ![d + n - i] = copied[i - 1][s + n - i]]
  IN  IF d < s THEN memcpy(m, d, s, n) ELSE copied[n]

memset(m, s, c, n) ==
  LET filled[i \in 0 .. n] ==
        IF i = 0 THEN m ELSE [filled[i - 1] EXCEPT ![s + i - 1] = Unsigned(c)]
  IN  filled[n]

strlen(m, s) == Walk(m, s, LAMBDA c : c = 0) - s

strcpy(m, d, s) == memcpy(m, d, s, strlen(m, s) + 1)

(* n is not decremented when the 0 is copied: one more 0 follows.           *)
strncpy(m, d, s, n) ==
  LET k == Span(m, s, n)
  IN  IF k = n THEN memcpy(m, d, s, n)
               ELSE memset(memcpy(m, d, s, k + 1), d + k + 1, 0, n - k)

strcat(m, d, s) == strcpy(m, d + strlen(m, d), s)

strncat(m, d, s, n) ==
  LET e == d + strlen(m, d)
      k == Span(m, s, n)
  IN  IF k = n THEN [memcpy(m, e, s, n) EXCEPT ![e + n] = 0] ELSE memcpy(m, e, s, k + 1)

-----------------------------------------------------------------------------
(* Functions that only read. *)

(* Looks at s[maxlen] when there is no 0 before it. *)
strnlen(m, s, maxlen) == Rounds(maxlen, LAMBDA i : m[s + i] = 0 \/ i = maxlen)

memcmp(m, s1, s2, n) ==
  LET i == Rounds(n, LAMBDA k : k = n \/ m[s1 + k] # m[s2 + k])
  IN  IF i = n THEN 0 ELSE m[s1 + i] - m[s2 + i]

strcmp(m, s1, s2) ==
  LET i == Rounds(Size, LAMBDA k : m[s1 + k] = 0 \/ m[s1 + k] # m[s2 + k])
  IN  m[s1 + i] - m[s2 + i]

(* n is decremented before the bytes are looked at. *)
strncmp(m, s1, s2, n) ==
  LET i == Rounds(Size, LAMBDA k : m[s1 + k] = 0 \/ m[s1 + k] # m[s2 + k] \/ k + 1 = n)
  IN  IF n = 0 THEN 0 ELSE m[s1 + i] - m[s2 + i]

(* Compares unsigned bytes with the int, where strchr() and strrchr()       *)
(* compare signed characters.                                              *)
memchr(m, s, c, n) ==
  LET i == Rounds(n, LAMBDA k : k = n \/ m[s + k] = c)
  IN  IF i = n THEN nullptr ELSE s + i

strchr(m, s, c) ==
  LET p == Walk(m, s, LAMBDA x : x = 0 \/ Signed(x) = c)
  IN  IF m[p] # 0 \/ c = 0 THEN p ELSE nullptr

strrchr(m, s, c) ==
  LET last[p \in s .. s + strlen(m, s)] ==
        LET earlier == IF p = s THEN nullptr ELSE last[p - 1]
        IN  IF Signed(m[p]) = c THEN p ELSE earlier
  IN  last[s + strlen(m, s)]

(* The inner loops of strspn(), strcspn() and strpbrk(): is c one of the    *)
(* characters of the string at a?                                          *)
Among(m, c, a) == LET p == Walk(m, a, LAMBDA x : x = 0 \/ x = c) IN m[p] # 0

strspn(m, s, accept) == Walk(m, s, LAMBDA x : x = 0 \/ ~Among(m, x, accept)) - s
strcspn(m, s, reject) == Walk(m, s, LAMBDA x : x = 0 \/ Among(m, x, reject)) - s
strpbrk(m, s, accept) ==
  LET p == Walk(m, s, LAMBDA x : x = 0 \/ Among(m, x, accept))
  IN  IF m[p] = 0 THEN nullptr ELSE p

(* The inner loop of strstr(): does the needle start at h? *)
Matches(m, h, needle) ==
  LET i == Rounds(Size, LAMBDA k : \/ m[h + k] = 0 \/ m[needle + k] = 0
                                   \/ m[h + k] # m[needle + k])
  IN  m[needle + i] = 0

strstr(m, haystack, needle) ==
  LET i == Rounds(Size, LAMBDA k : m[haystack + k] = 0 \/ Matches(m, haystack + k, needle))
  IN  IF m[needle] = 0 THEN haystack
      ELSE IF m[haystack + i] = 0 THEN nullptr ELSE haystack + i

(* A reference: the string at s, without its end, if there is one. *)
HasString(m, s) == \E i \in s .. Size - 1 : m[i] = 0
Text(m, s) ==
  LET n == CHOOSE i \in 0 .. Size - 1 - s : m[s + i] = 0 /\ \A j \in 0 .. i - 1 : m[s + j] # 0
  IN  [i \in 1 .. n |-> m[s + i - 1]]
=============================================================================
