------------------------------ MODULE MCLibrary ------------------------------
(***************************************************************************)
(* The functions without a component of their own: util/string.c, and the  *)
(* views and optionals of ktl.  They have nothing to do with each other: a *)
(* behaviour is one of one of the modules, and the variables of the others *)
(* keep their first value.                                                 *)
(*                                                                         *)
(* Strtok: the program's string is in 0 .. 4, the handler's in 5 .. 7; the *)
(* one is split at 1, the other at 2.  CStringCalls: the last 5 bytes of   *)
(* memory have any of three values, and there is every call that fits into *)
(* them, with characters inside and outside the ranges of signed and       *)
(* unsigned char.  NumberText: integers of 8 bits.  Views: an array of 3 among 16   *)
(* addresses.                                                              *)
(***************************************************************************)
EXTENDS Strtok, CStringCalls, Ktl

MCStart == [program |-> 0, handler |-> 5]
MCDelim == [program |-> 8, handler |-> 10]
Texts ==
  {p \o <<0>> \o h \o <<0>> \o <<1, 0, 2, 0>> : p \in [1 .. 4 -> 0 .. 3], h \in [1 .. 2 -> 1 .. 3]}
MCMemories == {[a \in Addr |-> s[a + 1]] : s \in Texts}

-----------------------------------------------------------------------------
VARIABLES
  topic,                            \* the module whose behaviour this is
  num, base, text, value, end, stage    \* of NumberText

numberVars == <<num, base, text, value, end, stage>>
viewVars == <<class, view, part>>
optionalVars == <<here, mem, holds, own>>
libraryVars == <<topic, vars, callVars, numberVars, viewVars, optionalVars>>

Free == 5   \* bytes that have any value
CallBytes == {0, 1, 233}
CallChars == {0, 1, -23, 233, 257}
CallContents ==
  {[a \in Addr |-> IF a < Size - Free THEN 1 ELSE s[a - (Size - Free) + 1]] : s \in [1 .. Free -> CallBytes]}
C(fn, d, s, n, c) == [fn |-> fn, d |-> d, s |-> s, n |-> n, c |-> c]
Places == Size - Free .. Size - 1
AllCalls ==
  {C(fn, d, s, n, 0) : fn \in {"memcpy", "memmove", "memcmp", "strncpy", "strncat", "strncmp"},
                       d \in Places, s \in Places, n \in 0 .. Free}
  \cup {C(fn, d, s, 0, 0) : fn \in {"strcpy", "strcat", "strcmp", "strspn", "strcspn",
                                    "strpbrk", "strstr"}, d \in Places, s \in Places}
  \cup {C(fn, 0, s, n, c) : fn \in {"memset", "memchr"}, s \in Places, n \in 0 .. Free, c \in CallChars}
  \cup {C(fn, 0, s, 0, c) : fn \in {"strchr", "strrchr"}, s \in Places, c \in CallChars}
  \cup {C(fn, 0, s, n, 0) : fn \in {"strlen", "strnlen"}, s \in Places, n \in 0 .. Free}

Numbers == INSTANCE NumberText
             WITH Bits <- 8, Bases <- {2, 3, 8, 10, 16, 36},
                  Before <- {<<>>, <<32>>, <<9, 32>>}, After <- {<<>>, <<32>>, <<95, 43>>}
MCArray == <<2, 1, 2>>

-----------------------------------------------------------------------------
(* Only one of them starts in every way it may. *)
LibraryInit ==
  /\ topic \in {"strtok", "strings", "numbers", "views", "optional"}
  /\ topic # "strtok" => memory = CHOOSE m \in MCMemories : TRUE
  /\ Init
  /\ topic # "strings" => bytes = [a \in Addr |-> IF a < Size - Free THEN 1 ELSE 0]
  /\ CallInit
  /\ topic # "numbers" => num = 0 /\ base = 10
  /\ Numbers!Init
  /\ View!Init /\ Opt!Init

LibraryNext ==
  /\ UNCHANGED topic
  /\ \/ topic = "strtok" /\ Next /\ UNCHANGED <<callVars, numberVars, viewVars, optionalVars>>
     \/ topic = "strings" /\ CallNext /\ UNCHANGED <<vars, numberVars, viewVars, optionalVars>>
     \/ topic = "numbers" /\ Numbers!Next /\ UNCHANGED <<vars, callVars, viewVars, optionalVars>>
     \/ topic = "views" /\ View!Next /\ UNCHANGED <<vars, callVars, numberVars, optionalVars>>
     \/ topic = "optional" /\ Opt!Next /\ UNCHANGED <<vars, callVars, numberVars, viewVars>>

(* The fairness of Strtok. *)
LibrarySpec ==
  /\ LibraryInit /\ [][LibraryNext]_libraryVars
  /\ \A u \in Users :
       WF_libraryVars(/\ topic = "strtok" /\ Step(u)
                      /\ UNCHANGED <<topic, callVars, numberVars, viewVars, optionalVars>>)

-----------------------------------------------------------------------------
(* itoa() prints the numeral of every number, and what it has printed,      *)
(* atoi() reads back; so does strtol(), if the number is negative.          *)
NumbersReadBack ==
  Numbers!PrintsNumeral /\ Numbers!AtoiInverts /\ Numbers!StrtolInvertsNegative
=============================================================================
