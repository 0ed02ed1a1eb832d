-------------------------------- MODULE Strtok --------------------------------
(***************************************************************************)
(* strtok() of util/string.c, whose place in the string is a static        *)
(* variable.  A program splits a string with it, and an interrupt handler, *)
(* which may come between any two steps, splits another: completely, or    *)
(* only until it has found what it looks for.                              *)
(*                                                                         *)
(* CutAtToken, CutKeepsLast and SkipOne are faulty variants of the         *)
(* definitions that follow them, used only to see that a property notices  *)
(* the fault.                                                              *)
(***************************************************************************)
EXTENDS CString, FiniteSets, SequencesExt, Functions

CONSTANTS
  Memories,  \* the memories there may be at first
  Start,     \* where the string of each user is
  Delim      \* where its delimiters are

Users == {"program", "handler"}

(* What the users have to see to: there is a string at each of these        *)
(* places, and a string that is split overlaps with no other one.          *)
String(m, s) == s .. s + Len(Text(m, s))
ASSUME StrtokAssumption ==
  /\ Start \in [Users -> Addr] /\ Delim \in [Users -> Addr]
  /\ \A m \in Memories :
       /\ m \in [Addr -> Int]
       /\ \A u \in Users : HasString(m, Start[u]) /\ HasString(m, Delim[u])
       /\ \A u, v \in Users : String(m, Start[u]) \cap String(m, Delim[v]) = {}
       /\ String(m, Start["program"]) \cap String(m, Start["handler"]) = {}

VARIABLES
  memory,
  last,      \* the static variable
  pc,        \* where each user is
  str,       \* the parameter, then local, of its call
  tokens,    \* what its calls have returned
  original,  \* history: memory at first
  disturbed  \* history: the handler has interrupted the program

vars == <<memory, last, pc, str, tokens, original, disturbed>>

Init ==
  /\ memory \in Memories /\ original = memory
  /\ last = nullptr
  /\ pc = [program |-> "start", handler |-> "start"]
  /\ str = [u \in Users |-> nullptr]
  /\ tokens = [u \in Users |-> <<>>]
  /\ disturbed = FALSE

(* The program goes on when the handler has returned. *)
At(u, label) ==
  /\ pc[u] = label
  /\ u = "program" => pc["handler"] \in {"start", "done"}
Goto(u, label) == pc' = [pc EXCEPT ![u] = label]

-----------------------------------------------------------------------------
(* The first call passes the string. *)
FirstCall(u) ==
  /\ At(u, "start")
  /\ str' = [str EXCEPT ![u] = Start[u]]
  /\ Goto(u, "skip")
  /\ disturbed' = (disturbed \/ (u = "handler" /\ pc["program"] \notin {"start", "done"}))
  /\ UNCHANGED <<memory, last, tokens, original>>

(* The others pass nullptr; the call returns nullptr when there is no more. *)
NextCall(u) ==
  /\ At(u, "between")
  /\ str' = [str EXCEPT ![u] = last]
  /\ Goto(u, IF last = nullptr THEN "done" ELSE "skip")
  /\ UNCHANGED <<memory, last, tokens, original, disturbed>>

SkipOne(u) ==
  /\ At(u, "skip")
  /\ LET p == IF Among(memory, memory[str[u]], Delim[u]) THEN str[u] + 1 ELSE str[u]
     IN  /\ str' = [str EXCEPT ![u] = p]
         /\ last' = IF memory[p] = 0 THEN nullptr ELSE last
         /\ Goto(u, IF memory[p] = 0 THEN "done" ELSE "cut")
  /\ UNCHANGED <<memory, tokens, original, disturbed>>

(* Delimiters are skipped. *)
Skip(u) ==
  /\ At(u, "skip")
  /\ LET p == str[u] + strspn(memory, str[u], Delim[u])
     IN  /\ str' = [str EXCEPT ![u] = p]
         /\ last' = IF memory[p] = 0 THEN nullptr ELSE last
         /\ Goto(u, IF memory[p] = 0 THEN "done" ELSE "cut")
  /\ UNCHANGED <<memory, tokens, original, disturbed>>

CutAtToken(u) ==
  /\ At(u, "cut")
  /\ LET end == strpbrk(memory, str[u], Delim[u])
     IN  /\ memory' = IF end = nullptr THEN memory ELSE [memory EXCEPT ![str[u]] = 0]
         /\ last' = IF end = nullptr THEN nullptr ELSE end + 1
  /\ tokens' = [tokens EXCEPT ![u] = Append(@, Text(memory', str[u]))]
  /\ Goto(u, "between")
  /\ UNCHANGED <<str, original, disturbed>>

CutKeepsLast(u) ==
  /\ At(u, "cut")
  /\ LET end == strpbrk(memory, str[u], Delim[u])
     IN  /\ memory' = IF end = nullptr THEN memory ELSE [memory EXCEPT ![end] = 0]
         /\ last' = IF end = nullptr THEN str[u] ELSE end + 1
  /\ Goto(u, "between")
  /\ UNCHANGED <<str, tokens, original, disturbed>>

(* The token is cut off and returned. *)
Cut(u) ==
  /\ At(u, "cut")
  /\ LET end == strpbrk(memory, str[u], Delim[u])
     IN  /\ memory' = IF end = nullptr THEN memory ELSE [memory EXCEPT ![end] = 0]
         /\ last' = IF end = nullptr THEN nullptr ELSE end + 1
  /\ tokens' = [tokens EXCEPT ![u] = Append(@, Text(memory', str[u]))]
  /\ Goto(u, "between")
  /\ UNCHANGED <<str, original, disturbed>>

(* The handler has found what it looked for. *)
Leave ==
  /\ At("handler", "between")
  /\ Goto("handler", "done")
  /\ UNCHANGED <<memory, last, str, tokens, original, disturbed>>

Done == (\A u \in Users : pc[u] = "done") /\ UNCHANGED vars

Step(u) == NextCall(u) \/ Skip(u) \/ Cut(u)

Next == (\E u \in Users : FirstCall(u) \/ Step(u)) \/ Leave \/ Done

Spec == Init /\ [][Next]_vars

(* The processor keeps executing what it executes. *)
FairSpec == Spec /\ \A u \in Users : WF_vars(Step(u))

-----------------------------------------------------------------------------
(* A reference: the longest runs of characters that are no delimiters.      *)
Delims(u) == Range(Text(original, Delim[u]))
Whole(u) == Text(original, Start[u])
InToken(u, i) == i \in DOMAIN Whole(u) /\ Whole(u)[i] \notin Delims(u)
Starts(u) == {i \in DOMAIN Whole(u) : InToken(u, i) /\ ~InToken(u, i - 1)}
TokenEnd(u, i) ==
  CHOOSE e \in i .. Len(Whole(u)) : ~InToken(u, e + 1) /\ \A j \in i .. e : InToken(u, j)
Tokens(u) ==
  LET start(k) == CHOOSE i \in Starts(u) : Cardinality({j \in Starts(u) : j <= i}) = k
  IN  [k \in 1 .. Cardinality(Starts(u)) |->
         SubSeq(Whole(u), start(k), TokenEnd(u, start(k)))]

(* A user that nobody has interrupted gets the tokens of its string, in     *)
(* order, and all of them when its last call returns nullptr; so does the   *)
(* handler, whose first call sets the static variable.                     *)
TokensInOrder ==
  \A u \in Users : (u = "program" => ~disturbed) =>
    /\ IsPrefix(tokens[u], Tokens(u))
    /\ pc["program"] = "done" /\ u = "program" => tokens[u] = Tokens(u)

(* Also when the handler has interrupted the program in the middle of it    *)
(* and left its place in its own string behind, memory changes only where   *)
(* one of them finds a delimiter of its own in one of the two strings.      *)
OnlyDelimitersCut ==
  \A a \in Addr : memory[a] # original[a] =>
    /\ memory[a] = 0
    /\ original[a] \in UNION {Delims(u) : u \in Users}
    /\ \E u \in Users : a \in Start[u] .. Start[u] + Len(Whole(u)) - 1

(* Every user comes to the end of its tokens.                               *)
TokensEnd == \A u \in Users : pc[u] = "skip" ~> pc[u] = "done"
=============================================================================
