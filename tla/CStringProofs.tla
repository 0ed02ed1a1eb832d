----------------------------- MODULE CStringProofs -----------------------------
(***************************************************************************)
(* Proofs about the functions of util/string.c: what strtok() does to the  *)
(* strings of its users and returns to them, and that each other function  *)
(* writes and returns what its reference says, for every memory and every  *)
(* call.                                                                   *)
(***************************************************************************)
EXTENDS Strtok, CStringCalls, SequenceTheorems, FiniteSetTheorems, NaturalsInduction,
        WellFoundedInduction, TLAPS

-----------------------------------------------------------------------------
(* A set of numbers that is not empty has a least one. *)
LEMMA LeastOf ==
  ASSUME NEW T \in SUBSET Nat, T # {}
  PROVE  \E m \in T : \A k \in T : m <= k
<1>1. PICK m \in T : \A k \in T : ~(<<k, m>> \in OpToRel(<, Nat))
  BY NatLessThanWellFounded, WFMin
<1>2. ASSUME NEW k \in T PROVE m <= k
  <2>1. ~(<<k, m>> \in {ss \in Nat \X Nat : ss[1] < ss[2]})
    BY <1>1 DEF OpToRel
  <2>2. ~(k < m)
    BY <2>1
  <2> QED
    BY <2>2
<1> QED
  BY <1>2

-----------------------------------------------------------------------------
(* strtok().  A place in the string of u is one from which on nothing has   *)
(* been cut yet, and before which no token is going on; the tokens that     *)
(* start before it are those that u has got.                                *)

Labels == {"start", "skip", "cut", "between", "done"}
End(u) == Start[u] + Len(Whole(u))
Inside == UNION {Start[u] .. End(u) : u \in Users}

Upto(u, i) == {j \in Starts(u) : j <= i}
Got(u, n) == Len(tokens[u]) = n /\ \A k \in 1 .. n : tokens[u][k] = Tokens(u)[k]

Place(u, p) ==
  /\ p \in Start[u] .. End(u)
  /\ \A a \in p .. End(u) : memory[a] = original[a]
  /\ ~InToken(u, p - Start[u])
  /\ Got(u, Cardinality(Upto(u, p - Start[u])))

Complete(u) == Got(u, Cardinality(Starts(u)))

(* Nobody has interrupted the program. *)
Mine(u) == u = "program" => ~disturbed

Progress(u) ==
  /\ pc[u] = "start" => Place(u, Start[u])
  /\ pc[u] = "skip" => Place(u, str[u])
  /\ pc[u] = "cut" => Place(u, str[u]) /\ InToken(u, str[u] - Start[u] + 1)
  /\ pc[u] = "between" => IF last = nullptr THEN Complete(u) ELSE Place(u, last)
  /\ pc[u] = "done" => IF u = "program" THEN Complete(u)
                       ELSE \E n \in 0 .. Cardinality(Starts(u)) : Got(u, n)

Types ==
  /\ original \in Memories /\ memory \in [Addr -> Int]
  /\ last \in Inside \cup {nullptr}
  /\ str \in [Users -> Inside \cup {nullptr}]
  /\ pc \in [Users -> Labels]
  /\ tokens \in [Users -> Seq(Seq(Int))]
  /\ disturbed \in BOOLEAN
  /\ \A u \in Users : pc[u] \in {"skip", "cut"} => str[u] # nullptr

(* The program does not go on while the handler executes. *)
Order ==
  /\ disturbed => pc["handler"] # "start" /\ pc["program"] # "start"
  /\ pc["handler"] \notin {"start", "done"} /\ ~disturbed =>
       pc["program"] \in {"start", "done"}

CutInv == Types /\ OnlyDelimitersCut
StrtokInv == CutInv /\ Order /\ \A u \in Users : Mine(u) => Progress(u)

-----------------------------------------------------------------------------
(* Loops over a string. *)

(* i is the first address from p on that is in Z. *)
First(Z, p, i) == i \in Z /\ \A j \in p .. i - 1 : j \notin Z

LEMMA FirstExists ==
  ASSUME NEW Z, NEW p \in Nat, NEW q \in Nat, p <= q, q \in Z
  PROVE  \E i \in p .. q : First(Z, p, i)
<1> DEFINE T == {i \in p .. q : i \in Z}
<1>1. T \in SUBSET Nat /\ T # {}
  OBVIOUS
<1>2. PICK i \in T : \A k \in T : i <= k
  <2> HIDE DEF T
  <2> QED
    BY <1>1, LeastOf
<1>3. ASSUME NEW j \in p .. i - 1 PROVE j \notin Z
  BY <1>2
<1> QED
  BY <1>2, <1>3 DEF First

(* A string, with where it ends. *)
Ends(m, s, n) ==
  n \in Nat /\ s + n \in Addr /\ m[s + n] = 0 /\ \A j \in 0 .. n - 1 : m[s + j] # 0

LEMMA TextOf ==
  ASSUME NEW m \in [Addr -> Int], NEW s \in Addr, NEW n, Ends(m, s, n)
  PROVE  /\ Text(m, s) = [i \in 1 .. n |-> m[s + i - 1]]
         /\ Text(m, s) \in Seq(Int) /\ Len(Text(m, s)) = n
<1> DEFINE E(i) == m[s + i] = 0 /\ \A j \in 0 .. i - 1 : m[s + j] # 0
<1>0. n \in Nat /\ s \in Nat /\ n \in 0 .. Size - 1 - s
  BY SizeAssumption DEF Ends, Addr
<1>1. n \in 0 .. Size - 1 - s /\ E(n)
  BY <1>0 DEF Ends
<1>2. ASSUME NEW i \in 0 .. Size - 1 - s, E(i) PROVE i = n
  <2>1. ~(i < n)
    BY <1>0, <1>1, <1>2
  <2>2. ~(n < i)
    BY <1>0, <1>1, <1>2
  <2> QED
    BY <1>0, <2>1, <2>2
<1>3. n = CHOOSE i \in 0 .. Size - 1 - s : E(i)
  <2> HIDE DEF E
  <2>1. PICK i : i = CHOOSE j \in 0 .. Size - 1 - s : E(j)
    OBVIOUS
  <2>2. i \in 0 .. Size - 1 - s /\ E(i)
    BY <1>1, <2>1, Zenon
  <2> QED
    BY <1>2, <2>1, <2>2
<1>4. Text(m, s) = [i \in 1 .. n |-> m[s + i - 1]]
  BY <1>3 DEF Text
<1>5. Text(m, s) \in Seq(Int) /\ Len(Text(m, s)) = n
  <2>1. \A i \in 1 .. n : m[s + i - 1] \in Int
    <3> SUFFICES ASSUME NEW i \in 1 .. n PROVE s + i - 1 \in Addr
      OBVIOUS
    <3> QED
      BY <1>0, SizeAssumption DEF Addr
  <2> QED
    BY <1>0, <1>4, <2>1
<1> QED
  BY <1>4, <1>5

LEMMA EndsExists ==
  ASSUME NEW m \in [Addr -> Int], NEW s \in Addr, HasString(m, s)
  PROVE  \E n : Ends(m, s, n)
<1>0. s \in Nat
  BY DEF Addr
<1>1. PICK q \in s .. Size - 1 : m[q] = 0
  BY DEF HasString
<1> DEFINE Z == {i \in Int : m[i] = 0}
<1>2. q \in Z /\ q \in Nat /\ s <= q
  BY <1>0, <1>1, SizeAssumption
<1>3. PICK i \in s .. q : First(Z, s, i)
  <2> HIDE DEF Z
  <2> QED
    BY <1>0, <1>2, FirstExists
<1>4. i \in Nat /\ i \in Addr /\ m[i] = 0 /\ \A j \in s .. i - 1 : m[j] # 0
  BY <1>0, <1>1, <1>3, SizeAssumption DEF First, Addr
<1>5. PICK n \in Nat : n = i - s
  BY <1>0, <1>3
<1>6. s + n = i
  BY <1>0, <1>3, <1>5
<1>7. ASSUME NEW j \in 0 .. n - 1 PROVE m[s + j] # 0
  <2>1. s + j \in s .. i - 1
    BY <1>0, <1>4, <1>5
  <2> QED
    BY <1>4, <2>1
<1> QED
  BY <1>4, <1>6, <1>7 DEF Ends

(* What the inner loops find out. *)
LEMMA AmongIs ==
  ASSUME NEW m \in [Addr -> Int], NEW c \in Int, c # 0,
         NEW a \in Addr, NEW n, Ends(m, a, n)
  PROVE  Among(m, c, a) <=> c \in Range(Text(m, a))
<1> DEFINE Z == {i \in Addr : m[i] = 0 \/ m[i] = c}
<1>0. a \in Nat /\ n \in Nat /\ a + n \in Addr /\ a + n <= Size - 1 /\ Size \in Nat
  BY SizeAssumption DEF Ends, Addr
<1>1. a + n \in Z
  BY DEF Ends
<1>2. \E i \in a .. a + n : First(Z, a, i)
  <2> HIDE DEF Z
  <2> QED
    BY <1>0, <1>1, FirstExists
<1>3. PICK p : p = CHOOSE i \in a .. Size - 1 : (m[i] = 0 \/ m[i] = c)
                    /\ \A j \in a .. i - 1 : ~(m[j] = 0 \/ m[j] = c)
  OBVIOUS
<1>4. \E i \in a .. Size - 1 : (m[i] = 0 \/ m[i] = c)
                    /\ \A j \in a .. i - 1 : ~(m[j] = 0 \/ m[j] = c)
  <2>1. PICK i \in a .. a + n : First(Z, a, i)
    BY <1>2
  <2>2. i \in a .. Size - 1 /\ (m[i] = 0 \/ m[i] = c)
    BY <1>0, <2>1 DEF First
  <2>3. ASSUME NEW j \in a .. i - 1 PROVE ~(m[j] = 0 \/ m[j] = c)
    <3>1. j \in Addr
      BY <1>0, <2>2 DEF Addr
    <3> QED
      BY <2>1, <3>1 DEF First
  <2> QED
    BY <2>2, <2>3
<1>5. /\ p \in a .. Size - 1 /\ (m[p] = 0 \/ m[p] = c)
      /\ \A j \in a .. p - 1 : ~(m[j] = 0 \/ m[j] = c)
  BY <1>3, <1>4, Zenon
<1>6. Among(m, c, a) <=> m[p] # 0
  BY <1>3 DEF Among, Walk
<1>7. Text(m, a) = [i \in 1 .. n |-> m[a + i - 1]]
  BY TextOf
<1>8. ASSUME m[p] # 0 PROVE c \in Range(Text(m, a))
  <2>1. p \in Nat /\ p < a + n
    <3>1. ~(a + n < p)
      <4> SUFFICES ASSUME a + n < p PROVE FALSE
        OBVIOUS
      <4>1. a + n \in a .. p - 1
        BY <1>0, <1>5
      <4> QED
        BY <1>5, <4>1 DEF Ends
    <3>2. p # a + n
      BY <1>8 DEF Ends
    <3> QED
      BY <1>0, <1>5, <3>1, <3>2
  <2>2. PICK i \in 1 .. n : i = p - a + 1
    BY <1>0, <1>5, <2>1
  <2>3. a + i - 1 = p
    BY <1>0, <2>1, <2>2
  <2>4. Text(m, a)[i] = c
    BY <1>5, <1>7, <1>8, <2>3
  <2> QED
    BY <1>7, <2>4 DEF Range
<1>9. ASSUME c \in Range(Text(m, a)) PROVE m[p] # 0
  <2>1. PICK i \in 1 .. n : m[a + i - 1] = c
    BY <1>7, <1>9 DEF Range
  <2>2. PICK k \in 0 .. n - 1 : k = i - 1
    BY <1>0
  <2>3. m[a + k] = c
    <3>1. a + i - 1 = a + k
      BY <1>0, <2>2
    <3> QED
      BY <2>1, <3>1
  <2> SUFFICES ASSUME m[p] = 0 PROVE FALSE
    OBVIOUS
  <2>4. ~(p < a + n)
    <3> SUFFICES ASSUME p < a + n PROVE FALSE
      OBVIOUS
    <3>1. PICK j \in 0 .. n - 1 : j = p - a
      BY <1>0, <1>5
    <3>2. a + j = p
      BY <1>0, <1>5, <3>1
    <3> QED
      BY <3>2 DEF Ends
  <2>5. a + k \in a .. p - 1
    BY <1>0, <1>5, <2>4
  <2> QED
    BY <1>5, <2>3, <2>5
<1> QED
  BY <1>6, <1>8, <1>9

(* strspn(), from p: q is where the string ends. *)
LEMMA SpanIs ==
  ASSUME NEW m, NEW p \in Nat, NEW q \in Addr, p <= q, m[q] = 0, NEW d
  PROVE  \E r \in p .. q :
           /\ p + strspn(m, p, d) = r /\ strspn(m, p, d) = r - p
           /\ m[r] = 0 \/ ~Among(m, m[r], d)
           /\ \A j \in p .. r - 1 : m[j] # 0 /\ Among(m, m[j], d)
<1> DEFINE Stop(x) == x = 0 \/ ~Among(m, x, d)
<1> DEFINE Z == {i \in Addr : Stop(m[i])}
<1>0. q \in Z /\ q \in Nat /\ q <= Size - 1 /\ Size \in Nat
  BY SizeAssumption DEF Addr
<1>1. PICK i \in p .. q : First(Z, p, i)
  <2> HIDE DEF Z
  <2> QED
    BY <1>0, FirstExists
<1>2. i \in p .. Size - 1 /\ Stop(m[i]) /\ \A j \in p .. i - 1 : ~Stop(m[j])
  <2> HIDE DEF Stop
  <2>1. i \in p .. Size - 1 /\ Stop(m[i])
    BY <1>0, <1>1 DEF First
  <2>2. ASSUME NEW j \in p .. i - 1 PROVE ~Stop(m[j])
    <3>1. j \in Addr
      BY <1>0, <2>1 DEF Addr
    <3> QED
      BY <1>1, <3>1 DEF First
  <2> QED
    BY <2>1, <2>2
<1>3. PICK r : r = CHOOSE k \in p .. Size - 1 : Stop(m[k]) /\ \A j \in p .. k - 1 : ~Stop(m[j])
  OBVIOUS
<1>4. r \in p .. Size - 1 /\ Stop(m[r]) /\ \A j \in p .. r - 1 : ~Stop(m[j])
  <2> HIDE DEF Stop
  <2> QED
    BY <1>2, <1>3, Zenon
<1>5. strspn(m, p, d) = r - p
  BY <1>3 DEF strspn, Walk
<1>6. r <= q
  <2> SUFFICES ASSUME q < r PROVE FALSE
    BY <1>0, <1>4
  <2>1. q \in p .. r - 1
    BY <1>0, <1>4
  <2> QED
    BY <1>4, <2>1
<1>7. p + strspn(m, p, d) = r /\ r \in p .. q
  BY <1>0, <1>4, <1>5, <1>6
<1> QED
  BY <1>4, <1>5, <1>7

(* strpbrk() and strcspn(), from p. *)
LEMMA BreakIs ==
  ASSUME NEW m, NEW p \in Nat, NEW q \in Addr, p <= q, m[q] = 0, NEW d
  PROVE  \E r \in p .. q :
           /\ strpbrk(m, p, d) = IF m[r] = 0 THEN nullptr ELSE r
           /\ strcspn(m, p, d) = r - p
           /\ m[r] = 0 \/ Among(m, m[r], d)
           /\ \A j \in p .. r - 1 : m[j] # 0 /\ ~Among(m, m[j], d)
<1> DEFINE Stop(x) == x = 0 \/ Among(m, x, d)
<1> DEFINE Z == {i \in Addr : Stop(m[i])}
<1>0. q \in Z /\ q \in Nat /\ q <= Size - 1 /\ Size \in Nat
  BY SizeAssumption DEF Addr
<1>1. PICK i \in p .. q : First(Z, p, i)
  <2> HIDE DEF Z
  <2> QED
    BY <1>0, FirstExists
<1>2. i \in p .. Size - 1 /\ Stop(m[i]) /\ \A j \in p .. i - 1 : ~Stop(m[j])
  <2> HIDE DEF Stop
  <2>1. i \in p .. Size - 1 /\ Stop(m[i])
    BY <1>0, <1>1 DEF First
  <2>2. ASSUME NEW j \in p .. i - 1 PROVE ~Stop(m[j])
    <3>1. j \in Addr
      BY <1>0, <2>1 DEF Addr
    <3> QED
      BY <1>1, <3>1 DEF First
  <2> QED
    BY <2>1, <2>2
<1>3. PICK r : r = CHOOSE k \in p .. Size - 1 : Stop(m[k]) /\ \A j \in p .. k - 1 : ~Stop(m[j])
  OBVIOUS
<1>4. r \in p .. Size - 1 /\ Stop(m[r]) /\ \A j \in p .. r - 1 : ~Stop(m[j])
  <2> HIDE DEF Stop
  <2> QED
    BY <1>2, <1>3, Zenon
<1>5. strpbrk(m, p, d) = IF m[r] = 0 THEN nullptr ELSE r
  BY <1>3 DEF strpbrk, Walk
<1>a. strcspn(m, p, d) = r - p
  BY <1>3 DEF strcspn, Walk
<1>6. r <= q
  <2> SUFFICES ASSUME q < r PROVE FALSE
    BY <1>0, <1>4
  <2>1. q \in p .. r - 1
    BY <1>0, <1>4
  <2> QED
    BY <1>4, <2>1
<1> QED
  BY <1>0, <1>4, <1>5, <1>a, <1>6

-----------------------------------------------------------------------------
(* The strings there were at first. *)

LEMMA StringIs ==
  ASSUME Types, NEW u \in Users
  PROVE  /\ original \in [Addr -> Int] /\ Start[u] \in Nat /\ Delim[u] \in Addr
         /\ Len(Whole(u)) \in Nat /\ DOMAIN Whole(u) = 1 .. Len(Whole(u))
         /\ Whole(u) = [i \in 1 .. Len(Whole(u)) |-> original[Start[u] + i - 1]]
         /\ Ends(original, Start[u], Len(Whole(u))) /\ End(u) \in Addr
         /\ String(original, Start[u]) = Start[u] .. End(u)
         /\ \E n : Ends(original, Delim[u], n) /\ String(original, Delim[u]) = Delim[u] .. Delim[u] + n
<1>1. /\ original \in [Addr -> Int] /\ HasString(original, Start[u]) /\ HasString(original, Delim[u])
      /\ Start[u] \in Addr /\ Delim[u] \in Addr
  BY StrtokAssumption DEF Types
<1>2. PICK n : Ends(original, Start[u], n)
  BY <1>1, EndsExists
<1>3. PICK k : Ends(original, Delim[u], k)
  BY <1>1, EndsExists
<1>4. Whole(u) = [i \in 1 .. n |-> original[Start[u] + i - 1]] /\ Len(Whole(u)) = n
  BY <1>1, <1>2, TextOf DEF Whole
<1>5. Len(Text(original, Delim[u])) = k
  BY <1>1, <1>3, TextOf
<1>6. n \in Nat /\ Start[u] + n \in Addr /\ Start[u] \in Nat
  BY <1>1, <1>2 DEF Ends, Addr
<1>7. DOMAIN Whole(u) = 1 .. n
  BY <1>4
<1>8. String(original, Start[u]) = Start[u] .. End(u) /\ End(u) \in Addr
  BY <1>4, <1>6 DEF String, End, Whole
<1>9. String(original, Delim[u]) = Delim[u] .. Delim[u] + k
  BY <1>5 DEF String
<1> QED
  BY <1>1, <1>2, <1>3, <1>4, <1>6, <1>7, <1>8, <1>9

(* Its users cut nothing off but characters of the strings. *)
LEMMA CutOnly ==
  ASSUME CutInv, NEW a \in Addr, memory[a] # original[a]
  PROVE  memory[a] = 0 /\ \E u \in Users : a \in Start[u] .. End(u) - 1
<1>1. PICK u \in Users : a \in Start[u] .. Start[u] + Len(Whole(u)) - 1
  BY DEF CutInv, OnlyDelimitersCut
<1>2. memory[a] = 0
  BY DEF CutInv, OnlyDelimitersCut
<1>3. Start[u] \in Nat /\ Len(Whole(u)) \in Nat
  BY StringIs DEF CutInv
<1>4. a \in Start[u] .. End(u) - 1
  BY <1>1, <1>3 DEF End
<1> QED
  BY <1>2, <1>4

(* Where a string ended at first, it ends. *)
LEMMA EndStays ==
  ASSUME CutInv, NEW u \in Users
  PROVE  memory[End(u)] = 0 /\ End(u) \in Addr
<1>0. Types
  BY DEF CutInv
<1>1. original[End(u)] = 0 /\ End(u) \in Addr
  BY <1>0, StringIs DEF Ends, End
<1> QED
  BY <1>1, CutOnly

(* The delimiters stay as they are. *)
LEMMA DelimitersStay ==
  ASSUME CutInv, NEW u \in Users, NEW c \in Int, c # 0
  PROVE  Among(memory, c, Delim[u]) <=> c \in Delims(u)
<1>0. Types /\ memory \in [Addr -> Int]
  BY DEF CutInv, Types
<1>1. /\ original \in [Addr -> Int] /\ Delim[u] \in Addr
      /\ \E n : Ends(original, Delim[u], n) /\ String(original, Delim[u]) = Delim[u] .. Delim[u] + n
  BY <1>0, StringIs
<1>2. PICK n : Ends(original, Delim[u], n) /\ String(original, Delim[u]) = Delim[u] .. Delim[u] + n
  BY <1>1
<1>3. n \in Nat /\ Delim[u] \in Nat /\ Delim[u] + n \in Addr
  BY <1>1, <1>2 DEF Ends, Addr
<1>4. ASSUME NEW a \in Delim[u] .. Delim[u] + n PROVE memory[a] = original[a]
  <2> SUFFICES ASSUME memory[a] # original[a] PROVE FALSE
    OBVIOUS
  <2>1. a \in Addr
    BY <1>3, SizeAssumption DEF Addr
  <2>2. PICK v \in Users : a \in Start[v] .. End(v) - 1
    BY <2>1, CutOnly
  <2>3. String(original, Start[v]) = Start[v] .. End(v) /\ End(v) \in Addr
    BY <1>0, StringIs
  <2>4. a \in Start[v] .. End(v)
    BY <2>2, <2>3 DEF Addr
  <2>5. String(original, Start[v]) \cap String(original, Delim[u]) = {}
    BY <1>0, StrtokAssumption DEF Types
  <2> QED
    BY <1>2, <2>3, <2>4, <2>5
<1>5. Ends(memory, Delim[u], n)
  <2>1. \A j \in 0 .. n : Delim[u] + j \in Delim[u] .. Delim[u] + n
    BY <1>3
  <2>2. \A j \in 0 .. n : memory[Delim[u] + j] = original[Delim[u] + j]
    BY <1>4, <2>1
  <2>3. n \in 0 .. n /\ \A j \in 0 .. n - 1 : j \in 0 .. n
    BY <1>3
  <2> QED
    BY <1>2, <2>2, <2>3 DEF Ends
<1>6. Text(memory, Delim[u]) = Text(original, Delim[u])
  <2>1. /\ Text(memory, Delim[u]) = [i \in 1 .. n |-> memory[Delim[u] + i - 1]]
        /\ Text(original, Delim[u]) = [i \in 1 .. n |-> original[Delim[u] + i - 1]]
    BY <1>0, <1>1, <1>2, <1>5, TextOf
  <2>2. \A i \in 1 .. n : Delim[u] + i - 1 \in Delim[u] .. Delim[u] + n
    BY <1>3
  <2>3. \A i \in 1 .. n : memory[Delim[u] + i - 1] = original[Delim[u] + i - 1]
    BY <1>4, <2>2
  <2> QED
    BY <2>1, <2>3
<1> QED
  BY <1>0, <1>1, <1>5, <1>6, AmongIs DEF Delims

-----------------------------------------------------------------------------
(* The part of the invariant that holds whoever has interrupted whom.       *)

LEMMA SameReference ==
  ASSUME original' = original, NEW u \in Users
  PROVE  /\ Whole(u)' = Whole(u) /\ Delims(u)' = Delims(u) /\ End(u)' = End(u)
         /\ Starts(u)' = Starts(u) /\ Tokens(u)' = Tokens(u)
         /\ \A i : InToken(u, i)' <=> InToken(u, i)
<1>1. Whole(u)' = Whole(u) /\ Delims(u)' = Delims(u) /\ End(u)' = End(u)
  BY DEF Whole, Delims, End
<1>2. \A i : InToken(u, i)' <=> InToken(u, i)
  BY DEF InToken, Whole, Delims
<1>3. Starts(u)' = Starts(u)
  BY DEF Starts, InToken, Whole, Delims
<1>4. Tokens(u)' = Tokens(u)
  BY DEF Tokens, Starts, TokenEnd, InToken, Whole, Delims
<1> QED
  BY <1>1, <1>2, <1>3, <1>4

(* A step that cuts nothing. *)
LEMMA NothingCut ==
  ASSUME OnlyDelimitersCut, UNCHANGED <<memory, original>>
  PROVE  OnlyDelimitersCut'
BY DEF OnlyDelimitersCut, Delims, Whole

LEMMA InsideSame ==
  ASSUME original' = original
  PROVE  Inside' = Inside
BY DEF Inside, End, Whole

(* A user is in one of the strings, before or at its end. *)
LEMMA InString ==
  ASSUME CutInv, NEW p \in Inside
  PROVE  \E v \in Users : /\ p \in Nat /\ p \in Start[v] .. End(v) /\ p <= End(v)
                         /\ End(v) \in Addr /\ memory[End(v)] = 0 /\ Start[v] \in Nat
<1>1. PICK v \in Users : p \in Start[v] .. End(v)
  BY DEF Inside
<1>2. End(v) \in Addr /\ memory[End(v)] = 0 /\ Start[v] \in Nat
  BY EndStays, StringIs DEF CutInv
<1> QED
  BY <1>1, <1>2 DEF Addr

LEMMA FirstCallCuts == ASSUME CutInv, NEW u \in Users, FirstCall(u) PROVE CutInv'
<1>1. /\ UNCHANGED <<memory, last, tokens, original>>
      /\ str' = [str EXCEPT ![u] = Start[u]] /\ pc' = [pc EXCEPT ![u] = "skip"]
      /\ disturbed' = (disturbed \/ (u = "handler" /\ pc["program"] \notin {"start", "done"}))
  BY DEF FirstCall, Goto
<1>2. Start[u] \in Inside /\ Start[u] # nullptr
  <2>1. Start[u] \in Nat /\ Len(Whole(u)) \in Nat
    BY StringIs DEF CutInv
  <2> QED
    BY <2>1 DEF Inside, End, nullptr
<1>3. Types'
  <2>1. disturbed' \in BOOLEAN
    BY <1>1 DEF CutInv, Types
  <2> QED
    BY <1>1, <1>2, <2>1, InsideSame DEF CutInv, Types, Labels
<1> QED
  BY <1>1, <1>3, NothingCut DEF CutInv

LEMMA NextCallCuts == ASSUME CutInv, NEW u \in Users, NextCall(u) PROVE CutInv'
<1>1. /\ UNCHANGED <<memory, last, tokens, original, disturbed>>
      /\ str' = [str EXCEPT ![u] = last]
      /\ pc' = [pc EXCEPT ![u] = IF last = nullptr THEN "done" ELSE "skip"]
  BY DEF NextCall, Goto
<1>2. Types'
  BY <1>1, InsideSame DEF CutInv, Types, Labels
<1> QED
  BY <1>1, <1>2, NothingCut DEF CutInv

(* What Skip(u) finds. *)
LEMMA SkipIs ==
  ASSUME CutInv, NEW u \in Users, Skip(u), NEW v \in Users, str[u] \in Start[v] .. End(v)
  PROVE  \E p \in str[u] .. End(v) :
           /\ Start[v] \in Nat /\ str[u] \in Nat /\ p \in Nat /\ End(v) \in Addr
           /\ memory[p] = 0 \/ ~Among(memory, memory[p], Delim[u])
           /\ \A j \in str[u] .. p - 1 : memory[j] # 0 /\ Among(memory, memory[j], Delim[u])
           /\ str' = [str EXCEPT ![u] = p]
           /\ last' = IF memory[p] = 0 THEN nullptr ELSE last
           /\ pc' = [pc EXCEPT ![u] = IF memory[p] = 0 THEN "done" ELSE "cut"]
<1>1. End(v) \in Addr /\ memory[End(v)] = 0 /\ Start[v] \in Nat
  BY EndStays, StringIs DEF CutInv
<1>2. str[u] \in Nat /\ str[u] <= End(v) /\ End(v) \in Addr /\ memory[End(v)] = 0 /\ Start[v] \in Nat
  BY <1>1 DEF Addr
<1>3. PICK p \in str[u] .. End(v) :
           /\ str[u] + strspn(memory, str[u], Delim[u]) = p
           /\ memory[p] = 0 \/ ~Among(memory, memory[p], Delim[u])
           /\ \A j \in str[u] .. p - 1 : memory[j] # 0 /\ Among(memory, memory[j], Delim[u])
  BY <1>2, SpanIs
<1>4. /\ str' = [str EXCEPT ![u] = p]
      /\ last' = IF memory[p] = 0 THEN nullptr ELSE last
      /\ pc' = [pc EXCEPT ![u] = IF memory[p] = 0 THEN "done" ELSE "cut"]
  BY <1>3 DEF Skip, Goto
<1>5. p \in Nat
  BY <1>2, <1>3 DEF Addr
<1> QED
  BY <1>2, <1>3, <1>4, <1>5

LEMMA SkipCuts == ASSUME CutInv, NEW u \in Users, Skip(u) PROVE CutInv'
<1>1. UNCHANGED <<memory, tokens, original, disturbed>>
  BY DEF Skip
<1>2. PICK v \in Users : str[u] \in Start[v] .. End(v)
  <2>1. str[u] \in Inside
    BY DEF Skip, At, CutInv, Types
  <2> QED
    BY <2>1, InString
<1>p. PICK p \in str[u] .. End(v) :
           /\ Start[v] \in Nat /\ str[u] \in Nat /\ p \in Nat
           /\ str' = [str EXCEPT ![u] = p]
           /\ last' = IF memory[p] = 0 THEN nullptr ELSE last
           /\ pc' = [pc EXCEPT ![u] = IF memory[p] = 0 THEN "done" ELSE "cut"]
  BY <1>2, SkipIs
<1>3. p \in Inside /\ p # nullptr
  <2>1. p \in Start[v] .. End(v)
    BY <1>2, <1>p
  <2> QED
    BY <1>p, <2>1 DEF Inside, nullptr
<1>4. Types'
  BY <1>1, <1>p, <1>3, InsideSame DEF CutInv, Types, Labels
<1> QED
  BY <1>1, <1>4, NothingCut DEF CutInv

(* What Cut(u) finds. *)
LEMMA CutIs ==
  ASSUME CutInv, NEW u \in Users, Cut(u), NEW v \in Users, str[u] \in Start[v] .. End(v)
  PROVE  \E p \in str[u] .. End(v) :
           /\ Start[v] \in Nat /\ str[u] \in Nat /\ p \in Nat
           /\ End(v) \in Addr /\ memory[End(v)] = 0
           /\ memory[p] = 0 \/ Among(memory, memory[p], Delim[u])
           /\ \A j \in str[u] .. p - 1 : memory[j] # 0 /\ ~Among(memory, memory[j], Delim[u])
           /\ memory' = IF memory[p] = 0 THEN memory ELSE [memory EXCEPT ![p] = 0]
           /\ last' = IF memory[p] = 0 THEN nullptr ELSE p + 1
<1>1. End(v) \in Addr /\ memory[End(v)] = 0 /\ Start[v] \in Nat
  BY EndStays, StringIs DEF CutInv
<1>2. str[u] \in Nat /\ str[u] <= End(v) /\ End(v) \in Addr /\ memory[End(v)] = 0 /\ Start[v] \in Nat
  BY <1>1 DEF Addr
<1>3. PICK p \in str[u] .. End(v) :
           /\ strpbrk(memory, str[u], Delim[u]) = IF memory[p] = 0 THEN nullptr ELSE p
           /\ memory[p] = 0 \/ Among(memory, memory[p], Delim[u])
           /\ \A j \in str[u] .. p - 1 : memory[j] # 0 /\ ~Among(memory, memory[j], Delim[u])
  BY <1>2, BreakIs
<1>4. p \in Nat /\ p # nullptr
  BY <1>2, <1>3 DEF Addr, nullptr
<1>5. /\ memory' = IF memory[p] = 0 THEN memory ELSE [memory EXCEPT ![p] = 0]
      /\ last' = IF memory[p] = 0 THEN nullptr ELSE p + 1
  BY <1>3, <1>4 DEF Cut
<1> QED
  BY <1>2, <1>3, <1>4, <1>5

(* The token that is returned ends where memory was cut. *)
LEMMA TokenIs ==
  ASSUME NEW m \in [Addr -> Int], NEW s \in Nat, NEW p \in Addr, s <= p, m[p] = 0,
         \A j \in s .. p - 1 : m[j] # 0
  PROVE  /\ Text(m, s) \in Seq(Int) /\ Len(Text(m, s)) = p - s
         /\ Text(m, s) = [i \in 1 .. p - s |-> m[s + i - 1]]
<1>1. s \in Addr /\ p \in Nat
  BY SizeAssumption DEF Addr
<1>2. PICK n \in Nat : n = p - s
  BY <1>1
<1>3. s + n = p
  BY <1>1, <1>2
<1>4. ASSUME NEW j \in 0 .. n - 1 PROVE m[s + j] # 0
  <2>1. s + j \in s .. p - 1
    BY <1>1, <1>2
  <2> QED
    BY <2>1
<1>5. Ends(m, s, n)
  BY <1>3, <1>4 DEF Ends
<1> QED
  BY <1>1, <1>2, <1>5, TextOf

LEMMA CutCuts == ASSUME CutInv, NEW u \in Users, Cut(u) PROVE CutInv'
<1>0. /\ UNCHANGED <<str, original, disturbed>> /\ pc' = [pc EXCEPT ![u] = "between"]
      /\ tokens' = [tokens EXCEPT ![u] = Append(@, Text(memory', str[u]))]
  BY DEF Cut, Goto
<1>1. PICK v \in Users : str[u] \in Start[v] .. End(v)
  <2>1. str[u] \in Inside
    BY DEF Cut, At, CutInv, Types
  <2> QED
    BY <2>1, InString
<1>2. PICK p \in str[u] .. End(v) :
           /\ Start[v] \in Nat /\ str[u] \in Nat /\ p \in Nat
           /\ End(v) \in Addr /\ memory[End(v)] = 0
           /\ memory[p] = 0 \/ Among(memory, memory[p], Delim[u])
           /\ \A j \in str[u] .. p - 1 : memory[j] # 0 /\ ~Among(memory, memory[j], Delim[u])
           /\ memory' = IF memory[p] = 0 THEN memory ELSE [memory EXCEPT ![p] = 0]
           /\ last' = IF memory[p] = 0 THEN nullptr ELSE p + 1
  BY <1>1, CutIs
<1>3. memory \in [Addr -> Int] /\ p \in Addr /\ End(v) \in Nat
  BY <1>2, SizeAssumption DEF CutInv, Types, Addr
<1>4. /\ memory' \in [Addr -> Int] /\ memory'[p] = 0
      /\ \A a \in Addr \ {p} : memory'[a] = memory[a]
  BY <1>2, <1>3
<1>5. last' \in Inside \cup {nullptr}
  <2>1. CASE memory[p] = 0
    BY <1>2, <2>1
  <2>2. CASE memory[p] # 0
    <3>1. p # End(v)
      BY <1>2, <2>2
    <3>2. p + 1 \in Start[v] .. End(v)
      BY <1>1, <1>2, <1>3, <3>1
    <3> QED
      BY <1>2, <2>2, <3>2 DEF Inside
  <2> QED
    BY <2>1, <2>2
<1>6. Text(memory', str[u]) \in Seq(Int)
  <2>1. ASSUME NEW j \in str[u] .. p - 1 PROVE memory'[j] # 0
    <3>1. j \in Addr \ {p}
      BY <1>2, <1>3, SizeAssumption DEF Addr
    <3> QED
      BY <1>2, <1>4, <3>1
  <2>2. PICK m \in [Addr -> Int] : m = memory'
    BY <1>4
  <2>3. m[p] = 0 /\ str[u] <= p /\ \A j \in str[u] .. p - 1 : m[j] # 0
    BY <1>2, <1>4, <2>1, <2>2
  <2>4. Text(m, str[u]) \in Seq(Int)
    BY <1>2, <1>3, <2>3, TokenIs
  <2> QED
    BY <2>2, <2>4
<1>7. Types'
  <2>1. tokens' \in [Users -> Seq(Seq(Int))]
    <3>1. tokens[u] \in Seq(Seq(Int))
      BY DEF CutInv, Types
    <3>2. Append(tokens[u], Text(memory', str[u])) \in Seq(Seq(Int))
      BY <1>6, <3>1, AppendProperties
    <3> QED
      BY <1>0, <3>2 DEF CutInv, Types
  <2>2. pc' \in [Users -> Labels] /\ \A w \in Users : pc'[w] \in {"skip", "cut"} => str'[w] # nullptr
    BY <1>0 DEF CutInv, Types, Labels
  <2> QED
    BY <1>0, <1>4, <1>5, <2>1, <2>2, InsideSame DEF CutInv, Types
<1>8. ASSUME NEW a \in Addr, memory'[a] # original[a]
      PROVE  /\ memory'[a] = 0
             /\ original[a] \in UNION {Delims(w) : w \in Users}
             /\ \E w \in Users : a \in Start[w] .. Start[w] + Len(Whole(w)) - 1
  <2>1. CASE memory'[a] = memory[a]
    BY <1>8, <2>1 DEF CutInv, OnlyDelimitersCut
  <2>2. CASE memory'[a] # memory[a]
    <3>1. a = p /\ memory[p] # 0
      BY <1>2, <1>4, <2>2
    <3>2. memory[p] = original[p]
      BY <1>3, <3>1, CutOnly
    <3>3. original[p] \in Delims(u)
      <4>1. memory[p] \in Int /\ Among(memory, memory[p], Delim[u])
        BY <1>2, <1>3, <3>1
      <4> QED
        BY <3>1, <3>2, <4>1, DelimitersStay
    <3>4. p \in Start[v] .. Start[v] + Len(Whole(v)) - 1
      <4>1. p # End(v)
        BY <1>2, <3>1
      <4>2. Len(Whole(v)) \in Nat
        BY StringIs DEF CutInv
      <4> QED
        BY <1>1, <1>2, <1>3, <4>1, <4>2 DEF End
    <3> QED
      BY <1>4, <3>1, <3>3, <3>4
  <2> QED
    BY <2>1, <2>2
<1>9. OnlyDelimitersCut'
  BY <1>0, <1>8, SameReference DEF OnlyDelimitersCut
<1> QED
  BY <1>7, <1>9 DEF CutInv

LEMMA CutStep == CutInv /\ [Next]_vars => CutInv'
<1> SUFFICES ASSUME CutInv, [Next]_vars PROVE CutInv'
  OBVIOUS
<1>1. ASSUME NEW u \in Users, FirstCall(u) \/ Step(u) PROVE CutInv'
  BY <1>1, FirstCallCuts, NextCallCuts, SkipCuts, CutCuts DEF Step
<1>2. CASE Leave
  <2>1. UNCHANGED <<memory, last, str, tokens, original, disturbed>>
        /\ pc' = [pc EXCEPT !["handler"] = "done"]
    BY <1>2 DEF Leave, Goto
  <2>2. Types'
    BY <2>1, InsideSame DEF CutInv, Types, Labels
  <2> QED
    BY <2>1, <2>2, NothingCut DEF CutInv
<1>3. CASE UNCHANGED vars
  <2>1. Types'
    BY <1>3, InsideSame DEF CutInv, Types, vars
  <2> QED
    BY <1>3, <2>1, NothingCut DEF CutInv, vars
<1> QED
  BY <1>1, <1>2, <1>3 DEF Next, Done

LEMMA CutInitially == Init => CutInv
<1> SUFFICES ASSUME Init PROVE CutInv
  OBVIOUS
<1>1. Types
  <2>1. /\ tokens = [u \in Users |-> <<>>] /\ str = [u \in Users |-> nullptr]
        /\ pc = [u \in Users |-> "start"] /\ original \in Memories /\ memory = original
        /\ last = nullptr /\ disturbed = FALSE
    BY DEF Init, Users
  <2>2. memory \in [Addr -> Int]
    BY <2>1, StrtokAssumption
  <2>3. tokens \in [Users -> Seq(Seq(Int))]
    BY <2>1
  <2> QED
    BY <2>1, <2>2, <2>3 DEF Types, Labels
<1>2. OnlyDelimitersCut
  BY DEF Init, OnlyDelimitersCut
<1> QED
  BY <1>1, <1>2 DEF CutInv

(* strtok() changes its users' strings only where one of them finds a        *)
(* delimiter of its own: for every memory, also when an interrupt handler   *)
(* that splits another string has moved the static variable, and the        *)
(* program goes on in a string that is not its own.                         *)
THEOREM StringsStay == Spec => []OnlyDelimitersCut
<1>1. CutInv => OnlyDelimitersCut
  BY DEF CutInv
<1> QED
  BY <1>1, CutInitially, CutStep, PTL DEF Spec

-----------------------------------------------------------------------------
(* The tokens of a string. *)

LEMMA InTokenIs ==
  ASSUME Types, NEW u \in Users, NEW a \in Start[u] .. End(u)
  PROVE  InToken(u, a - Start[u] + 1) <=> original[a] # 0 /\ original[a] \notin Delims(u)
<1> PICK n \in Nat : n = Len(Whole(u))
  BY StringIs
<1>1. /\ Start[u] \in Nat /\ DOMAIN Whole(u) = 1 .. n
      /\ Whole(u) = [i \in 1 .. n |-> original[Start[u] + i - 1]]
      /\ Ends(original, Start[u], n) /\ End(u) = Start[u] + n
  BY StringIs DEF End
<1>2. PICK i \in Nat : i = a - Start[u] + 1 /\ a = Start[u] + i - 1
  BY <1>1
<1>3. CASE a = End(u)
  <2>1. i = n + 1 /\ original[a] = 0
    BY <1>1, <1>2, <1>3 DEF Ends
  <2>2. i \notin 1 .. n
    BY <2>1
  <2> QED
    BY <1>1, <1>2, <2>1, <2>2 DEF InToken
<1>4. CASE a # End(u)
  <2>1. i \in 1 .. n
    BY <1>1, <1>2, <1>4
  <2>2. Whole(u)[i] = original[a]
    BY <1>1, <1>2, <2>1
  <2>3. original[a] # 0
    <3>1. PICK j \in 0 .. n - 1 : j = i - 1
      BY <2>1
    <3>2. Start[u] + j = a
      BY <1>1, <1>2, <3>1
    <3> QED
      BY <1>1, <3>2 DEF Ends
  <2> QED
    BY <1>1, <1>2, <2>1, <2>2, <2>3 DEF InToken
<1> QED
  BY <1>3, <1>4

LEMMA StartsAre ==
  ASSUME Types, NEW u \in Users
  PROVE  /\ Starts(u) \subseteq 1 .. Len(Whole(u)) /\ IsFiniteSet(Starts(u))
         /\ Cardinality(Starts(u)) \in Nat
         /\ \A i : /\ IsFiniteSet(Upto(u, i)) /\ Cardinality(Upto(u, i)) \in Nat
                   /\ Cardinality(Upto(u, i)) <= Cardinality(Starts(u))
<1>1. Len(Whole(u)) \in Nat /\ DOMAIN Whole(u) = 1 .. Len(Whole(u))
  BY StringIs
<1>2. Starts(u) \subseteq 1 .. Len(Whole(u))
  BY <1>1 DEF Starts
<1>3. IsFiniteSet(Starts(u))
  <2>1. IsFiniteSet(1 .. Len(Whole(u)))
    BY <1>1, FS_Interval
  <2> QED
    BY <1>2, <2>1, FS_Subset
<1>4. \A i : Upto(u, i) \in SUBSET Starts(u)
  BY DEF Upto
<1> QED
  BY <1>2, <1>3, <1>4, FS_Subset, FS_CardinalityType

(* Where no token starts, the number of those before stays the same. *)
LEMMA NoneBetween ==
  ASSUME Types, NEW u \in Users, NEW i \in Int, NEW j \in Int, i <= j,
         \A k \in i + 1 .. j : k \notin Starts(u)
  PROVE  Upto(u, i) = Upto(u, j)
<1>1. Starts(u) \subseteq 1 .. Len(Whole(u))
  BY StartsAre
<1>2. ASSUME NEW k \in Starts(u) PROVE k <= i <=> k <= j
  <2>1. k \in Int
    BY <1>1
  <2> QED
    BY <2>1
<1> QED
  BY <1>2 DEF Upto

(* One more starts here. *)
LEMMA OneMore ==
  ASSUME Types, NEW u \in Users, NEW s \in Starts(u)
  PROVE  Cardinality(Upto(u, s)) = Cardinality(Upto(u, s - 1)) + 1
<1>1. Starts(u) \subseteq 1 .. Len(Whole(u))
  BY StartsAre
<1>2. s \in Int /\ \A k \in Starts(u) : k \in Int
  BY <1>1
<1>3. Upto(u, s) = Upto(u, s - 1) \cup {s} /\ s \notin Upto(u, s - 1)
  <2>1. ASSUME NEW k \in Starts(u) PROVE k <= s <=> k <= s - 1 \/ k = s
    BY <1>2
  <2>2. ~(s <= s - 1)
    BY <1>2
  <2> QED
    BY <2>1, <2>2 DEF Upto
<1>4. IsFiniteSet(Upto(u, s - 1))
  BY StartsAre
<1> QED
  BY <1>3, <1>4, FS_AddElement

(* All of them start before the end. *)
LEMMA AllOfThem ==
  ASSUME Types, NEW u \in Users
  PROVE  Upto(u, Len(Whole(u))) = Starts(u)
<1>1. Starts(u) \subseteq 1 .. Len(Whole(u)) /\ Len(Whole(u)) \in Nat
  BY StartsAre, StringIs
<1> QED
  BY <1>1 DEF Upto

(* The token that starts at s is that of its number. *)
LEMMA NthIs ==
  ASSUME Types, NEW u \in Users, NEW s \in Starts(u), NEW k, k = Cardinality(Upto(u, s)),
         NEW e \in s .. Len(Whole(u)), ~InToken(u, e + 1), \A j \in s .. e : InToken(u, j)
  PROVE  k \in 1 .. Cardinality(Starts(u)) /\ Tokens(u)[k] = SubSeq(Whole(u), s, e)
<1>1. Starts(u) \subseteq 1 .. Len(Whole(u)) /\ Len(Whole(u)) \in Nat
  BY StartsAre, StringIs
<1>2. k \in 1 .. Cardinality(Starts(u))
  <2>1. k = Cardinality(Upto(u, s - 1)) + 1
    BY OneMore
  <2>2. /\ k \in Nat /\ k <= Cardinality(Starts(u)) /\ Cardinality(Starts(u)) \in Nat
        /\ Cardinality(Upto(u, s - 1)) \in Nat
    BY StartsAre
  <2> QED
    BY <2>1, <2>2
<1>3. ASSUME NEW i \in Starts(u), NEW j \in Starts(u), i < j
      PROVE  Cardinality(Upto(u, i)) # Cardinality(Upto(u, j))
  <2>1. i \in Int /\ j \in Int
    BY <1>1
  <2>2. Upto(u, i) \in SUBSET Upto(u, j) /\ j \in Upto(u, j) /\ j \notin Upto(u, i)
    BY <1>1, <1>3, <2>1 DEF Upto
  <2>3. IsFiniteSet(Upto(u, j))
    BY StartsAre
  <2>4. Upto(u, i) # Upto(u, j)
    BY <2>2
  <2> QED
    BY <2>2, <2>3, <2>4, FS_Subset
<1>4. ASSUME NEW i \in Starts(u), Cardinality(Upto(u, i)) = k PROVE i = s
  <2>1. i \in Int /\ s \in Int
    BY <1>1
  <2>2. ~(i < s) /\ ~(s < i)
    BY <1>3, <1>4
  <2> QED
    BY <2>1, <2>2
<1>5. s = CHOOSE i \in Starts(u) : Cardinality({j \in Starts(u) : j <= i}) = k
  <2>1. PICK i : i = CHOOSE j \in Starts(u) : Cardinality(Upto(u, j)) = k
    OBVIOUS
  <2>2. i \in Starts(u) /\ Cardinality(Upto(u, i)) = k
    BY <2>1, Zenon
  <2>3. i = s
    BY <1>4, <2>2
  <2>4. s = CHOOSE j \in Starts(u) : Cardinality(Upto(u, j)) = k
    BY <2>1, <2>3
  <2> QED
    BY <2>4, Zenon DEF Upto
<1>6. TokenEnd(u, s) = e
  <2> DEFINE P(x) == ~InToken(u, x + 1) /\ \A j \in s .. x : InToken(u, j)
  <2>1. e \in s .. Len(Whole(u)) /\ P(e) /\ s \in Int /\ e \in Int
    BY <1>1
  <2>2. ASSUME NEW x \in s .. Len(Whole(u)), P(x) PROVE x = e
    <3>1. x \in Int
      BY <1>1, <2>1
    <3>2. ~(x < e)
      <4> SUFFICES ASSUME x < e PROVE FALSE
        OBVIOUS
      <4>1. x + 1 \in s .. e
        BY <2>1, <3>1
      <4> QED
        BY <2>1, <2>2, <4>1
    <3>3. ~(e < x)
      <4> SUFFICES ASSUME e < x PROVE FALSE
        OBVIOUS
      <4>1. e + 1 \in s .. x
        BY <2>1, <3>1
      <4> QED
        BY <2>1, <2>2, <4>1
    <3> QED
      BY <2>1, <3>1, <3>2, <3>3
  <2>3. TokenEnd(u, s) = CHOOSE x \in s .. Len(Whole(u)) : P(x)
    BY DEF TokenEnd
  <2>4. P(TokenEnd(u, s)) /\ TokenEnd(u, s) \in s .. Len(Whole(u))
    <3> HIDE DEF P
    <3> QED
      BY <2>1, <2>3, Zenon
  <2> QED
    BY <2>2, <2>4
<1>7. Tokens(u)[k] = SubSeq(Whole(u), s, TokenEnd(u, s))
  <2> DEFINE start(i) == CHOOSE j \in Starts(u) : Cardinality({x \in Starts(u) : x <= j}) = i
  <2>1. Tokens(u) = [i \in 1 .. Cardinality(Starts(u)) |->
                       SubSeq(Whole(u), start(i), TokenEnd(u, start(i)))]
    BY DEF Tokens
  <2>2. start(k) = s
    BY <1>5
  <2> HIDE DEF start
  <2> QED
    BY <1>2, <2>1, <2>2
<1> QED
  BY <1>2, <1>6, <1>7

-----------------------------------------------------------------------------
(* A user that goes through its own string. *)

(* The place of a user in its string, and what is there. *)
LEMMA PlaceIs ==
  ASSUME CutInv, NEW u \in Users, NEW p, Place(u, p)
  PROVE  /\ p \in Nat /\ Start[u] \in Nat /\ End(u) \in Nat /\ p \in Start[u] .. End(u)
         /\ End(u) = Start[u] + Len(Whole(u)) /\ Len(Whole(u)) \in Nat
         /\ \A a \in p .. End(u) :
              /\ a \in Addr /\ a \in Start[u] .. End(u)
              /\ memory[a] = original[a] /\ memory[a] \in Int
              /\ InToken(u, a - Start[u] + 1) <=>
                   memory[a] # 0 /\ ~Among(memory, memory[a], Delim[u])
<1>1. /\ Types /\ p \in Start[u] .. End(u)
      /\ \A a \in p .. End(u) : memory[a] = original[a]
  BY DEF CutInv, Place
<1>2. Start[u] \in Nat /\ End(u) \in Addr /\ Len(Whole(u)) \in Nat
  BY <1>1, StringIs
<1>3. End(u) \in Nat /\ End(u) <= Size - 1 /\ p \in Nat
  BY <1>1, <1>2, SizeAssumption DEF Addr
<1>4. ASSUME NEW a \in p .. End(u)
      PROVE  /\ a \in Addr /\ a \in Start[u] .. End(u)
             /\ memory[a] = original[a] /\ memory[a] \in Int
             /\ InToken(u, a - Start[u] + 1) <=>
                  memory[a] # 0 /\ ~Among(memory, memory[a], Delim[u])
  <2>1. a \in Addr /\ a \in Start[u] .. End(u)
    BY <1>1, <1>2, <1>3, SizeAssumption DEF Addr
  <2>2. memory[a] = original[a] /\ memory[a] \in Int
    BY <1>1, <2>1 DEF Types
  <2>3. InToken(u, a - Start[u] + 1) <=> original[a] # 0 /\ original[a] \notin Delims(u)
    BY <1>1, <2>1, InTokenIs
  <2>4. memory[a] # 0 => (Among(memory, memory[a], Delim[u]) <=> memory[a] \in Delims(u))
    BY <2>2, DelimitersStay
  <2> QED
    BY <2>1, <2>2, <2>3, <2>4
<1> QED
  BY <1>1, <1>2, <1>3, <1>4 DEF End

(* No token starts where there are delimiters. *)
LEMMA PlaceMoves ==
  ASSUME CutInv, NEW u \in Users, NEW s, Place(u, s), NEW p \in s .. End(u),
         \A j \in s .. p - 1 : ~InToken(u, j - Start[u] + 1)
  PROVE  Place(u, p)
<1>1. /\ s \in Nat /\ Start[u] \in Nat /\ End(u) \in Nat /\ s \in Start[u] .. End(u)
  BY PlaceIs
<1>2. p \in Start[u] .. End(u) /\ \A a \in p .. End(u) : a \in s .. End(u)
  BY <1>1
<1>3. ASSUME NEW k \in s - Start[u] + 1 .. p - Start[u] PROVE ~InToken(u, k)
  <2>1. PICK j \in s .. p - 1 : j = k + Start[u] - 1
    BY <1>1
  <2>2. j - Start[u] + 1 = k
    BY <1>1, <2>1
  <2> QED
    BY <2>1, <2>2
<1>4. ~InToken(u, p - Start[u])
  <2>1. CASE p = s
    BY <2>1 DEF Place
  <2>2. CASE p # s
    <3>1. p - Start[u] \in s - Start[u] + 1 .. p - Start[u]
      BY <1>1, <2>2
    <3> QED
      BY <1>3, <3>1
  <2> QED
    BY <2>1, <2>2
<1>5. Upto(u, s - Start[u]) = Upto(u, p - Start[u])
  <2>1. \A k \in s - Start[u] + 1 .. p - Start[u] : k \notin Starts(u)
    BY <1>3 DEF Starts
  <2>2. PICK i \in Int : i = s - Start[u]
    BY <1>1
  <2>3. PICK j \in Int : j = p - Start[u]
    BY <1>1
  <2>4. i <= j
    BY <1>1, <2>2, <2>3
  <2>5. \A k \in i + 1 .. j : k \notin Starts(u)
    BY <2>1, <2>2, <2>3
  <2>6. Types
    BY DEF CutInv
  <2>7. Upto(u, i) = Upto(u, j)
    BY <2>4, <2>5, <2>6, NoneBetween
  <2> QED
    BY <2>2, <2>3, <2>7
<1> QED
  BY <1>2, <1>4, <1>5 DEF Place

(* At the end of the string all tokens are found. *)
LEMMA PlaceEnds ==
  ASSUME CutInv, NEW u \in Users, NEW p, Place(u, p), memory[p] = 0
  PROVE  p = End(u) /\ Complete(u)
<1>1. /\ p \in Nat /\ Start[u] \in Nat /\ End(u) \in Nat /\ p \in Start[u] .. End(u)
      /\ End(u) = Start[u] + Len(Whole(u)) /\ Len(Whole(u)) \in Nat
      /\ memory[p] = original[p]
  BY PlaceIs
<1>2. p = End(u)
  <2>1. Ends(original, Start[u], Len(Whole(u)))
    BY StringIs DEF CutInv
  <2> SUFFICES ASSUME p # End(u) PROVE FALSE
    OBVIOUS
  <2>2. PICK j \in 0 .. Len(Whole(u)) - 1 : j = p - Start[u]
    BY <1>1
  <2>3. Start[u] + j = p
    BY <1>1, <2>2
  <2> QED
    BY <1>1, <2>1, <2>3 DEF Ends
<1>3. p - Start[u] = Len(Whole(u))
  BY <1>1, <1>2
<1>4. Upto(u, p - Start[u]) = Starts(u)
  BY <1>3, AllOfThem DEF CutInv
<1> QED
  BY <1>2, <1>4 DEF Place, Complete

(* What is found, and where, depends on what this leaves alone. *)
LEMMA PlaceSame ==
  ASSUME NEW u \in Users, NEW p, original' = original, tokens'[u] = tokens[u]
  PROVE  /\ \A n : Got(u, n)' <=> Got(u, n)
         /\ Complete(u)' <=> Complete(u)
         /\ (\A a \in p .. End(u) : memory'[a] = memory[a]) => (Place(u, p)' <=> Place(u, p))
         /\ \A i : InToken(u, i)' <=> InToken(u, i)
<1>1. \A n : Got(u, n)' <=> Got(u, n)
  BY SameReference DEF Got
<1>2. Complete(u)' <=> Complete(u)
  BY <1>1, SameReference DEF Complete
<1>3. \A i : Upto(u, i)' = Upto(u, i)
  BY SameReference DEF Upto
<1>4. \A i : InToken(u, i)' <=> InToken(u, i)
  BY SameReference
<1>5. ASSUME \A a \in p .. End(u) : memory'[a] = memory[a]
      PROVE  Place(u, p)' <=> Place(u, p)
  BY <1>1, <1>3, <1>4, <1>5, SameReference DEF Place
<1> QED
  BY <1>1, <1>2, <1>4, <1>5

LEMMA SkipProgress ==
  ASSUME CutInv, NEW u \in Users, Skip(u), Place(u, str[u])
  PROVE  Progress(u)'
<1>0. UNCHANGED <<memory, tokens, original, disturbed>>
  BY DEF Skip
<1>1. str[u] \in Start[u] .. End(u)
  BY DEF Place
<1>2. PICK p \in str[u] .. End(u) :
           /\ Start[u] \in Nat /\ str[u] \in Nat /\ p \in Nat /\ End(u) \in Addr
           /\ memory[p] = 0 \/ ~Among(memory, memory[p], Delim[u])
           /\ \A j \in str[u] .. p - 1 : memory[j] # 0 /\ Among(memory, memory[j], Delim[u])
           /\ str' = [str EXCEPT ![u] = p]
           /\ last' = IF memory[p] = 0 THEN nullptr ELSE last
           /\ pc' = [pc EXCEPT ![u] = IF memory[p] = 0 THEN "done" ELSE "cut"]
  BY <1>1, SkipIs
<1>3. \A j \in str[u] .. p - 1 : ~InToken(u, j - Start[u] + 1)
  <2> SUFFICES ASSUME NEW j \in str[u] .. p - 1 PROVE ~InToken(u, j - Start[u] + 1)
    OBVIOUS
  <2>1. j \in str[u] .. End(u)
    BY <1>2 DEF Addr
  <2> QED
    BY <1>2, <2>1, PlaceIs
<1>4. Place(u, p)
  BY <1>3, PlaceMoves
<1>5. Place(u, p)' /\ (Complete(u)' <=> Complete(u)) /\ \A i : InToken(u, i)' <=> InToken(u, i)
  BY <1>0, <1>4, PlaceSame
<1>6. str'[u] = p /\ pc'[u] = IF memory[p] = 0 THEN "done" ELSE "cut"
  BY <1>2 DEF CutInv, Types
<1>7. CASE memory[p] = 0
  <2>1. Complete(u)'
    BY <1>4, <1>5, <1>7, PlaceEnds
  <2>2. ~(u = "program") => (\E n \in 0 .. Cardinality(Starts(u)) : Got(u, n))'
    <3>1. Cardinality(Starts(u)) \in Nat
      BY StartsAre DEF CutInv
    <3>2. Cardinality(Starts(u))' = Cardinality(Starts(u))
      BY <1>0, SameReference
    <3>3. Cardinality(Starts(u))' \in (0 .. Cardinality(Starts(u)))'
      BY <3>1, <3>2
    <3> QED
      BY <2>1, <3>3 DEF Complete
  <2> QED
    BY <1>6, <1>7, <2>1, <2>2 DEF Progress
<1>8. CASE memory[p] # 0
  <2>1. InToken(u, p - Start[u] + 1)
    <3>1. p \in p .. End(u)
      BY <1>2 DEF Addr
    <3> QED
      BY <1>2, <1>4, <1>8, <3>1, PlaceIs
  <2> QED
    BY <1>5, <1>6, <1>8, <2>1 DEF Progress
<1> QED
  BY <1>7, <1>8

(* A token goes on from s until p. *)
Extends(u, s, p) ==
  /\ \A j \in s .. p - 1 : InToken(u, j - Start[u] + 1)
  /\ ~InToken(u, p - Start[u] + 1)

(* Then it is the next one, and behind it there is a place again. *)
LEMMA NextToken ==
  ASSUME CutInv, NEW u \in Users, NEW s, Place(u, s), NEW p \in s .. End(u), p # s,
         Extends(u, s, p)
  PROVE  LET i == s - Start[u] + 1
             e == p - Start[u]
             k == Len(tokens[u]) + 1
         IN  /\ k = Cardinality(Upto(u, e + 1)) /\ k \in 1 .. Cardinality(Starts(u))
             /\ Tokens(u)[k] = SubSeq(Whole(u), i, e)
             /\ i \in 1 .. Len(Whole(u)) /\ e \in i .. Len(Whole(u))
<1>1. /\ s \in Nat /\ Start[u] \in Nat /\ End(u) \in Nat /\ s \in Start[u] .. End(u)
      /\ End(u) = Start[u] + Len(Whole(u)) /\ Len(Whole(u)) \in Nat
  BY PlaceIs
<1>2. Types
  BY DEF CutInv
<1>b. PICK b \in Nat : b = Start[u]
  BY <1>1
<1>3. PICK i \in Nat : i = s - Start[u] + 1
  BY <1>1
<1>4. PICK e \in Nat : e = p - Start[u]
  BY <1>1
<1>l. PICK l \in Nat : l = Len(Whole(u))
  BY <1>1
<1>5. /\ i \in 1 .. Len(Whole(u)) /\ e \in i .. Len(Whole(u))
      /\ i - 1 = s - Start[u] /\ e + 1 = p - Start[u] + 1
      /\ s = b + i - 1 /\ p = b + e /\ s \in Int /\ p \in Int
  <2>1. s \in Int /\ p \in Int /\ s < p /\ p <= b + l /\ b <= s
    BY <1>1, <1>b, <1>l
  <2>2. i = s - b + 1 /\ e = p - b
    BY <1>b, <1>3, <1>4
  <2>3. s = b + i - 1 /\ p = b + e /\ i - 1 = s - b /\ e + 1 = p - b + 1
    BY <2>1, <2>2
  <2>4. i \in 1 .. l /\ e \in i .. l
    BY <2>1, <2>2
  <2> QED
    BY <1>b, <1>l, <2>1, <2>3, <2>4
<1>6. ASSUME NEW x \in i .. e PROVE InToken(u, x)
  <2>1. PICK j \in Int : j = x + b - 1
    OBVIOUS
  <2>2. j \in s .. p - 1 /\ j - b + 1 = x
    BY <1>5, <2>1
  <2> QED
    BY <1>b, <2>2 DEF Extends
<1>7. ~InToken(u, e + 1) /\ ~InToken(u, i - 1)
  BY <1>5 DEF Place, Extends
<1>8. i \in Starts(u)
  <2>1. i \in i .. e /\ i \in DOMAIN Whole(u)
    <3>1. i \in i .. e
      BY <1>5
    <3>2. DOMAIN Whole(u) = 1 .. Len(Whole(u))
      BY StringIs, LenProperties
    <3> QED
      BY <1>5, <3>1, <3>2
  <2> QED
    BY <1>6, <1>7, <2>1 DEF Starts
<1>9. Upto(u, i) = Upto(u, e + 1)
  <2>1. ASSUME NEW x \in i + 1 .. e + 1 PROVE x \notin Starts(u)
    <3>1. CASE x = e + 1
      BY <1>7, <3>1 DEF Starts
    <3>2. CASE x # e + 1
      <4>1. x - 1 \in i .. e
        BY <1>5, <3>2
      <4> QED
        BY <1>6, <4>1 DEF Starts
    <3> QED
      BY <3>1, <3>2
  <2>2. PICK y \in Int : y = e + 1
    OBVIOUS
  <2>3. i \in Int /\ i <= y /\ \A x \in i + 1 .. y : x \notin Starts(u)
    BY <1>5, <2>1, <2>2
  <2>4. Upto(u, i) = Upto(u, y)
    BY <1>2, <2>3, NoneBetween
  <2> QED
    BY <2>2, <2>4
<1>10. Len(tokens[u]) = Cardinality(Upto(u, i - 1))
  BY <1>5 DEF Place, Got
<1>11. PICK k : k = Len(tokens[u]) + 1
  OBVIOUS
<1>12. k = Cardinality(Upto(u, i))
  BY <1>2, <1>8, <1>10, <1>11, OneMore
<1>13. k \in 1 .. Cardinality(Starts(u)) /\ Tokens(u)[k] = SubSeq(Whole(u), i, e)
  BY <1>2, <1>5, <1>6, <1>7, <1>8, <1>12, NthIs
<1> QED
  BY <1>3, <1>4, <1>5, <1>9, <1>11, <1>12, <1>13

(* What is returned is that token. *)
CutAt(m, s, p) == m[p] = 0 /\ \A j \in s .. p - 1 : m[j] = memory[j] /\ m[j] # 0

LEMMA TokenText ==
  ASSUME CutInv, NEW u \in Users, NEW s, Place(u, s), NEW p \in s .. End(u), p # s,
         NEW m \in [Addr -> Int], CutAt(m, s, p)
  PROVE  Text(m, s) = SubSeq(Whole(u), s - Start[u] + 1, p - Start[u])
<1>1. /\ s \in Nat /\ Start[u] \in Nat /\ End(u) \in Nat /\ s \in Start[u] .. End(u)
      /\ End(u) = Start[u] + Len(Whole(u)) /\ Len(Whole(u)) \in Nat
      /\ \A a \in s .. End(u) : a \in Addr /\ memory[a] = original[a]
  BY PlaceIs
<1>b. PICK b \in Nat : b = Start[u]
  BY <1>1
<1>l. PICK l \in Nat : l = Len(Whole(u))
  BY <1>1
<1>2. p \in Addr /\ s <= p /\ p \in Nat /\ b <= s /\ p <= b + l /\ s < p
  BY <1>1, <1>b, <1>l
<1>3. /\ Text(m, s) \in Seq(Int) /\ Len(Text(m, s)) = p - s
      /\ Text(m, s) = [x \in 1 .. p - s |-> m[s + x - 1]]
  <2>1. m[p] = 0 /\ \A j \in s .. p - 1 : m[j] # 0
    BY DEF CutAt
  <2>2. s \in Nat /\ p \in Addr /\ s <= p
    BY <1>1, <1>2
  <2> QED
    BY <2>1, <2>2, TokenIs
<1>4. PICK n \in Nat : n = p - s
  BY <1>1, <1>2
<1>5. PICK i \in Nat : i = s - b + 1
  BY <1>1, <1>2
<1>6. PICK e \in Nat : e = p - b
  BY <1>1, <1>2
<1>7. i <= e /\ e - i + 1 = n /\ i \in 1 .. l /\ e <= l
  BY <1>1, <1>2, <1>4, <1>5, <1>6
<1>8. ASSUME NEW x \in 1 .. n, NEW y, y = i + x - 1
      PROVE  Whole(u)[y] = m[s + x - 1] /\ m[s + x - 1] \in Int
  <2>1. y \in 1 .. l
    BY <1>7, <1>8
  <2>2. Whole(u)[y] = original[b + y - 1]
    BY <1>b, <1>l, <2>1, StringIs DEF CutInv
  <2>3. b + y - 1 = s + x - 1
    BY <1>1, <1>5, <1>8
  <2>4. PICK a \in Int : a = s + x - 1
    BY <1>1
  <2>5. a \in s .. p - 1 /\ a \in s .. End(u)
    BY <1>1, <1>2, <1>4, <2>4
  <2>6. original[a] = m[a] /\ m[a] \in Int
    BY <1>1, <2>5 DEF CutAt
  <2> QED
    BY <2>2, <2>3, <2>4, <2>6
<1>9. /\ SubSeq(Whole(u), i, e) \in Seq(Int) /\ Len(SubSeq(Whole(u), i, e)) = n
      /\ \A x \in 1 .. n : SubSeq(Whole(u), i, e)[x] = Whole(u)[i + x - 1]
  <2>1. ASSUME NEW y \in i .. e PROVE Whole(u)[y] \in Int
    <3>1. PICK x \in 1 .. n : x = y - i + 1
      BY <1>7
    <3>2. y = i + x - 1
      BY <3>1
    <3> QED
      BY <1>8, <3>2
  <2> QED
    BY <1>7, <2>1, SubSeqProperties
<1>10. \A x \in 1 .. n : SubSeq(Whole(u), i, e)[x] = Text(m, s)[x]
  BY <1>3, <1>4, <1>8, <1>9
<1>11. SubSeq(Whole(u), i, e) = Text(m, s)
  BY <1>3, <1>4, <1>9, <1>10, SeqEqual
<1> QED
  BY <1>b, <1>5, <1>6, <1>11

(* Who cuts its own string does so at the end of a token. *)
LEMMA CutIsOwn ==
  ASSUME CutInv, NEW u \in Users, Cut(u), Place(u, str[u]),
         InToken(u, str[u] - Start[u] + 1)
  PROVE  \E p \in str[u] .. End(u) :
           /\ p # str[u] /\ Extends(u, str[u], p) /\ CutAt(memory', str[u], p)
           /\ memory' = IF memory[p] = 0 THEN memory ELSE [memory EXCEPT ![p] = 0]
           /\ last' = IF memory[p] = 0 THEN nullptr ELSE p + 1
<1>1. PICK s : s = str[u]
  OBVIOUS
<1>2. s \in Start[u] .. End(u) /\ Place(u, s) /\ InToken(u, s - Start[u] + 1)
  BY <1>1 DEF Place
<1>3. PICK p \in s .. End(u) :
           /\ Start[u] \in Nat /\ s \in Nat /\ p \in Nat
           /\ End(u) \in Addr /\ memory[End(u)] = 0
           /\ memory[p] = 0 \/ Among(memory, memory[p], Delim[u])
           /\ \A j \in s .. p - 1 : memory[j] # 0 /\ ~Among(memory, memory[j], Delim[u])
           /\ memory' = IF memory[p] = 0 THEN memory ELSE [memory EXCEPT ![p] = 0]
           /\ last' = IF memory[p] = 0 THEN nullptr ELSE p + 1
  BY <1>1, <1>2, CutIs
<1>4. End(u) \in Nat /\ \A j \in s .. p - 1 : j \in s .. End(u) /\ j # p
  BY <1>3 DEF Addr
<1>5. /\ \A j \in s .. p - 1 : InToken(u, j - Start[u] + 1)
      /\ ~InToken(u, p - Start[u] + 1)
  <2>1. \A a \in s .. End(u) : InToken(u, a - Start[u] + 1) <=>
           memory[a] # 0 /\ ~Among(memory, memory[a], Delim[u])
    BY <1>2, PlaceIs
  <2> QED
    BY <1>3, <1>4, <2>1
<1>6. Extends(u, s, p) /\ p # s
  BY <1>2, <1>5 DEF Extends
<1>7. CutAt(memory', s, p)
  <2>1. memory \in [Addr -> Int] /\ p \in Addr
    BY <1>3, <1>4, SizeAssumption DEF CutInv, Types, Addr
  <2>2. memory'[p] = 0
    BY <1>3, <2>1
  <2>3. ASSUME NEW j \in s .. p - 1 PROVE memory'[j] = memory[j] /\ memory'[j] # 0
    <3>1. j \in Addr
      BY <1>2, <1>4, PlaceIs
    <3> QED
      BY <1>3, <1>4, <2>1, <3>1
  <2> QED
    BY <2>2, <2>3 DEF CutAt
<1> QED
  BY <1>1, <1>3, <1>6, <1>7

LEMMA CutProgress ==
  ASSUME CutInv, NEW u \in Users, Cut(u), Place(u, str[u]),
         InToken(u, str[u] - Start[u] + 1)
  PROVE  Progress(u)'
<1>0. /\ UNCHANGED <<str, original, disturbed>> /\ pc' = [pc EXCEPT ![u] = "between"]
      /\ tokens' = [tokens EXCEPT ![u] = Append(@, Text(memory', str[u]))]
  BY DEF Cut, Goto
<1>1. PICK s : s = str[u]
  OBVIOUS
<1>2. PICK p \in s .. End(u) :
           /\ p # s /\ Extends(u, s, p) /\ CutAt(memory', s, p)
           /\ memory' = IF memory[p] = 0 THEN memory ELSE [memory EXCEPT ![p] = 0]
           /\ last' = IF memory[p] = 0 THEN nullptr ELSE p + 1
  BY <1>1, CutIsOwn
<1>3. Place(u, s) /\ Types
  BY <1>1 DEF CutInv
<1>4. /\ s \in Nat /\ Start[u] \in Nat /\ End(u) \in Nat /\ s \in Start[u] .. End(u)
      /\ \A a \in s .. End(u) : a \in Addr /\ a \in Start[u] .. End(u) /\ memory[a] = original[a]
  BY <1>3, PlaceIs
<1>5. PICK m \in [Addr -> Int] : m = memory'
  BY CutCuts DEF CutInv, Types
<1>6. PICK i : i = s - Start[u] + 1
  OBVIOUS
<1>7. PICK e : e = p - Start[u]
  OBVIOUS
<1>8. PICK k : k = Len(tokens[u]) + 1
  OBVIOUS
<1>9. /\ k = Cardinality(Upto(u, e + 1)) /\ k \in 1 .. Cardinality(Starts(u))
      /\ Tokens(u)[k] = SubSeq(Whole(u), i, e)
  BY <1>2, <1>3, <1>6, <1>7, <1>8, NextToken
<1>10. Text(m, s) = SubSeq(Whole(u), i, e)
  BY <1>2, <1>3, <1>5, <1>6, <1>7, TokenText
<1>11. tokens'[u] = Append(tokens[u], Tokens(u)[k])
  BY <1>0, <1>1, <1>5, <1>9, <1>10 DEF CutInv, Types
<1>12. Got(u, k)'
  <2>1. tokens[u] \in Seq(Seq(Int)) /\ tokens'[u] \in Seq(Seq(Int)) /\ Len(tokens[u]) \in Nat
    BY CutCuts, LenProperties DEF CutInv, Types
  <2>2. PICK x : x = Tokens(u)[k]
    OBVIOUS
  <2>3. tokens[u] \in Seq(Seq(Int) \cup {x}) /\ x \in Seq(Int) \cup {x}
    BY <2>1, SeqMonotonic
  <2>4. /\ Len(tokens'[u]) = k
        /\ \A j \in 1 .. k - 1 : tokens'[u][j] = tokens[u][j]
        /\ tokens'[u][k] = x
    BY <1>8, <1>11, <2>1, <2>2, <2>3, AppendProperties
  <2>5. \A j \in 1 .. k - 1 : tokens[u][j] = Tokens(u)[j]
    BY <1>3, <1>8, <2>1 DEF Place, Got
  <2>6. \A j \in 1 .. k : tokens'[u][j] = Tokens(u)[j]
    <3> SUFFICES ASSUME NEW j \in 1 .. k PROVE tokens'[u][j] = Tokens(u)[j]
      OBVIOUS
    <3>1. j = k \/ j \in 1 .. k - 1
      BY <1>8, <2>1
    <3> QED
      BY <2>2, <2>4, <2>5, <3>1
  <2>7. Tokens(u)' = Tokens(u)
    BY <1>0, SameReference
  <2> QED
    BY <2>4, <2>6, <2>7 DEF Got
<1>13. pc'[u] = "between"
  BY <1>0 DEF CutInv, Types
<1>14. CASE memory[p] = 0
  <2>1. p = End(u)
    <3>1. memory[p] = original[p] /\ p \in Start[u] .. End(u)
      BY <1>4
    <3>2. Ends(original, Start[u], Len(Whole(u))) /\ Len(Whole(u)) \in Nat
          /\ End(u) = Start[u] + Len(Whole(u))
      BY <1>3, StringIs DEF End
    <3> SUFFICES ASSUME p # End(u) PROVE FALSE
      OBVIOUS
    <3>3. PICK j \in 0 .. Len(Whole(u)) - 1 : j = p - Start[u]
      BY <1>4, <3>1, <3>2
    <3>4. Start[u] + j = p
      BY <1>4, <3>1, <3>3
    <3> QED
      BY <1>14, <3>1, <3>2, <3>4 DEF Ends
  <2>2. e = Len(Whole(u)) /\ e \in Nat
    BY <1>3, <1>4, <1>7, <2>1, StringIs DEF End
  <2>3. Upto(u, e + 1) = Starts(u)
    <3>1. Starts(u) \subseteq 1 .. e
      BY <1>3, <2>2, StartsAre
    <3> QED
      BY <2>2, <3>1 DEF Upto
  <2>4. Complete(u)'
    <3>1. Cardinality(Starts(u))' = k
      BY <1>0, <1>9, <2>3, SameReference
    <3> QED
      BY <1>12, <3>1 DEF Complete
  <2> QED
    BY <1>2, <1>13, <1>14, <2>4 DEF Progress
<1>15. CASE memory[p] # 0
  <2>1. last' = p + 1 /\ memory' = [memory EXCEPT ![p] = 0] /\ p \in Nat
    BY <1>2, <1>4, <1>15
  <2>2. p # End(u)
    BY <1>15, EndStays
  <2>3. PICK q \in Nat : q = p + 1
    BY <2>1
  <2>4. q \in Start[u] .. End(u) /\ q - Start[u] = e + 1 /\ q - Start[u] = p - Start[u] + 1
    BY <1>4, <1>7, <2>1, <2>2, <2>3
  <2>5. \A a \in q .. End(u) : memory'[a] = original[a]
    <3> SUFFICES ASSUME NEW a \in q .. End(u) PROVE memory'[a] = original[a]
      OBVIOUS
    <3>1. a \in s .. End(u) /\ a # p
      BY <1>4, <2>1, <2>3
    <3>2. memory[a] = original[a] /\ a \in Addr
      BY <1>4, <3>1
    <3> QED
      BY <2>1, <3>1, <3>2 DEF CutInv, Types
  <2>6. ~InToken(u, q - Start[u])
    BY <1>2, <2>4 DEF Extends
  <2>7. Upto(u, q - Start[u])' = Upto(u, q - Start[u]) /\ Cardinality(Upto(u, q - Start[u])) = k
    BY <1>0, <1>9, <2>4, SameReference DEF Upto
  <2>8. Place(u, q)'
    BY <1>0, <1>12, <2>4, <2>5, <2>6, <2>7, SameReference DEF Place
  <2>9. last' = q /\ last' # nullptr
    BY <2>1, <2>3 DEF nullptr
  <2> QED
    BY <1>13, <2>8, <2>9 DEF Progress
<1> QED
  BY <1>14, <1>15

(* A user that has not begun, or that is through, while another executes.   *)
LEMMA IdleProgress ==
  ASSUME NEW w \in Users, Progress(w), pc[w] \in {"start", "done"}, pc'[w] = pc[w],
         original' = original, tokens'[w] = tokens[w],
         pc[w] = "start" => \A a \in Start[w] .. End(w) : memory'[a] = memory[a]
  PROVE  Progress(w)'
<1>1. CASE pc[w] = "start"
  BY <1>1, PlaceSame DEF Progress
<1>2. CASE pc[w] = "done"
  <2>1. CASE w = "program"
    BY <1>2, <2>1, PlaceSame DEF Progress
  <2>2. CASE w # "program"
    <3>1. PICK n \in 0 .. Cardinality(Starts(w)) : Got(w, n)
      BY <1>2, <2>2 DEF Progress
    <3>2. Got(w, n)' /\ Starts(w)' = Starts(w)
      BY <3>1, PlaceSame, SameReference
    <3>3. (\E k \in 0 .. Cardinality(Starts(w)) : Got(w, k))'
      BY <3>1, <3>2
    <3> QED
      BY <1>2, <2>2, <3>3 DEF Progress
  <2> QED
    BY <2>1, <2>2
<1> QED
  BY <1>1, <1>2

(* A user of which nothing changes. *)
LEMMA SameProgress ==
  ASSUME NEW w \in Users, Progress(w), UNCHANGED <<memory, last, original>>,
         pc'[w] = pc[w], str'[w] = str[w], tokens'[w] = tokens[w]
  PROVE  Progress(w)'
<1>1. CASE pc[w] \in {"start", "done"}
  BY <1>1, IdleProgress
<1>2. CASE pc[w] \notin {"start", "done"}
  BY <1>2, PlaceSame DEF Progress
<1> QED
  BY <1>1, <1>2

(* Who executes, and who does not. *)
LEMMA StepOrder ==
  ASSUME Types, Order, NEW u \in Users, FirstCall(u) \/ Step(u)
  PROVE  /\ Order' /\ original' = original
         /\ \A w \in Users : Mine(w)' => Mine(w)
         /\ \A w \in Users \ {u} : pc'[w] = pc[w]
         /\ Step(u) => \A w \in Users \ {u} : Mine(w) => pc[w] \in {"start", "done"}
<1>1. PICK x : x # "start" /\ pc' = [pc EXCEPT ![u] = x]
  BY DEF FirstCall, Step, NextCall, Skip, Cut, Goto
<1>2. /\ original' = original
      /\ u = "program" => pc["handler"] \in {"start", "done"}
      /\ FirstCall(u) => pc[u] = "start"
      /\ Step(u) => pc[u] \notin {"start", "done"} /\ disturbed' = disturbed
      /\ FirstCall(u) =>
           disturbed' = (disturbed \/ (u = "handler" /\ pc["program"] \notin {"start", "done"}))
  BY DEF FirstCall, Step, NextCall, Skip, Cut, At
<1>3. pc'[u] = x /\ \A w \in Users \ {u} : pc'[w] = pc[w]
  BY <1>1 DEF Types
<1>4. u \in {"program", "handler"} /\ Users = {"program", "handler"}
  BY DEF Users
<1>5. disturbed \in BOOLEAN
  BY DEF Types
<1>6. disturbed' => pc'["handler"] # "start" /\ pc'["program"] # "start"
  BY <1>1, <1>2, <1>3, <1>4, <1>5 DEF Order
<1>7. pc'["handler"] \notin {"start", "done"} /\ ~disturbed' => pc'["program"] \in {"start", "done"}
  <2>1. CASE u = "program"
    BY <1>2, <1>3, <1>4, <2>1
  <2>2. CASE u = "handler"
    <3>1. pc'["program"] = pc["program"]
      BY <1>3, <1>4, <2>2
    <3>2. CASE FirstCall(u)
      BY <1>2, <2>2, <3>1, <3>2
    <3>3. CASE Step(u)
      BY <1>2, <2>2, <3>1, <3>3 DEF Order
    <3> QED
      BY <3>2, <3>3
  <2> QED
    BY <1>4, <2>1, <2>2
<1>8. \A w \in Users : Mine(w)' => Mine(w)
  BY <1>2 DEF Mine
<1>9. Step(u) => \A w \in Users \ {u} : Mine(w) => pc[w] \in {"start", "done"}
  BY <1>2, <1>4 DEF Order, Mine
<1> QED
  BY <1>2, <1>3, <1>6, <1>7, <1>8, <1>9 DEF Order

(* Whatever a user is doing, it has got some of its tokens. *)
LEMMA SomeAreGot ==
  ASSUME Types, NEW u \in Users, Progress(u)
  PROVE  \E n \in 0 .. Cardinality(Starts(u)) : Got(u, n)
<1>1. Cardinality(Starts(u)) \in Nat
  BY StartsAre
<1>2. ASSUME NEW p, Place(u, p) PROVE \E n \in 0 .. Cardinality(Starts(u)) : Got(u, n)
  <2>1. PICK n \in Nat : n = Cardinality(Upto(u, p - Start[u])) /\ n <= Cardinality(Starts(u))
    BY StartsAre
  <2> QED
    BY <1>1, <1>2, <2>1 DEF Place
<1>3. Complete(u) => \E n \in 0 .. Cardinality(Starts(u)) : Got(u, n)
  BY <1>1 DEF Complete
<1>4. pc[u] \in Labels
  BY DEF Types
<1> QED
  BY <1>2, <1>3, <1>4 DEF Progress, Labels

LEMMA CompleteIsDone ==
  ASSUME Types, NEW u \in Users, Complete(u)', pc'[u] = "done", original' = original
  PROVE  Progress(u)'
<1>1. Cardinality(Starts(u)) \in Nat /\ Starts(u)' = Starts(u)
  BY StartsAre, SameReference
<1>2. Cardinality(Starts(u))' \in (0 .. Cardinality(Starts(u)))'
  BY <1>1
<1>3. (\E n \in 0 .. Cardinality(Starts(u)) : Got(u, n))'
  BY <1>2 DEF Complete
<1> QED
  BY <1>3 DEF Progress

(* The strings that are split do not overlap. *)
LEMMA Disjoint ==
  ASSUME Types, NEW u \in Users, NEW w \in Users, u # w,
         NEW a \in Start[u] .. End(u), NEW b \in Start[w] .. End(w)
  PROVE  a # b
<1>1. String(original, Start["program"]) \cap String(original, Start["handler"]) = {}
  BY StrtokAssumption DEF Types
<1>2. \A v \in Users : String(original, Start[v]) = Start[v] .. End(v)
  BY StringIs
<1>3. String(original, Start[u]) \cap String(original, Start[w]) = {}
  BY <1>1 DEF Users
<1> QED
  BY <1>2, <1>3

LEMMA FirstCallProgress ==
  ASSUME StrtokInv, NEW u \in Users, FirstCall(u), NEW w \in Users, Mine(w)
  PROVE  Progress(w)'
<1>1. /\ UNCHANGED <<memory, last, tokens, original>> /\ pc[u] = "start"
      /\ str' = [str EXCEPT ![u] = Start[u]] /\ pc' = [pc EXCEPT ![u] = "skip"]
  BY DEF FirstCall, Goto, At
<1>2. Progress(w) /\ Types
  BY DEF StrtokInv, CutInv
<1>3. CASE w = u
  <2>1. Place(u, Start[u])
    BY <1>1, <1>2, <1>3 DEF Progress
  <2>2. Place(u, Start[u])'
    BY <1>1, <2>1, PlaceSame
  <2>3. pc'[u] = "skip" /\ str'[u] = Start[u]
    BY <1>1, <1>2 DEF Types
  <2> QED
    BY <1>3, <2>2, <2>3 DEF Progress
<1>4. CASE w # u
  <2>1. pc'[w] = pc[w] /\ str'[w] = str[w]
    BY <1>1, <1>2, <1>4 DEF Types
  <2> QED
    BY <1>1, <1>2, <2>1, SameProgress
<1> QED
  BY <1>3, <1>4

LEMMA NextCallProgress ==
  ASSUME StrtokInv, NEW u \in Users, NextCall(u), NEW w \in Users, Mine(w)
  PROVE  Progress(w)'
<1>1. /\ UNCHANGED <<memory, last, tokens, original, disturbed>> /\ pc[u] = "between"
      /\ str' = [str EXCEPT ![u] = last]
      /\ pc' = [pc EXCEPT ![u] = IF last = nullptr THEN "done" ELSE "skip"]
  BY DEF NextCall, Goto, At
<1>2. Progress(w) /\ Types
  BY DEF StrtokInv, CutInv
<1>3. CASE w = u
  <2>1. str'[u] = last /\ pc'[u] = IF last = nullptr THEN "done" ELSE "skip"
    BY <1>1, <1>2 DEF Types
  <2>2. CASE last = nullptr
    <3>1. Complete(u)'
      BY <1>1, <1>2, <1>3, <2>2, PlaceSame DEF Progress
    <3>2. pc'[u] = "done"
      BY <2>1, <2>2
    <3> QED
      BY <1>1, <1>2, <1>3, <3>1, <3>2, CompleteIsDone
  <2>3. CASE last # nullptr
    <3>1. PICK p : p = last
      OBVIOUS
    <3>2. Place(u, p)
      BY <1>1, <1>2, <1>3, <2>3, <3>1 DEF Progress
    <3>3. Place(u, p)'
      BY <1>1, <3>2, PlaceSame
    <3>4. pc'[u] = "skip" /\ str'[u] = p
      BY <2>1, <2>3, <3>1
    <3> QED
      BY <1>3, <3>3, <3>4 DEF Progress
  <2> QED
    BY <2>2, <2>3
<1>4. CASE w # u
  <2>1. pc'[w] = pc[w] /\ str'[w] = str[w]
    BY <1>1, <1>2, <1>4 DEF Types
  <2> QED
    BY <1>1, <1>2, <2>1, SameProgress
<1> QED
  BY <1>3, <1>4

(* While a user is idle, the other one moves on in its own string. *)
LEMMA OtherProgress ==
  ASSUME StrtokInv, NEW u \in Users, Skip(u) \/ Cut(u), NEW w \in Users, w # u, Mine(w)
  PROVE  Progress(w)'
<1>0. Types /\ CutInv /\ Order /\ Progress(w)
  BY DEF StrtokInv, CutInv
<1>1. Step(u) /\ pc[u] \in {"skip", "cut"} /\ w \in Users \ {u}
  BY DEF Step, Skip, Cut, At
<1>2. pc[w] \in {"start", "done"} /\ pc'[w] = pc[w] /\ original' = original
  BY <1>0, <1>1, StepOrder
<1>3. tokens'[w] = tokens[w]
  BY <1>0 DEF Skip, Cut, Types
<1>4. ASSUME pc[w] = "start", NEW a \in Start[w] .. End(w) PROVE memory'[a] = memory[a]
  <2>1. CASE Skip(u)
    BY <2>1 DEF Skip
  <2>2. CASE Cut(u)
    <3>1. Mine(u)
      BY <1>0, <1>4 DEF Order, Mine, Users
    <3>2. Place(u, str[u]) /\ InToken(u, str[u] - Start[u] + 1)
      BY <2>2, <3>1 DEF StrtokInv, Progress, Cut, At
    <3>3. PICK p \in str[u] .. End(u) :
            memory' = IF memory[p] = 0 THEN memory ELSE [memory EXCEPT ![p] = 0]
      BY <1>0, <2>2, <3>2, CutIsOwn
    <3>4. p \in Start[u] .. End(u) /\ a \in Addr
      <4>1. str[u] \in Nat /\ Start[u] \in Nat /\ End(u) \in Nat /\ str[u] \in Start[u] .. End(u)
        BY <1>0, <3>2, PlaceIs
      <4>2. Start[w] \in Nat /\ End(w) \in Addr
        BY <1>0, StringIs
      <4> QED
        BY <3>3, <4>1, <4>2, SizeAssumption DEF Addr
    <3>5. a # p
      BY <1>0, <3>4, Disjoint
    <3> QED
      BY <1>0, <3>3, <3>4, <3>5 DEF Types
  <2> QED
    BY <2>1, <2>2
<1> QED
  BY <1>0, <1>2, <1>3, <1>4, IdleProgress

LEMMA LeaveProgress ==
  ASSUME StrtokInv, Leave
  PROVE  /\ Order' /\ \A w \in Users : Mine(w)' => Mine(w) /\ Progress(w)'
<1>1. /\ UNCHANGED <<memory, last, str, tokens, original, disturbed>>
      /\ pc["handler"] = "between" /\ pc' = [pc EXCEPT !["handler"] = "done"]
  BY DEF Leave, Goto, At
<1>2. Types /\ CutInv /\ Order
  BY DEF StrtokInv, CutInv
<1>3. pc'["handler"] = "done" /\ pc'["program"] = pc["program"]
  BY <1>1, <1>2 DEF Types, Users
<1>4. Order'
  BY <1>1, <1>2, <1>3 DEF Order
<1>5. \A w \in Users : Mine(w)' => Mine(w)
  BY <1>1 DEF Mine
<1>6. ASSUME NEW w \in Users, Mine(w) PROVE Progress(w)'
  <2>1. Progress(w)
    BY <1>6 DEF StrtokInv
  <2>2. CASE w = "program"
    BY <1>1, <1>3, <2>1, <2>2, SameProgress
  <2>3. CASE w = "handler"
    <3>1. PICK n \in 0 .. Cardinality(Starts(w)) : Got(w, n)
      BY <1>1, <1>2, <2>1, <2>3, SomeAreGot
    <3>2. Got(w, n)' /\ Starts(w)' = Starts(w)
      BY <1>1, <3>1, PlaceSame, SameReference
    <3>3. (\E k \in 0 .. Cardinality(Starts(w)) : Got(w, k))'
      BY <3>1, <3>2
    <3> QED
      BY <1>3, <2>3, <3>3 DEF Progress
  <2> QED
    BY <2>2, <2>3 DEF Users
<1> QED
  BY <1>4, <1>5, <1>6

LEMMA StrtokStep == StrtokInv /\ [Next]_vars => StrtokInv'
<1> SUFFICES ASSUME StrtokInv, [Next]_vars PROVE StrtokInv'
  OBVIOUS
<1>1. CutInv' /\ CutInv /\ Types /\ Order
  BY CutStep DEF StrtokInv, CutInv
<1>2. ASSUME NEW u \in Users, FirstCall(u) \/ Step(u)
      PROVE  Order' /\ \A w \in Users : Mine(w)' => Progress(w)'
  <2>1. Order' /\ \A w \in Users : Mine(w)' => Mine(w)
    BY <1>1, <1>2, StepOrder
  <2>2. ASSUME NEW w \in Users, Mine(w) PROVE Progress(w)'
    <3>1. CASE FirstCall(u)
      BY <2>2, <3>1, FirstCallProgress
    <3>2. CASE NextCall(u)
      BY <2>2, <3>2, NextCallProgress
    <3>3. CASE (Skip(u) \/ Cut(u)) /\ w # u
      BY <2>2, <3>3, OtherProgress
    <3>4. CASE Skip(u) /\ w = u
      <4>1. Place(u, str[u])
        BY <2>2, <3>4 DEF StrtokInv, Progress, Skip, At
      <4> QED
        BY <1>1, <3>4, <4>1, SkipProgress
    <3>5. CASE Cut(u) /\ w = u
      <4>1. Place(u, str[u]) /\ InToken(u, str[u] - Start[u] + 1)
        BY <2>2, <3>5 DEF StrtokInv, Progress, Cut, At
      <4> QED
        BY <1>1, <3>5, <4>1, CutProgress
    <3> QED
      BY <1>2, <3>1, <3>2, <3>3, <3>4, <3>5 DEF Step
  <2> QED
    BY <2>1, <2>2
<1>3. CASE Leave
  BY <1>1, <1>3, LeaveProgress DEF StrtokInv
<1>4. CASE UNCHANGED vars
  <2>1. Order' /\ \A w \in Users : Mine(w)' => Mine(w)
    BY <1>1, <1>4 DEF Order, Mine, vars
  <2>2. \A w \in Users : Mine(w) => Progress(w)'
    BY <1>4, SameProgress DEF StrtokInv, vars
  <2> QED
    BY <1>1, <2>1, <2>2 DEF StrtokInv
<1>5. ASSUME NEW u \in Users, FirstCall(u) \/ Step(u) PROVE StrtokInv'
  BY <1>1, <1>2, <1>5 DEF StrtokInv
<1> QED
  BY <1>3, <1>4, <1>5 DEF Next, Done

LEMMA StrtokInitially == Init => StrtokInv
<1> SUFFICES ASSUME Init PROVE StrtokInv
  OBVIOUS
<1>1. CutInv /\ Types
  BY CutInitially DEF CutInv
<1>2. /\ pc = [u \in Users |-> "start"] /\ tokens = [u \in Users |-> <<>>]
      /\ memory = original /\ disturbed = FALSE
  BY DEF Init, Users
<1>3. pc["handler"] = "start" /\ \A u \in Users : pc[u] = "start" /\ tokens[u] = <<>>
  BY <1>2 DEF Users
<1>4. Order
  BY <1>2, <1>3 DEF Order
<1>5. ASSUME NEW u \in Users PROVE Place(u, Start[u])
  <2>1. /\ Start[u] \in Nat /\ Len(Whole(u)) \in Nat /\ DOMAIN Whole(u) = 1 .. Len(Whole(u))
        /\ Starts(u) \subseteq 1 .. Len(Whole(u))
    BY <1>1, StringIs, StartsAre
  <2>2. Start[u] \in Start[u] .. End(u) /\ Start[u] - Start[u] = 0
    BY <2>1 DEF End
  <2>3. ~InToken(u, 0)
    BY <2>1 DEF InToken
  <2>4. Upto(u, 0) = {}
    BY <2>1 DEF Upto
  <2>5. Got(u, 0)
    BY <1>3 DEF Got
  <2>6. Cardinality(Upto(u, 0)) = 0
    BY <2>4, FS_EmptySet
  <2> QED
    BY <1>2, <2>2, <2>3, <2>5, <2>6 DEF Place
<1>6. \A u \in Users : Progress(u)
  BY <1>3, <1>5 DEF Progress
<1> QED
  BY <1>1, <1>4, <1>6 DEF StrtokInv

(* What a user has got, and that it is all of it. *)
LEMMA GotIsPrefix ==
  ASSUME CutInv, NEW u \in Users, NEW n \in 0 .. Cardinality(Starts(u)), Got(u, n)
  PROVE  /\ IsPrefix(tokens[u], Tokens(u))
         /\ n = Cardinality(Starts(u)) => tokens[u] = Tokens(u)
<1>1. PICK c \in Nat : c = Cardinality(Starts(u))
  BY StartsAre DEF CutInv
<1>2. PICK s : s = tokens[u]
  OBVIOUS
<1>3. PICK t : t = Tokens(u)
  OBVIOUS
<1>4. \E S : t \in Seq(S) /\ s \in Seq(S)
  <2>1. PICK S : S = Seq(Int) \cup {t[k] : k \in 1 .. c}
    OBVIOUS
  <2>2. t = [k \in 1 .. c |-> t[k]]
    <3> DEFINE start(k) == CHOOSE i \in Starts(u) : Cardinality({j \in Starts(u) : j <= i}) = k
    <3> DEFINE F(k) == SubSeq(Whole(u), start(k), TokenEnd(u, start(k)))
    <3>1. t = [k \in 1 .. c |-> F(k)]
      BY <1>1, <1>3 DEF Tokens
    <3> HIDE DEF F
    <3> QED
      BY <3>1
  <2>3. t \in Seq(S)
    <3>1. \A k \in 1 .. c : t[k] \in S
      BY <2>1
    <3> QED
      BY <2>2, <3>1
  <2>4. s \in Seq(Seq(Int))
    BY <1>2 DEF CutInv, Types
  <2>5. s \in Seq(S)
    BY <2>1, <2>4, SeqMonotonic
  <2> QED
    BY <2>3, <2>5
<1>5. PICK S : t \in Seq(S) /\ s \in Seq(S)
  BY <1>4
<1>6. DOMAIN t = 1 .. c /\ Len(t) = c
  <2>1. DOMAIN t = 1 .. c
    BY <1>1, <1>3 DEF Tokens
  <2> QED
    BY <1>1, <1>5, <2>1
<1>7. Len(s) = n /\ n <= c /\ n \in Nat /\ \A k \in 1 .. n : s[k] = t[k]
  BY <1>1, <1>2, <1>3 DEF Got
<1>8. SubSeq(s, 1, n) = SubSeq(t, 1, n)
  <2>1. \A k \in 1 .. n : s[k] \in S /\ t[k] \in S
    BY <1>5, <1>6, <1>7, ElementOfSeq
  <2>2. /\ SubSeq(s, 1, n) \in Seq(S) /\ SubSeq(t, 1, n) \in Seq(S)
        /\ Len(SubSeq(s, 1, n)) = n /\ Len(SubSeq(t, 1, n)) = n
    BY <1>7, <2>1, SubSeqProperties
  <2>3. \A k \in 1 .. n : SubSeq(s, 1, n)[k] = s[k] /\ SubSeq(t, 1, n)[k] = t[k]
    BY <1>7, <2>1, SubSeqProperties
  <2> QED
    BY <1>7, <2>2, <2>3, SeqEqual
<1>9. IsPrefix(s, t)
  BY <1>6, <1>7, <1>8 DEF IsPrefix
<1>10. n = c => s = t
  BY <1>5, <1>6, <1>7, SeqEqual
<1> QED
  BY <1>1, <1>2, <1>3, <1>9, <1>10

(* What strtok() returns are the longest runs without a delimiter, in order, *)
(* and all of them before it returns nullptr: for the handler always, and    *)
(* for the program unless the handler has interrupted it, as both have one   *)
(* static variable for the place they have come to.                          *)
THEOREM TokensComeInOrder == Spec => []TokensInOrder
<1>1. ASSUME StrtokInv PROVE TokensInOrder
  <2> SUFFICES ASSUME NEW u \in Users, Mine(u)
               PROVE  /\ IsPrefix(tokens[u], Tokens(u))
                      /\ pc["program"] = "done" /\ u = "program" => tokens[u] = Tokens(u)
    BY DEF TokensInOrder, Mine
  <2>1. CutInv /\ Types /\ Progress(u)
    BY <1>1 DEF StrtokInv, CutInv
  <2>2. PICK n \in 0 .. Cardinality(Starts(u)) : Got(u, n)
    BY <2>1, SomeAreGot
  <2>3. IsPrefix(tokens[u], Tokens(u))
    BY <2>1, <2>2, GotIsPrefix
  <2>4. ASSUME pc["program"] = "done", u = "program" PROVE tokens[u] = Tokens(u)
    <3>1. Got(u, Cardinality(Starts(u))) /\ Cardinality(Starts(u)) \in Nat
      BY <2>1, <2>4, StartsAre DEF Progress, Complete
    <3>2. Cardinality(Starts(u)) \in 0 .. Cardinality(Starts(u))
      BY <3>1
    <3> QED
      BY <2>1, <3>1, <3>2, GotIsPrefix
  <2> QED
    BY <2>3, <2>4
<1> QED
  BY <1>1, StrtokInitially, StrtokStep, PTL DEF Spec

-----------------------------------------------------------------------------
(* The functions that write.  A recursive definition is some function that  *)
(* satisfies its equation.  There is one, since G does; and there is no     *)
(* other, since there is no least place at which another would differ.      *)

(* Memory is m, but for what f has at 0 .. n - 1, from d on. *)
Patch(m, d, n, f) == [a \in Addr |-> IF d <= a /\ a < d + n THEN f[a - d] ELSE m[a]]

Range0(m, s, n) == [i \in 0 .. n - 1 |-> m[s + i]]

(* Forwards, from the first byte to the last: into what lies before. *)
LEMMA CopyIs ==
  ASSUME NEW m \in [Addr -> Int], NEW d \in Nat, NEW s \in Nat, NEW n \in Nat,
         d + n <= Size, s + n <= Size, d <= s \/ s + n <= d
  PROVE  memcpy(m, d, s, n) = Patch(m, d, n, Range0(m, s, n))
<1> DEFINE G(i) == [a \in Addr |-> IF d <= a /\ a < d + i THEN m[s + (a - d)] ELSE m[a]]
<1> DEFINE Eq(g) == g = [i \in 0 .. n |-> IF i = 0 THEN m ELSE
                           [g[i - 1] EXCEPT ![d + i - 1] = g[i - 1][s + i - 1]]]
<1>0. Size \in Nat /\ Addr = 0 .. Size - 1
  BY SizeAssumption DEF Addr
<1>1. G(0) = m
  <2>1. \A a \in Addr : ~(d <= a /\ a < d + 0)
    BY <1>0
  <2> QED
    BY <2>1
<1>2. ASSUME NEW i \in 1 .. n
      PROVE  [G(i - 1) EXCEPT ![d + i - 1] = G(i - 1)[s + i - 1]] = G(i)
  <2>1. PICK j \in Nat : j = i - 1
    BY <1>2
  <2>2. PICK p \in Addr : p = d + i - 1
    BY <1>0
  <2>3. PICK q \in Addr : q = s + i - 1
    BY <1>0
  <2>4. G(j)[q] = m[q]
    <3>1. ~(d <= q /\ q < d + j)
      BY <2>1, <2>3, <1>0
    <3> QED
      BY <3>1
  <2>5. ASSUME NEW a \in Addr PROVE G(i)[a] = IF a = p THEN m[q] ELSE G(j)[a]
    <3>1. CASE a = p
      <4>1. d <= a /\ a < d + i /\ s + (a - d) = q
        BY <1>0, <2>2, <2>3, <3>1
      <4> QED
        BY <3>1, <4>1
    <3>2. CASE a # p
      <4>1. d <= a /\ a < d + i <=> d <= a /\ a < d + j
        BY <1>0, <2>1, <2>2, <3>2
      <4> QED
        BY <3>2, <4>1
    <3> QED
      BY <3>1, <3>2
  <2>6. G(i) = [G(j) EXCEPT ![p] = m[q]]
    <3>1. DOMAIN G(i) = Addr /\ DOMAIN G(j) = Addr
      OBVIOUS
    <3>2. G(i) = [a \in Addr |-> G(i)[a]]
      OBVIOUS
    <3> HIDE DEF G
    <3> QED
      BY <2>2, <2>5, <3>1, <3>2
  <2> HIDE DEF G
  <2> QED
    BY <2>1, <2>2, <2>3, <2>4, <2>6
<1>3. \E g : Eq(g)
  <2>1. PICK g : g = [i \in 0 .. n |-> G(i)]
    OBVIOUS
  <2>2. ASSUME NEW i \in 1 .. n PROVE i - 1 \in 0 .. n /\ g[i - 1] = G(i - 1)
    <3>1. i - 1 \in 0 .. n
      OBVIOUS
    <3> HIDE DEF G
    <3> QED
      BY <2>1, <3>1
  <2>3. \A i \in 0 .. n : i = 0 \/ i \in 1 .. n
    OBVIOUS
  <2> HIDE DEF G
  <2>4. \A i \in 0 .. n : G(i) = IF i = 0 THEN m ELSE
                           [g[i - 1] EXCEPT ![d + i - 1] = g[i - 1][s + i - 1]]
    BY <1>1, <1>2, <2>2, <2>3
  <2>5. PICK h : h = [i \in 0 .. n |-> IF i = 0 THEN m ELSE
                           [g[i - 1] EXCEPT ![d + i - 1] = g[i - 1][s + i - 1]]]
    OBVIOUS
  <2>6. \A i \in 0 .. n : g[i] = h[i]
    BY <2>1, <2>4, <2>5
  <2>7. g = h
    BY <2>1, <2>5, <2>6
  <2> QED
    BY <2>5, <2>7
<1>4. PICK f : f = CHOOSE g : Eq(g)
  OBVIOUS
<1>5. Eq(f)
  <2> HIDE DEF Eq
  <2> QED
    BY <1>3, <1>4, Zenon
<1>6. f[n] = G(n)
  <2> DEFINE T == {i \in 0 .. n : f[i] # G(i)}
  <2> SUFFICES ASSUME f[n] # G(n) PROVE FALSE
    OBVIOUS
  <2>1. T \in SUBSET Nat /\ T # {}
    <3> HIDE DEF G
    <3> QED
      OBVIOUS
  <2>2. PICK i \in T : \A k \in T : i <= k
    <3> HIDE DEF T
    <3> QED
      BY <2>1, LeastOf
  <2> HIDE DEF G
  <2>3. i # 0
    BY <1>1, <1>5, <2>2
  <2>4. i \in 1 .. n /\ i - 1 \in 0 .. n /\ i - 1 \notin T
    BY <2>2, <2>3
  <2>5. f[i - 1] = G(i - 1)
    BY <2>4
  <2>6. f[i] = [f[i - 1] EXCEPT ![d + i - 1] = f[i - 1][s + i - 1]]
    BY <1>5, <2>3, <2>4
  <2> QED
    BY <1>2, <2>2, <2>4, <2>5, <2>6
<1>7. memcpy(m, d, s, n) = f[n]
  BY <1>4 DEF memcpy
<1>8. G(n) = Patch(m, d, n, Range0(m, s, n))
  <2>1. ASSUME NEW a \in Addr, d <= a, a < d + n PROVE Range0(m, s, n)[a - d] = m[s + (a - d)]
    <3>1. a - d \in 0 .. n - 1
      BY <1>0, <2>1
    <3> QED
      BY <3>1 DEF Range0
  <2> QED
    BY <2>1 DEF Patch
<1> QED
  BY <1>6, <1>7, <1>8

(* Backwards. *)
LEMMA MoveBackIs ==
  ASSUME NEW m \in [Addr -> Int], NEW d \in Nat, NEW s \in Nat, NEW n \in Nat,
         d + n <= Size, s + n <= Size, s <= d
  PROVE  memmove(m, d, s, n) = Patch(m, d, n, Range0(m, s, n))
<1> DEFINE G(i) == [a \in Addr |-> IF d + n - i <= a /\ a < d + n THEN m[s + (a - d)] ELSE m[a]]
<1> DEFINE Eq(g) == g = [i \in 0 .. n |-> IF i = 0 THEN m ELSE
                           [g[i - 1] EXCEPT ![d + n - i] = g[i - 1][s + n - i]]]
<1>0. Size \in Nat /\ Addr = 0 .. Size - 1
  BY SizeAssumption DEF Addr
<1>1. G(0) = m
  <2>1. \A a \in Addr : ~(d + n - 0 <= a /\ a < d + n)
    BY <1>0
  <2> QED
    BY <2>1
<1>2. ASSUME NEW i \in 1 .. n
      PROVE  [G(i - 1) EXCEPT ![d + n - i] = G(i - 1)[s + n - i]] = G(i)
  <2>1. PICK j \in Nat : j = i - 1
    BY <1>2
  <2>2. PICK p \in Addr : p = d + n - i
    BY <1>0
  <2>3. PICK q \in Addr : q = s + n - i
    BY <1>0
  <2>4. G(j)[q] = m[q]
    <3>1. ~(d + n - j <= q /\ q < d + n)
      BY <2>1, <2>3, <1>0
    <3> QED
      BY <3>1
  <2>5. ASSUME NEW a \in Addr PROVE G(i)[a] = IF a = p THEN m[q] ELSE G(j)[a]
    <3>1. CASE a = p
      <4>1. d + n - i <= a /\ a < d + n /\ s + (a - d) = q
        BY <1>0, <2>2, <2>3, <3>1
      <4> QED
        BY <3>1, <4>1
    <3>2. CASE a # p
      <4>1. d + n - i <= a /\ a < d + n <=> d + n - j <= a /\ a < d + n
        BY <1>0, <2>1, <2>2, <3>2
      <4> QED
        BY <3>2, <4>1
    <3> QED
      BY <3>1, <3>2
  <2>6. G(i) = [G(j) EXCEPT ![p] = m[q]]
    <3>1. DOMAIN G(i) = Addr /\ DOMAIN G(j) = Addr
      OBVIOUS
    <3>2. G(i) = [a \in Addr |-> G(i)[a]]
      OBVIOUS
    <3> HIDE DEF G
    <3> QED
      BY <2>2, <2>5, <3>1, <3>2
  <2> HIDE DEF G
  <2> QED
    BY <2>1, <2>2, <2>3, <2>4, <2>6
<1>3. \E g : Eq(g)
  <2>1. PICK g : g = [i \in 0 .. n |-> G(i)]
    OBVIOUS
  <2>2. ASSUME NEW i \in 1 .. n PROVE i - 1 \in 0 .. n /\ g[i - 1] = G(i - 1)
    <3>1. i - 1 \in 0 .. n
      OBVIOUS
    <3> HIDE DEF G
    <3> QED
      BY <2>1, <3>1
  <2>3. \A i \in 0 .. n : i = 0 \/ i \in 1 .. n
    OBVIOUS
  <2> HIDE DEF G
  <2>4. \A i \in 0 .. n : G(i) = IF i = 0 THEN m ELSE
                           [g[i - 1] EXCEPT ![d + n - i] = g[i - 1][s + n - i]]
    BY <1>1, <1>2, <2>2, <2>3
  <2>5. PICK h : h = [i \in 0 .. n |-> IF i = 0 THEN m ELSE
                           [g[i - 1] EXCEPT ![d + n - i] = g[i - 1][s + n - i]]]
    OBVIOUS
  <2>6. \A i \in 0 .. n : g[i] = h[i]
    BY <2>1, <2>4, <2>5
  <2>7. g = h
    BY <2>1, <2>5, <2>6
  <2> QED
    BY <2>5, <2>7
<1>4. PICK f : f = CHOOSE g : Eq(g)
  OBVIOUS
<1>5. Eq(f)
  <2> HIDE DEF Eq
  <2> QED
    BY <1>3, <1>4, Zenon
<1>6. f[n] = G(n)
  <2> DEFINE T == {i \in 0 .. n : f[i] # G(i)}
  <2> SUFFICES ASSUME f[n] # G(n) PROVE FALSE
    OBVIOUS
  <2>1. T \in SUBSET Nat /\ T # {}
    <3> HIDE DEF G
    <3> QED
      OBVIOUS
  <2>2. PICK i \in T : \A k \in T : i <= k
    <3> HIDE DEF T
    <3> QED
      BY <2>1, LeastOf
  <2> HIDE DEF G
  <2>3. i # 0
    BY <1>1, <1>5, <2>2
  <2>4. i \in 1 .. n /\ i - 1 \in 0 .. n /\ i - 1 \notin T
    BY <2>2, <2>3
  <2>5. f[i - 1] = G(i - 1)
    BY <2>4
  <2>6. f[i] = [f[i - 1] EXCEPT ![d + n - i] = f[i - 1][s + n - i]]
    BY <1>5, <2>3, <2>4
  <2> QED
    BY <1>2, <2>2, <2>4, <2>5, <2>6
<1>7. memmove(m, d, s, n) = f[n]
  BY <1>0, <1>4 DEF memmove
<1>8. G(n) = Patch(m, d, n, Range0(m, s, n))
  <2>1. ASSUME NEW a \in Addr, d <= a, a < d + n PROVE Range0(m, s, n)[a - d] = m[s + (a - d)]
    <3>1. a - d \in 0 .. n - 1
      BY <1>0, <2>1
    <3> QED
      BY <3>1 DEF Range0
  <2>2. d + n - n = d
    BY <1>0
  <2> QED
    BY <2>1, <2>2 DEF Patch
<1> QED
  BY <1>6, <1>7, <1>8

(* 0 is the same byte, character and int. *)
LEMMA ZeroIsZero == Unsigned(0) = 0 /\ Signed(0) = 0
BY DEF Unsigned, Signed

(* A character is found where its byte is, if it is in the range of char. *)
LEMMA SignedIs ==
  ASSUME NEW b \in Byte, NEW c \in Int
  PROVE  Signed(b) = c <=> IsChar(b, c)
<1>1. CASE c \in 0 .. 127
  <2>1. c % 256 = c
    BY <1>1
  <2> QED
    BY <1>1, <2>1 DEF Signed, IsChar, Byte
<1>2. CASE c \in -128 .. -1
  <2>1. c % 256 = c + 256
    BY <1>2
  <2> QED
    BY <1>2, <2>1 DEF Signed, IsChar, Byte
<1>3. CASE c \notin -128 .. 127
  BY <1>3 DEF Signed, IsChar, Byte
<1> QED
  BY <1>1, <1>2, <1>3

(* memset() does not look at what it overwrites. *)
LEMMA FillIs ==
  ASSUME NEW m \in [Addr -> Int], NEW d \in Nat, NEW c \in Int, NEW n \in Nat, d + n <= Size
  PROVE  memset(m, d, c, n) = Patch(m, d, n, [i \in 0 .. n - 1 |-> Unsigned(c)])
<1> DEFINE G(i) == [a \in Addr |-> IF d <= a /\ a < d + i THEN Unsigned(c) ELSE m[a]]
<1> DEFINE Eq(g) == g = [i \in 0 .. n |-> IF i = 0 THEN m ELSE
                           [g[i - 1] EXCEPT ![d + i - 1] = Unsigned(c)]]
<1>0. Size \in Nat /\ Addr = 0 .. Size - 1
  BY SizeAssumption DEF Addr
<1>1. G(0) = m
  <2>1. \A a \in Addr : ~(d <= a /\ a < d + 0)
    BY <1>0
  <2> QED
    BY <2>1
<1>2. ASSUME NEW i \in 1 .. n
      PROVE  [G(i - 1) EXCEPT ![d + i - 1] = Unsigned(c)] = G(i)
  <2>1. PICK j \in Nat : j = i - 1
    BY <1>2
  <2>2. PICK p \in Addr : p = d + i - 1
    BY <1>0
  <2>5. ASSUME NEW a \in Addr PROVE G(i)[a] = IF a = p THEN Unsigned(c) ELSE G(j)[a]
    <3>1. CASE a = p
      <4>1. d <= a /\ a < d + i
        BY <1>0, <2>2, <3>1
      <4> QED
        BY <3>1, <4>1
    <3>2. CASE a # p
      <4>1. d <= a /\ a < d + i <=> d <= a /\ a < d + j
        BY <1>0, <2>1, <2>2, <3>2
      <4> QED
        BY <3>2, <4>1
    <3> QED
      BY <3>1, <3>2
  <2>6. G(i) = [G(j) EXCEPT ![p] = Unsigned(c)]
    <3>1. DOMAIN G(i) = Addr /\ DOMAIN G(j) = Addr
      OBVIOUS
    <3>2. G(i) = [a \in Addr |-> G(i)[a]]
      OBVIOUS
    <3> HIDE DEF G
    <3> QED
      BY <2>2, <2>5, <3>1, <3>2
  <2> HIDE DEF G
  <2> QED
    BY <2>1, <2>2, <2>6
<1>3. \E g : Eq(g)
  <2>1. PICK g : g = [i \in 0 .. n |-> G(i)]
    OBVIOUS
  <2>2. ASSUME NEW i \in 1 .. n PROVE i - 1 \in 0 .. n /\ g[i - 1] = G(i - 1)
    <3>1. i - 1 \in 0 .. n
      OBVIOUS
    <3> HIDE DEF G
    <3> QED
      BY <2>1, <3>1
  <2>3. \A i \in 0 .. n : i = 0 \/ i \in 1 .. n
    OBVIOUS
  <2> HIDE DEF G
  <2>4. \A i \in 0 .. n : G(i) = IF i = 0 THEN m ELSE
                           [g[i - 1] EXCEPT ![d + i - 1] = Unsigned(c)]
    BY <1>1, <1>2, <2>2, <2>3
  <2>5. PICK h : h = [i \in 0 .. n |-> IF i = 0 THEN m ELSE
                           [g[i - 1] EXCEPT ![d + i - 1] = Unsigned(c)]]
    OBVIOUS
  <2>6. \A i \in 0 .. n : g[i] = h[i]
    BY <2>1, <2>4, <2>5
  <2>7. g = h
    BY <2>1, <2>5, <2>6
  <2> QED
    BY <2>5, <2>7
<1>4. PICK f : f = CHOOSE g : Eq(g)
  OBVIOUS
<1>5. Eq(f)
  <2> HIDE DEF Eq
  <2> QED
    BY <1>3, <1>4, Zenon
<1>6. f[n] = G(n)
  <2> DEFINE T == {i \in 0 .. n : f[i] # G(i)}
  <2> SUFFICES ASSUME f[n] # G(n) PROVE FALSE
    OBVIOUS
  <2>1. T \in SUBSET Nat /\ T # {}
    <3> HIDE DEF G
    <3> QED
      OBVIOUS
  <2>2. PICK i \in T : \A k \in T : i <= k
    <3> HIDE DEF T
    <3> QED
      BY <2>1, LeastOf
  <2> HIDE DEF G
  <2>3. i # 0
    BY <1>1, <1>5, <2>2
  <2>4. i \in 1 .. n /\ i - 1 \in 0 .. n /\ i - 1 \notin T
    BY <2>2, <2>3
  <2>5. f[i - 1] = G(i - 1)
    BY <2>4
  <2>6. f[i] = [f[i - 1] EXCEPT ![d + i - 1] = Unsigned(c)]
    BY <1>5, <2>3, <2>4
  <2> QED
    BY <1>2, <2>2, <2>4, <2>5, <2>6
<1>7. memset(m, d, c, n) = f[n]
  BY <1>4 DEF memset
<1>8. G(n) = Patch(m, d, n, [i \in 0 .. n - 1 |-> Unsigned(c)])
  <2>1. ASSUME NEW a \in Addr, d <= a, a < d + n PROVE [i \in 0 .. n - 1 |-> Unsigned(c)][a - d] = Unsigned(c)
    <3>1. a - d \in 0 .. n - 1
      BY <1>0, <2>1
    <3> QED
      BY <3>1
  <2> QED
    BY <2>1 DEF Patch
<1> QED
  BY <1>6, <1>7, <1>8

(* A string is where it is, and what it is. *)
LEMMA StringAt ==
  ASSUME NEW m \in [Addr -> Int], NEW s \in Addr, NEW n, Ends(m, s, n)
  PROVE  /\ n \in Nat /\ s + n <= Size - 1 /\ s \in Nat /\ Size \in Nat
         /\ Len(Text(m, s)) = n /\ Text(m, s) \in Seq(Int)
         /\ \A k \in 0 .. n - 1 : Text(m, s)[k + 1] = m[s + k] /\ m[s + k] # 0
         /\ \A i \in 1 .. n : Text(m, s)[i] = m[s + i - 1]
         /\ m[s + n] = 0
<1>1. n \in Nat /\ s + n <= Size - 1 /\ s \in Nat /\ Size \in Nat /\ m[s + n] = 0
  BY SizeAssumption DEF Ends, Addr
<1>2. /\ Text(m, s) = [i \in 1 .. n |-> m[s + i - 1]]
      /\ Text(m, s) \in Seq(Int) /\ Len(Text(m, s)) = n
  BY TextOf
<1>3. ASSUME NEW k \in 0 .. n - 1 PROVE Text(m, s)[k + 1] = m[s + k] /\ m[s + k] # 0
  <2>1. k + 1 \in 1 .. n /\ s + (k + 1) - 1 = s + k
    BY <1>1
  <2>2. PICK i \in 1 .. n : i = k + 1 /\ s + i - 1 = s + k
    BY <2>1
  <2>3. Text(m, s)[i] = m[s + k]
    BY <1>2, <2>2
  <2> QED
    BY <2>2, <2>3 DEF Ends
<1> QED
  BY <1>1, <1>2, <1>3

(* strlen() stops where the string does. *)
LEMMA StrlenIs ==
  ASSUME NEW m \in [Addr -> Int], NEW s \in Addr, NEW n, Ends(m, s, n)
  PROVE  strlen(m, s) = n
<1>0. n \in Nat /\ s + n <= Size - 1 /\ s \in Nat /\ Size \in Nat
  BY SizeAssumption DEF Ends, Addr
<1>1. PICK p : p = CHOOSE i \in s .. Size - 1 : m[i] = 0 /\ \A j \in s .. i - 1 : ~(m[j] = 0)
  OBVIOUS
<1>2. s + n \in s .. Size - 1 /\ m[s + n] = 0 /\ \A j \in s .. (s + n) - 1 : ~(m[j] = 0)
  <2>1. ASSUME NEW j \in s .. (s + n) - 1 PROVE ~(m[j] = 0)
    <3>1. PICK k \in 0 .. n - 1 : k = j - s
      BY <1>0
    <3>2. s + k = j
      BY <1>0, <3>1
    <3> QED
      BY <3>2 DEF Ends
  <2> QED
    BY <1>0, <2>1 DEF Ends
<1>3. p \in s .. Size - 1 /\ m[p] = 0 /\ \A j \in s .. p - 1 : ~(m[j] = 0)
  <2> DEFINE E(i) == i \in s .. Size - 1 /\ m[i] = 0 /\ \A j \in s .. i - 1 : ~(m[j] = 0)
  <2>1. \E i : E(i)
    <3>1. E(s + n)
      BY <1>2
    <3> HIDE DEF E
    <3> QED
      BY <3>1
  <2> QED
    BY <1>1, <2>1, Zenon
<1>4. p = s + n
  <2>1. ~(p < s + n)
    BY <1>0, <1>2, <1>3
  <2>2. ~(s + n < p)
    BY <1>0, <1>2, <1>3
  <2> QED
    BY <1>0, <1>3, <2>1, <2>2
<1>5. strlen(m, s) = p - s
  BY <1>1 DEF strlen, Walk
<1> QED
  BY <1>0, <1>4, <1>5

(* How far a string goes, n bytes at most. *)
LEMMA CountIs ==
  ASSUME NEW m \in [Addr -> Int], NEW s \in Addr, NEW l, Ends(m, s, l), NEW n \in Nat
  PROVE  Span(m, s, n) = Shorter(n, l) /\ strnlen(m, s, n) = Shorter(n, l)
<1> DEFINE Stop(i) == i = n \/ m[s + i] = 0
<1> DEFINE Z == {i \in Nat : Stop(i)}
<1>0. l \in Nat
  BY DEF Ends
<1>1. PICK i \in 0 .. n : First(Z, 0, i)
  <2>1. n \in Z
    OBVIOUS
  <2> HIDE DEF Z
  <2> QED
    BY <2>1, FirstExists
<1>2. i \in 0 .. n /\ Stop(i) /\ \A j \in 0 .. i - 1 : ~Stop(j)
  <2> HIDE DEF Stop
  <2>1. \A j \in 0 .. i - 1 : j \in Nat
    OBVIOUS
  <2> QED
    BY <1>1, <2>1 DEF First
<1>3. PICK r : r = CHOOSE k \in 0 .. n : Stop(k) /\ \A j \in 0 .. k - 1 : ~Stop(j)
  OBVIOUS
<1>4. r \in 0 .. n /\ Stop(r) /\ \A j \in 0 .. r - 1 : ~Stop(j)
  <2> HIDE DEF Stop
  <2> QED
    BY <1>2, <1>3, Zenon
<1>5. r = Shorter(n, l)
  <2>1. ~(r < Shorter(n, l))
    BY <1>0, <1>4 DEF Shorter, Ends
  <2>2. ~(Shorter(n, l) < r)
    BY <1>0, <1>4 DEF Shorter, Ends
  <2> QED
    BY <1>0, <1>4, <2>1, <2>2 DEF Shorter
<1>6. Span(m, s, n) = r
  BY <1>3 DEF Span, Rounds
<1>7. strnlen(m, s, n) = r
  <2>1. strnlen(m, s, n) = CHOOSE k \in 0 .. n : (m[s + k] = 0 \/ k = n)
                             /\ \A j \in 0 .. k - 1 : ~(m[s + j] = 0 \/ j = n)
    BY DEF strnlen, Rounds
  <2>2. PICK x : x = CHOOSE k \in 0 .. n : (m[s + k] = 0 \/ k = n)
                             /\ \A j \in 0 .. k - 1 : ~(m[s + j] = 0 \/ j = n)
    OBVIOUS
  <2>3. \E k \in 0 .. n : (m[s + k] = 0 \/ k = n) /\ \A j \in 0 .. k - 1 : ~(m[s + j] = 0 \/ j = n)
    BY <1>4
  <2>4. /\ x \in 0 .. n /\ (m[s + x] = 0 \/ x = n)
        /\ \A j \in 0 .. x - 1 : ~(m[s + j] = 0 \/ j = n)
    BY <2>2, <2>3, Zenon
  <2>5. ~(x < r) /\ ~(r < x)
    BY <1>4, <2>4
  <2> QED
    BY <1>4, <2>1, <2>2, <2>4, <2>5
<1> QED
  BY <1>5, <1>6, <1>7

(* x is m, overwritten by t at d. *)
Written(x, m, d, t) == x = [a \in Addr |-> IF a - d + 1 \in DOMAIN t THEN t[a - d + 1] ELSE m[a]]

(* A function of what is written, counted from 0, or a sequence, from 1. *)
LEMMA PatchIs ==
  ASSUME NEW m, NEW d \in Nat, NEW n \in Nat, NEW f, NEW t, DOMAIN t = 1 .. n,
         \A k \in 0 .. n - 1 : f[k] = t[k + 1]
  PROVE  Written(Patch(m, d, n, f), m, d, t)
<1>1. ASSUME NEW a \in Addr
      PROVE  (IF d <= a /\ a < d + n THEN f[a - d] ELSE m[a])
               = IF a - d + 1 \in DOMAIN t THEN t[a - d + 1] ELSE m[a]
  <2>1. a \in Int
    BY SizeAssumption DEF Addr
  <2>2. CASE d <= a /\ a < d + n
    <3>1. PICK k \in 0 .. n - 1 : k = a - d
      BY <2>1, <2>2
    <3>2. a - d + 1 \in 1 .. n /\ a - d + 1 = k + 1
      BY <2>1, <3>1
    <3> QED
      BY <2>2, <3>1, <3>2
  <2>3. CASE ~(d <= a /\ a < d + n)
    <3>1. a - d + 1 \notin 1 .. n
      BY <2>1, <2>3
    <3> QED
      BY <2>3, <3>1
  <2> QED
    BY <2>2, <2>3
<1> QED
  BY <1>1 DEF Written, Patch

-----------------------------------------------------------------------------
(* What is copied is t, and so it is written. *)
LEMMA CopyWrites ==
  ASSUME NEW m \in [Addr -> Int], NEW d \in Nat, NEW s \in Nat, NEW n \in Nat,
         d + n <= Size, s + n <= Size,
         NEW t, DOMAIN t = 1 .. n, \A k \in 0 .. n - 1 : t[k + 1] = m[s + k]
  PROVE  /\ d <= s \/ s + n <= d => Written(memcpy(m, d, s, n), m, d, t)
         /\ Written(memmove(m, d, s, n), m, d, t)
<1>1. Written(Patch(m, d, n, Range0(m, s, n)), m, d, t)
  <2>1. \A k \in 0 .. n - 1 : Range0(m, s, n)[k] = t[k + 1]
    BY DEF Range0
  <2> QED
    BY <2>1, PatchIs
<1>2. d <= s \/ s + n <= d => memcpy(m, d, s, n) = Patch(m, d, n, Range0(m, s, n))
  BY CopyIs
<1>3. memmove(m, d, s, n) = Patch(m, d, n, Range0(m, s, n))
  <2>1. CASE d < s
    <3>1. d <= s
      BY <2>1
    <3> QED
      BY <1>2, <2>1, <3>1 DEF memmove
  <2>2. CASE ~(d < s)
    BY <2>2, MoveBackIs
  <2> QED
    BY <2>1, <2>2
<1> QED
  BY <1>1, <1>2, <1>3

(* What is filled is t, and so it is written. *)
LEMMA FillWrites ==
  ASSUME NEW m \in [Addr -> Int], NEW s \in Nat, NEW c \in Int, NEW n \in Nat, s + n <= Size,
         NEW t, DOMAIN t = 1 .. n, \A k \in 0 .. n - 1 : t[k + 1] = Unsigned(c)
  PROVE  Written(memset(m, s, c, n), m, s, t)
<1>1. PICK f : f = [k \in 0 .. n - 1 |-> Unsigned(c)]
  OBVIOUS
<1>2. \A k \in 0 .. n - 1 : f[k] = t[k + 1]
  BY <1>1
<1>3. Written(Patch(m, s, n, f), m, s, t)
  BY <1>2, PatchIs
<1> QED
  BY <1>1, <1>3, FillIs

(* Bytes over bytes are bytes. *)
LEMMA WrittenStays ==
  ASSUME NEW m \in [Addr -> Int], NEW d, NEW t \in Seq(Int), NEW x, Written(x, m, d, t)
  PROVE  x \in [Addr -> Int]
<1>1. \A i \in DOMAIN t : t[i] \in Int
  OBVIOUS
<1> QED
  BY <1>1 DEF Written

(* Two sequences, one behind the other. *)
LEMMA Behind ==
  ASSUME NEW u \in Seq(Int), NEW v \in Seq(Int)
  PROVE  /\ u \o v \in Seq(Int) /\ Len(u \o v) = Len(u) + Len(v)
         /\ Len(u) \in Nat /\ Len(v) \in Nat /\ DOMAIN (u \o v) = 1 .. Len(u) + Len(v)
         /\ \A i \in 1 .. Len(u) + Len(v) :
               (u \o v)[i] = IF i <= Len(u) THEN u[i] ELSE v[i - Len(u)]
BY ConcatProperties, LenProperties

(* First the one, and then the other behind it. *)
LEMMA WrittenBehind ==
  ASSUME NEW m, NEW d \in Nat, NEW u \in Seq(Int), NEW v \in Seq(Int), NEW x, NEW y,
         Written(x, m, d, u), Written(y, x, d + Len(u), v)
  PROVE  Written(y, m, d, u \o v)
<1>1. PICK n \in Nat, k \in Nat : n = Len(u) /\ k = Len(v)
  BY LenProperties
<1>2. PICK t : t = u \o v
  OBVIOUS
<1>3. /\ DOMAIN t = 1 .. n + k /\ DOMAIN u = 1 .. n /\ DOMAIN v = 1 .. k
      /\ \A i \in 1 .. n + k : t[i] = IF i <= n THEN u[i] ELSE v[i - n]
  <2>1. DOMAIN u = 1 .. n /\ DOMAIN v = 1 .. k
    BY <1>1, LenProperties
  <2> QED
    BY <1>1, <1>2, <2>1, Behind
<1>4. ASSUME NEW a \in Addr
      PROVE  y[a] = IF a - d + 1 \in DOMAIN t THEN t[a - d + 1] ELSE m[a]
  <2>1. PICK i \in Int : i = a - d + 1 /\ a - (d + n) + 1 = i - n
    BY SizeAssumption DEF Addr
  <2>2. x[a] = IF i \in 1 .. n THEN u[i] ELSE m[a]
    BY <1>3, <2>1 DEF Written
  <2>3. y[a] = IF i - n \in 1 .. k THEN v[i - n] ELSE x[a]
    BY <1>1, <1>3, <2>1 DEF Written
  <2>4. i \in 1 .. n + k <=> i \in 1 .. n \/ i - n \in 1 .. k
    OBVIOUS
  <2>5. i \in 1 .. n => i - n \notin 1 .. k /\ i <= n
    OBVIOUS
  <2>6. i - n \in 1 .. k => ~(i <= n)
    OBVIOUS
  <2> QED
    BY <1>3, <2>1, <2>2, <2>3, <2>4, <2>5, <2>6
<1>5. y = [a \in Addr |-> y[a]]
  BY DEF Written
<1> QED
  BY <1>2, <1>4, <1>5 DEF Written

(* What is there already. *)
LEMMA WrittenAlready ==
  ASSUME NEW m \in [Addr -> Int], NEW d \in Addr, NEW n, Ends(m, d, n)
  PROVE  Written(m, m, d, Text(m, d))
<1>1. /\ n \in Nat /\ d \in Nat /\ Len(Text(m, d)) = n /\ Text(m, d) \in Seq(Int)
      /\ \A k \in 0 .. n - 1 : Text(m, d)[k + 1] = m[d + k]
  BY StringAt
<1>2. PICK u : u = Text(m, d)
  OBVIOUS
<1>3. DOMAIN u = 1 .. n
  BY <1>1, <1>2, LenProperties
<1>4. ASSUME NEW a \in Addr PROVE m[a] = IF a - d + 1 \in DOMAIN u THEN u[a - d + 1] ELSE m[a]
  <2>1. a \in Int
    BY SizeAssumption DEF Addr
  <2>2. CASE a - d + 1 \in 1 .. n
    <3>1. PICK k \in 0 .. n - 1 : k = a - d
      BY <1>1, <2>1, <2>2
    <3>2. d + k = a /\ a - d + 1 = k + 1
      BY <1>1, <2>1, <3>1
    <3>3. u[k + 1] = m[d + k]
      BY <1>1, <1>2
    <3> QED
      BY <3>2, <3>3
  <2>3. CASE a - d + 1 \notin 1 .. n
    BY <1>3, <2>3
  <2> QED
    BY <2>2, <2>3
<1>5. m = [a \in Addr |-> m[a]]
  OBVIOUS
<1> QED
  BY <1>2, <1>4, <1>5 DEF Written

(* The first n of a sequence, or all of it. *)
LEMMA TruncatedIs ==
  ASSUME NEW t \in Seq(Int), NEW n \in Nat
  PROVE  \E k \in Nat : /\ k = Shorter(Len(t), n) /\ k <= Len(t) /\ k <= n
                        /\ Truncated(t, n) \in Seq(Int) /\ Len(Truncated(t, n)) = k
                        /\ DOMAIN Truncated(t, n) = 1 .. k
                        /\ \A i \in 1 .. k : Truncated(t, n)[i] = t[i]
<1>1. PICK l \in Nat : l = Len(t)
  BY LenProperties
<1>2. PICK k \in Nat : k = Shorter(l, n)
  BY DEF Shorter
<1>3. k <= l /\ k <= n
  BY <1>2 DEF Shorter
<1>4. \A i \in 1 .. k : t[i] \in Int
  BY <1>1, <1>3, ElementOfSeq
<1>5. SubSeq(t, 1, k) = [i \in 1 .. k |-> t[i]]
  BY <1>1, <1>3, SubSeqProperties
<1>6. Truncated(t, n) = SubSeq(t, 1, k)
  BY <1>1, <1>2 DEF Truncated
<1>7. [i \in 1 .. k |-> t[i]] \in Seq(Int) /\ Len([i \in 1 .. k |-> t[i]]) = k
  BY <1>4
<1> QED
  BY <1>1, <1>2, <1>3, <1>5, <1>6, <1>7

(* A string that is not longer is not cut. *)
LEMMA NotTruncated ==
  ASSUME NEW t \in Seq(Int), NEW n \in Nat, Len(t) <= n
  PROVE  Truncated(t, n) = t
<1>1. PICK k \in Nat : /\ k = Shorter(Len(t), n)
                       /\ Truncated(t, n) \in Seq(Int) /\ Len(Truncated(t, n)) = k
                       /\ \A i \in 1 .. k : Truncated(t, n)[i] = t[i]
  BY TruncatedIs
<1>2. k = Len(t)
  BY <1>1, LenProperties DEF Shorter
<1> QED
  BY <1>1, <1>2, SeqEqual

(* The end of a string. *)
LEMMA OneZero == <<0>> \in Seq(Int) /\ Len(<<0>>) = 1 /\ <<0>>[1] = 0 /\ DOMAIN <<0>> = 1 .. 1
<1>1. <<0>> \in Seq(Int) /\ Len(<<0>>) = 1 /\ <<0>>[1] = 0
  OBVIOUS
<1> QED
  BY <1>1, LenProperties

(* A string that is copied with its end. *)
LEMMA StringCopied ==
  ASSUME NEW m \in [Addr -> Int], NEW e \in Nat, NEW s \in Addr, NEW n, Ends(m, s, n),
         e + n + 1 <= Size, e <= s \/ s + n + 1 <= e
  PROVE  Written(memcpy(m, e, s, n + 1), m, e, Text(m, s) \o <<0>>)
<1>1. /\ n \in Nat /\ s + n <= Size - 1 /\ s \in Nat /\ Size \in Nat
      /\ Len(Text(m, s)) = n /\ Text(m, s) \in Seq(Int) /\ m[s + n] = 0
      /\ \A k \in 0 .. n - 1 : Text(m, s)[k + 1] = m[s + k]
  BY StringAt
<1>2. PICK u \in Seq(Int) : u = Text(m, s) /\ Len(u) = n
  BY <1>1
<1>3. PICK t : t = u \o <<0>>
  OBVIOUS
<1>4. PICK k \in Nat : k = n + 1
  BY <1>1
<1>5. DOMAIN t = 1 .. k /\ \A i \in 1 .. k : t[i] = IF i <= n THEN u[i] ELSE <<0>>[i - n]
  BY <1>2, <1>3, <1>4, OneZero, Behind
<1>6. ASSUME NEW j \in 0 .. k - 1 PROVE t[j + 1] = m[s + j]
  <2>1. PICK i \in 1 .. k : i = j + 1
    BY <1>4
  <2>2. CASE j = n
    <3>1. ~(i <= n) /\ i - n = 1
      BY <1>1, <2>1, <2>2
    <3>2. t[i] = <<0>>[1]
      BY <1>5, <3>1
    <3>3. t[i] = 0
      BY <3>2, OneZero
    <3> QED
      BY <1>1, <2>1, <2>2, <3>3
  <2>3. CASE j # n
    <3>1. i <= n /\ j \in 0 .. n - 1
      BY <1>1, <1>4, <2>1, <2>3
    <3>2. t[i] = u[i] /\ Text(m, s)[j + 1] = m[s + j]
      BY <1>1, <1>5, <3>1
    <3> QED
      BY <1>2, <2>1, <3>2
  <2> QED
    BY <2>2, <2>3
<1>7. e + k <= Size /\ s + k <= Size /\ (e <= s \/ s + k <= e)
  BY <1>1, <1>4
<1>8. Written(memcpy(m, e, s, k), m, e, t)
  BY <1>1, <1>5, <1>6, <1>7, CopyWrites
<1> QED
  BY <1>2, <1>3, <1>4, <1>8

(* A string that is copied in part. *)
LEMMA PartCopied ==
  ASSUME NEW m \in [Addr -> Int], NEW e \in Nat, NEW s \in Addr, NEW l, Ends(m, s, l),
         NEW n \in Nat, n <= l, e + n <= Size, e <= s \/ s + n <= e
  PROVE  Written(memcpy(m, e, s, n), m, e, Truncated(Text(m, s), n))
<1>1. /\ l \in Nat /\ s + l <= Size - 1 /\ s \in Nat /\ Size \in Nat
      /\ Len(Text(m, s)) = l /\ Text(m, s) \in Seq(Int)
      /\ \A k \in 0 .. l - 1 : Text(m, s)[k + 1] = m[s + k]
  BY StringAt
<1>2. PICK t : t = Truncated(Text(m, s), n)
  OBVIOUS
<1>3. DOMAIN t = 1 .. n /\ \A i \in 1 .. n : t[i] = Text(m, s)[i]
  <2>0. PICK u \in Seq(Int) : u = Text(m, s)
    BY <1>1
  <2>1. PICK k \in Nat : /\ k = Shorter(Len(u), n)
                         /\ DOMAIN Truncated(u, n) = 1 .. k
                         /\ \A i \in 1 .. k : Truncated(u, n)[i] = u[i]
    BY TruncatedIs
  <2>2. k = n
    BY <1>1, <2>0, <2>1 DEF Shorter
  <2> QED
    BY <1>2, <2>0, <2>1, <2>2
<1>4. ASSUME NEW k \in 0 .. n - 1 PROVE t[k + 1] = m[s + k]
  <2>1. k + 1 \in 1 .. n /\ k \in 0 .. l - 1
    BY <1>1
  <2> QED
    BY <1>1, <1>3, <2>1
<1>5. s + n <= Size
  BY <1>1
<1>6. Written(memcpy(m, e, s, n), m, e, t)
  BY <1>1, <1>3, <1>4, <1>5, CopyWrites
<1> QED
  BY <1>2, <1>6

(* strcpy(): all of the string and its end. *)
LEMMA StrcpyWrites ==
  ASSUME NEW m \in [Addr -> Int], NEW e \in Nat, NEW s \in Addr, NEW n, Ends(m, s, n),
         e + n + 1 <= Size, e <= s \/ s + n + 1 <= e
  PROVE  Written(strcpy(m, e, s), m, e, Text(m, s) \o <<0>>)
<1>1. strlen(m, s) = n
  BY StrlenIs
<1> QED
  BY <1>1, StringCopied DEF strcpy

(* strcat(): the same, behind the string that is there. *)
LEMMA StrcatWrites ==
  ASSUME NEW m \in [Addr -> Int], NEW d \in Addr, NEW l, Ends(m, d, l),
         NEW s \in Addr, NEW n, Ends(m, s, n),
         d + (l + n + 1) <= Size, d + (l + n + 1) <= s \/ s + (n + 1) <= d
  PROVE  Written(strcat(m, d, s), m, d, Text(m, d) \o Text(m, s) \o <<0>>)
<1>1. /\ l \in Nat /\ d \in Nat /\ Len(Text(m, d)) = l /\ Text(m, d) \in Seq(Int)
  BY StringAt
<1>2. /\ n \in Nat /\ s \in Nat /\ Text(m, s) \in Seq(Int)
  BY StringAt
<1>3. PICK e \in Nat : e = d + l
  BY <1>1
<1>4. e + n + 1 <= Size /\ (e <= s \/ s + n + 1 <= e)
  BY <1>1, <1>2, <1>3, SizeAssumption
<1>5. Written(strcpy(m, e, s), m, e, Text(m, s) \o <<0>>)
  BY <1>4, StrcpyWrites
<1>6. strcat(m, d, s) = strcpy(m, e, s)
  BY <1>3, StrlenIs DEF strcat
<1>7. Text(m, s) \o <<0>> \in Seq(Int)
  BY <1>2, OneZero, Behind
<1>8. Written(strcat(m, d, s), m, d, Text(m, d) \o (Text(m, s) \o <<0>>))
  BY <1>1, <1>3, <1>5, <1>6, <1>7, WrittenAlready, WrittenBehind
<1>9. \A x, y, z \in Seq(Int) : (x \o y) \o z = x \o (y \o z)
  BY ConcatAssociative
<1> QED
  BY <1>1, <1>2, <1>8, <1>9, OneZero
(* What is behind the string in strncpy(): one 0 more than there is room for. *)
LEMMA ZerosBehind ==
  ASSUME NEW t \in Seq(Int), NEW n \in Nat
  PROVE  (t \o <<0>>) \o Zeros(n) = t \o Zeros(n + 1) /\ Zeros(n) \in Seq(Int)
<1>1. ASSUME NEW k \in Nat
      PROVE  Zeros(k) \in Seq(Int) /\ Len(Zeros(k)) = k /\ \A i \in 1 .. k : Zeros(k)[i] = 0
  BY DEF Zeros
<1>2. PICK k \in Nat : k = n + 1
  OBVIOUS
<1>3. /\ <<0>> \o Zeros(n) \in Seq(Int) /\ Len(<<0>> \o Zeros(n)) = 1 + n
      /\ \A i \in 1 .. 1 + n : (<<0>> \o Zeros(n))[i] = IF i <= 1 THEN <<0>>[i] ELSE Zeros(n)[i - 1]
  BY <1>1, OneZero, Behind
<1>4. \A i \in 1 .. 1 + n : (<<0>> \o Zeros(n))[i] = 0
  BY <1>1, <1>3, OneZero
<1>5. <<0>> \o Zeros(n) = Zeros(k)
  <2>1. PICK v : v = <<0>> \o Zeros(n)
    OBVIOUS
  <2>2. v \in Seq(Int) /\ Len(v) = k /\ \A i \in 1 .. k : v[i] = 0
    <3>1. 1 + n = k
      BY <1>2
    <3> QED
      BY <1>3, <1>4, <2>1, <3>1
  <2>3. PICK w : w = Zeros(k)
    OBVIOUS
  <2>4. w \in Seq(Int) /\ Len(w) = k /\ \A i \in 1 .. k : w[i] = 0
    BY <1>1, <2>3
  <2>5. v = w
    BY <2>2, <2>4, SeqEqual
  <2> QED
    BY <2>1, <2>3, <2>5
<1>6. \A x, y, z \in Seq(Int) : (x \o y) \o z = x \o (y \o z)
  BY ConcatAssociative
<1>7. Zeros(n) \in Seq(Int)
  BY <1>1
<1>8. (t \o <<0>>) \o Zeros(n) = t \o (<<0>> \o Zeros(n))
  BY <1>6, <1>7, OneZero
<1> QED
  BY <1>2, <1>5, <1>7, <1>8

(* strncpy(): what fits, and zeros when there is room for more. *)
LEMMA StrncpyWrites ==
  ASSUME NEW m \in [Addr -> Int], NEW d \in Nat, NEW s \in Addr, NEW l, Ends(m, s, l),
         NEW n \in Nat, d + (n + 1) <= Size, d + (n + 1) <= s \/ s + (l + 1) <= d
  PROVE  Written(strncpy(m, d, s, n), m, d, Truncated(Text(m, s), n) \o
           (IF Len(Text(m, s)) < n THEN Zeros(n - Len(Text(m, s)) + 1) ELSE <<>>))
<1>1. /\ l \in Nat /\ s + l <= Size - 1 /\ s \in Nat /\ Size \in Nat
      /\ Len(Text(m, s)) = l /\ Text(m, s) \in Seq(Int)
  BY StringAt
<1>2. Span(m, s, n) = Shorter(n, l)
  BY CountIs
<1>3. CASE n <= l
  <2>1. Span(m, s, n) = n
    BY <1>1, <1>2, <1>3 DEF Shorter
  <2>2. strncpy(m, d, s, n) = memcpy(m, d, s, n)
    BY <2>1 DEF strncpy
  <2>3. d + n <= Size /\ (d <= s \/ s + n <= d)
    BY <1>1, <1>3
  <2>4. Written(memcpy(m, d, s, n), m, d, Truncated(Text(m, s), n))
    BY <1>3, <2>3, PartCopied
  <2>5. Truncated(Text(m, s), n) \in Seq(Int)
    BY <1>1, TruncatedIs
  <2>6. Truncated(Text(m, s), n) \o <<>> = Truncated(Text(m, s), n)
    BY <2>5, ConcatEmptySeq
  <2>7. ~(Len(Text(m, s)) < n)
    BY <1>1, <1>3
  <2> QED
    BY <2>2, <2>4, <2>6, <2>7
<1>4. CASE l < n
  <2>1. Span(m, s, n) = l /\ l # n
    BY <1>1, <1>2, <1>4 DEF Shorter
  <2>2. PICK k \in Nat : k = n - l
    BY <1>1, <1>4
  <2>3. PICK e \in Nat : e = d + l + 1
    BY <1>1
  <2>4. PICK x : x = memcpy(m, d, s, l + 1)
    OBVIOUS
  <2>5. strncpy(m, d, s, n) = memset(x, e, 0, k)
    BY <2>1, <2>2, <2>3, <2>4 DEF strncpy
  <2>6. PICK u \in Seq(Int) : u = Text(m, s) \o <<0>> /\ Len(u) = l + 1
    BY <1>1, OneZero, Behind
  <2>7. Written(x, m, d, u)
    <3>1. d + l + 1 <= Size /\ (d <= s \/ s + l + 1 <= d)
      BY <1>1, <1>4
    <3> QED
      BY <2>4, <2>6, <3>1, StringCopied
  <2>8. x \in [Addr -> Int]
    BY <2>7, WrittenStays
  <2>9. e + k <= Size
    BY <1>1, <2>2, <2>3
  <2>10. PICK z : z = Zeros(k)
    OBVIOUS
  <2>11. z \in Seq(Int) /\ DOMAIN z = 1 .. k /\ \A j \in 0 .. k - 1 : z[j + 1] = 0
    BY <2>10 DEF Zeros
  <2>12. Written(memset(x, e, 0, k), x, e, z)
    <3>1. PICK c \in Int : c = 0
      OBVIOUS
    <3>2. \A j \in 0 .. k - 1 : z[j + 1] = Unsigned(c)
      BY <2>11, <3>1, ZeroIsZero
    <3>3. Written(memset(x, e, c, k), x, e, z)
      BY <2>8, <2>9, <2>11, <3>2, FillWrites
    <3> QED
      BY <3>1, <3>3
  <2>13. e = d + Len(u)
    <3>1. e = d + (l + 1)
      BY <1>1, <2>3
    <3> QED
      BY <2>6, <3>1
  <2>14. Written(memset(x, e, 0, k), m, d, u \o z)
    BY <2>7, <2>11, <2>12, <2>13, WrittenBehind
  <2>15. u \o z = Text(m, s) \o Zeros(k + 1)
    BY <1>1, <2>6, <2>10, ZerosBehind
  <2>16. Truncated(Text(m, s), n) = Text(m, s)
    BY <1>1, <1>4, NotTruncated
  <2>17. Len(Text(m, s)) < n /\ n - Len(Text(m, s)) + 1 = k + 1
    BY <1>1, <1>4, <2>2
  <2> QED
    BY <2>5, <2>14, <2>15, <2>16, <2>17
<1> QED
  BY <1>1, <1>3, <1>4

(* strncat(): what fits, and always an end. *)
LEMMA StrncatWrites ==
  ASSUME NEW m \in [Addr -> Int], NEW d \in Addr, NEW k, Ends(m, d, k),
         NEW s \in Addr, NEW l, Ends(m, s, l), NEW n \in Nat,
         d + (k + l + 1) <= Size, d + (k + l + 1) <= s \/ s + (l + 1) <= d
  PROVE  Written(strncat(m, d, s, n), m, d, Text(m, d) \o Truncated(Text(m, s), n) \o <<0>>)
<1>1. /\ k \in Nat /\ d \in Nat /\ Len(Text(m, d)) = k /\ Text(m, d) \in Seq(Int)
  BY StringAt
<1>2. /\ l \in Nat /\ s \in Nat /\ s + l <= Size - 1 /\ Size \in Nat
      /\ Len(Text(m, s)) = l /\ Text(m, s) \in Seq(Int)
  BY StringAt
<1>3. Span(m, s, n) = Shorter(n, l)
  BY CountIs
<1>4. PICK e \in Nat : e = d + k
  BY <1>1
<1>5. d + strlen(m, d) = e
  BY <1>4, StrlenIs
<1>6. PICK t \in Seq(Int) : t = Truncated(Text(m, s), n)
  BY <1>2, TruncatedIs
<1>7. Written(strncat(m, d, s, n), m, e, t \o <<0>>)
  <2>1. CASE n <= l
    <3>1. Span(m, s, n) = n
      BY <1>2, <1>3, <2>1 DEF Shorter
    <3>2. PICK x : x = memcpy(m, e, s, n)
      OBVIOUS
    <3>3. PICK p \in Addr : p = e + n
      BY <1>1, <1>2, <1>4, <2>1 DEF Addr
    <3>4. strncat(m, d, s, n) = [x EXCEPT ![p] = 0]
      BY <1>5, <3>1, <3>2, <3>3 DEF strncat
    <3>5. e + n <= Size /\ (e <= s \/ s + n <= e)
      BY <1>1, <1>2, <1>4, <2>1
    <3>6. Written(x, m, e, t)
      BY <1>6, <2>1, <3>2, <3>5, PartCopied
    <3>7. Len(t) = n
      <4>1. PICK j \in Nat : j = Shorter(Len(Text(m, s)), n) /\ Len(Truncated(Text(m, s), n)) = j
        BY <1>2, TruncatedIs
      <4> QED
        BY <1>2, <1>6, <2>1, <4>1 DEF Shorter
    <3>8. x \in [Addr -> Int]
      BY <3>6, WrittenStays
    <3>9. Written([x EXCEPT ![p] = 0], x, p, <<0>>)
      <4>1. ASSUME NEW a \in Addr PROVE a - p + 1 \in DOMAIN <<0>> <=> a = p
        BY OneZero, SizeAssumption DEF Addr
      <4>2. ASSUME NEW a \in Addr, a = p PROVE <<0>>[a - p + 1] = 0
        <5>1. a - p + 1 = 1
          BY <4>2, SizeAssumption DEF Addr
        <5> QED
          BY <5>1, OneZero
      <4>3. ASSUME NEW a \in Addr
            PROVE  [x EXCEPT ![p] = 0][a]
                     = IF a - p + 1 \in DOMAIN <<0>> THEN <<0>>[a - p + 1] ELSE x[a]
        BY <3>8, <4>1, <4>2
      <4>4. PICK y : y = [x EXCEPT ![p] = 0]
        OBVIOUS
      <4>5. y = [a \in Addr |-> y[a]]
        BY <3>8, <4>4
      <4> QED
        BY <4>3, <4>4, <4>5 DEF Written
    <3> QED
      BY <1>6, <3>3, <3>4, <3>6, <3>7, <3>9, OneZero, WrittenBehind
  <2>2. CASE l < n
    <3>1. Span(m, s, n) = l /\ l # n
      BY <1>2, <1>3, <2>2 DEF Shorter
    <3>2. strncat(m, d, s, n) = memcpy(m, e, s, l + 1)
      BY <1>5, <3>1 DEF strncat
    <3>3. e + l + 1 <= Size /\ (e <= s \/ s + l + 1 <= e)
      BY <1>1, <1>2, <1>4
    <3>4. Truncated(Text(m, s), n) = Text(m, s)
      BY <1>2, <2>2, NotTruncated
    <3> QED
      BY <1>6, <3>2, <3>3, <3>4, StringCopied
  <2> QED
    BY <1>2, <2>1, <2>2
<1>8. t \o <<0>> \in Seq(Int)
  BY OneZero, Behind
<1>9. Written(strncat(m, d, s, n), m, d, Text(m, d) \o (t \o <<0>>))
  BY <1>1, <1>4, <1>7, <1>8, WrittenAlready, WrittenBehind
<1>10. \A x, y, z \in Seq(Int) : (x \o y) \o z = x \o (y \o z)
  BY ConcatAssociative
<1> QED
  BY <1>1, <1>6, <1>9, <1>10, OneZero

-----------------------------------------------------------------------------
(* The functions that only read. *)

(* The least and the greatest are what the reference chooses. *)
LEMMA FirstOfIs ==
  ASSUME NEW S \in SUBSET Int, NEW p \in S, \A q \in S : p <= q
  PROVE  FirstOf(S) = p
<1>1. PICK x : x = CHOOSE y \in S : \A q \in S : y <= q
  OBVIOUS
<1>2. x \in S /\ \A q \in S : x <= q
  BY <1>1, Zenon
<1>3. x = p
  BY <1>2
<1>4. S # {}
  OBVIOUS
<1> QED
  BY <1>1, <1>3, <1>4 DEF FirstOf

(* The same from the other end. *)
LEMMA LastOfIs ==
  ASSUME NEW S \in SUBSET Int, NEW p \in S, \A q \in S : p >= q
  PROVE  LastOf(S) = p
<1>1. PICK x : x = CHOOSE y \in S : \A q \in S : y >= q
  OBVIOUS
<1>2. x \in S /\ \A q \in S : x >= q
  BY <1>1, Zenon
<1>3. x = p
  BY <1>2
<1>4. S # {}
  OBVIOUS
<1> QED
  BY <1>1, <1>3, <1>4 DEF LastOf

(* memchr(): the first round that meets c, of n. *)
LEMMA MemchrIs ==
  ASSUME NEW m \in [Addr -> Int], NEW s \in Nat, NEW c \in Int, NEW n \in Nat, s + n <= Size
  PROVE  memchr(m, s, c, n) = FirstOf({p \in s .. s + n - 1 : m[p] = c})
<1> DEFINE Stop(i) == i = n \/ m[s + i] = c
<1> DEFINE Z == {i \in Nat : Stop(i)}
<1>1. PICK j \in 0 .. n : First(Z, 0, j)
  <2>1. n \in Z
    OBVIOUS
  <2> HIDE DEF Z
  <2> QED
    BY <2>1, FirstExists
<1>2. j \in 0 .. n /\ Stop(j) /\ \A k \in 0 .. j - 1 : ~Stop(k)
  <2> HIDE DEF Stop
  <2>1. \A k \in 0 .. j - 1 : k \in Nat
    OBVIOUS
  <2> QED
    BY <1>1, <2>1 DEF First
<1>3. PICK i : i = CHOOSE k \in 0 .. n : Stop(k) /\ \A h \in 0 .. k - 1 : ~Stop(h)
  OBVIOUS
<1>4. i \in 0 .. n /\ Stop(i) /\ \A k \in 0 .. i - 1 : ~Stop(k)
  <2> HIDE DEF Stop
  <2> QED
    BY <1>2, <1>3, Zenon
<1>5. memchr(m, s, c, n) = IF i = n THEN nullptr ELSE s + i
  BY <1>3 DEF memchr, Rounds
<1> DEFINE S == {p \in s .. s + n - 1 : m[p] = c}
<1>6. ASSUME NEW p \in S PROVE p - s \in 0 .. n - 1 /\ s + i <= p
  <2>1. PICK k \in 0 .. n - 1 : k = p - s
    OBVIOUS
  <2>2. s + k = p /\ k # n
    BY <2>1
  <2>3. Stop(k)
    BY <2>2
  <2>4. ~(k < i)
    BY <1>4, <2>3
  <2> QED
    BY <1>4, <2>1, <2>2, <2>4
<1>7. CASE i = n
  <2>1. S = {}
    BY <1>6, <1>7
  <2> QED
    BY <1>5, <1>7, <2>1 DEF FirstOf
<1>8. CASE i # n
  <2>1. s + i \in S
    BY <1>4, <1>8
  <2>2. \A q \in S : s + i <= q
    BY <1>6
  <2>3. S \in SUBSET Int
    OBVIOUS
  <2>4. FirstOf(S) = s + i
    <3> HIDE DEF S
    <3> QED
      BY <2>1, <2>2, <2>3, FirstOfIs
  <2> QED
    BY <1>5, <1>8, <2>4
<1> QED
  BY <1>7, <1>8

(* strchr(): the 0 is found, too, when it is asked for. *)
LEMMA StrchrIs ==
  ASSUME NEW m \in [Addr -> Int], NEW s \in Addr, NEW l, Ends(m, s, l), NEW c \in Int
  PROVE  strchr(m, s, c) = FirstOf({p \in s .. s + l : Signed(m[p]) = c})
<1> DEFINE Stop(x) == x = 0 \/ Signed(x) = c
<1> DEFINE Z == {i \in Addr : Stop(m[i])}
<1>0. /\ l \in Nat /\ s + l <= Size - 1 /\ s \in Nat /\ Size \in Nat /\ m[s + l] = 0
      /\ \A k \in 0 .. l - 1 : m[s + k] # 0
  BY StringAt
<1>1. PICK i \in s .. s + l : First(Z, s, i)
  <2>1. s + l \in Z /\ s + l \in Nat /\ s <= s + l
    BY <1>0 DEF Addr
  <2> HIDE DEF Z
  <2> QED
    BY <1>0, <2>1, FirstExists
<1>2. i \in s .. Size - 1 /\ Stop(m[i]) /\ \A j \in s .. i - 1 : ~Stop(m[j])
  <2> HIDE DEF Stop
  <2>1. i \in s .. Size - 1 /\ Stop(m[i])
    BY <1>0, <1>1 DEF First
  <2>2. ASSUME NEW j \in s .. i - 1 PROVE ~Stop(m[j])
    <3>1. j \in Addr
      BY <1>0, <2>1 DEF Addr
    <3> QED
      BY <1>1, <3>1 DEF First
  <2> QED
    BY <2>1, <2>2
<1>3. PICK r : r = CHOOSE k \in s .. Size - 1 : Stop(m[k]) /\ \A j \in s .. k - 1 : ~Stop(m[j])
  OBVIOUS
<1>4. r \in s .. Size - 1 /\ Stop(m[r]) /\ \A j \in s .. r - 1 : ~Stop(m[j])
  <2> HIDE DEF Stop
  <2> QED
    BY <1>2, <1>3, Zenon
<1>5. strchr(m, s, c) = IF m[r] # 0 \/ c = 0 THEN r ELSE nullptr
  BY <1>3 DEF strchr, Walk
<1> DEFINE S == {p \in s .. s + l : Signed(m[p]) = c}
<1>6. r <= s + l
  BY <1>0, <1>4
<1>7. \A q \in S : r <= q
  BY <1>0, <1>4
<1>8. S \in SUBSET Int
  BY <1>0
<1>9. CASE Signed(m[r]) = c
  <2>1. r \in S
    BY <1>0, <1>4, <1>6, <1>9
  <2>2. FirstOf(S) = r
    <3> HIDE DEF S
    <3> QED
      BY <1>7, <1>8, <2>1, FirstOfIs
  <2> QED
    BY <1>5, <1>9, <2>2, ZeroIsZero
<1>10. CASE Signed(m[r]) # c
  <2>1. m[r] = 0 /\ c # 0
    BY <1>4, <1>10, ZeroIsZero
  <2>2. r = s + l
    <3> SUFFICES ASSUME r < s + l PROVE FALSE
      BY <1>0, <1>4, <1>6
    <3>1. PICK k \in 0 .. l - 1 : k = r - s
      BY <1>0, <1>4
    <3>2. s + k = r
      BY <1>0, <1>4, <3>1
    <3> QED
      BY <1>0, <2>1, <3>2
  <2>3. S = {}
    <3> SUFFICES ASSUME NEW q \in S PROVE FALSE
      OBVIOUS
    <3>1. q = r
      BY <1>0, <1>4, <1>7, <2>2
    <3> QED
      BY <1>10, <3>1
  <2> QED
    BY <1>5, <2>1, <2>3 DEF FirstOf
<1> QED
  BY <1>9, <1>10

(* strrchr(): the last one up to each place is found, down to the end. *)
LEMMA StrrchrIs ==
  ASSUME NEW m \in [Addr -> Int], NEW s \in Addr, NEW l, Ends(m, s, l), NEW c \in Int
  PROVE  strrchr(m, s, c) = LastOf({p \in s .. s + l : Signed(m[p]) = c})
<1>0. /\ l \in Nat /\ s + l <= Size - 1 /\ s \in Nat /\ Size \in Nat
  BY StringAt
<1>1. PICK e \in Nat : e = s + l
  BY <1>0
<1> DEFINE In(p) == {q \in s .. p : Signed(m[q]) = c}
<1> DEFINE Eq(g) == g = [p \in s .. e |-> IF Signed(m[p]) = c THEN p ELSE
                                            IF p = s THEN nullptr ELSE g[p - 1]]
<1> DEFINE H(p) == LastOf(In(p))
<1>2. ASSUME NEW p \in s .. e
      PROVE  H(p) = IF Signed(m[p]) = c THEN p ELSE IF p = s THEN nullptr ELSE H(p - 1)
  <2>1. CASE Signed(m[p]) = c
    <3>1. p \in In(p) /\ (\A q \in In(p) : p >= q) /\ In(p) \in SUBSET Int
      BY <1>0, <1>1, <2>1
    <3> HIDE DEF In
    <3> QED
      BY <2>1, <3>1, LastOfIs
  <2>2. CASE Signed(m[p]) # c /\ p = s
    <3>1. In(p) = {}
      BY <1>0, <2>2
    <3> QED
      BY <2>2, <3>1 DEF LastOf
  <2>3. CASE Signed(m[p]) # c /\ p # s
    <3>1. In(p) = In(p - 1)
      BY <1>0, <1>1, <2>3
    <3> QED
      BY <2>3, <3>1
  <2> QED
    BY <2>1, <2>2, <2>3
<1>3. \E g : Eq(g)
  <2>1. PICK g : g = [p \in s .. e |-> H(p)]
    OBVIOUS
  <2> HIDE DEF H
  <2>2. ASSUME NEW p \in s .. e, p # s PROVE g[p - 1] = H(p - 1)
    <3>1. p - 1 \in s .. e
      BY <1>0, <1>1, <2>2
    <3> QED
      BY <2>1, <3>1
  <2>3. PICK h : h = [p \in s .. e |-> IF Signed(m[p]) = c THEN p ELSE
                                         IF p = s THEN nullptr ELSE g[p - 1]]
    OBVIOUS
  <2>4. \A p \in s .. e : g[p] = h[p]
    BY <1>2, <2>1, <2>2, <2>3
  <2>5. g = h
    BY <2>1, <2>3, <2>4
  <2> QED
    BY <2>3, <2>5
<1>4. PICK f : f = CHOOSE g : Eq(g)
  OBVIOUS
<1>5. Eq(f)
  <2> HIDE DEF Eq
  <2> QED
    BY <1>3, <1>4, Zenon
<1>6. f[e] = H(e)
  <2> HIDE DEF H
  <2> DEFINE T == {p \in s .. e : f[p] # H(p)}
  <2> SUFFICES ASSUME f[e] # H(e) PROVE FALSE
    OBVIOUS
  <2>1. T \in SUBSET Nat /\ T # {}
    BY <1>0, <1>1
  <2>2. PICK p \in T : \A k \in T : p <= k
    <3> HIDE DEF T
    <3> QED
      BY <2>1, LeastOf
  <2>3. f[p] = IF Signed(m[p]) = c THEN p ELSE IF p = s THEN nullptr ELSE f[p - 1]
    BY <1>5, <2>2
  <2>4. p = s \/ f[p - 1] = H(p - 1)
    <3>1. p # s => p - 1 \in s .. e /\ p - 1 < p
      BY <1>0, <1>1, <2>2
    <3>2. p # s => p - 1 \notin T
      BY <1>0, <2>2, <3>1
    <3> QED
      BY <3>1, <3>2
  <2> QED
    BY <1>2, <2>2, <2>3, <2>4
<1>7. strrchr(m, s, c) = f[e]
  <2>1. s + strlen(m, s) = e
    BY <1>1, StrlenIs
  <2> QED
    BY <1>4, <2>1 DEF strrchr
<1> QED
  BY <1>1, <1>6, <1>7

(* The characters of a string, the 0 that follows it among them. *)
LEMMA CharAtIs ==
  ASSUME NEW m \in [Addr -> Int], NEW s \in Addr, NEW l, Ends(m, s, l)
  PROVE  /\ \A k \in 0 .. l : CharAt(Text(m, s), k + 1) = m[s + k]
         /\ \A k \in Nat : k >= l => CharAt(Text(m, s), k + 1) = 0
<1>1. /\ l \in Nat /\ Len(Text(m, s)) = l /\ m[s + l] = 0
      /\ \A k \in 0 .. l - 1 : Text(m, s)[k + 1] = m[s + k]
  BY StringAt
<1>2. ASSUME NEW k \in Nat, k >= l PROVE CharAt(Text(m, s), k + 1) = 0
  <2>1. ~(k + 1 <= l)
    BY <1>1, <1>2
  <2> QED
    BY <1>1, <2>1 DEF CharAt
<1>3. ASSUME NEW k \in 0 .. l PROVE CharAt(Text(m, s), k + 1) = m[s + k]
  <2>1. CASE k = l
    BY <1>1, <1>2, <2>1
  <2>2. CASE k # l
    <3>1. k \in 0 .. l - 1 /\ k + 1 <= l
      BY <1>1, <2>2
    <3> QED
      BY <1>1, <3>1 DEF CharAt
  <2> QED
    BY <2>1, <2>2
<1> QED
  BY <1>2, <1>3

(* The first difference. *)
LEMMA ComparedIs ==
  ASSUME NEW a, NEW b, NEW i \in Nat, i + 1 <= Size,
         \A k \in 0 .. i - 1 : CharAt(a, k + 1) = CharAt(b, k + 1),
         CharAt(a, i + 1) # CharAt(b, i + 1)
  PROVE  Compared(a, b) = CharAt(a, i + 1) - CharAt(b, i + 1)
<1> DEFINE D == {j \in 1 .. Size : CharAt(a, j) # CharAt(b, j)}
<1>1. PICK p \in Nat : p = i + 1
  OBVIOUS
<1>2. p \in D /\ D \in SUBSET Int
  BY <1>1, SizeAssumption
<1>3. ASSUME NEW q \in D PROVE p <= q
  <2>1. PICK k \in Nat : k = q - 1 /\ q = k + 1
    OBVIOUS
  <2>2. k \notin 0 .. i - 1
    BY <2>1
  <2> QED
    BY <1>1, <2>1, <2>2
<1>4. FirstOf(D) = p
  <2> HIDE DEF D
  <2> QED
    BY <1>2, <1>3, FirstOfIs
<1>5. D # {}
  BY <1>2
<1> QED
  BY <1>1, <1>4, <1>5 DEF Compared

(* No difference. *)
LEMMA ComparedEqual ==
  ASSUME NEW a, NEW b, \A k \in Nat : CharAt(a, k + 1) = CharAt(b, k + 1)
  PROVE  Compared(a, b) = 0
<1>1. ASSUME NEW j \in 1 .. Size PROVE CharAt(a, j) = CharAt(b, j)
  <2>1. PICK k \in Nat : j = k + 1
    <3>1. j - 1 \in Nat /\ j = (j - 1) + 1
      BY SizeAssumption
    <3> QED
      BY <3>1
  <2> QED
    BY <2>1
<1>2. {j \in 1 .. Size : CharAt(a, j) # CharAt(b, j)} = {}
  BY <1>1
<1> QED
  BY <1>2 DEF Compared

(* t is what is at p, n bytes. *)
BytesAt(t, m, p, n) ==
  t \in Seq(Int) /\ Len(t) = n /\ \A k \in 0 .. n - 1 : t[k + 1] = m[p + k]

(* memcmp(): it stops at the first difference, or after n bytes. *)
LEMMA MemcmpIs ==
  ASSUME NEW m \in [Addr -> Int], NEW d \in Nat, NEW s \in Nat, NEW n \in Nat,
         d + n <= Size, s + n <= Size, NEW a, NEW b, BytesAt(a, m, d, n), BytesAt(b, m, s, n)
  PROVE  memcmp(m, d, s, n) = Compared(a, b)
<1>0. /\ a \in Seq(Int) /\ b \in Seq(Int) /\ Len(a) = n /\ Len(b) = n
      /\ \A k \in 0 .. n - 1 : a[k + 1] = m[d + k] /\ b[k + 1] = m[s + k]
  BY DEF BytesAt
<1> DEFINE Stop(k) == k = n \/ m[d + k] # m[s + k]
<1> DEFINE Z == {i \in Nat : Stop(i)}
<1>1. PICK j \in 0 .. n : First(Z, 0, j)
  <2>1. n \in Z
    OBVIOUS
  <2> HIDE DEF Z
  <2> QED
    BY <2>1, FirstExists
<1>2. j \in 0 .. n /\ Stop(j) /\ \A k \in 0 .. j - 1 : ~Stop(k)
  <2> HIDE DEF Stop
  <2>1. \A k \in 0 .. j - 1 : k \in Nat
    OBVIOUS
  <2> QED
    BY <1>1, <2>1 DEF First
<1>3. PICK i : i = CHOOSE k \in 0 .. n : Stop(k) /\ \A h \in 0 .. k - 1 : ~Stop(h)
  OBVIOUS
<1>4. i \in 0 .. n /\ Stop(i) /\ \A k \in 0 .. i - 1 : ~Stop(k)
  <2> HIDE DEF Stop
  <2> QED
    BY <1>2, <1>3, Zenon
<1>5. memcmp(m, d, s, n) = IF i = n THEN 0 ELSE m[d + i] - m[s + i]
  BY <1>3 DEF memcmp, Rounds
<1>6. ASSUME NEW k \in Nat
      PROVE  /\ k < n => CharAt(a, k + 1) = m[d + k] /\ CharAt(b, k + 1) = m[s + k]
             /\ ~(k < n) => CharAt(a, k + 1) = 0 /\ CharAt(b, k + 1) = 0
  <2>1. k < n => k \in 0 .. n - 1 /\ k + 1 <= n
    OBVIOUS
  <2>2. ~(k < n) => ~(k + 1 <= n)
    OBVIOUS
  <2> QED
    BY <1>0, <2>1, <2>2 DEF CharAt
<1>7. \A k \in 0 .. i - 1 : k \in Nat /\ k < n /\ m[d + k] = m[s + k]
  BY <1>4
<1>8. CASE i = n
  <2>1. ASSUME NEW k \in Nat PROVE CharAt(a, k + 1) = CharAt(b, k + 1)
    <3>1. k < n => k \in 0 .. i - 1
      BY <1>8
    <3> QED
      BY <1>6, <1>7, <3>1
  <2> QED
    BY <1>5, <1>8, <2>1, ComparedEqual
<1>9. CASE i # n
  <2>1. i < n /\ i \in Nat /\ i + 1 <= Size
    BY <1>4, <1>9, SizeAssumption
  <2>2. \A k \in 0 .. i - 1 : CharAt(a, k + 1) = CharAt(b, k + 1)
    BY <1>6, <1>7
  <2>3. CharAt(a, i + 1) = m[d + i] /\ CharAt(b, i + 1) = m[s + i]
    BY <1>6, <2>1
  <2>4. m[d + i] # m[s + i]
    BY <1>4, <1>9
  <2>5. Compared(a, b) = CharAt(a, i + 1) - CharAt(b, i + 1)
    BY <2>1, <2>2, <2>3, <2>4, ComparedIs
  <2> QED
    BY <1>5, <1>9, <2>3, <2>5
<1> QED
  BY <1>8, <1>9

(* strcmp(): where both strings end there is no difference. *)
LEMMA StrcmpIs ==
  ASSUME NEW m \in [Addr -> Int], NEW d \in Addr, NEW l, Ends(m, d, l),
         NEW s \in Addr, NEW n, Ends(m, s, n)
  PROVE  strcmp(m, d, s) = Compared(Text(m, d), Text(m, s))
<1> DEFINE Stop(k) == m[d + k] = 0 \/ m[d + k] # m[s + k]
<1> DEFINE Z == {i \in Nat : Stop(i)}
<1>0. /\ l \in Nat /\ d + l <= Size - 1 /\ d \in Nat /\ Size \in Nat /\ m[d + l] = 0
      /\ \A k \in 0 .. l - 1 : m[d + k] # 0
  BY StringAt
<1>a. /\ n \in Nat /\ s + n <= Size - 1 /\ s \in Nat /\ m[s + n] = 0
      /\ \A k \in 0 .. n - 1 : m[s + k] # 0
  BY StringAt
<1>1. PICK j \in 0 .. l : First(Z, 0, j)
  <2>1. l \in Z
    BY <1>0
  <2> HIDE DEF Z
  <2> QED
    BY <1>0, <2>1, FirstExists
<1>2. j \in 0 .. Size /\ Stop(j) /\ \A k \in 0 .. j - 1 : ~Stop(k)
  <2> HIDE DEF Stop
  <2>1. j \in 0 .. Size /\ \A k \in 0 .. j - 1 : k \in Nat
    BY <1>0
  <2> QED
    BY <1>1, <2>1 DEF First
<1>3. PICK i : i = CHOOSE k \in 0 .. Size : Stop(k) /\ \A h \in 0 .. k - 1 : ~Stop(h)
  OBVIOUS
<1>4. i \in 0 .. Size /\ Stop(i) /\ \A k \in 0 .. i - 1 : ~Stop(k)
  <2> HIDE DEF Stop
  <2> QED
    BY <1>2, <1>3, Zenon
<1>5. strcmp(m, d, s) = m[d + i] - m[s + i]
  BY <1>3 DEF strcmp, Rounds
<1>6. \A k \in 0 .. i - 1 : k \in Nat /\ m[d + k] = m[s + k] /\ m[d + k] # 0
  BY <1>0, <1>4
<1>7. i \in Nat /\ i <= l /\ i <= n
  BY <1>0, <1>a, <1>4, <1>6
<1>8. ASSUME NEW k \in 0 .. i
      PROVE  CharAt(Text(m, d), k + 1) = m[d + k] /\ CharAt(Text(m, s), k + 1) = m[s + k]
  <2>1. k \in 0 .. l /\ k \in 0 .. n
    BY <1>0, <1>a, <1>7
  <2> QED
    BY <2>1, CharAtIs
<1>9. ASSUME NEW k \in 0 .. i - 1 PROVE CharAt(Text(m, d), k + 1) = CharAt(Text(m, s), k + 1)
  <2>1. k \in 0 .. i
    BY <1>7
  <2> QED
    BY <1>6, <1>8, <2>1
<1>10. CASE m[d + i] # m[s + i]
  <2>1. i + 1 <= Size /\ i \in 0 .. i
    BY <1>0, <1>7
  <2>2. Compared(Text(m, d), Text(m, s)) = CharAt(Text(m, d), i + 1) - CharAt(Text(m, s), i + 1)
    BY <1>7, <1>8, <1>9, <1>10, <2>1, ComparedIs
  <2> QED
    BY <1>5, <1>8, <2>1, <2>2
<1>11. CASE m[d + i] = m[s + i]
  <2>1. m[d + i] = 0 /\ m[s + i] = 0
    BY <1>4, <1>11
  <2>2. i = l /\ i = n
    BY <1>0, <1>a, <1>7, <2>1
  <2>3. ASSUME NEW k \in Nat PROVE CharAt(Text(m, d), k + 1) = CharAt(Text(m, s), k + 1)
    <3>1. CASE k < i
      <4>1. k \in 0 .. i - 1
        BY <1>7, <3>1
      <4> QED
        BY <1>9, <4>1
    <3>2. CASE ~(k < i)
      <4>1. k >= l /\ k >= n
        BY <1>7, <2>2, <3>2
      <4> QED
        BY <4>1, CharAtIs
    <3> QED
      BY <3>1, <3>2
  <2>4. Compared(Text(m, d), Text(m, s)) = 0
    BY <2>3, ComparedEqual
  <2> QED
    BY <1>5, <2>1, <2>4
<1> QED
  BY <1>10, <1>11

(* A character of a string that is cut. *)
LEMMA CharOfTruncated ==
  ASSUME NEW t \in Seq(Int), NEW n \in Nat, NEW k \in Nat
  PROVE  CharAt(Truncated(t, n), k + 1) = IF k < n THEN CharAt(t, k + 1) ELSE 0
<1>1. PICK h \in Nat : /\ h = Shorter(Len(t), n) /\ Len(Truncated(t, n)) = h
                       /\ \A i \in 1 .. h : Truncated(t, n)[i] = t[i]
  BY TruncatedIs
<1>2. PICK l \in Nat : l = Len(t)
  BY LenProperties
<1>3. CASE k < n /\ k < l
  <2>1. k + 1 \in 1 .. h /\ k + 1 <= h /\ k + 1 <= l
    BY <1>1, <1>2, <1>3 DEF Shorter
  <2> QED
    BY <1>1, <1>2, <1>3, <2>1 DEF CharAt
<1>4. CASE ~(k < n /\ k < l)
  <2>1. ~(k + 1 <= h) /\ (k < n => ~(k + 1 <= l))
    BY <1>1, <1>2, <1>4 DEF Shorter
  <2> QED
    BY <1>1, <1>2, <1>4, <2>1 DEF CharAt
<1> QED
  BY <1>3, <1>4

(* strncmp(): it never looks behind the n-th character. *)
LEMMA StrncmpIs ==
  ASSUME NEW m \in [Addr -> Int], NEW d \in Addr, NEW l, Ends(m, d, l),
         NEW s \in Addr, NEW h, Ends(m, s, h), NEW n \in Nat
  PROVE  strncmp(m, d, s, n) = Compared(Truncated(Text(m, d), n), Truncated(Text(m, s), n))
<1> DEFINE Stop(k) == m[d + k] = 0 \/ m[d + k] # m[s + k] \/ k + 1 = n
<1> DEFINE Z == {i \in Nat : Stop(i)}
<1>0. /\ l \in Nat /\ d + l <= Size - 1 /\ d \in Nat /\ Size \in Nat /\ m[d + l] = 0
      /\ (\A k \in 0 .. l - 1 : m[d + k] # 0) /\ Text(m, d) \in Seq(Int)
  BY StringAt
<1>a. /\ h \in Nat /\ s + h <= Size - 1 /\ s \in Nat /\ m[s + h] = 0
      /\ (\A k \in 0 .. h - 1 : m[s + k] # 0) /\ Text(m, s) \in Seq(Int)
  BY StringAt
<1>1. PICK j \in 0 .. l : First(Z, 0, j)
  <2>1. l \in Z
    BY <1>0
  <2> HIDE DEF Z
  <2> QED
    BY <1>0, <2>1, FirstExists
<1>2. j \in 0 .. Size /\ Stop(j) /\ \A k \in 0 .. j - 1 : ~Stop(k)
  <2> HIDE DEF Stop
  <2>1. j \in 0 .. Size /\ \A k \in 0 .. j - 1 : k \in Nat
    BY <1>0
  <2> QED
    BY <1>1, <2>1 DEF First
<1>3. PICK i : i = CHOOSE k \in 0 .. Size : Stop(k) /\ \A g \in 0 .. k - 1 : ~Stop(g)
  OBVIOUS
<1>4. i \in 0 .. Size /\ Stop(i) /\ \A k \in 0 .. i - 1 : ~Stop(k)
  <2> HIDE DEF Stop
  <2> QED
    BY <1>2, <1>3, Zenon
<1>5. strncmp(m, d, s, n) = IF n = 0 THEN 0 ELSE m[d + i] - m[s + i]
  BY <1>3 DEF strncmp, Rounds
<1>6. \A k \in 0 .. i - 1 : k \in Nat /\ m[d + k] = m[s + k] /\ m[d + k] # 0 /\ k + 1 # n
  BY <1>0, <1>4
<1>7. i \in Nat /\ i <= l /\ i <= h
  <2>1. ~(l < i)
    <3>1. l < i => l \in 0 .. i - 1
      BY <1>0, <1>4
    <3> QED
      BY <1>0, <1>6, <3>1
  <2>2. ~(h < i)
    <3>1. h < i => h \in 0 .. i - 1
      BY <1>a, <1>4
    <3> QED
      BY <1>a, <1>6, <3>1
  <2> QED
    BY <1>0, <1>a, <1>4, <2>1, <2>2
<1> DEFINE a == Truncated(Text(m, d), n)
<1> DEFINE b == Truncated(Text(m, s), n)
<1>8. ASSUME NEW k \in Nat
      PROVE  /\ CharAt(a, k + 1) = IF k < n THEN CharAt(Text(m, d), k + 1) ELSE 0
             /\ CharAt(b, k + 1) = IF k < n THEN CharAt(Text(m, s), k + 1) ELSE 0
  BY <1>0, <1>a, CharOfTruncated
<1> HIDE DEF a, b
<1>9. CASE n = 0
  <2>1. ASSUME NEW k \in Nat PROVE CharAt(a, k + 1) = CharAt(b, k + 1)
    <3>1. ~(k < n)
      BY <1>9
    <3> QED
      BY <1>8, <3>1
  <2> QED
    BY <1>5, <1>9, <2>1, ComparedEqual DEF a, b
<1>10. CASE n # 0
  <2>1. i < n
    <3> SUFFICES ASSUME ~(i < n) PROVE FALSE
      OBVIOUS
    <3>1. PICK k \in 0 .. i - 1 : k + 1 = n
      <4>1. n - 1 \in 0 .. i - 1 /\ (n - 1) + 1 = n
        BY <1>7, <1>10
      <4> QED
        BY <4>1
    <3> QED
      BY <1>6, <3>1
  <2>2. ASSUME NEW k \in 0 .. i
        PROVE  CharAt(a, k + 1) = m[d + k] /\ CharAt(b, k + 1) = m[s + k]
    <3>1. k \in 0 .. l /\ k \in 0 .. h /\ k \in Nat /\ k < n
      BY <1>0, <1>a, <1>7, <2>1
    <3>2. CharAt(Text(m, d), k + 1) = m[d + k] /\ CharAt(Text(m, s), k + 1) = m[s + k]
      BY <3>1, CharAtIs
    <3> QED
      BY <1>8, <3>1, <3>2
  <2>3. ASSUME NEW k \in 0 .. i - 1 PROVE CharAt(a, k + 1) = CharAt(b, k + 1)
    <3>1. k \in 0 .. i
      BY <1>7
    <3> QED
      BY <1>6, <2>2, <3>1
  <2>4. CASE m[d + i] # m[s + i]
    <3>1. i + 1 <= Size /\ i \in 0 .. i
      BY <1>0, <1>7
    <3>2. Compared(a, b) = CharAt(a, i + 1) - CharAt(b, i + 1)
      BY <1>7, <2>2, <2>3, <2>4, <3>1, ComparedIs
    <3> QED
      BY <1>5, <1>10, <2>2, <3>1, <3>2 DEF a, b
  <2>5. CASE m[d + i] = m[s + i]
    <3>1. m[d + i] \in Int
      <4>1. d + i \in Addr
        BY <1>0, <1>7 DEF Addr
      <4> QED
        BY <4>1
    <3>2. m[d + i] - m[s + i] = 0
      BY <2>5, <3>1
    <3>3. ASSUME NEW k \in Nat PROVE CharAt(a, k + 1) = CharAt(b, k + 1)
      <4>1. CASE k <= i
        <5>1. k \in 0 .. i
          BY <1>7, <4>1
        <5>2. k = i \/ k \in 0 .. i - 1
          BY <1>7, <5>1
        <5> QED
          BY <2>2, <2>3, <2>5, <5>1, <5>2
      <4>2. CASE ~(k <= i)
        <5>1. CASE i + 1 = n
          <6>1. ~(k < n)
            BY <1>7, <4>2, <5>1
          <6> QED
            BY <1>8, <6>1
        <5>2. CASE i + 1 # n
          <6>1. m[d + i] = 0 /\ m[s + i] = 0
            BY <1>4, <2>5, <5>2
          <6>2. i = l /\ i = h
            BY <1>0, <1>a, <1>7, <6>1
          <6>3. k >= l /\ k >= h
            BY <1>7, <4>2, <6>2
          <6>4. CharAt(Text(m, d), k + 1) = 0 /\ CharAt(Text(m, s), k + 1) = 0
            BY <6>3, CharAtIs
          <6> QED
            BY <1>8, <6>4
        <5> QED
          BY <5>1, <5>2
      <4> QED
        BY <4>1, <4>2
    <3>4. Compared(a, b) = 0
      BY <3>3, ComparedEqual
    <3> QED
      BY <1>5, <1>10, <3>2, <3>4 DEF a, b
  <2> QED
    BY <2>4, <2>5
<1> QED
  BY <1>9, <1>10

(* Which characters the other string has. *)
LEMMA AmongChars ==
  ASSUME NEW m \in [Addr -> Int], NEW d \in Addr, NEW l, Ends(m, d, l),
         NEW s \in Addr, NEW h, Ends(m, s, h), NEW k \in 0 .. l - 1
  PROVE  Among(m, m[d + k], s) <=> Text(m, d)[k + 1] \in CharsOf(Text(m, s))
<1>1. /\ l \in Nat /\ d + l <= Size - 1 /\ d \in Nat /\ Size \in Nat
      /\ Text(m, d)[k + 1] = m[d + k] /\ m[d + k] # 0
  BY StringAt
<1>2. m[d + k] \in Int
  <2>1. d + k \in Addr
    BY <1>1 DEF Addr
  <2> QED
    BY <2>1
<1>3. Among(m, m[d + k], s) <=> m[d + k] \in Range(Text(m, s))
  BY <1>1, <1>2, AmongIs
<1> QED
  BY <1>1, <1>3 DEF Range, CharsOf

(* strspn(): the first character that is not among the others. *)
LEMMA StrspnIs ==
  ASSUME NEW m \in [Addr -> Int], NEW d \in Addr, NEW l, Ends(m, d, l),
         NEW s \in Addr, NEW h, Ends(m, s, h), NEW n, n = l
  PROVE  strspn(m, d, s) =
           FirstOf({i \in 0 .. n : i = n \/ Text(m, d)[i + 1] \notin CharsOf(Text(m, s))})
<1> DEFINE S == {i \in 0 .. n : i = n \/ Text(m, d)[i + 1] \notin CharsOf(Text(m, s))}
<1>1. /\ l \in Nat /\ d + l <= Size - 1 /\ d \in Nat /\ Size \in Nat /\ m[d + l] = 0
      /\ (\A k \in 0 .. l - 1 : m[d + k] # 0)
  BY StringAt
<1>2. PICK q \in Addr : q = d + l
  BY <1>1 DEF Addr
<1>3. PICK r \in d .. q : /\ strspn(m, d, s) = r - d
                          /\ m[r] = 0 \/ ~Among(m, m[r], s)
                          /\ \A j \in d .. r - 1 : m[j] # 0 /\ Among(m, m[j], s)
  <2>1. d <= q /\ m[q] = 0
    BY <1>1, <1>2
  <2> QED
    BY <1>1, <2>1, SpanIs
<1>4. PICK i \in 0 .. l : d + i = r
  <2>1. r - d \in 0 .. l /\ d + (r - d) = r
    BY <1>1, <1>2, <1>3
  <2> QED
    BY <2>1
<1>5. i \in S
  <2>1. i # l => i \in 0 .. l - 1
    BY <1>1
  <2>2. i # l => ~Among(m, m[d + i], s)
    BY <1>1, <1>3, <1>4, <2>1
  <2> QED
    BY <2>1, <2>2, AmongChars
<1>6. ASSUME NEW k \in S PROVE i <= k
  <2> SUFFICES ASSUME k < i PROVE FALSE
    BY <1>1
  <2>1. k \in 0 .. l - 1 /\ k # n /\ d + k \in d .. r - 1
    BY <1>1, <1>4
  <2>2. Among(m, m[d + k], s)
    BY <1>3, <2>1
  <2> QED
    BY <2>1, <2>2, AmongChars
<1>7. S \in SUBSET Int
  BY <1>1
<1>8. FirstOf(S) = i
  <2> HIDE DEF S
  <2> QED
    BY <1>5, <1>6, <1>7, FirstOfIs
<1> QED
  BY <1>1, <1>3, <1>4, <1>8

(* strcspn(): the first one that is. *)
LEMMA StrcspnIs ==
  ASSUME NEW m \in [Addr -> Int], NEW d \in Addr, NEW l, Ends(m, d, l),
         NEW s \in Addr, NEW h, Ends(m, s, h), NEW n, n = l
  PROVE  strcspn(m, d, s) =
           FirstOf({i \in 0 .. n : i = n \/ Text(m, d)[i + 1] \in CharsOf(Text(m, s))})
<1> DEFINE S == {i \in 0 .. n : i = n \/ Text(m, d)[i + 1] \in CharsOf(Text(m, s))}
<1>1. /\ l \in Nat /\ d + l <= Size - 1 /\ d \in Nat /\ Size \in Nat /\ m[d + l] = 0
      /\ (\A k \in 0 .. l - 1 : m[d + k] # 0)
  BY StringAt
<1>2. PICK q \in Addr : q = d + l
  BY <1>1 DEF Addr
<1>3. PICK r \in d .. q : /\ strcspn(m, d, s) = r - d
                          /\ m[r] = 0 \/ Among(m, m[r], s)
                          /\ \A j \in d .. r - 1 : m[j] # 0 /\ ~Among(m, m[j], s)
  <2>1. d <= q /\ m[q] = 0
    BY <1>1, <1>2
  <2> QED
    BY <1>1, <2>1, BreakIs
<1>4. PICK i \in 0 .. l : d + i = r
  <2>1. r - d \in 0 .. l /\ d + (r - d) = r
    BY <1>1, <1>2, <1>3
  <2> QED
    BY <2>1
<1>5. i \in S
  <2>1. i # l => i \in 0 .. l - 1
    BY <1>1
  <2>2. i # l => Among(m, m[d + i], s)
    BY <1>1, <1>3, <1>4, <2>1
  <2> QED
    BY <2>1, <2>2, AmongChars
<1>6. ASSUME NEW k \in S PROVE i <= k
  <2> SUFFICES ASSUME k < i PROVE FALSE
    BY <1>1
  <2>1. k \in 0 .. l - 1 /\ k # n /\ d + k \in d .. r - 1
    BY <1>1, <1>4
  <2>2. ~Among(m, m[d + k], s)
    BY <1>3, <2>1
  <2> QED
    BY <2>1, <2>2, AmongChars
<1>7. S \in SUBSET Int
  BY <1>1
<1>8. FirstOf(S) = i
  <2> HIDE DEF S
  <2> QED
    BY <1>5, <1>6, <1>7, FirstOfIs
<1> QED
  BY <1>1, <1>3, <1>4, <1>8

(* strpbrk(): the same, but for what is returned. *)
LEMMA StrpbrkIs ==
  ASSUME NEW m \in [Addr -> Int], NEW d \in Addr, NEW l, Ends(m, d, l),
         NEW s \in Addr, NEW h, Ends(m, s, h)
  PROVE  strpbrk(m, d, s) = FirstOf({p \in d .. d + l - 1 : m[p] \in CharsOf(Text(m, s))})
<1> DEFINE S == {p \in d .. d + l - 1 : m[p] \in CharsOf(Text(m, s))}
<1>1. /\ l \in Nat /\ d + l <= Size - 1 /\ d \in Nat /\ Size \in Nat /\ m[d + l] = 0
      /\ \A k \in 0 .. l - 1 : m[d + k] # 0 /\ Text(m, d)[k + 1] = m[d + k]
  BY StringAt
<1>2. PICK q \in Addr : q = d + l
  BY <1>1 DEF Addr
<1>3. PICK r \in d .. q : /\ strpbrk(m, d, s) = IF m[r] = 0 THEN nullptr ELSE r
                          /\ m[r] = 0 \/ Among(m, m[r], s)
                          /\ \A j \in d .. r - 1 : m[j] # 0 /\ ~Among(m, m[j], s)
  <2>1. d <= q /\ m[q] = 0
    BY <1>1, <1>2
  <2> QED
    BY <1>1, <2>1, BreakIs
<1>4. ASSUME NEW p \in d .. q, p # q
      PROVE  Among(m, m[p], s) <=> m[p] \in CharsOf(Text(m, s))
  <2>1. p - d \in 0 .. l - 1 /\ d + (p - d) = p
    BY <1>1, <1>2, <1>4
  <2>2. PICK k \in 0 .. l - 1 : d + k = p
    BY <2>1
  <2> QED
    BY <1>1, <2>2, AmongChars
<1>5. ASSUME NEW p \in d .. q, p # q PROVE m[p] # 0
  <2>1. p - d \in 0 .. l - 1 /\ d + (p - d) = p
    BY <1>1, <1>2, <1>5
  <2>2. PICK k \in 0 .. l - 1 : d + k = p
    BY <2>1
  <2> QED
    BY <1>1, <2>2
<1>6. ASSUME NEW k \in S PROVE k \in d .. q /\ k # q /\ r <= k
  <2>1. k \in d .. q /\ k # q /\ k \in Nat
    BY <1>1, <1>2
  <2>2. Among(m, m[k], s)
    BY <1>4, <2>1
  <2>3. k \notin d .. r - 1
    BY <1>3, <2>2
  <2> QED
    BY <1>1, <1>2, <1>3, <2>1, <2>3
<1>7. CASE m[r] = 0
  <2>1. r = q
    BY <1>3, <1>5, <1>7
  <2>2. S = {}
    <3> SUFFICES ASSUME NEW k \in S PROVE FALSE
      OBVIOUS
    <3>1. k \in d .. q /\ k # q /\ q <= k
      BY <1>6, <2>1
    <3> QED
      BY <1>1, <1>2, <3>1
  <2> QED
    BY <1>3, <1>7, <2>2 DEF FirstOf
<1>8. CASE m[r] # 0
  <2>1. r # q /\ Among(m, m[r], s)
    BY <1>1, <1>2, <1>3, <1>8
  <2>2. r \in S
    BY <1>1, <1>2, <1>3, <1>4, <2>1
  <2>3. S \in SUBSET Int /\ \A k \in S : r <= k
    BY <1>1, <1>6
  <2>4. FirstOf(S) = r
    <3> HIDE DEF S
    <3> QED
      BY <2>2, <2>3, FirstOfIs
  <2> QED
    BY <1>3, <1>8, <2>4
<1> QED
  BY <1>7, <1>8

(* The needle is found where it is. *)
LEMMA MatchesIs ==
  ASSUME NEW m \in [Addr -> Int], NEW d \in Addr, NEW l, Ends(m, d, l),
         NEW s \in Addr, NEW h, Ends(m, s, h)
  PROVE  Matches(m, d, s) <=> Truncated(Text(m, d), Len(Text(m, s))) = Text(m, s)
<1> DEFINE Stop(k) == m[d + k] = 0 \/ m[s + k] = 0 \/ m[d + k] # m[s + k]
<1> DEFINE Z == {i \in Nat : Stop(i)}
<1>0. /\ l \in Nat /\ d + l <= Size - 1 /\ d \in Nat /\ Size \in Nat /\ m[d + l] = 0
      /\ \A k \in 0 .. l - 1 : m[d + k] # 0 /\ Text(m, d)[k + 1] = m[d + k]
  BY StringAt
<1>a. /\ h \in Nat /\ s + h <= Size - 1 /\ s \in Nat /\ m[s + h] = 0
      /\ \A k \in 0 .. h - 1 : m[s + k] # 0 /\ Text(m, s)[k + 1] = m[s + k]
  BY StringAt
<1>b. PICK t \in Seq(Int) : t = Text(m, d) /\ Len(t) = l
  BY StringAt
<1>c. PICK u \in Seq(Int) : u = Text(m, s) /\ Len(u) = h
  BY StringAt
<1>1. PICK j \in 0 .. l : First(Z, 0, j)
  <2>1. l \in Z
    BY <1>0
  <2> HIDE DEF Z
  <2> QED
    BY <1>0, <2>1, FirstExists
<1>2. j \in 0 .. Size /\ Stop(j) /\ \A k \in 0 .. j - 1 : ~Stop(k)
  <2> HIDE DEF Stop
  <2>1. j \in 0 .. Size /\ \A k \in 0 .. j - 1 : k \in Nat
    BY <1>0
  <2> QED
    BY <1>1, <2>1 DEF First
<1>3. PICK i : i = CHOOSE k \in 0 .. Size : Stop(k) /\ \A g \in 0 .. k - 1 : ~Stop(g)
  OBVIOUS
<1>4. i \in 0 .. Size /\ Stop(i) /\ \A k \in 0 .. i - 1 : ~Stop(k)
  <2> HIDE DEF Stop
  <2> QED
    BY <1>2, <1>3, Zenon
<1>5. Matches(m, d, s) <=> m[s + i] = 0
  BY <1>3 DEF Matches, Rounds
<1>6. \A k \in 0 .. i - 1 : m[d + k] = m[s + k] /\ m[d + k] # 0
  BY <1>4
<1>7. i \in Nat /\ i <= l /\ i <= h
  <2>1. ~(l < i)
    <3>1. l < i => l \in 0 .. i - 1
      BY <1>0, <1>4
    <3> QED
      BY <1>0, <1>6, <3>1
  <2>2. ~(h < i)
    <3>1. h < i => h \in 0 .. i - 1
      BY <1>a, <1>4
    <3> QED
      BY <1>a, <1>6, <3>1
  <2> QED
    BY <1>0, <1>a, <1>4, <2>1, <2>2
<1>8. PICK v \in Seq(Int) : v = Truncated(t, h)
  BY <1>a, TruncatedIs
<1>9. PICK k \in Nat : k = Shorter(l, h) /\ k <= l /\ k <= h
                       /\ Len(v) = k /\ \A x \in 1 .. k : v[x] = t[x]
  <2>1. PICK k \in Nat : /\ k = Shorter(Len(t), h) /\ k <= Len(t) /\ k <= h
                         /\ Len(Truncated(t, h)) = k
                         /\ \A x \in 1 .. k : Truncated(t, h)[x] = t[x]
    BY <1>a, TruncatedIs
  <2> QED
    BY <1>b, <1>8, <2>1
<1>10. ASSUME m[s + i] = 0 PROVE v = u
  <2>1. i = h
    <3>1. i < h => i \in 0 .. h - 1
      BY <1>a, <1>7
    <3> QED
      BY <1>a, <1>7, <1>10, <3>1
  <2>2. k = h
    BY <1>0, <1>a, <1>7, <1>9, <2>1 DEF Shorter
  <2>3. ASSUME NEW x \in 1 .. h PROVE v[x] = u[x]
    <3>1. PICK y \in 0 .. h - 1 : x = y + 1
      <4>1. x - 1 \in 0 .. h - 1 /\ x = (x - 1) + 1
        BY <1>a
      <4> QED
        BY <4>1
    <3>2. y \in 0 .. l - 1 /\ y \in 0 .. i - 1
      BY <1>0, <1>a, <1>7, <2>1
    <3>3. t[x] = m[d + y] /\ u[x] = m[s + y]
      BY <1>0, <1>a, <1>b, <1>c, <3>1, <3>2
    <3> QED
      BY <1>6, <1>9, <2>2, <3>2, <3>3
  <2> QED
    BY <1>c, <1>9, <2>2, <2>3, SeqEqual
<1>11. ASSUME v = u PROVE m[s + i] = 0
  <2>1. k = h
    BY <1>c, <1>9, <1>11
  <2>2. i = h
    <3> SUFFICES ASSUME i < h PROVE FALSE
      BY <1>a, <1>7
    <3>1. i \in 0 .. h - 1 /\ i \in 0 .. l - 1 /\ i + 1 \in 1 .. k
      BY <1>0, <1>a, <1>7, <1>9, <2>1
    <3>2. t[i + 1] = m[d + i] /\ u[i + 1] = m[s + i] /\ m[d + i] # 0 /\ m[s + i] # 0
      BY <1>0, <1>a, <1>b, <1>c, <3>1
    <3>3. v[i + 1] = t[i + 1]
      BY <1>9, <3>1
    <3> QED
      BY <1>4, <1>11, <3>2, <3>3
  <2> QED
    BY <1>a, <2>2
<1> QED
  BY <1>b, <1>c, <1>5, <1>8, <1>10, <1>11

(* What is behind a character of a string ends where the string does. *)
LEMMA EndsLater ==
  ASSUME NEW m \in [Addr -> Int], NEW d \in Addr, NEW l, Ends(m, d, l), NEW p \in d .. d + l
  PROVE  p \in Addr /\ Ends(m, p, l - (p - d))
<1>1. /\ l \in Nat /\ d + l <= Size - 1 /\ d \in Nat /\ Size \in Nat /\ m[d + l] = 0
      /\ \A k \in 0 .. l - 1 : m[d + k] # 0
  BY StringAt
<1>2. PICK k \in 0 .. l : k = p - d
  BY <1>1
<1>3. PICK r \in Nat : r = l - k
  BY <1>1
<1>4. p \in Addr /\ p + r = d + l /\ p + r \in Addr
  BY <1>1, <1>2, <1>3 DEF Addr
<1>5. ASSUME NEW j \in 0 .. r - 1 PROVE m[p + j] # 0
  <2>1. k + j \in 0 .. l - 1 /\ p + j = d + (k + j)
    BY <1>1, <1>2, <1>3
  <2> QED
    BY <1>1, <2>1
<1> QED
  BY <1>1, <1>2, <1>3, <1>4, <1>5 DEF Ends

(* strstr(): the first place where the needle is. *)
LEMMA StrstrIs ==
  ASSUME NEW m \in [Addr -> Int], NEW d \in Addr, NEW l, Ends(m, d, l),
         NEW s \in Addr, NEW h, Ends(m, s, h)
  PROVE  strstr(m, d, s) = FirstOf({p \in (d .. d + l - 1) \cup {d} :
                                      Truncated(Text(m, p), Len(Text(m, s))) = Text(m, s)})
<1> DEFINE Found(p) == Truncated(Text(m, p), Len(Text(m, s))) = Text(m, s)
<1> DEFINE S == {p \in (d .. d + l - 1) \cup {d} : Found(p)}
<1> DEFINE Stop(k) == m[d + k] = 0 \/ Matches(m, d + k, s)
<1> DEFINE Z == {i \in Nat : Stop(i)}
<1>0. /\ l \in Nat /\ d + l <= Size - 1 /\ d \in Nat /\ Size \in Nat /\ m[d + l] = 0
      /\ \A k \in 0 .. l - 1 : m[d + k] # 0
  BY StringAt
<1>a. /\ h \in Nat /\ s \in Nat /\ m[s + h] = 0 /\ Len(Text(m, s)) = h /\ Text(m, s) \in Seq(Int)
      /\ \A k \in 0 .. h - 1 : m[s + k] # 0
  BY StringAt
<1>1. PICK j \in 0 .. l : First(Z, 0, j)
  <2>1. l \in Z
    BY <1>0
  <2> HIDE DEF Z
  <2> QED
    BY <1>0, <2>1, FirstExists
<1>2. j \in 0 .. Size /\ Stop(j) /\ \A k \in 0 .. j - 1 : ~Stop(k)
  <2> HIDE DEF Stop
  <2>1. j \in 0 .. Size /\ \A k \in 0 .. j - 1 : k \in Nat
    BY <1>0
  <2> QED
    BY <1>1, <2>1 DEF First
<1>3. PICK i : i = CHOOSE k \in 0 .. Size : Stop(k) /\ \A g \in 0 .. k - 1 : ~Stop(g)
  OBVIOUS
<1>4. i \in 0 .. Size /\ Stop(i) /\ \A k \in 0 .. i - 1 : ~Stop(k)
  <2> HIDE DEF Stop
  <2> QED
    BY <1>2, <1>3, Zenon
<1>5. strstr(m, d, s) = IF m[s] = 0 THEN d ELSE IF m[d + i] = 0 THEN nullptr ELSE d + i
  BY <1>3 DEF strstr, Rounds
<1>6. i \in Nat /\ i <= l
  <2>1. l < i => l \in 0 .. i - 1
    BY <1>0, <1>4
  <2>2. ~(l < i)
    BY <1>0, <1>4, <2>1
  <2> QED
    BY <1>0, <1>4, <2>2
<1>7. ASSUME NEW k \in 0 .. l PROVE Matches(m, d + k, s) <=> Found(d + k)
  <2>1. PICK p \in d .. d + l : p = d + k
    BY <1>0
  <2>2. p \in Addr /\ Ends(m, p, l - (p - d))
    BY EndsLater
  <2>3. Matches(m, p, s) <=> Found(p)
    BY <2>2, MatchesIs
  <2> QED
    BY <2>1, <2>3
<1>8. CASE m[s] = 0
  <2>1. h = 0
    <3>1. h # 0 => 0 \in 0 .. h - 1 /\ s + 0 = s
      BY <1>a
    <3> QED
      BY <1>8, <1>a, <3>1
  <2>2. PICK t \in Seq(Int) : t = Truncated(Text(m, d), 0) /\ Len(t) = 0
    <3>1. Text(m, d) \in Seq(Int) /\ Len(Text(m, d)) = l
      BY StringAt
    <3>2. PICK k \in Nat : /\ k = Shorter(l, 0) /\ Truncated(Text(m, d), 0) \in Seq(Int)
                           /\ Len(Truncated(Text(m, d), 0)) = k
      BY <3>1, TruncatedIs
    <3> QED
      BY <1>0, <3>2 DEF Shorter
  <2>3. t = Text(m, s)
    BY <1>a, <2>1, <2>2, SeqEqual
  <2>4. d \in S
    BY <1>a, <2>1, <2>2, <2>3
  <2>5. S \in SUBSET Int /\ \A q \in S : d <= q
    BY <1>0
  <2>6. FirstOf(S) = d
    <3> HIDE DEF S
    <3> QED
      BY <2>4, <2>5, FirstOfIs
  <2> QED
    BY <1>5, <1>8, <2>6
<1>9. CASE m[s] # 0
  <2>1. h # 0
    <3>1. s + 0 = s
      BY <1>a
    <3> QED
      BY <1>9, <1>a, <3>1
  <2>2. ~Found(d + l)
    <3>1. PICK p \in d .. d + l : p = d + l
      BY <1>0
    <3>2. p \in Addr /\ Ends(m, p, l - (p - d))
      BY <3>1, EndsLater
    <3>3. PICK v \in Seq(Int) : v = Text(m, d + l) /\ Len(v) = 0
      <4>1. l - (p - d) = 0
        BY <1>0, <3>1
      <4> QED
        BY <3>1, <3>2, <4>1, StringAt
    <3>4. PICK k \in Nat : k = Shorter(0, h) /\ Len(Truncated(v, h)) = k
      BY <1>a, <3>3, TruncatedIs
    <3>5. Len(Truncated(v, h)) # h
      BY <1>a, <2>1, <3>4 DEF Shorter
    <3> QED
      BY <1>a, <3>3, <3>5
  <2>3. ASSUME NEW q \in S PROVE q - d \in 0 .. l - 1 /\ Matches(m, d + (q - d), s)
    <3>1. q # d + l
      BY <2>2
    <3>2. q - d \in 0 .. l - 1 /\ d + (q - d) = q
      BY <1>0, <3>1
    <3>3. q - d \in 0 .. l
      BY <1>0, <3>2
    <3>4. Found(d + (q - d))
      BY <3>2
    <3> QED
      BY <1>7, <3>2, <3>3, <3>4
  <2>4. ASSUME NEW q \in S PROVE d + i <= q /\ q < d + l
    <3>1. PICK k \in 0 .. l - 1 : k = q - d /\ Matches(m, d + k, s)
      BY <2>3
    <3>2. k \notin 0 .. i - 1
      BY <1>4, <3>1
    <3> QED
      BY <1>0, <1>6, <3>1, <3>2
  <2>5. CASE m[d + i] = 0
    <3>1. i = l
      <4>1. i < l => i \in 0 .. l - 1
        BY <1>0, <1>6
      <4> QED
        BY <1>0, <1>6, <2>5, <4>1
    <3>2. S = {}
      <4> SUFFICES ASSUME NEW q \in S PROVE FALSE
        OBVIOUS
      <4>1. d + i <= q /\ q < d + l /\ q - d \in 0 .. l - 1
        BY <2>3, <2>4
      <4> QED
        BY <1>0, <3>1, <4>1
    <3> QED
      BY <1>5, <1>9, <2>5, <3>2 DEF FirstOf
  <2>6. CASE m[d + i] # 0
    <3>1. Matches(m, d + i, s)
      BY <1>4, <2>6
    <3>2. i \in 0 .. l /\ i # l
      BY <1>0, <1>6, <2>6
    <3>3. Found(d + i)
      BY <1>7, <3>1, <3>2
    <3>4. d + i \in d .. d + l - 1
      BY <1>0, <1>6, <3>2
    <3>5. d + i \in S
      BY <3>3, <3>4
    <3>6. S \in SUBSET Int /\ \A q \in S : d + i <= q
      BY <1>0, <2>4
    <3>7. FirstOf(S) = d + i
      <4> HIDE DEF S
      <4> QED
        BY <3>5, <3>6, FirstOfIs
    <3> QED
      BY <1>5, <1>9, <2>6, <3>7
  <2> QED
    BY <2>5, <2>6
<1> QED
  BY <1>8, <1>9

-----------------------------------------------------------------------------
(* The calls.  Memory and the result are what the function makes of memory  *)
(* before, which is a call that its caller may make; what the functions do  *)
(* is known from the lemmas.                                               *)

Called ==
  /\ before \in Contents /\ call \in Calls /\ Valid(before, call)
  /\ bytes = MemoryAfter(before, call) /\ result = ResultOf(before, call)

CallInv == (before \in Contents /\ call = NoCall /\ bytes = before) \/ Called

(* Calls have the types they are assumed to have. *)
LEMMA CallFacts ==
  ASSUME Called
  PROVE  /\ before \in [Addr -> Int] /\ call.d \in Addr /\ call.s \in Addr
         /\ call.d \in Nat /\ call.s \in Nat /\ call.n \in Nat /\ call.c \in Int
         /\ before \in [Addr -> Byte]
<1>1. before \in [Addr -> Byte]
  BY CallsAssumption DEF Called
<1>2. \A a \in Addr : before[a] \in Int
  BY <1>1 DEF Byte
<1> QED
  BY <1>1, <1>2, CallsAssumption, SizeAssumption DEF Called, Addr

(* Written, in terms of the state. *)
LEMMA OverwrittenIs ==
  ASSUME NEW d, NEW t, Written(bytes, before, d, t)
  PROVE  Overwritten(d, t)
BY DEF Written, Overwritten

(* The bytes at p before the call. *)
LEMMA RawIs ==
  ASSUME before \in [Addr -> Int], NEW p \in Nat, NEW n \in Nat, p + n <= Size
  PROVE  /\ Raw(p, n) \in Seq(Int) /\ Len(Raw(p, n)) = n /\ DOMAIN Raw(p, n) = 1 .. n
         /\ \A k \in 0 .. n - 1 : Raw(p, n)[k + 1] = before[p + k]
         /\ BytesAt(Raw(p, n), before, p, n)
<1>1. \A i \in 1 .. n : before[p + i - 1] \in Int
  <2> SUFFICES ASSUME NEW i \in 1 .. n PROVE p + i - 1 \in Addr
    OBVIOUS
  <2> QED
    BY SizeAssumption DEF Addr
<1>2. Raw(p, n) \in Seq(Int) /\ Len(Raw(p, n)) = n /\ DOMAIN Raw(p, n) = 1 .. n
  BY <1>1 DEF Raw
<1>3. ASSUME NEW k \in 0 .. n - 1 PROVE Raw(p, n)[k + 1] = before[p + k]
  <2>1. k + 1 \in 1 .. n /\ p + (k + 1) - 1 = p + k
    OBVIOUS
  <2>2. PICK i \in 1 .. n : i = k + 1 /\ p + i - 1 = p + k
    BY <2>1
  <2> QED
    BY <2>2 DEF Raw
<1> QED
  BY <1>2, <1>3 DEF BytesAt

(* The functions on memory. *)
LEMMA MemoryCalls ==
  ASSUME Called, call.fn \in {"memcpy", "memmove", "memset", "memcmp", "memchr"}
  PROVE  CallsAsSpecified
<1>0. /\ before \in [Addr -> Int] /\ call.d \in Addr /\ call.s \in Addr
      /\ call.d \in Nat /\ call.s \in Nat /\ call.n \in Nat /\ call.c \in Int
  BY CallFacts
<1>a. Valid(before, call) /\ bytes = MemoryAfter(before, call) /\ result = ResultOf(before, call)
  BY DEF Called
<1>1. CASE call.fn = "memcpy"
  <2>1. call.d + call.n <= Size /\ call.s + call.n <= Size
        /\ (call.d + call.n <= call.s \/ call.s + call.n <= call.d)
    BY <1>1, <1>a DEF Valid, InMemory, Apart
  <2>2. bytes = memcpy(before, call.d, call.s, call.n)
    BY <1>1, <1>a DEF MemoryAfter
  <2>3. call.d <= call.s \/ call.s + call.n <= call.d
    BY <1>0, <2>1
  <2>4. Written(bytes, before, call.d, Raw(call.s, call.n))
    BY <1>0, <2>1, <2>2, <2>3, RawIs, CopyWrites
  <2> QED
    BY <1>1, <2>4, OverwrittenIs DEF CallsAsSpecified, MemoryAsSpecified, ResultAsSpecified
<1>2. CASE call.fn = "memmove"
  <2>1. call.d + call.n <= Size /\ call.s + call.n <= Size
    BY <1>2, <1>a DEF Valid, InMemory
  <2>2. bytes = memmove(before, call.d, call.s, call.n)
    BY <1>2, <1>a DEF MemoryAfter
  <2>3. Written(bytes, before, call.d, Raw(call.s, call.n))
    BY <1>0, <2>1, <2>2, RawIs, CopyWrites
  <2> QED
    BY <1>2, <2>3, OverwrittenIs DEF CallsAsSpecified, MemoryAsSpecified, ResultAsSpecified
<1>3. CASE call.fn = "memset"
  <2>1. call.s + call.n <= Size
    BY <1>3, <1>a DEF Valid, InMemory
  <2>2. bytes = memset(before, call.s, call.c, call.n)
    BY <1>3, <1>a DEF MemoryAfter
  <2>3. PICK t : t = [i \in 1 .. call.n |-> Unsigned(call.c)]
    OBVIOUS
  <2>4. DOMAIN t = 1 .. call.n /\ \A k \in 0 .. call.n - 1 : t[k + 1] = Unsigned(call.c)
    BY <1>0, <2>3
  <2>5. Written(bytes, before, call.s, t)
    BY <1>0, <2>1, <2>2, <2>4, FillWrites
  <2>6. Overwritten(call.s, [i \in 1 .. call.n |-> call.c % 256])
    BY <2>3, <2>5, OverwrittenIs DEF Unsigned
  <2> QED
    BY <1>3, <2>6 DEF CallsAsSpecified, MemoryAsSpecified, ResultAsSpecified
<1>4. CASE call.fn = "memcmp"
  <2>1. call.d + call.n <= Size /\ call.s + call.n <= Size
    BY <1>4, <1>a DEF Valid, InMemory
  <2>2. bytes = before
    BY <1>4, <1>a DEF MemoryAfter
  <2>3. result = memcmp(before, call.d, call.s, call.n)
    BY <1>4, <1>a DEF ResultOf
  <2>4. result = Compared(Raw(call.d, call.n), Raw(call.s, call.n))
    <3>1. /\ BytesAt(Raw(call.d, call.n), before, call.d, call.n)
          /\ BytesAt(Raw(call.s, call.n), before, call.s, call.n)
      BY <1>0, <2>1, RawIs
    <3> QED
      BY <1>0, <2>1, <2>3, <3>1, MemcmpIs
  <2> QED
    BY <1>4, <2>2, <2>4 DEF CallsAsSpecified, MemoryAsSpecified, ResultAsSpecified
<1>5. CASE call.fn = "memchr"
  <2>1. call.s + call.n <= Size
    BY <1>5, <1>a DEF Valid, InMemory
  <2>2. bytes = before
    BY <1>5, <1>a DEF MemoryAfter
  <2>3. result = memchr(before, call.s, call.c, call.n)
    BY <1>5, <1>a DEF ResultOf
  <2>4. result = FirstOf({p \in call.s .. call.s + call.n - 1 : before[p] = call.c})
    BY <1>0, <2>1, <2>3, MemchrIs
  <2> QED
    BY <1>5, <2>2, <2>4 DEF CallsAsSpecified, MemoryAsSpecified, ResultAsSpecified
<1> QED
  BY <1>1, <1>2, <1>3, <1>4, <1>5

(* The functions that write strings.  What they write has room and does not *)
(* overlap with what they read, since the call is valid.                    *)
LEMMA StringWriters ==
  ASSUME Called, call.fn \in {"strcpy", "strncpy", "strcat", "strncat"}
  PROVE  CallsAsSpecified
<1>0. /\ before \in [Addr -> Int] /\ call.d \in Addr /\ call.s \in Addr
      /\ call.d \in Nat /\ call.s \in Nat /\ call.n \in Nat /\ call.c \in Int
  BY CallFacts
<1>a. Valid(before, call) /\ bytes = MemoryAfter(before, call)
  BY DEF Called
<1>b. HasString(before, call.s)
  BY <1>a DEF Valid
<1>c. PICK n : Ends(before, call.s, n)
  BY <1>0, <1>b, EndsExists
<1>d. n \in Nat /\ Len(Text(before, call.s)) = n
  BY <1>0, <1>c, StringAt
<1>1. CASE call.fn = "strcpy"
  <2>1. /\ call.d + (n + 1) <= Size
        /\ call.d + (n + 1) <= call.s \/ call.s + (n + 1) <= call.d
    BY <1>1, <1>a, <1>d DEF Valid, InMemory, Apart
  <2>2. bytes = strcpy(before, call.d, call.s)
    BY <1>1, <1>a DEF MemoryAfter
  <2>3. call.d + n + 1 <= Size /\ (call.d <= call.s \/ call.s + n + 1 <= call.d)
    BY <1>0, <1>d, <2>1, SizeAssumption
  <2>4. Written(bytes, before, call.d, Text(before, call.s) \o <<0>>)
    BY <1>0, <1>c, <2>2, <2>3, StrcpyWrites
  <2> QED
    BY <1>1, <2>4, OverwrittenIs DEF CallsAsSpecified, MemoryAsSpecified, ResultAsSpecified
<1>2. CASE call.fn = "strncpy"
  <2>1. /\ call.d + (call.n + 1) <= Size
        /\ call.d + (call.n + 1) <= call.s \/ call.s + (n + 1) <= call.d
    BY <1>2, <1>a, <1>d DEF Valid, InMemory, Apart
  <2>2. bytes = strncpy(before, call.d, call.s, call.n)
    BY <1>2, <1>a DEF MemoryAfter
  <2>3. Written(bytes, before, call.d, Truncated(Text(before, call.s), call.n) \o
          (IF Len(Text(before, call.s)) < call.n
             THEN Zeros(call.n - Len(Text(before, call.s)) + 1) ELSE <<>>))
    BY <1>0, <1>c, <2>1, <2>2, StrncpyWrites
  <2> QED
    BY <1>2, <2>3, OverwrittenIs DEF CallsAsSpecified, MemoryAsSpecified, ResultAsSpecified
<1>e. ASSUME call.fn \in {"strcat", "strncat"}
      PROVE  \E l : /\ Ends(before, call.d, l)
                    /\ call.d + (l + n + 1) <= Size
                    /\ call.d + (l + n + 1) <= call.s \/ call.s + (n + 1) <= call.d
  <2>1. HasString(before, call.d)
    BY <1>a, <1>e DEF Valid
  <2>2. PICK l : Ends(before, call.d, l)
    BY <1>0, <2>1, EndsExists
  <2>3. l \in Nat /\ Len(Text(before, call.d)) = l
    BY <1>0, <2>2, StringAt
  <2>4. /\ call.d + (l + n + 1) <= Size
        /\ call.d + (l + n + 1) <= call.s \/ call.s + (n + 1) <= call.d
    BY <1>a, <1>d, <1>e, <2>3 DEF Valid, InMemory, Apart
  <2> QED
    BY <2>2, <2>4
<1>3. CASE call.fn = "strcat"
  <2>1. PICK l : /\ Ends(before, call.d, l)
                 /\ call.d + (l + n + 1) <= Size
                 /\ call.d + (l + n + 1) <= call.s \/ call.s + (n + 1) <= call.d
    BY <1>3, <1>e
  <2>2. bytes = strcat(before, call.d, call.s)
    BY <1>3, <1>a DEF MemoryAfter
  <2>3. Written(bytes, before, call.d, Text(before, call.d) \o Text(before, call.s) \o <<0>>)
    BY <1>0, <1>c, <2>1, <2>2, StrcatWrites
  <2> QED
    BY <1>3, <2>3, OverwrittenIs DEF CallsAsSpecified, MemoryAsSpecified, ResultAsSpecified
<1>4. CASE call.fn = "strncat"
  <2>1. PICK l : /\ Ends(before, call.d, l)
                 /\ call.d + (l + n + 1) <= Size
                 /\ call.d + (l + n + 1) <= call.s \/ call.s + (n + 1) <= call.d
    BY <1>4, <1>e
  <2>2. bytes = strncat(before, call.d, call.s, call.n)
    BY <1>4, <1>a DEF MemoryAfter
  <2>3. Written(bytes, before, call.d,
          Text(before, call.d) \o Truncated(Text(before, call.s), call.n) \o <<0>>)
    BY <1>0, <1>c, <2>1, <2>2, StrncatWrites
  <2> QED
    BY <1>4, <2>3, OverwrittenIs DEF CallsAsSpecified, MemoryAsSpecified, ResultAsSpecified
<1> QED
  BY <1>1, <1>2, <1>3, <1>4

(* The functions that look at one string. *)
LEMMA OneString ==
  ASSUME Called, call.fn \in {"strlen", "strnlen", "strchr", "strrchr"}
  PROVE  CallsAsSpecified
<1>0. /\ before \in [Addr -> Int] /\ call.s \in Addr /\ call.n \in Nat /\ call.c \in Int
      /\ before \in [Addr -> Byte]
  BY CallFacts
<1>a. Valid(before, call) /\ bytes = MemoryAfter(before, call) /\ result = ResultOf(before, call)
  BY DEF Called
<1>b. HasString(before, call.s) /\ bytes = before
  BY <1>a DEF Valid, MemoryAfter
<1>c. PICK n : Ends(before, call.s, n)
  BY <1>0, <1>b, EndsExists
<1>d. n \in Nat /\ Len(Text(before, call.s)) = n
  BY <1>0, <1>c, StringAt
<1>e. MemoryAsSpecified
  BY <1>b DEF MemoryAsSpecified
<1>f. \A p \in call.s .. call.s + n : Signed(before[p]) = call.c <=> IsChar(before[p], call.c)
  <2> TAKE p \in call.s .. call.s + n
  <2>1. p \in Addr
    BY <1>0, <1>c, StringAt, SizeAssumption DEF Addr
  <2>2. before[p] \in Byte
    BY <1>0, <2>1
  <2> QED
    BY <1>0, <2>2, SignedIs
<1>1. CASE call.fn = "strlen"
  <2>1. result = strlen(before, call.s)
    BY <1>1, <1>a DEF ResultOf
  <2>2. result = Len(Text(before, call.s))
    BY <1>0, <1>c, <1>d, <2>1, StrlenIs
  <2> QED
    BY <1>1, <1>e, <2>2 DEF CallsAsSpecified, ResultAsSpecified
<1>2. CASE call.fn = "strnlen"
  <2>1. result = strnlen(before, call.s, call.n)
    BY <1>2, <1>a DEF ResultOf
  <2>2. result = Shorter(call.n, n)
    BY <1>0, <1>c, <2>1, CountIs
  <2>3. Shorter(call.n, n) = Shorter(n, call.n)
    BY <1>0, <1>d DEF Shorter
  <2>4. result = Shorter(Len(Text(before, call.s)), call.n)
    BY <1>d, <2>2, <2>3
  <2> QED
    BY <1>2, <1>e, <2>4 DEF CallsAsSpecified, ResultAsSpecified
<1>3. CASE call.fn = "strchr"
  <2>1. result = strchr(before, call.s, call.c)
    BY <1>3, <1>a DEF ResultOf
  <2>2. result = FirstOf({p \in call.s .. call.s + n : Signed(before[p]) = call.c})
    BY <1>0, <1>c, <2>1, StrchrIs
  <2>3. result = FirstOf({p \in call.s .. call.s + n : IsChar(before[p], call.c)})
    <3>1. {p \in call.s .. call.s + n : Signed(before[p]) = call.c}
            = {p \in call.s .. call.s + n : IsChar(before[p], call.c)}
      BY <1>f
    <3> QED
      BY <2>2, <3>1
  <2> QED
    BY <1>3, <1>d, <1>e, <2>3 DEF CallsAsSpecified, ResultAsSpecified
<1>4. CASE call.fn = "strrchr"
  <2>1. result = strrchr(before, call.s, call.c)
    BY <1>4, <1>a DEF ResultOf
  <2>2. result = LastOf({p \in call.s .. call.s + n : Signed(before[p]) = call.c})
    BY <1>0, <1>c, <2>1, StrrchrIs
  <2>3. result = LastOf({p \in call.s .. call.s + n : IsChar(before[p], call.c)})
    <3>1. {p \in call.s .. call.s + n : Signed(before[p]) = call.c}
            = {p \in call.s .. call.s + n : IsChar(before[p], call.c)}
      BY <1>f
    <3> QED
      BY <2>2, <3>1
  <2> QED
    BY <1>4, <1>d, <1>e, <2>3 DEF CallsAsSpecified, ResultAsSpecified
<1> QED
  BY <1>1, <1>2, <1>3, <1>4

(* The functions that look at two. *)
LEMMA TwoStrings ==
  ASSUME Called,
         call.fn \in {"strcmp", "strncmp", "strspn", "strcspn", "strpbrk", "strstr"}
  PROVE  CallsAsSpecified
<1>0. before \in [Addr -> Int] /\ call.d \in Addr /\ call.s \in Addr /\ call.n \in Nat
  BY CallFacts
<1>a. Valid(before, call) /\ bytes = MemoryAfter(before, call) /\ result = ResultOf(before, call)
  BY DEF Called
<1>b. HasString(before, call.s) /\ HasString(before, call.d) /\ bytes = before
  BY <1>a DEF Valid, MemoryAfter
<1>c. PICK h : Ends(before, call.s, h)
  BY <1>0, <1>b, EndsExists
<1>d. PICK l : Ends(before, call.d, l)
  BY <1>0, <1>b, EndsExists
<1>e. l \in Nat /\ Len(Text(before, call.d)) = l
  BY <1>0, <1>d, StringAt
<1>f. MemoryAsSpecified
  BY <1>b DEF MemoryAsSpecified
<1> DEFINE a == Text(before, call.d)
<1> DEFINE b == Text(before, call.s)
<1>1. CASE call.fn = "strcmp"
  <2>1. result = strcmp(before, call.d, call.s)
    BY <1>1, <1>a DEF ResultOf
  <2>2. result = Compared(a, b)
    BY <1>0, <1>c, <1>d, <2>1, StrcmpIs
  <2> QED
    BY <1>1, <1>f, <2>2 DEF CallsAsSpecified, ResultAsSpecified
<1>2. CASE call.fn = "strncmp"
  <2>1. result = strncmp(before, call.d, call.s, call.n)
    BY <1>2, <1>a DEF ResultOf
  <2>2. result = Compared(Truncated(a, call.n), Truncated(b, call.n))
    BY <1>0, <1>c, <1>d, <2>1, StrncmpIs
  <2> QED
    BY <1>2, <1>f, <2>2 DEF CallsAsSpecified, ResultAsSpecified
<1>3. CASE call.fn = "strspn"
  <2>1. result = strspn(before, call.d, call.s)
    BY <1>3, <1>a DEF ResultOf
  <2>2. result = FirstOf({i \in 0 .. Len(a) : i = Len(a) \/ a[i + 1] \notin CharsOf(b)})
    BY <1>0, <1>c, <1>d, <1>e, <2>1, StrspnIs
  <2> QED
    BY <1>3, <1>f, <2>2 DEF CallsAsSpecified, ResultAsSpecified
<1>4. CASE call.fn = "strcspn"
  <2>1. result = strcspn(before, call.d, call.s)
    BY <1>4, <1>a DEF ResultOf
  <2>2. result = FirstOf({i \in 0 .. Len(a) : i = Len(a) \/ a[i + 1] \in CharsOf(b)})
    BY <1>0, <1>c, <1>d, <1>e, <2>1, StrcspnIs
  <2> QED
    BY <1>4, <1>f, <2>2 DEF CallsAsSpecified, ResultAsSpecified
<1>5. CASE call.fn = "strpbrk"
  <2>1. result = strpbrk(before, call.d, call.s)
    BY <1>5, <1>a DEF ResultOf
  <2>2. result = FirstOf({p \in call.d .. call.d + l - 1 : before[p] \in CharsOf(b)})
    BY <1>0, <1>c, <1>d, <2>1, StrpbrkIs
  <2>3. Positions(call.d) = call.d .. call.d + l - 1
    BY <1>e DEF Positions
  <2> QED
    BY <1>5, <1>f, <2>2, <2>3 DEF CallsAsSpecified, ResultAsSpecified
<1>6. CASE call.fn = "strstr"
  <2>1. result = strstr(before, call.d, call.s)
    BY <1>6, <1>a DEF ResultOf
  <2>2. result = FirstOf({p \in (call.d .. call.d + l - 1) \cup {call.d} :
                            Truncated(Text(before, p), Len(b)) = b})
    BY <1>0, <1>c, <1>d, <2>1, StrstrIs
  <2>3. Positions(call.d) = call.d .. call.d + l - 1
    BY <1>e DEF Positions
  <2> QED
    BY <1>6, <1>f, <2>2, <2>3 DEF CallsAsSpecified, ResultAsSpecified
<1> QED
  BY <1>1, <1>2, <1>3, <1>4, <1>5, <1>6

(* Before the call nothing has changed. *)
LEMMA CalledAsSpecified ==
  ASSUME CallInv
  PROVE  CallsAsSpecified
<1>1. CASE call = NoCall /\ bytes = before
  <2>1. call.fn = "none"
    BY <1>1 DEF NoCall
  <2> QED
    BY <1>1, <2>1 DEF CallsAsSpecified, MemoryAsSpecified, ResultAsSpecified
<1> DEFINE Functions == {"memcpy", "memmove", "memset", "memcmp", "memchr",
                  "strcpy", "strncpy", "strcat", "strncat",
                  "strlen", "strnlen", "strchr", "strrchr",
                  "strcmp", "strncmp", "strspn", "strcspn", "strpbrk", "strstr"}
<1>2. CASE Called /\ call.fn \in Functions
  BY <1>2, MemoryCalls, StringWriters, OneString, TwoStrings
<1>3. CASE Called /\ call.fn \notin Functions
  <2>1. bytes = before
    BY <1>3 DEF Called, MemoryAfter
  <2> QED
    BY <1>3, <2>1 DEF CallsAsSpecified, MemoryAsSpecified, ResultAsSpecified
<1> QED
  BY <1>1, <1>2, <1>3 DEF CallInv

(* Every function of string.h leaves memory as its reference says and       *)
(* returns what it says: for every memory of any size, and every call that  *)
(* its caller may make.                                                     *)
THEOREM CallsDoAsSpecified == CallSpec => []CallsAsSpecified
<1>1. CallInit => CallInv
  BY DEF CallInit, CallInv
<1>2. CallInv /\ [CallNext]_callVars => CallInv'
  <2> SUFFICES ASSUME CallInv, [CallNext]_callVars PROVE CallInv'
    OBVIOUS
  <2>1. ASSUME call = NoCall, NEW c \in Calls, Do(c) PROVE CallInv'
    <3>1. bytes = before
      <4>1. call.fn = "none"
        BY <2>1 DEF NoCall
      <4> QED
        BY <4>1 DEF CallInv, Called, MemoryAfter
    <3>2. before \in Contents
      BY DEF CallInv, Called
    <3>3. /\ before' = bytes /\ call' = c /\ Valid(bytes, c)
          /\ bytes' = MemoryAfter(bytes, c) /\ result' = ResultOf(bytes, c)
      BY <2>1, <3>1 DEF Do
    <3> HIDE DEF Valid, MemoryAfter, ResultOf
    <3> QED
      BY <3>1, <3>2, <3>3 DEF CallInv, Called
  <2>2. CASE CallDone
    BY <2>2 DEF CallDone, callVars, CallInv, Called
  <2>3. CASE UNCHANGED callVars
    BY <2>3 DEF callVars, CallInv, Called
  <2> QED
    BY <2>1, <2>2, <2>3 DEF CallNext
<1>3. CallInv => CallsAsSpecified
  BY CalledAsSpecified
<1> QED
  BY <1>1, <1>2, <1>3, PTL DEF CallSpec
=============================================================================
