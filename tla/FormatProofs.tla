---------------------------- MODULE FormatProofs ----------------------------
(***************************************************************************)
(* Proofs about printf(), for words and buffers of any size, any formats   *)
(* and arguments, and any number of calls that interrupt each other.       *)
(***************************************************************************)
EXTENDS Format, SequenceTheorems, NaturalsInduction, WellFoundedInduction, TLAPS

-----------------------------------------------------------------------------
(* The inductive invariant.  Nothing is said of what is pending and of      *)
(* widths: Stuff is whatever they are members of.                           *)

Phases == {"scan", "digits", "swap", "emit"}

NumberOver(Stuff) ==
  [kind : Kinds \cup {"none"}, v : Int, len : Nat, next : Nat, lowercase : BOOLEAN,
   width : Stuff, zero_pad : BOOLEAN]

FrameOver(Stuff) ==
  [call : Nat, p : Nat, arg : Nat, pending : Stuff, phase : Phases,
   number : NumberOver(Stuff)]

(* A frame is at a place of a call that was made, and its number fits.      *)
Within(f) ==
  /\ f.call \in DOMAIN calls
  /\ f.p \in 1 .. Len(fmt(f.call)) + 1
  /\ f.arg \in 1 .. Len(args(f.call)) + 1

Fits(n) == n.kind \in Kinds => n.len <= BufferSize[n.kind]

(* Whoever is about to write a digit has a place for it. *)
HasRoom(f) ==
  /\ f.phase # "scan" => f.number.kind \in Kinds
  /\ f.phase = "digits" => f.number.len < BufferSize[f.number.kind]

(* The digits it has written are still digits. *)
Intact(n) ==
  n.kind \in Kinds => \A d \in 0 .. n.len - 1 : buf[n.kind][d] \in DigitsOf(n.kind)

Good(f) == Within(f) /\ Fits(f.number) /\ HasRoom(f) /\ Intact(f.number)

Buffers ==
  /\ buf = [k \in Kinds |-> buf[k]]
  /\ \A k \in Kinds : buf[k] \in [0 .. BufferSize[k] - 1 -> DigitsOf(k) \cup {""}]

FormatInv ==
  /\ calls \in Seq(Calls \cup Nested)
  /\ \E Stuff : frames \in Seq(FrameOver(Stuff))
  /\ \A i \in DOMAIN frames : Good(frames[i])
  /\ Buffers

-----------------------------------------------------------------------------
(* The calls. *)

(* A call that was made has a format and arguments. *)
LEMMA CallIs ==
  ASSUME calls \in Seq(Calls \cup Nested), NEW n \in DOMAIN calls
  PROVE  /\ fmt(n) \in Seq(STRING) /\ Len(fmt(n)) \in Nat
         /\ DOMAIN fmt(n) = 1 .. Len(fmt(n))
         /\ Len(args(n)) \in Nat /\ DOMAIN args(n) = 1 .. Len(args(n))
         /\ \A i \in DOMAIN args(n) :
              /\ args(n)[i].type \in ArgumentTypes
              /\ args(n)[i].type \in {"int", "ptr"} => args(n)[i].v \in Int
<1>1. calls[n] \in Calls \cup Nested
  OBVIOUS
<1>2. fmt(n) \in Seq(STRING) /\ args(n) \in Seq(Range(args(n)))
  BY <1>1, CallsAssumption DEF fmt, args
<1>3. \A i \in DOMAIN args(n) :
        /\ args(n)[i].type \in ArgumentTypes
        /\ args(n)[i].type \in {"int", "ptr"} => args(n)[i].v \in Int
  BY <1>1, CallsAssumption DEF args
<1>4. Len(fmt(n)) \in Nat /\ DOMAIN fmt(n) = 1 .. Len(fmt(n))
  BY <1>2, LenProperties
<1>5. Len(args(n)) \in Nat /\ DOMAIN args(n) = 1 .. Len(args(n))
  BY <1>2, LenProperties
<1> QED
  BY <1>2, <1>3, <1>4, <1>5

(* The executing call is the last of the frames. *)
LEMMA TopIs ==
  ASSUME FormatInv, frames # <<>>
  PROVE  /\ Len(frames) \in Nat \ {0} /\ DOMAIN frames = 1 .. Len(frames)
         /\ Good(Top)
         /\ \E Stuff : frames \in Seq(FrameOver(Stuff)) /\ Top \in FrameOver(Stuff)
<1> PICK Stuff : frames \in Seq(FrameOver(Stuff))
  BY DEF FormatInv
<1>1. Len(frames) \in Nat /\ DOMAIN frames = 1 .. Len(frames)
  BY LenProperties
<1>2. Len(frames) # 0
  BY EmptySeq
<1>3. Len(frames) \in DOMAIN frames
  BY <1>1, <1>2
<1>4. Top \in FrameOver(Stuff)
  BY <1>3 DEF Top
<1>5. Good(Top)
  BY <1>3 DEF Top, FormatInv
<1> QED
  BY <1>1, <1>2, <1>4, <1>5

(* More stuff does no harm. *)
LEMMA MoreStuff ==
  ASSUME NEW S, NEW T, S \subseteq T
  PROVE  FrameOver(S) \subseteq FrameOver(T)
BY DEF FrameOver, NumberOver

(* What a change of the buffers must leave: digits where there were digits. *)
KeepsDigits ==
  \A k \in Kinds : \A d \in 0 .. BufferSize[k] - 1 :
    buf[k][d] \in DigitsOf(k) => buf'[k][d] \in DigitsOf(k)

LEMMA StaysIntact ==
  ASSUME KeepsDigits, NEW Stuff, NEW n \in NumberOver(Stuff), Fits(n), Intact(n)
  PROVE  Intact(n)'
<1> SUFFICES ASSUME n.kind \in Kinds, NEW d \in 0 .. n.len - 1
             PROVE  buf'[n.kind][d] \in DigitsOf(n.kind)
  BY DEF Intact
<1>1. n.len \in Nat /\ n.len <= BufferSize[n.kind] /\ BufferSize[n.kind] \in Nat
  BY BufferAssumption DEF NumberOver, Fits
<1>2. d \in 0 .. BufferSize[n.kind] - 1
  BY <1>1
<1>3. buf[n.kind][d] \in DigitsOf(n.kind)
  BY DEF Intact
<1> QED
  BY <1>2, <1>3 DEF KeepsDigits

(* A step that replaces the top frame by a good one. *)
LEMMA TopStep ==
  ASSUME FormatInv, frames # <<>>, calls' = calls, NEW f, Continue(f),
         \A S : Top \in FrameOver(S) => \E T : f \in FrameOver(T),
         Within(f), Fits(f.number), HasRoom(f), Intact(f.number)',
         KeepsDigits, Buffers'
  PROVE  FormatInv'
<1>1. /\ Len(frames) \in Nat \ {0} /\ DOMAIN frames = 1 .. Len(frames)
  BY TopIs
<1>2. PICK S : frames \in Seq(FrameOver(S)) /\ Top \in FrameOver(S)
  BY TopIs
<1>3. PICK T : f \in FrameOver(T)
  BY <1>2
<1>4. frames \in Seq(FrameOver(S \cup T)) /\ f \in FrameOver(S \cup T)
  <2>1. FrameOver(S) \subseteq FrameOver(S \cup T) /\ FrameOver(T) \subseteq FrameOver(S \cup T)
    BY MoreStuff
  <2> QED
    BY <1>2, <1>3, <2>1, SeqMonotonic
<1>5. frames' \in Seq(FrameOver(S \cup T))
  BY <1>1, <1>4, ExceptSeq DEF Continue
<1>6. DOMAIN frames' = DOMAIN frames
  BY DEF Continue
<1>7. \A i \in DOMAIN frames : frames'[i] = IF i = Len(frames) THEN f ELSE frames[i]
  BY <1>1 DEF Continue
<1>8. ASSUME NEW i \in DOMAIN frames PROVE Good(frames[i])'
  <2>1. PICK g : g = frames'[i]
    OBVIOUS
  <2>2. CASE i = Len(frames)
    <3>1. g = f
      BY <1>7, <2>1, <2>2
    <3>2. Good(g)'
      BY <3>1 DEF Good, Within, Fits, HasRoom, fmt, args
    <3> QED
      BY <2>1, <3>2
  <2>3. CASE i # Len(frames)
    <3>1. g = frames[i]
      BY <1>7, <2>1, <2>3
    <3>2. Good(g) /\ g \in FrameOver(S)
      BY <1>2, <3>1 DEF FormatInv
    <3>3. g.number \in NumberOver(S)
      BY <3>2 DEF FrameOver
    <3>4. Intact(g.number)'
      BY <3>2, <3>3, StaysIntact DEF Good
    <3>5. Good(g)'
      BY <3>2, <3>4 DEF Good, Within, Fits, HasRoom, fmt, args
    <3> QED
      BY <2>1, <3>5
  <2> QED
    BY <2>2, <2>3
<1>9. calls' \in Seq(Calls \cup Nested)
  BY DEF FormatInv
<1> QED
  BY <1>5, <1>6, <1>8, <1>9 DEF FormatInv

(* The same for a step that leaves the buffers alone. *)
LEMMA QuietStep ==
  ASSUME FormatInv, frames # <<>>, UNCHANGED <<calls, buf>>, NEW f, Continue(f),
         \A S : Top \in FrameOver(S) => \E T : f \in FrameOver(T),
         Within(f), Fits(f.number), HasRoom(f), Intact(f.number)
  PROVE  FormatInv'
<1>1. KeepsDigits
  BY DEF KeepsDigits
<1>2. Buffers'
  BY DEF FormatInv, Buffers
<1>3. Intact(f.number)'
  BY DEF Intact
<1> QED
  BY <1>1, <1>2, <1>3, TopStep

-----------------------------------------------------------------------------
(* Each step keeps the invariant.  First those of the loop over the format. *)

LEMMA PutKeeps == FormatInv /\ Put => FormatInv'
<1> SUFFICES ASSUME FormatInv, Put PROVE FormatInv'
  OBVIOUS
<1>0. frames # <<>> /\ Good(Top)
  BY TopIs DEF Put
<1>1. PICK f : f = [Top EXCEPT !.pending = Tail(@)]
  OBVIOUS
<1>2. Continue(f) /\ UNCHANGED <<calls, buf>>
  BY <1>1 DEF Put
<1>3. ASSUME NEW S, Top \in FrameOver(S) PROVE \E T : f \in FrameOver(T)
  <2>1. f \in FrameOver(S \cup {Tail(Top.pending)})
    BY <1>1, <1>3 DEF FrameOver, NumberOver
  <2> QED
    BY <2>1
<1>4. PICK S : Top \in FrameOver(S)
  BY <1>0, TopIs
<1>5. /\ f.call = Top.call /\ f.p = Top.p /\ f.arg = Top.arg
      /\ f.phase = Top.phase /\ f.number = Top.number
  BY <1>1, <1>4 DEF FrameOver
<1>6. Within(f) /\ Fits(f.number) /\ HasRoom(f) /\ Intact(f.number)
  BY <1>0, <1>5 DEF Good, Within, HasRoom
<1> QED
  BY <1>0, <1>2, <1>3, <1>6, QuietStep

(* A character or an escaped brace: p moves on, by no more than there is.   *)
LEMMA MovesOn ==
  ASSUME FormatInv, frames # <<>>, UNCHANGED <<calls, buf>>, NEW x, NEW n \in Nat,
         Continue([Top EXCEPT !.p = @ + n, !.pending = x]),
         Top.p + n <= Len(fmt(Top.call)) + 1
  PROVE  FormatInv'
<1>0. Good(Top)
  BY TopIs
<1>1. PICK f : f = [Top EXCEPT !.p = @ + n, !.pending = x]
  OBVIOUS
<1>2. Continue(f)
  BY <1>1
<1>3. ASSUME NEW S, Top \in FrameOver(S) PROVE \E T : f \in FrameOver(T)
  <2>1. Top \in FrameOver(S \cup {x})
    BY <1>3, MoreStuff
  <2>2. x \in S \cup {x} /\ Top.p + n \in Nat
    BY <1>3 DEF FrameOver
  <2>3. f \in FrameOver(S \cup {x})
    BY <1>1, <2>1, <2>2 DEF FrameOver
  <2> QED
    BY <2>3
<1>4. PICK S : Top \in FrameOver(S)
  BY TopIs
<1>5. /\ f.call = Top.call /\ f.p = Top.p + n /\ f.arg = Top.arg
      /\ f.phase = Top.phase /\ f.number = Top.number
  BY <1>1, <1>4 DEF FrameOver
<1>6. Within(f)
  <2>1. Within(Top)
    BY <1>0 DEF Good
  <2>2. Len(fmt(Top.call)) \in Nat
    BY <2>1, CallIs DEF Within, FormatInv
  <2> QED
    BY <1>5, <2>1, <2>2 DEF Within
<1>7. Fits(f.number) /\ HasRoom(f) /\ Intact(f.number)
  BY <1>0, <1>5 DEF Good, HasRoom
<1> QED
  BY <1>2, <1>3, <1>6, <1>7, QuietStep

(* Where there is a character, the format has not ended. *)
LEMMA CharIs ==
  ASSUME NEW s \in Seq(STRING), NEW i \in Int, Char(s, i) # ""
  PROVE  i \in 1 .. Len(s)
<1>1. DOMAIN s = 1 .. Len(s)
  BY LenProperties
<1> QED
  BY <1>1 DEF Char

LEMMA CharacterKeeps == FormatInv /\ ScanCharacter => FormatInv'
<1> SUFFICES ASSUME FormatInv, ScanCharacter PROVE FormatInv'
  OBVIOUS
<1>0. frames # <<>> /\ Good(Top) /\ Within(Top)
  BY TopIs DEF ScanCharacter, At, Good
<1>1. /\ Continue([Top EXCEPT !.p = @ + 1, !.pending = Lines(Next1)])
      /\ UNCHANGED <<calls, buf>> /\ Char(fmt(Top.call), Top.p) # ""
  BY DEF ScanCharacter, Next1
<1>2. fmt(Top.call) \in Seq(STRING) /\ Len(fmt(Top.call)) \in Nat
  BY <1>0, CallIs DEF Within, FormatInv
<1>3. PICK q \in Int : q = Top.p
  BY <1>0, <1>2 DEF Within
<1>4. q \in 1 .. Len(fmt(Top.call))
  BY <1>1, <1>2, <1>3, CharIs
<1>5. Top.p + 1 <= Len(fmt(Top.call)) + 1
  BY <1>2, <1>3, <1>4
<1> QED
  BY <1>0, <1>1, <1>5, MovesOn

LEMMA BraceKeeps == FormatInv /\ ScanBrace => FormatInv'
<1> SUFFICES ASSUME FormatInv, ScanBrace PROVE FormatInv'
  OBVIOUS
<1>0. frames # <<>> /\ Good(Top) /\ Within(Top)
  BY TopIs DEF ScanBrace, At, Good
<1>1. /\ Continue([Top EXCEPT !.p = @ + 2, !.pending = <<"{">>])
      /\ UNCHANGED <<calls, buf>> /\ Char(fmt(Top.call), Top.p + 1) # ""
  BY DEF ScanBrace, Next2
<1>2. fmt(Top.call) \in Seq(STRING) /\ Len(fmt(Top.call)) \in Nat
  BY <1>0, CallIs DEF Within, FormatInv
<1>3. PICK q \in Int : q = Top.p + 1
  BY <1>0, <1>2 DEF Within
<1>4. q \in 1 .. Len(fmt(Top.call))
  BY <1>1, <1>2, <1>3, CharIs
<1>5. Top.p + 2 <= Len(fmt(Top.call)) + 1
  BY <1>0, <1>2, <1>3, <1>4 DEF Within
<1> QED
  BY <1>0, <1>1, <1>5, MovesOn

-----------------------------------------------------------------------------
(* A placeholder ends within the format. *)

(* A set of numbers that is not empty has a least one. *)
LEMMA Least ==
  ASSUME NEW T \in SUBSET Nat, T # {}
  PROVE  \E m \in T : \A k \in T : m <= k
<1>1. PICK m \in T : \A k \in T : ~(<<k, m>> \in OpToRel(<, Nat))
  BY NatLessThanWellFounded, WFMin
<1>2. ASSUME NEW k \in T PROVE m <= k
  <2>1. ~(<<k, m>> \in {ss \in Nat \X Nat : ss[1] < ss[2]})
    BY <1>1 DEF OpToRel
  <2>2. ~(k < m)
    BY <2>1
  <2> QED
    BY <2>2
<1> QED
  BY <1>2

(* i is where the placeholder that starts before j ends in s. *)
Closes(c) == c \in {"}", ""}
EndOf(s, j, i) ==
  /\ Closes(Char(s, i))
  /\ \A k \in j .. i - 1 : s[k] # "}"

LEMMA EndExists ==
  ASSUME NEW s \in Seq(STRING), NEW n \in Nat, n = Len(s), NEW j \in 1 .. n + 1
  PROVE  \E i \in j .. n + 1 : EndOf(s, j, i)
<1> DEFINE T == {i \in j .. n + 1 : Closes(Char(s, i))}
<1>0. DOMAIN s = 1 .. n
  BY LenProperties
<1>1. n + 1 \in T
  <2>1. n + 1 \notin DOMAIN s
    BY <1>0
  <2>2. Closes(Char(s, n + 1))
    BY <2>1, Zenon DEF Closes, Char
  <2> QED
    BY <2>2
<1>2. T \in SUBSET Nat
  OBVIOUS
<1>3. PICK m \in T : \A k \in T : m <= k
  <2> HIDE DEF T
  <2> QED
    BY <1>1, <1>2, Least
<1>4. ASSUME NEW k \in j .. m - 1 PROVE s[k] # "}"
  <2>0. m \in j .. n + 1
    BY <1>3
  <2>1. k \in j .. n + 1 /\ k \in 1 .. n /\ ~(m <= k)
    BY <2>0
  <2>2. ~Closes(Char(s, k))
    BY <1>3, <2>1
  <2>3. Char(s, k) = s[k]
    BY <1>0, <2>1 DEF Char
  <2> QED
    BY <2>2, <2>3, Zenon DEF Closes
<1>5. m \in j .. n + 1 /\ Closes(Char(s, m))
  BY <1>3
<1>6. EndOf(s, j, m)
  BY <1>4, <1>5, Zenon DEF EndOf
<1> QED
  BY <1>5, <1>6

LEMMA SpecEndIs ==
  ASSUME FormatInv, frames # <<>>, Top.p \in 1 .. Len(fmt(Top.call))
  PROVE  SpecEnd \in Top.p + 1 .. Len(fmt(Top.call)) + 1
<1>1. Within(Top)
  BY TopIs DEF Good
<1>2. PICK s : s = fmt(Top.call)
  OBVIOUS
<1>3. s \in Seq(STRING) /\ Len(s) \in Nat
  BY <1>1, <1>2, CallIs DEF Within, FormatInv
<1>4. PICK n \in Nat : n = Len(s)
  BY <1>3
<1>5. PICK j \in Nat : j = Top.p + 1
  BY <1>2, <1>4
<1>6. j \in 1 .. n + 1
  BY <1>2, <1>4, <1>5
<1>7. \E i \in j .. n + 1 : EndOf(s, j, i)
  BY <1>3, <1>4, <1>6, EndExists
<1>8. (CHOOSE i \in j .. n + 1 : EndOf(s, j, i)) \in j .. n + 1
  BY <1>7, Zenon
<1>9. SpecEnd = CHOOSE i \in j .. n + 1 : EndOf(s, j, i)
  BY <1>2, <1>4, <1>5, Zenon DEF SpecEnd, EndOf, Closes
<1> QED
  BY <1>2, <1>4, <1>5, <1>8, <1>9

LEMMA AfterSpecIs ==
  ASSUME FormatInv, frames # <<>>, Top.p \in 1 .. Len(fmt(Top.call))
  PROVE  AfterSpec \in 1 .. Len(fmt(Top.call)) + 1
<1>1. Within(Top)
  BY TopIs DEF Good
<1>2. Len(fmt(Top.call)) \in Nat
  BY <1>1, CallIs DEF Within, FormatInv
<1>3. SpecEnd \in Top.p + 1 .. Len(fmt(Top.call)) + 1
  BY SpecEndIs
<1> QED
  BY <1>2, <1>3 DEF AfterSpec

(* An argument is used: what it puts is pending. *)
LEMMA ArgumentUsed ==
  ASSUME FormatInv, frames # <<>>, UNCHANGED <<calls, buf>>, ArgsLeft, NEW x,
         NEW q \in 1 .. Len(fmt(Top.call)) + 1,
         Continue([[Top EXCEPT !.p = q, !.arg = @ + 1] EXCEPT !.pending = x])
  PROVE  FormatInv'
<1>0. Good(Top) /\ Within(Top)
  BY TopIs DEF Good
<1>1. Len(fmt(Top.call)) \in Nat /\ Len(args(Top.call)) \in Nat
  BY <1>0, CallIs DEF Within, FormatInv
<1>2. PICK e : e = [Top EXCEPT !.p = q, !.arg = @ + 1]
  OBVIOUS
<1>3. PICK f : f = [e EXCEPT !.pending = x]
  OBVIOUS
<1>4. Continue(f)
  BY <1>2, <1>3
<1>5. ASSUME NEW S, Top \in FrameOver(S) PROVE f \in FrameOver(S \cup {x})
  <2>1. Top \in FrameOver(S \cup {x})
    BY <1>5, MoreStuff
  <2>2. q \in Nat /\ Top.arg + 1 \in Nat
    BY <1>0, <1>1 DEF Within
  <2>3. e \in FrameOver(S \cup {x})
    BY <1>2, <2>1, <2>2 DEF FrameOver
  <2> QED
    BY <1>3, <2>3 DEF FrameOver
<1>6. PICK S : Top \in FrameOver(S)
  BY TopIs
<1>7. /\ f.call = Top.call /\ f.p = q /\ f.arg = Top.arg + 1
      /\ f.phase = Top.phase /\ f.number = Top.number
  BY <1>2, <1>3, <1>6 DEF FrameOver
<1>8. Within(f)
  BY <1>0, <1>1, <1>7 DEF Within, ArgsLeft
<1>9. Fits(f.number) /\ HasRoom(f) /\ Intact(f.number)
  BY <1>0, <1>7 DEF Good, HasRoom
<1> QED
  BY <1>4, <1>5, <1>8, <1>9, QuietStep

(* An argument is used: it is a number, of which no digit is written yet.   *)
LEMMA NumberStarts ==
  ASSUME FormatInv, frames # <<>>, UNCHANGED <<calls, buf>>, ArgsLeft, NEW x,
         NEW q \in 1 .. Len(fmt(Top.call)) + 1,
         NEW W, NEW n \in NumberOver(W), n.kind \in Kinds, n.len = 0,
         Continue([[Top EXCEPT !.p = q, !.arg = @ + 1]
                     EXCEPT !.phase = "digits", !.pending = x, !.number = n])
  PROVE  FormatInv'
<1>0. Good(Top) /\ Within(Top)
  BY TopIs DEF Good
<1>1. Len(fmt(Top.call)) \in Nat /\ Len(args(Top.call)) \in Nat
  BY <1>0, CallIs DEF Within, FormatInv
<1>2. PICK e : e = [Top EXCEPT !.p = q, !.arg = @ + 1]
  OBVIOUS
<1>3. PICK f : f = [e EXCEPT !.phase = "digits", !.pending = x, !.number = n]
  OBVIOUS
<1>4. Continue(f)
  BY <1>2, <1>3
<1>5. ASSUME NEW S, Top \in FrameOver(S) PROVE f \in FrameOver(S \cup W \cup {x})
  <2>1. Top \in FrameOver(S \cup W \cup {x})
    BY <1>5, MoreStuff
  <2>2. q \in Nat /\ Top.arg + 1 \in Nat
    BY <1>0, <1>1 DEF Within
  <2>3. e \in FrameOver(S \cup W \cup {x})
    BY <1>2, <2>1, <2>2 DEF FrameOver
  <2>4. n \in NumberOver(S \cup W \cup {x})
    BY DEF NumberOver
  <2> QED
    BY <1>3, <2>3, <2>4 DEF FrameOver, Phases
<1>6. PICK S : Top \in FrameOver(S)
  BY TopIs
<1>7. /\ f.call = Top.call /\ f.p = q /\ f.arg = Top.arg + 1
      /\ f.phase = "digits" /\ f.number = n
  BY <1>2, <1>3, <1>6 DEF FrameOver
<1>8. Within(f)
  BY <1>0, <1>1, <1>7 DEF Within, ArgsLeft
<1>9. Fits(f.number) /\ HasRoom(f) /\ Intact(f.number)
  <2>1. BufferSize[n.kind] \in Nat \ {0}
    BY BufferAssumption
  <2> QED
    BY <1>7, <2>1 DEF Fits, HasRoom, Intact
<1> QED
  BY <1>4, <1>5, <1>8, <1>9, QuietStep

(* route() makes a number of a word. *)
LEMMA NumberIs ==
  ASSUME NEW kind \in Kinds, NEW v \in Int, NEW fs, fs.zero_pad \in BOOLEAN
  PROVE  /\ Number(kind, v, fs) \in NumberOver({fs.width})
         /\ Number(kind, v, fs).kind = kind /\ Number(kind, v, fs).len = 0
<1>1. Word(v) \in Int
  BY BufferAssumption DEF Word
<1>2. (fs.type = "x") \in BOOLEAN
  OBVIOUS
<1> QED
  BY <1>1, <1>2 DEF Number, NumberOver

LEMMA KindIs ==
  ASSUME NEW a, NEW fs
  PROVE  KindOf(a, fs) \in Kinds
BY DEF KindOf, Kinds

LEMMA ParseIs ==
  ASSUME NEW s, NEW t
  PROVE  [parse_spec(s) EXCEPT !.type = t].zero_pad \in BOOLEAN
<1>1. PICK f : f = parse_spec(s)
  OBVIOUS
<1>2. f.zero_pad \in BOOLEAN
  BY <1>1 DEF parse_spec
<1>3. [f EXCEPT !.type = t].zero_pad = f.zero_pad
  <2>1. "zero_pad" \in DOMAIN f
    BY <1>1 DEF parse_spec
  <2> QED
    BY <2>1
<1> QED
  BY <1>1, <1>2, <1>3

LEMMA PlaceholderKeeps == FormatInv /\ ScanPlaceholder => FormatInv'
<1> SUFFICES ASSUME FormatInv, ScanPlaceholder PROVE FormatInv'
  OBVIOUS
<1>0. /\ frames # <<>> /\ ArgsLeft /\ UNCHANGED <<calls, buf>>
      /\ Char(fmt(Top.call), Top.p) = "{"
  BY DEF ScanPlaceholder, At, Next1
<1>1. Within(Top)
  BY <1>0, TopIs DEF Good
<1>2. fmt(Top.call) \in Seq(STRING) /\ Len(fmt(Top.call)) \in Nat
  BY <1>1, CallIs DEF Within, FormatInv
<1>3. Top.p \in 1 .. Len(fmt(Top.call))
  <2>1. PICK q \in Int : q = Top.p
    BY <1>1, <1>2 DEF Within
  <2>2. Char(fmt(Top.call), q) # ""
    BY <1>0, <2>1, Zenon
  <2>3. q \in 1 .. Len(fmt(Top.call))
    BY <1>2, <2>2, CharIs
  <2> QED
    BY <2>1, <2>3
<1>4. PICK q \in 1 .. Len(fmt(Top.call)) + 1 : q = AfterSpec
  BY <1>0, <1>3, AfterSpecIs
<1>5. PICK a : a = args(Top.call)[Top.arg]
  OBVIOUS
<1>6. a.type \in ArgumentTypes /\ (a.type \in {"int", "ptr"} => a.v \in Int)
  <2>1. /\ Len(args(Top.call)) \in Nat /\ DOMAIN args(Top.call) = 1 .. Len(args(Top.call))
        /\ \A i \in DOMAIN args(Top.call) :
             /\ args(Top.call)[i].type \in ArgumentTypes
             /\ args(Top.call)[i].type \in {"int", "ptr"} => args(Top.call)[i].v \in Int
    BY <1>1, CallIs DEF Within, FormatInv
  <2>2. Top.arg \in DOMAIN args(Top.call)
    <3>1. ArgsLeft
      BY <1>0
    <3> QED
      BY <1>1, <2>1, <3>1 DEF Within, ArgsLeft
  <2> QED
    BY <1>5, <2>1, <2>2
<1>7. PICK s : s = SubSeq(fmt(Top.call), Top.p + 1, SpecEnd - 1)
  OBVIOUS
<1>8. PICK e : e = [Top EXCEPT !.p = q, !.arg = @ + 1]
  OBVIOUS
<1>9. CASE a.type \in {"int", "ptr"}
  <2>1. PICK n : n = Number(KindOf(a, parse_spec(s)), a.v, [parse_spec(s) EXCEPT
                       !.type = IF a.type = "ptr" THEN "X" ELSE @])
    OBVIOUS
  <2>2. PICK g : g = [parse_spec(s) EXCEPT !.type = IF a.type = "ptr" THEN "X" ELSE @]
    OBVIOUS
  <2>3. g.zero_pad \in BOOLEAN
    BY <2>2, ParseIs
  <2>4. n = Number(KindOf(a, parse_spec(s)), a.v, g)
    BY <2>1, <2>2
  <2>5. n \in NumberOver({g.width}) /\ n.kind \in Kinds /\ n.len = 0
    BY <1>6, <1>9, <2>3, <2>4, NumberIs, KindIs
  <2>6. Continue([e EXCEPT !.phase = "digits", !.pending = Prefix(a, parse_spec(s)),
                           !.number = n])
    BY <1>4, <1>5, <1>7, <1>8, <1>9, <2>1, Zenon DEF ScanPlaceholder
  <2> QED
    BY <1>0, <1>8, <2>5, <2>6, NumberStarts
<1>10. CASE a.type \notin {"int", "ptr"}
  <2>1. \E x : Continue([e EXCEPT !.pending = x])
    <3>1. CASE a.type = "str"
      BY <1>4, <1>5, <1>8, <1>10, <3>1 DEF ScanPlaceholder
    <3>2. CASE a.type = "view"
      BY <1>4, <1>5, <1>8, <1>10, <3>2 DEF ScanPlaceholder
    <3>3. CASE a.type = "atomic"
      BY <1>4, <1>5, <1>8, <1>10, <3>3 DEF ScanPlaceholder
    <3>4. CASE a.type = "slice"
      BY <1>4, <1>5, <1>8, <1>10, <3>4 DEF ScanPlaceholder
    <3>5. CASE a.type = "pair"
      BY <1>4, <1>5, <1>8, <1>10, <3>5 DEF ScanPlaceholder
    <3>6. CASE a.type = "other"
      BY <1>4, <1>5, <1>8, <1>10, <3>6 DEF ScanPlaceholder
    <3> QED
      BY <1>6, <1>10, <3>1, <3>2, <3>3, <3>4, <3>5, <3>6 DEF ArgumentTypes
  <2> QED
    BY <1>0, <1>8, <2>1, ArgumentUsed
<1> QED
  BY <1>9, <1>10

(* A call returns: the frames below it are as they were. *)
LEMMA ReturnKeeps == FormatInv /\ Return => FormatInv'
<1> SUFFICES ASSUME FormatInv, Return PROVE FormatInv'
  OBVIOUS
<1>0. frames # <<>> /\ frames' = Front(frames) /\ UNCHANGED <<calls, buf>>
  BY DEF Return, At
<1>1. Len(frames) \in Nat \ {0} /\ DOMAIN frames = 1 .. Len(frames)
  BY <1>0, TopIs
<1>2. PICK S : frames \in Seq(FrameOver(S))
  BY DEF FormatInv
<1>3. frames' = SubSeq(frames, 1, Len(frames) - 1)
  BY <1>0 DEF Front
<1>4. /\ frames' \in Seq(FrameOver(S)) /\ Len(frames') = Len(frames) - 1
      /\ \A i \in 1 .. Len(frames) - 1 : frames'[i] = frames[i]
  <2> DEFINE R == FrameOver(S)
  <2> HIDE DEF R
  <2>1. frames \in Seq(R)
    BY <1>2 DEF R
  <2>2. frames' \in Seq(R) /\ Len(frames') = Len(frames) - 1
    BY <1>1, <1>3, <2>1
  <2>3. \A i \in 1 .. Len(frames) - 1 : frames'[i] = frames[i]
    BY <1>1, <1>3, <2>1
  <2> QED
    BY <2>2, <2>3 DEF R
<1>5. DOMAIN frames' = 1 .. Len(frames) - 1
  BY <1>4, LenProperties
<1>6. ASSUME NEW i \in DOMAIN frames' PROVE Good(frames[i])'
  <2>1. PICK g : g = frames'[i]
    OBVIOUS
  <2>2. i \in DOMAIN frames /\ g = frames[i]
    BY <1>1, <1>4, <1>5, <2>1
  <2>3. Good(g)
    BY <2>2 DEF FormatInv
  <2>4. Good(g)'
    BY <1>0, <2>3 DEF Good, Within, Fits, HasRoom, Intact, fmt, args
  <2> QED
    BY <2>1, <2>4
<1>7. Buffers'
  BY <1>0 DEF FormatInv, Buffers
<1> QED
  BY <1>0, <1>4, <1>6, <1>7 DEF FormatInv

(* A call starts at the beginning of its format. *)
LEMMA CallKeeps == FormatInv /\ Call => FormatInv'
<1> SUFFICES ASSUME FormatInv, Call PROVE FormatInv'
  OBVIOUS
<1>1. PICK c \in Calls \cup Nested : calls' = Append(calls, c)
  BY DEF Call
<1>2. PICK f : f = Frame(Len(calls) + 1)
  OBVIOUS
<1>3. frames' = Append(frames, f) /\ UNCHANGED buf
  BY <1>2 DEF Call
<1>4. PICK S : frames \in Seq(FrameOver(S))
  BY DEF FormatInv
<1>5. /\ calls \in Seq(Calls \cup Nested) /\ Len(calls) \in Nat
      /\ DOMAIN calls = 1 .. Len(calls)
      /\ Len(frames) \in Nat /\ DOMAIN frames = 1 .. Len(frames)
  BY <1>4, LenProperties DEF FormatInv
<1>6. /\ calls' \in Seq(Calls \cup Nested) /\ DOMAIN calls' = 1 .. Len(calls) + 1
      /\ \A n \in DOMAIN calls : calls'[n] = calls[n]
  BY <1>1, <1>5, AppendProperties
<1>7. f \in FrameOver(S \cup {<<>>, 0})
  <2>1. NoNumber \in NumberOver(S \cup {<<>>, 0})
    BY DEF NoNumber, NumberOver
  <2> QED
    BY <1>2, <1>5, <2>1 DEF Frame, FrameOver, Phases
<1>8. frames' \in Seq(FrameOver(S \cup {<<>>, 0}))
  <2>1. FrameOver(S) \subseteq FrameOver(S \cup {<<>>, 0})
    BY MoreStuff
  <2>2. frames \in Seq(FrameOver(S \cup {<<>>, 0}))
    BY <1>4, <2>1, SeqMonotonic
  <2> QED
    BY <1>3, <1>7, <2>2, AppendProperties
<1>9. /\ DOMAIN frames' = 1 .. Len(frames) + 1
      /\ \A i \in 1 .. Len(frames) : frames'[i] = frames[i]
      /\ frames'[Len(frames) + 1] = f
  <2>1. frames \in Seq(FrameOver(S) \cup {f}) /\ f \in FrameOver(S) \cup {f}
    BY <1>4, SeqMonotonic
  <2> QED
    BY <1>3, <1>5, <2>1, AppendProperties
<1>10. ASSUME NEW i \in DOMAIN frames' PROVE Good(frames[i])'
  <2>1. PICK g : g = frames'[i]
    OBVIOUS
  <2>2. CASE i = Len(frames) + 1
    <3>1. g = f
      BY <1>9, <2>1, <2>2
    <3>2. /\ g.call = Len(calls) + 1 /\ g.p = 1 /\ g.arg = 1 /\ g.phase = "scan"
          /\ g.number.kind = "none"
      BY <1>2, <3>1 DEF Frame, NoNumber
    <3>3. /\ Len(fmt(g.call))' \in Nat /\ Len(args(g.call))' \in Nat
          /\ g.call \in DOMAIN calls'
      <4>1. PICK m \in DOMAIN calls' : m = g.call
        BY <1>5, <1>6, <3>2
      <4>2. Len(fmt(m))' \in Nat /\ Len(args(m))' \in Nat
        <5>1. calls'[m] \in Calls \cup Nested
          BY <1>6
        <5>2. PICK k \in Calls \cup Nested : k = calls'[m]
          BY <5>1
        <5>3. k.fmt \in Seq(STRING) /\ k.args \in Seq(Range(k.args))
          BY CallsAssumption
        <5>4. Len(k.fmt) \in Nat /\ Len(k.args) \in Nat
          BY <5>3, LenProperties
        <5> QED
          BY <5>2, <5>4 DEF fmt, args
      <4> QED
        BY <4>1, <4>2
    <3>4. Within(g)'
      <4>1. PICK m : m = Len(fmt(g.call))'
        OBVIOUS
      <4>2. PICK n : n = Len(args(g.call))'
        OBVIOUS
      <4>3. 1 \in 1 .. m + 1 /\ 1 \in 1 .. n + 1
        BY <3>3, <4>1, <4>2
      <4> QED
        BY <3>2, <3>3, <4>1, <4>2, <4>3 DEF Within
    <3>5. Fits(g.number)' /\ HasRoom(g)' /\ Intact(g.number)'
      BY <3>2 DEF Fits, HasRoom, Intact, Kinds
    <3>6. Good(g)'
      BY <3>4, <3>5 DEF Good
    <3> QED
      BY <2>1, <3>6
  <2>3. CASE i # Len(frames) + 1
    <3>1. i \in DOMAIN frames /\ g = frames[i]
      BY <1>5, <1>9, <2>1, <2>3
    <3>2. Good(g)
      BY <3>1 DEF FormatInv
    <3>3. g.call \in DOMAIN calls'
      BY <1>5, <1>6, <3>2 DEF Good, Within
    <3>4. Within(g)'
      BY <1>6, <3>2, <3>3 DEF Good, Within, fmt, args
    <3>5. Good(g)'
      BY <1>3, <3>2, <3>4 DEF Good, Fits, HasRoom, Intact
    <3> QED
      BY <2>1, <3>5
  <2> QED
    BY <2>2, <2>3
<1>11. Buffers'
  BY <1>3 DEF FormatInv, Buffers
<1> QED
  BY <1>6, <1>8, <1>10, <1>11 DEF FormatInv

-----------------------------------------------------------------------------
(* Then those that turn a number into digits and put them. *)

(* Whoever is past the format, and has nothing pending, has a number. *)
LEMMA NumIs ==
  ASSUME FormatInv, NEW phase \in {"digits", "swap", "emit"}, At(phase)
  PROVE  /\ frames # <<>> /\ Good(Top) /\ Num.kind \in Kinds
         /\ Num.len \in Nat /\ Num.next \in Nat /\ Num.v \in Int
         /\ Num.lowercase \in BOOLEAN
         /\ BufferSize[Num.kind] \in Nat /\ Num.len <= BufferSize[Num.kind]
         /\ phase = "digits" => Num.len < BufferSize[Num.kind]
<1>0. frames # <<>> /\ Top.phase = phase
  BY DEF At
<1>1. Good(Top)
  BY <1>0, TopIs
<1>2. PICK S : Top \in FrameOver(S)
  BY <1>0, TopIs
<1>3. Num \in NumberOver(S)
  BY <1>2 DEF FrameOver, Num
<1>4. Num.kind \in Kinds
  BY <1>0, <1>1 DEF Good, HasRoom, Num
<1>5. BufferSize[Num.kind] \in Nat
  BY <1>4, BufferAssumption
<1>6. Num.len <= BufferSize[Num.kind]
  BY <1>1, <1>4 DEF Good, Fits, Num
<1>7. phase = "digits" => Num.len < BufferSize[Num.kind]
  BY <1>0, <1>1 DEF Good, HasRoom, Num
<1>8. Num.len \in Nat /\ Num.next \in Nat /\ Num.v \in Int /\ Num.lowercase \in BOOLEAN
  BY <1>3 DEF NumberOver
<1> QED
  BY <1>0, <1>1, <1>4, <1>5, <1>6, <1>7, <1>8

(* The number moves on, and the buffers stay as they are. *)
LEMMA NumberMovesOn ==
  ASSUME FormatInv, frames # <<>>, UNCHANGED <<calls, buf>>, NEW f, Continue(f),
         NEW W, NEW n \in NumberOver(W), NEW x, NEW phase \in Phases,
         f = [Top EXCEPT !.phase = phase, !.pending = x, !.number = n],
         n.kind = Num.kind => n.len = Num.len,
         n.kind # Num.kind => n.kind = "none",
         phase # "digits", phase # "scan" => n.kind \in Kinds
  PROVE  FormatInv'
<1>0. Good(Top)
  BY TopIs
<1>1. ASSUME NEW S, Top \in FrameOver(S) PROVE f \in FrameOver(S \cup W \cup {x})
  <2>1. Top \in FrameOver(S \cup W \cup {x})
    BY <1>1, MoreStuff
  <2>2. n \in NumberOver(S \cup W \cup {x})
    BY DEF NumberOver
  <2> QED
    BY <2>1, <2>2 DEF FrameOver
<1>2. PICK S : Top \in FrameOver(S)
  BY TopIs
<1>3. /\ f.call = Top.call /\ f.p = Top.p /\ f.arg = Top.arg
      /\ f.phase = phase /\ f.number = n
  BY <1>2 DEF FrameOver
<1>4. Within(f)
  BY <1>0, <1>3 DEF Good, Within
<1>5. Fits(n) /\ Intact(n)
  <2>1. CASE n.kind = Num.kind
    BY <1>0, <2>1 DEF Good, Fits, Intact, Num
  <2>2. CASE n.kind # Num.kind
    BY <2>2 DEF Fits, Intact, Kinds
  <2> QED
    BY <2>1, <2>2
<1>6. HasRoom(f)
  BY <1>3 DEF HasRoom
<1> QED
  BY <1>1, <1>3, <1>4, <1>5, <1>6, QuietStep

LEMMA PadKeeps == FormatInv /\ Pad => FormatInv'
<1> SUFFICES ASSUME FormatInv, Pad PROVE FormatInv'
  OBVIOUS
<1>1. At("swap") /\ UNCHANGED <<calls, buf>>
  BY DEF Pad
<1>2. frames # <<>> /\ Num.kind \in Kinds
  BY <1>1, NumIs
<1>3. PICK S : Top \in FrameOver(S)
  BY <1>2, TopIs
<1>4. Num \in NumberOver(S) /\ Top.number = Num
  BY <1>3 DEF FrameOver, Num
<1>5. PICK n : n = [Num EXCEPT !.next = 0]
  OBVIOUS
<1>6. n \in NumberOver(S) /\ n.kind = Num.kind /\ n.len = Num.len
  BY <1>4, <1>5 DEF NumberOver
<1>7. PICK x : x = Padding(Num.width, Num.len, Num.zero_pad)
  OBVIOUS
<1>8. PICK f : f = [Top EXCEPT !.phase = "emit", !.number.next = 0, !.pending = x]
  OBVIOUS
<1>9. Continue(f)
  BY <1>7, <1>8 DEF Pad
<1>10. f = [Top EXCEPT !.phase = "emit", !.pending = x, !.number = n]
  BY <1>3, <1>4, <1>5, <1>8 DEF FrameOver
<1> QED
  BY <1>1, <1>2, <1>6, <1>9, <1>10, NumberMovesOn DEF Phases

LEMMA PutDigitKeeps == FormatInv /\ PutDigit => FormatInv'
<1> SUFFICES ASSUME FormatInv, PutDigit PROVE FormatInv'
  OBVIOUS
<1>1. At("emit") /\ UNCHANGED <<calls, buf>> /\ Top.phase = "emit"
  BY DEF PutDigit, At
<1>2. frames # <<>> /\ Num.kind \in Kinds
  BY <1>1, NumIs
<1>3. PICK S : Top \in FrameOver(S)
  BY <1>2, TopIs
<1>4. Num \in NumberOver(S) /\ Top.number = Num
  BY <1>3 DEF FrameOver, Num
<1>5. PICK n : n = [Num EXCEPT !.next = @ + 1]
  OBVIOUS
<1>6. n \in NumberOver(S) /\ n.kind = Num.kind /\ n.len = Num.len
  BY <1>4, <1>5 DEF NumberOver
<1>7. PICK x : x = Top.pending
  OBVIOUS
<1>8. PICK f : f = [Top EXCEPT !.number.next = @ + 1]
  OBVIOUS
<1>9. Continue(f)
  BY <1>8 DEF PutDigit
<1>10. f = [Top EXCEPT !.phase = "emit", !.pending = x, !.number = n]
  BY <1>1, <1>3, <1>4, <1>5, <1>7, <1>8 DEF FrameOver
<1> QED
  BY <1>1, <1>2, <1>6, <1>9, <1>10, NumberMovesOn DEF Phases

LEMMA NumberDoneKeeps == FormatInv /\ NumberDone => FormatInv'
<1> SUFFICES ASSUME FormatInv, NumberDone PROVE FormatInv'
  OBVIOUS
<1>1. At("emit") /\ UNCHANGED <<calls, buf>>
  BY DEF NumberDone
<1>2. frames # <<>> /\ Num.kind \in Kinds
  BY <1>1, NumIs
<1>3. PICK S : Top \in FrameOver(S)
  BY <1>2, TopIs
<1>5. PICK n : n = NoNumber
  OBVIOUS
<1>6. n \in NumberOver({0}) /\ n.kind = "none" /\ n.kind # Num.kind
  BY <1>2, <1>5 DEF NoNumber, NumberOver, Kinds
<1>7. PICK x : x = Top.pending
  OBVIOUS
<1>8. PICK f : f = [Top EXCEPT !.phase = "scan", !.number = n]
  OBVIOUS
<1>9. Continue(f)
  BY <1>5, <1>8 DEF NumberDone
<1>10. f = [Top EXCEPT !.phase = "scan", !.pending = x, !.number = n]
  BY <1>3, <1>7, <1>8 DEF FrameOver
<1>11. PICK W : n \in NumberOver(W)
  BY <1>6
<1>12. PICK phase \in Phases : phase = "scan"
  BY DEF Phases
<1>13. phase # "digits" /\ (phase # "scan" => n.kind \in Kinds)
  BY <1>12
<1>14. (n.kind = Num.kind => n.len = Num.len) /\ (n.kind # Num.kind => n.kind = "none")
  BY <1>6
<1>15. f = [Top EXCEPT !.phase = phase, !.pending = x, !.number = n]
  BY <1>10, <1>12
<1> QED
  BY <1>1, <1>2, <1>9, <1>11, <1>13, <1>14, <1>15, NumberMovesOn

(* A digit of its base is what a step writes. *)
LEMMA DigitIs ==
  ASSUME NEW S, NEW n \in NumberOver(S), n.kind \in Kinds
  PROVE  /\ n.v \div Base(n.kind) \in Int
         /\ Digits(n)[(n.v % Base(n.kind)) + 1] \in DigitsOf(n.kind)
<1>1. PICK b : b = Base(n.kind)
  OBVIOUS
<1>2. b \in 1 .. 16
  BY <1>1 DEF Base, Kinds
<1>3. n.v \in Int
  BY DEF NumberOver
<1>4. PICK d \in 1 .. b : d = (n.v % b) + 1
  BY <1>2, <1>3
<1>5. Digits(n)[d] \in DigitsOf(n.kind)
  <2>1. CASE n.lowercase
    BY <1>1, <2>1 DEF Digits, DigitsOf
  <2>2. CASE ~n.lowercase
    BY <1>1, <2>2 DEF Digits, DigitsOf
  <2> QED
    BY <2>1, <2>2
<1> QED
  BY <1>1, <1>2, <1>3, <1>4, <1>5

LEMMA WriteDigitKeeps == FormatInv /\ WriteDigit => FormatInv'
<1> SUFFICES ASSUME FormatInv, WriteDigit PROVE FormatInv'
  OBVIOUS
<1>1. At("digits") /\ calls' = calls
  BY DEF WriteDigit
<1>2. /\ frames # <<>> /\ Good(Top) /\ Num.kind \in Kinds
      /\ Num.len \in Nat /\ BufferSize[Num.kind] \in Nat /\ Num.len < BufferSize[Num.kind]
  BY <1>1, NumIs
<1>3. PICK S : Top \in FrameOver(S)
  BY <1>2, TopIs
<1>4. Num \in NumberOver(S) /\ Top.number = Num
  BY <1>3 DEF FrameOver, Num
<1>5. PICK b : b = Base(Num.kind)
  OBVIOUS
<1>6. PICK n : n = [Num EXCEPT !.v = @ \div b, !.len = @ + 1]
  OBVIOUS
<1>7. n \in NumberOver(S) /\ n.kind = Num.kind /\ n.len = Num.len + 1
  <2>1. Num.v \div b \in Int /\ Num.len + 1 \in Nat
    BY <1>2, <1>4, <1>5, DigitIs
  <2> QED
    BY <1>4, <1>6, <2>1 DEF NumberOver
<1>8. PICK x \in DigitsOf(Num.kind) : x = Digits(Num)[(Num.v % b) + 1]
  BY <1>2, <1>4, <1>5, DigitIs
<1>9. PICK phase : phase = IF n.v # 0 /\ n.len < BufferSize[n.kind] THEN "digits" ELSE "swap"
  OBVIOUS
<1>10. /\ phase \in Phases /\ phase # "scan"
       /\ phase = "digits" => n.len < BufferSize[n.kind]
  BY <1>9 DEF Phases
<1>11. PICK f : f = [Top EXCEPT !.number = n, !.phase = phase]
  OBVIOUS
<1>12. Continue(f) /\ buf' = [buf EXCEPT ![Num.kind][Num.len] = x]
  BY <1>5, <1>6, <1>8, <1>9, <1>11 DEF WriteDigit
<1>13. ASSUME NEW R, Top \in FrameOver(R) PROVE f \in FrameOver(R \cup S)
  <2>1. Top \in FrameOver(R \cup S)
    BY <1>13, MoreStuff
  <2>2. n \in NumberOver(R \cup S)
    BY <1>7 DEF NumberOver
  <2> QED
    BY <1>10, <1>11, <2>1, <2>2 DEF FrameOver
<1>14. /\ f.call = Top.call /\ f.p = Top.p /\ f.arg = Top.arg
       /\ f.phase = phase /\ f.number = n
  BY <1>3, <1>11 DEF FrameOver
<1>15. Within(f)
  BY <1>2, <1>14 DEF Good, Within
<1>16. Fits(f.number) /\ HasRoom(f)
  BY <1>2, <1>7, <1>10, <1>14 DEF Fits, HasRoom
<1>17. /\ \A k \in Kinds \ {Num.kind} : buf'[k] = buf[k]
       /\ buf' = [k \in Kinds |-> buf'[k]]
       /\ buf'[Num.kind] = [buf[Num.kind] EXCEPT ![Num.len] = x]
  BY <1>2, <1>12 DEF FormatInv, Buffers
<1>18. Num.len \in 0 .. BufferSize[Num.kind] - 1
  BY <1>2
<1>19. /\ buf'[Num.kind][Num.len] = x
       /\ \A d \in 0 .. BufferSize[Num.kind] - 1 :
            d # Num.len => buf'[Num.kind][d] = buf[Num.kind][d]
  <2>1. buf[Num.kind] \in [0 .. BufferSize[Num.kind] - 1 -> DigitsOf(Num.kind) \cup {""}]
    BY <1>2 DEF FormatInv, Buffers
  <2> QED
    BY <1>17, <1>18, <2>1
<1>20. KeepsDigits
  <2> SUFFICES ASSUME NEW k \in Kinds, NEW d \in 0 .. BufferSize[k] - 1,
                      buf[k][d] \in DigitsOf(k)
               PROVE  buf'[k][d] \in DigitsOf(k)
    BY DEF KeepsDigits
  <2> QED
    BY <1>17, <1>19
<1>21. Buffers'
  <2>1. ASSUME NEW k \in Kinds
        PROVE  buf'[k] \in [0 .. BufferSize[k] - 1 -> DigitsOf(k) \cup {""}]
    <3>1. buf[k] \in [0 .. BufferSize[k] - 1 -> DigitsOf(k) \cup {""}]
      BY DEF FormatInv, Buffers
    <3>2. CASE k = Num.kind
      <4>1. x \in DigitsOf(k) \cup {""}
        BY <3>2
      <4>2. PICK D : D = DigitsOf(k) \cup {""}
        OBVIOUS
      <4> QED
        BY <1>17, <3>1, <3>2, <4>1, <4>2
    <3>3. CASE k # Num.kind
      BY <1>17, <3>1, <3>3
    <3> QED
      BY <3>2, <3>3
  <2> QED
    BY <1>17, <2>1 DEF Buffers
<1>22. Intact(n)'
  <2> SUFFICES ASSUME NEW d \in 0 .. n.len - 1
               PROVE  buf'[n.kind][d] \in DigitsOf(n.kind)
    BY DEF Intact
  <2>1. CASE d = Num.len
    BY <1>7, <1>19, <2>1
  <2>2. CASE d # Num.len
    <3>1. d \in 0 .. Num.len - 1 /\ d \in 0 .. BufferSize[Num.kind] - 1
      BY <1>2, <1>7, <2>2
    <3>2. buf[Num.kind][d] \in DigitsOf(Num.kind)
      BY <1>2, <3>1 DEF Good, Intact, Num
    <3> QED
      BY <1>2, <1>7, <1>20, <3>1, <3>2 DEF KeepsDigits
  <2> QED
    BY <2>1, <2>2
<1>23. Intact(f.number)'
  BY <1>14, <1>22
<1> QED
  BY <1>1, <1>2, <1>12, <1>13, <1>15, <1>16, <1>20, <1>21, <1>23, TopStep

LEMMA SwapKeeps == FormatInv /\ Swap => FormatInv'
<1> SUFFICES ASSUME FormatInv, Swap PROVE FormatInv'
  OBVIOUS
<1>1. At("swap") /\ calls' = calls /\ Num.next < Num.len \div 2 /\ Top.phase = "swap"
  BY DEF Swap, At
<1>2. /\ frames # <<>> /\ Good(Top) /\ Num.kind \in Kinds
      /\ Num.len \in Nat /\ Num.next \in Nat
      /\ BufferSize[Num.kind] \in Nat /\ Num.len <= BufferSize[Num.kind]
  BY <1>1, NumIs
<1>3. PICK S : Top \in FrameOver(S)
  BY <1>2, TopIs
<1>4. Num \in NumberOver(S) /\ Top.number = Num
  BY <1>3 DEF FrameOver, Num
<1>5. PICK n : n = [Num EXCEPT !.next = @ + 1]
  OBVIOUS
<1>6. n \in NumberOver(S) /\ n.kind = Num.kind /\ n.len = Num.len
  BY <1>4, <1>5 DEF NumberOver
<1>7. PICK f : f = [Top EXCEPT !.number.next = @ + 1]
  OBVIOUS
<1>8. Continue(f)
  BY <1>7 DEF Swap
<1>9. /\ f = [Top EXCEPT !.number = n] /\ f.call = Top.call /\ f.p = Top.p
      /\ f.arg = Top.arg /\ f.phase = "swap" /\ f.number = n
  BY <1>1, <1>3, <1>4, <1>5, <1>7 DEF FrameOver
<1>10. ASSUME NEW R, Top \in FrameOver(R) PROVE f \in FrameOver(R \cup S)
  <2>1. Top \in FrameOver(R \cup S)
    BY <1>10, MoreStuff
  <2>2. n \in NumberOver(R \cup S)
    BY <1>6 DEF NumberOver
  <2> QED
    BY <1>9, <2>1, <2>2 DEF FrameOver
<1>11. Within(f) /\ Fits(f.number) /\ HasRoom(f)
  BY <1>2, <1>6, <1>9 DEF Good, Within, Fits, HasRoom, Num
<1>12. PICK i \in 0 .. Num.len - 1 : i = Num.next
  BY <1>1, <1>2
<1>13. PICK j \in 0 .. Num.len - 1 : j = Num.len - 1 - Num.next
  BY <1>1, <1>2
<1>14. PICK b : b = buf[Num.kind]
  OBVIOUS
<1>15. buf' = [buf EXCEPT ![Num.kind] = [b EXCEPT ![i] = b[j], ![j] = b[i]]]
  BY <1>12, <1>13, <1>14 DEF Swap
<1>16. i \in 0 .. BufferSize[Num.kind] - 1 /\ j \in 0 .. BufferSize[Num.kind] - 1
  BY <1>2
<1>17. b \in [0 .. BufferSize[Num.kind] - 1 -> DigitsOf(Num.kind) \cup {""}]
  BY <1>2, <1>14 DEF FormatInv, Buffers
<1>18. b[i] \in DigitsOf(Num.kind) /\ b[j] \in DigitsOf(Num.kind)
  BY <1>2, <1>14 DEF Good, Intact, Num
<1>19. PICK c : c = [b EXCEPT ![i] = b[j], ![j] = b[i]]
  OBVIOUS
<1>20. /\ \A k \in Kinds \ {Num.kind} : buf'[k] = buf[k]
       /\ buf' = [k \in Kinds |-> buf'[k]]
       /\ buf'[Num.kind] = c
  BY <1>2, <1>15, <1>19 DEF FormatInv, Buffers
<1>21. c \in [0 .. BufferSize[Num.kind] - 1 -> DigitsOf(Num.kind) \cup {""}]
  BY <1>16, <1>17, <1>18, <1>19
<1>22. \A d \in 0 .. BufferSize[Num.kind] - 1 :
         b[d] \in DigitsOf(Num.kind) => c[d] \in DigitsOf(Num.kind)
  BY <1>16, <1>17, <1>18, <1>19
<1>23. KeepsDigits
  <2> SUFFICES ASSUME NEW k \in Kinds, NEW d \in 0 .. BufferSize[k] - 1,
                      buf[k][d] \in DigitsOf(k)
               PROVE  buf'[k][d] \in DigitsOf(k)
    BY DEF KeepsDigits
  <2> QED
    BY <1>14, <1>20, <1>22
<1>24. Buffers'
  <2>1. ASSUME NEW k \in Kinds
        PROVE  buf'[k] \in [0 .. BufferSize[k] - 1 -> DigitsOf(k) \cup {""}]
    <3>1. buf[k] \in [0 .. BufferSize[k] - 1 -> DigitsOf(k) \cup {""}]
      BY DEF FormatInv, Buffers
    <3> QED
      BY <1>20, <1>21, <3>1
  <2> QED
    BY <1>20, <2>1 DEF Buffers
<1>25. Fits(n) /\ Intact(n)
  BY <1>2, <1>6 DEF Good, Fits, Intact, Num
<1>26. Intact(f.number)'
  BY <1>6, <1>9, <1>23, <1>25, StaysIntact
<1> QED
  BY <1>1, <1>2, <1>8, <1>10, <1>11, <1>23, <1>24, <1>26, TopStep

-----------------------------------------------------------------------------
LEMMA FormatInitially == Init => FormatInv
<1> SUFFICES ASSUME Init PROVE FormatInv
  OBVIOUS
<1>1. calls = <<>> /\ frames = <<>>
  BY DEF Init
<1>2. calls \in Seq(Calls \cup Nested) /\ frames \in Seq(FrameOver({}))
  BY <1>1
<1>3. \A i \in DOMAIN frames : Good(frames[i])
  BY <1>1
<1>4. Buffers
  BY Zenon DEF Init, Buffers
<1> QED
  BY <1>2, <1>3, <1>4 DEF FormatInv

LEMMA FormatStep == FormatInv /\ [Next]_vars => FormatInv'
<1> SUFFICES ASSUME FormatInv, [Next]_vars PROVE FormatInv'
  OBVIOUS
<1>1. CASE Step
  BY <1>1, PutKeeps, CharacterKeeps, BraceKeeps, PlaceholderKeeps, ReturnKeeps,
     WriteDigitKeeps, SwapKeeps, PadKeeps, PutDigitKeeps, NumberDoneKeeps DEF Step
<1>2. CASE Call
  BY <1>2, CallKeeps
<1>3. CASE Idle \/ UNCHANGED vars
  <2>1. UNCHANGED <<calls, frames, buf>>
    BY <1>3 DEF Idle, vars
  <2>2. Buffers'
    BY <2>1 DEF FormatInv, Buffers
  <2>3. \A i \in DOMAIN frames : Good(frames[i])'
    BY <2>1 DEF FormatInv, Good, Within, Fits, HasRoom, Intact, fmt, args
  <2> QED
    BY <2>1, <2>2, <2>3 DEF FormatInv
<1> QED
  BY <1>1, <1>2, <1>3 DEF Next

(* Whatever is formatted, and whoever interrupts it, the invariant holds.   *)
THEOREM FormatInvariant == Spec => []FormatInv
<1> QED
  BY FormatInitially, FormatStep, PTL DEF Spec

(* printf() does not scan past the end of a format or of its arguments, and *)
(* writes no digit behind the end of a static buffer; and what it puts from *)
(* a static buffer are digits of the base, whichever calls that interrupted *)
(* it have written there meanwhile.                                         *)
THEOREM PrintfStaysInBounds == Spec => []StaysInBounds
<1>1. ASSUME FormatInv PROVE StaysInBounds
  <2> SUFFICES ASSUME NEW i \in DOMAIN frames, NEW n, n = frames[i].number
               PROVE  /\ frames[i].p <= Len(fmt(frames[i].call)) + 1
                      /\ frames[i].arg <= Len(args(frames[i].call)) + 1
                      /\ n.kind \in Kinds =>
                           /\ n.len <= BufferSize[n.kind]
                           /\ \A d \in 0 .. n.len - 1 : buf[n.kind][d] \in DigitsOf(n.kind)
    BY DEF StaysInBounds
  <2>1. Within(frames[i]) /\ Fits(n) /\ Intact(n)
    BY <1>1 DEF FormatInv, Good
  <2>2. Len(fmt(frames[i].call)) \in Nat /\ Len(args(frames[i].call)) \in Nat
    BY <1>1, <2>1, CallIs DEF FormatInv, Within
  <2>3. frames[i].p <= Len(fmt(frames[i].call)) + 1 /\ frames[i].arg <= Len(args(frames[i].call)) + 1
    BY <2>1, <2>2 DEF Within
  <2> QED
    BY <2>1, <2>3 DEF Fits, Intact
<1> QED
  BY <1>1, FormatInvariant, PTL
=============================================================================
