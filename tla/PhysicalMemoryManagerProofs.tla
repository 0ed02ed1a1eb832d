--------------------- MODULE PhysicalMemoryManagerProofs ---------------------
(***************************************************************************)
(* Proofs about the page allocator, for every memory map, every page size  *)
(* and every choice of the constants pmm.hh is compiled with.              *)
(***************************************************************************)
EXTENDS PhysicalMemoryManager, FiniteSetTheorems, SequenceTheorems, WellFoundedInduction, TLAPS

Frames == MinPhysical .. PhysTop - 1

(* f is a page the loop of addRegion() has linked for entry j. *)
LinkedFrom(f, j) ==
  /\ Contributes(memmap[j])
  /\ First(Clamped(memmap[j])) <= f /\ f < Limit(Clamped(memmap[j]))
  /\ mode = "addRegion" /\ j = entry - 1 => f < addr

(* Pages come from the entries passed so far, each from its own; hence no  *)
(* page is linked twice.                                                   *)
ManagedInv ==
  /\ managed \subseteq Frames
  /\ mode = "addRegion" =>
       /\ entry > 1 /\ Contributes(memmap[entry - 1])
       /\ region = Clamped(memmap[entry - 1]) /\ First(region) <= addr
  /\ \A f \in managed : \E j \in 1 .. entry - 1 : LinkedFrom(f, j)

(* The client holds a page under one address only, and the page a call to  *)
(* free() is about is one it holds, or one that is on the list.            *)
OwnedInv ==
  /\ \A p, q \in owned : Cell(p) = Cell(q) => p = q
  /\ Cells(owned) \cap withheld = {}
  /\ mode = "free" => addr \in owned \/ (DoubleFrees /\ addr \in managed \ withheld)

(* Where the cursors of the call in progress are on the list s. *)
Walk(s) ==
  /\ mode = "free" =>
       \/ it = Null /\ \A i \in 1 .. freePages : s[i] # FreedPage
       \/ \E k \in 1 .. freePages : it = s[k] /\ \A i \in 1 .. k - 1 : s[i] # FreedPage
  /\ mode = "reserve" =>
       \/ it = Null /\ \A i \in 1 .. freePages : s[i] # addr
       \/ \E k \in 1 .. freePages : /\ it = s[k] /\ \A i \in 1 .. k - 1 : s[i] # addr
                                    /\ prev = IF k = 1 THEN Null ELSE s[k - 1]
  /\ mode = "findTail" =>
       \/ it = Null /\ freePages = 0
       \/ \E k \in 1 .. freePages : it = s[k]

ListInv ==
  \E s \in [1 .. freePages -> Pages] :
    IsFreeList(s) /\ IsTail(s) /\ ListsTheFree(s) /\ Walk(s)

CountInv ==
  /\ totalPages = Cardinality(managed)
  /\ freePages = totalPages - Cardinality(owned) - Cardinality(withheld)

IInv == TypeOK /\ ManagedInv /\ OwnedInv /\ ListInv /\ CountInv

(* A page that was freed is known by its address in the HHDM; the check for *)
(* double frees compares pointers and misses a page known by the other one. *)
DoubleFreesVisible == HhdmOffset = 0 \/ ~DoubleFrees

-----------------------------------------------------------------------------
(* Addresses. *)

LEMMA RemainderBound ==
  ASSUME NEW a \in Nat
  PROVE  a % PageSize \in 0 .. a
<1>1. PageSize \in Nat /\ PageSize > 0
  BY ConstantsAssumption
<1>2. a % PageSize \in 0 .. PageSize - 1
  BY <1>1
<1>3. a % PageSize <= a
  BY <1>1, <1>2
<1> QED
  BY <1>2, <1>3

LEMMA RegionBounds ==
  ASSUME NEW r \in Region
  PROVE  First(r) \in Nat /\ Limit(r) \in Nat
<1>1. Add(r.base, r.length) \in Nat
  BY ConstantsAssumption DEF Add, Region, Pointer
<1>2. Add(r.base, PageSize - 1) \in Nat
  BY ConstantsAssumption DEF Add, Region, Pointer
<1> QED
  BY <1>1, <1>2, RemainderBound DEF First, Limit, AlignUp, AlignDown

LEMMA ClampedType ==
  ASSUME NEW e \in Entry
  PROVE  Clamped(e) \in Region
<1>1. EntryEnd(e) \in Pointer
  BY ConstantsAssumption DEF EntryEnd, Add, Entry, Pointer
<1>2. \A a, b \in Pointer : Sub(a, b) \in Pointer
  BY ConstantsAssumption DEF Sub, Pointer
<1>3. MinPhysical \in Pointer /\ e.base \in Pointer
  BY ConstantsAssumption DEF Entry, Pointer
<1> QED
  BY <1>1, <1>2, <1>3 DEF Clamped, Region

(* Both pointers to a frame are valid and lead to it. *)
LEMMA FrameFacts ==
  ASSUME NEW f \in Frames
  PROVE  /\ f \in Phys /\ Cell(f) = f /\ Cell(Virt(f)) = f
         /\ {f, Virt(f)} \subseteq Pointer \ {Null}
         /\ Mapped(Virt(f))
  BY ConstantsAssumption DEF Frames, Phys, Cell, Virt, Add, Pointer, Null, Mapped

LEMMA PageFacts ==
  ASSUME managed \subseteq Frames
  PROVE  /\ \A p \in Pages : Cell(p) \in managed /\ Cell(p) \in Phys /\ p \in Pointer \ {Null}
         /\ \A f \in managed : {f, Virt(f)} \subseteq Pages
  BY FrameFacts DEF Pages

LEMMA TypeFacts ==
  Null \in Pointer /\ Phys \subseteq Pointer
  BY ConstantsAssumption DEF Null, Pointer, Phys

LEMMA Finiteness ==
  ASSUME TypeOK, managed \subseteq Frames
  PROVE  IsFiniteSet(managed) /\ IsFiniteSet(owned) /\ IsFiniteSet(withheld)
<1>1. IsFiniteSet(Pointer) /\ Phys \subseteq Pointer
  BY ConstantsAssumption, FS_Interval DEF Pointer, Phys
<1>2. managed \subseteq Pointer /\ owned \subseteq Pointer /\ withheld \subseteq Pointer
  BY <1>1, PageFacts DEF TypeOK
<1> QED
  BY <1>1, <1>2, FS_Subset

-----------------------------------------------------------------------------
(* The list operations. *)

(* A list s of n pages after a page was linked, the first one was taken, or *)
(* the k-th one was unlinked.                                              *)
Pushed(s, n, page) ==
  [i \in 1 .. n + 1 |-> IF Fifo THEN IF i = n + 1 THEN page ELSE s[i]
                                ELSE IF i = 1 THEN page ELSE s[i - 1]]
Popped(s, n) == [i \in 1 .. n - 1 |-> s[i + 1]]
Unlinked(s, n, k) == [i \in 1 .. n - 1 |-> IF i < k THEN s[i] ELSE s[i + 1]]

(* Linking a page at either end of a list that does not have it. *)
LEMMA PushList ==
  ASSUME TypeOK, managed \subseteq Frames,
         mode \notin {"reserve", "findTail"},
         NEW s \in [1 .. freePages -> Pages], IsFreeList(s), IsTail(s),
         NEW page \in Pointer \ {Null}, Cell(page) \in Phys,
         Cell(page) \notin Listed(s),
         page \in Pages', Pages \subseteq Pages',
         Push(page), freePages' = freePages + 1
  PROVE  /\ next' \in [Phys -> Pointer] /\ {head', tail'} \subseteq Pointer
         /\ \E t \in [1 .. freePages' -> Pages'] :
              /\ IsFreeList(t)' /\ IsTail(t)'
              /\ Listed(t)' = Listed(s) \cup {Cell(page)}
              /\ t = Pushed(s, freePages, page)
<1>0. PICK n : n = freePages   \* a value, which priming leaves alone
  OBVIOUS
<1>1. n = freePages /\ n \in Nat /\ next \in [Phys -> Pointer] /\ {head, tail} \subseteq Pointer
  BY <1>0 DEF TypeOK
<1>2. \A i \in 1 .. n : /\ s[i] \in Pages /\ Cell(s[i]) \in Phys /\ s[i] # Null
                         /\ Cell(s[i]) # Cell(page)
  BY <1>1, PageFacts DEF Listed
<1>3. CASE ~Fifo
  <2> DEFINE t == [i \in 1 .. n + 1 |-> IF i = 1 THEN page ELSE s[i - 1]]
  <2>1. PushFront(page)
    BY <1>3 DEF Push
  <2>2. next' \in [Phys -> Pointer] /\ {head', tail'} \subseteq Pointer
    BY <2>1, <1>1 DEF PushFront
  <2>3. t \in [1 .. freePages' -> Pages']
    BY <1>1
  <2>4. \A i, j \in 1 .. n + 1 : Cell(t[i]) = Cell(t[j]) => i = j
    BY <1>1, <1>2 DEF IsFreeList, ListUpTo
  <2>5. head' = t[1]
    BY <2>1, <1>1 DEF PushFront
  <2>6. next'[Cell(page)] = head /\ \A i \in 1 .. n : next'[Cell(s[i])] = next[Cell(s[i])]
    BY <2>1, <1>1, <1>2 DEF PushFront
  <2>7. \A i \in 1 .. n + 1 : next'[Cell(t[i])] = IF i = n + 1 THEN Null ELSE t[i + 1]
    BY <2>6, <1>1 DEF IsFreeList, ListUpTo
  <2>8. IsFreeList(t)' /\ IsTail(t)'
    BY <2>4, <2>5, <2>7, <1>1, <1>3 DEF IsFreeList, ListUpTo, IsTail
  <2>9. {Cell(t[i]) : i \in 1 .. n + 1} = {Cell(s[i]) : i \in 1 .. n} \cup {Cell(page)}
    <3>1. \A i \in 1 .. n : i + 1 \in 1 .. n + 1 /\ t[i + 1] = s[i]
      BY <1>1
    <3>2. 1 \in 1 .. n + 1 /\ t[1] = page
      BY <1>1
    <3>3. \A i \in 1 .. n + 1 : i = 1 \/ (i - 1 \in 1 .. n /\ t[i] = s[i - 1])
      BY <1>1
    <3> HIDE DEF t
    <3> QED
      BY <3>1, <3>2, <3>3
  <2>10. Listed(t)' = Listed(s) \cup {Cell(page)}
    BY <1>1, <2>9 DEF Listed
  <2>11. t = Pushed(s, freePages, page)
    BY <1>1, <1>3 DEF Pushed
  <2> HIDE DEF t
  <2> QED
    BY <2>2, <2>3, <2>8, <2>10, <2>11
<1>4. CASE Fifo
  <2> DEFINE t == [i \in 1 .. n + 1 |-> IF i = n + 1 THEN page ELSE s[i]]
  <2>1. PushBack(page)
    BY <1>4 DEF Push
  <2>2. tail = IF n = 0 THEN Null ELSE s[n]
    BY <1>1, <1>4 DEF IsTail
  <2>3. next' \in [Phys -> Pointer] /\ {head', tail'} \subseteq Pointer
    BY <2>1, <1>1, TypeFacts DEF PushBack
  <2>4. t \in [1 .. freePages' -> Pages']
    BY <1>1
  <2>5. \A i, j \in 1 .. n + 1 : Cell(t[i]) = Cell(t[j]) => i = j
    BY <1>1, <1>2 DEF IsFreeList, ListUpTo
  <2>6. head' = t[1]
    BY <2>1, <2>2, <1>1, <1>2 DEF PushBack, IsFreeList, ListUpTo
  <2>7. /\ next'[Cell(page)] = Null
        /\ n > 0 => next'[Cell(s[n])] = page
        /\ \A i \in 1 .. n - 1 : next'[Cell(s[i])] = next[Cell(s[i])]
    <3>1. CASE n = 0
      BY <3>1, <2>1, <2>2, <1>1 DEF PushBack
    <3>2. CASE n > 0
      <4>1. tail = s[n] /\ tail # Null /\ Cell(tail) \in Phys /\ Cell(tail) # Cell(page)
        BY <3>2, <2>2, <1>1, <1>2
      <4>2. \A i \in 1 .. n - 1 : /\ Cell(s[i]) \in Phys /\ Cell(s[i]) # Cell(tail)
                                  /\ Cell(s[i]) # Cell(page)
        BY <4>1, <3>2, <1>1, <1>2 DEF IsFreeList, ListUpTo
      <4>3. next' = [next EXCEPT ![Cell(tail)] = page, ![Cell(page)] = Null]
        BY <4>1, <2>1 DEF PushBack
      <4> QED
        BY <4>1, <4>2, <4>3, <3>2, <1>1
    <3> QED
      BY <3>1, <3>2, <1>1
  <2>8. \A i \in 1 .. n + 1 : next'[Cell(t[i])] = IF i = n + 1 THEN Null ELSE t[i + 1]
    BY <2>7, <1>1 DEF IsFreeList, ListUpTo
  <2>9. IsFreeList(t)' /\ IsTail(t)'
    <3>1. freePages' = n + 1 /\ tail' = page /\ t[n + 1] = page
      BY <2>1, <1>1 DEF PushBack
    <3>2. IsTail(t)'
      BY <3>1, <1>1 DEF IsTail
    <3> HIDE DEF t
    <3>3. IsFreeList(t)'
      BY <3>1, <2>5, <2>6, <2>8, <1>1 DEF IsFreeList, ListUpTo
    <3> QED
      BY <3>2, <3>3
  <2>10. {Cell(t[i]) : i \in 1 .. n + 1} = {Cell(s[i]) : i \in 1 .. n} \cup {Cell(page)}
    <3>1. \A i \in 1 .. n : i \in 1 .. n + 1 /\ t[i] = s[i]
      BY <1>1
    <3>2. n + 1 \in 1 .. n + 1 /\ t[n + 1] = page
      BY <1>1
    <3>3. \A i \in 1 .. n + 1 : i = n + 1 \/ (i \in 1 .. n)
      BY <1>1
    <3> HIDE DEF t
    <3> QED
      BY <3>1, <3>2, <3>3
  <2>11. Listed(t)' = Listed(s) \cup {Cell(page)}
    BY <1>1, <2>10 DEF Listed
  <2>12. t = Pushed(s, freePages, page)
    BY <1>1, <1>4 DEF Pushed
  <2> HIDE DEF t
  <2> QED
    BY <2>3, <2>4, <2>9, <2>11, <2>12
<1>5. Fifo \in BOOLEAN
  BY ConstantsAssumption
<1> QED
  BY <1>3, <1>4, <1>5

(* Taking the page at the head.                                            *)
LEMMA PopList ==
  ASSUME TypeOK, managed \subseteq Frames,
         NEW s \in [1 .. freePages -> Pages], IsFreeList(s), IsTail(s),
         Allocate
  PROVE  /\ freePages' \in Nat /\ head \in Pages /\ {head', tail'} \subseteq Pointer
         /\ Cell(head) \in Listed(s)
         /\ \E t \in [1 .. freePages' -> Pages'] :
              /\ IsFreeList(t)' /\ IsTail(t)'
              /\ Listed(t)' = Listed(s) \ {Cell(head)}
              /\ t = Popped(s, freePages)
<1>0. PICK n : n = freePages
  OBVIOUS
<1> DEFINE t == [i \in 1 .. n - 1 |-> s[i + 1]]
<1>1. /\ n = freePages /\ n \in Nat /\ next \in [Phys -> Pointer]
      /\ {head, tail} \subseteq Pointer
  BY <1>0 DEF TypeOK
<1>2. \A i \in 1 .. n : s[i] \in Pages /\ Cell(s[i]) \in Phys /\ s[i] \in Pointer \ {Null}
  BY <1>1, PageFacts
<1>3. /\ head # Null /\ head' = next[Cell(head)] /\ freePages' = n - 1
      /\ next' = next /\ Pages' = Pages /\ mode = "idle" /\ mode' = "idle"
      /\ tail' = IF Fifo /\ head' = Null THEN Null ELSE tail
  BY <1>1 DEF Allocate, Pages
<1>4. n > 0 /\ head = s[1] /\ 1 \in 1 .. n
  BY <1>1, <1>3 DEF IsFreeList, ListUpTo
<1>5. head' = IF n = 1 THEN Null ELSE s[2]
  BY <1>1, <1>3, <1>4 DEF IsFreeList, ListUpTo
<1>6. t \in [1 .. freePages' -> Pages']
  BY <1>1, <1>2, <1>3, <1>4
<1>7. \A i \in 1 .. n - 1 : i + 1 \in 1 .. n /\ t[i] = s[i + 1]
  BY <1>1
<1>8. IsFreeList(t)'
  <2>1. \A i, j \in 1 .. n - 1 : Cell(t[i]) = Cell(t[j]) => i = j
    <3> SUFFICES ASSUME NEW i \in 1 .. n - 1, NEW j \in 1 .. n - 1, Cell(t[i]) = Cell(t[j])
                 PROVE  i = j
      OBVIOUS
    <3>1. i + 1 = j + 1
      BY <1>1, <1>7 DEF IsFreeList, ListUpTo
    <3> QED
      BY <3>1, <1>1
  <2>2. head' = IF n - 1 = 0 THEN Null ELSE t[1]
    BY <1>1, <1>4, <1>5
  <2>3. \A i \in 1 .. n - 1 : next[Cell(t[i])] = IF i = n - 1 THEN Null ELSE t[i + 1]
    BY <1>1, <1>4 DEF IsFreeList, ListUpTo
  <2> HIDE DEF t
  <2> QED
    BY <1>3, <2>1, <2>2, <2>3 DEF IsFreeList, ListUpTo
<1>9. IsTail(t)'
  <2>1. Fifo => tail = s[n]
    BY <1>1, <1>3, <1>4 DEF IsTail
  <2>2. CASE n = 1
    BY <2>1, <2>2, <1>3, <1>5 DEF IsTail
  <2>3. CASE n > 1
    <3>1. head' # Null /\ t[n - 1] = s[n]
      BY <2>3, <1>1, <1>2, <1>5
    <3> HIDE DEF t
    <3> QED
      BY <3>1, <2>1, <2>3, <1>1, <1>3 DEF IsTail
  <2> QED
    BY <2>2, <2>3, <1>1, <1>4
<1>10. {Cell(t[i]) : i \in 1 .. n - 1} = {Cell(s[i]) : i \in 1 .. n} \ {Cell(head)}
  <2>1. \A i \in 1 .. n : i = 1 \/ (i - 1 \in 1 .. n - 1 /\ t[i - 1] = s[i])
    BY <1>1
  <2>2. \A i \in 1 .. n - 1 : Cell(s[i + 1]) # Cell(s[1])
    BY <1>1, <1>4 DEF IsFreeList, ListUpTo
  <2> HIDE DEF t
  <2> QED
    BY <2>1, <2>2, <1>4, <1>7
<1>11. {head', tail'} \subseteq Pointer
  BY <1>1, <1>2, <1>3, <1>4, <1>5, TypeFacts
<1>12. /\ freePages' \in Nat /\ head \in Pages
       /\ Cell(head) \in Listed(s)
  BY <1>1, <1>2, <1>3, <1>4 DEF Listed
<1>13. Listed(t)' = Listed(s) \ {Cell(head)}
  BY <1>1, <1>3, <1>10 DEF Listed
<1>14. t = Popped(s, freePages)
  BY <1>1 DEF Popped
<1> HIDE DEF t
<1> QED
  BY <1>6, <1>8, <1>9, <1>11, <1>12, <1>13, <1>14

(* Unlinking the page the cursor of reserveRegion() has reached: the cursor *)
(* moves on to the next one, with the same predecessor.                     *)
LEMMA UnlinkList ==
  ASSUME TypeOK, managed \subseteq Frames,
         NEW s \in [1 .. freePages -> Pages], IsFreeList(s),
         NEW k \in 1 .. freePages, it = s[k],
         prev = IF k = 1 THEN Null ELSE s[k - 1],
         ReserveUnlink
  PROVE  /\ freePages' \in Nat /\ next' \in [Phys -> Pointer] /\ {head', it'} \subseteq Pointer
         /\ \E t \in [1 .. freePages' -> Pages'] :
              /\ IsFreeList(t)'
              /\ Listed(t)' = Listed(s) \ {Cell(it)}
              /\ \/ it' = Null /\ k = freePages
                 \/ /\ k \in 1 .. freePages' /\ it' = t[k]
                    /\ prev' = IF k = 1 THEN Null ELSE t[k - 1]
              /\ t = Unlinked(s, freePages, k)
<1>0. PICK n : n = freePages
  OBVIOUS
<1> DEFINE t == [i \in 1 .. n - 1 |-> IF i < k THEN s[i] ELSE s[i + 1]]
<1>1. /\ n = freePages /\ n \in Nat /\ next \in [Phys -> Pointer]
      /\ k \in 1 .. n /\ head \in Pointer
  BY <1>0 DEF TypeOK
<1>2. \A i \in 1 .. n : s[i] \in Pages /\ Cell(s[i]) \in Phys /\ s[i] \in Pointer \ {Null}
  BY <1>1, PageFacts
<1>3. /\ head' = IF prev = Null THEN next[Cell(it)] ELSE head
      /\ next' = IF prev = Null THEN next ELSE [next EXCEPT ![Cell(prev)] = next[Cell(it)]]
      /\ it' = next[Cell(it)] /\ prev' = prev /\ freePages' = n - 1 /\ Pages' = Pages
  BY <1>1 DEF ReserveUnlink, Unlink, Pages
<1>4. next[Cell(it)] = IF k = n THEN Null ELSE s[k + 1]
  BY <1>1 DEF IsFreeList, ListUpTo
<1>5. (prev = Null) <=> (k = 1)
  BY <1>1, <1>2
<1>6. t \in [1 .. freePages' -> Pages']
  BY <1>1, <1>2, <1>3
<1>7. /\ \A i \in 1 .. n - 1 : i < k => i \in 1 .. n /\ t[i] = s[i]
      /\ \A i \in 1 .. n - 1 : i >= k => i + 1 \in 1 .. n /\ t[i] = s[i + 1]
  BY <1>1
<1>8. IsFreeList(t)'
  <2>1. \A i, j \in 1 .. n : Cell(s[i]) = Cell(s[j]) => i = j
    BY <1>1 DEF IsFreeList, ListUpTo
  <2>2. \A i, j \in 1 .. n - 1 : Cell(t[i]) = Cell(t[j]) => i = j
    BY <2>1, <1>1
  <2>3. head' = IF n - 1 = 0 THEN Null ELSE t[1]
    <3>1. CASE k = 1
      BY <3>1, <1>1, <1>3, <1>4, <1>5
    <3>2. CASE k > 1
      BY <3>2, <1>1, <1>3, <1>5 DEF IsFreeList, ListUpTo
    <3> QED
      BY <3>1, <3>2, <1>1
  <2>4. \A i \in 1 .. n - 1 : next'[Cell(t[i])] = IF i = n - 1 THEN Null ELSE t[i + 1]
    <3>1. \A i \in 1 .. n : next[Cell(s[i])] = IF i = n THEN Null ELSE s[i + 1]
      BY <1>1 DEF IsFreeList, ListUpTo
    <3>2. CASE k = 1
      BY <3>1, <3>2, <1>1, <1>3, <1>5
    <3>3. CASE k > 1
      <4>1. k - 1 \in 1 .. n /\ prev = s[k - 1] /\ Cell(prev) \in Phys
        BY <3>3, <1>1, <1>2
      <4>2. next' = [next EXCEPT ![Cell(prev)] = IF k = n THEN Null ELSE s[k + 1]]
        BY <3>3, <1>3, <1>4, <1>5, <1>1
      <4>3. next'[Cell(s[k - 1])] = IF k = n THEN Null ELSE s[k + 1]
        BY <4>1, <4>2, <1>1
      <4>4. \A i \in 1 .. n : i # k - 1 => next'[Cell(s[i])] = next[Cell(s[i])]
        BY <4>1, <4>2, <2>1, <1>1, <1>2
      <4> SUFFICES ASSUME NEW i \in 1 .. n - 1
                   PROVE  next'[Cell(t[i])] = IF i = n - 1 THEN Null ELSE t[i + 1]
        OBVIOUS
      <4>5. CASE i < k - 1
        BY <4>5, <4>4, <3>1, <1>1
      <4>6. CASE i = k - 1
        BY <4>6, <4>3, <1>1
      <4>7. CASE i >= k
        BY <4>7, <4>4, <3>1, <1>1
      <4> QED
        BY <4>5, <4>6, <4>7, <1>1
    <3> HIDE DEF t
    <3> QED
      BY <3>2, <3>3, <1>1
  <2> HIDE DEF t
  <2> QED
    BY <1>3, <2>2, <2>3, <2>4 DEF IsFreeList, ListUpTo
<1>9. {Cell(t[i]) : i \in 1 .. n - 1} = {Cell(s[i]) : i \in 1 .. n} \ {Cell(it)}
  <2>1. \A i \in 1 .. n : \/ i = k
                          \/ i < k /\ i \in 1 .. n - 1
                          \/ i > k /\ i - 1 \in 1 .. n - 1 /\ i - 1 >= k /\ t[i - 1] = s[i]
    BY <1>1
  <2>2. \A i \in 1 .. n : i # k => Cell(s[i]) # Cell(it)
    BY <1>1 DEF IsFreeList, ListUpTo
  <2>3. \A i \in 1 .. n - 1 : \E j \in 1 .. n : j # k /\ t[i] = s[j]
    BY <1>1, <1>7
  <2>4. \A i \in 1 .. n : i # k => \E j \in 1 .. n - 1 : t[j] = s[i]
    BY <2>1, <1>7
  <2> HIDE DEF t
  <2>5. ASSUME NEW i \in 1 .. n - 1
        PROVE  Cell(t[i]) \in {Cell(s[j]) : j \in 1 .. n} \ {Cell(it)}
    BY <2>2, <2>3
  <2>6. ASSUME NEW i \in 1 .. n, Cell(s[i]) # Cell(it)
        PROVE  Cell(s[i]) \in {Cell(t[j]) : j \in 1 .. n - 1}
    <3>1. i # k
      BY <2>6
    <3>2. PICK j \in 1 .. n - 1 : t[j] = s[i]
      BY <2>4, <3>1
    <3> QED
      BY <3>2
  <2> QED
    BY <2>5, <2>6
<1>10. \/ it' = Null /\ k = freePages
       \/ k \in 1 .. freePages' /\ it' = t[k] /\ prev' = IF k = 1 THEN Null ELSE t[k - 1]
  <2>1. CASE k = n
    BY <2>1, <1>1, <1>3, <1>4
  <2>2. CASE k < n
    <3>1. k \in 1 .. n - 1 /\ it' = t[k]
      BY <2>2, <1>1, <1>3, <1>4
    <3>2. prev' = IF k = 1 THEN Null ELSE t[k - 1]
      BY <2>2, <1>1, <1>3
    <3> HIDE DEF t
    <3> QED
      BY <3>1, <3>2, <1>3
  <2> QED
    BY <2>1, <2>2, <1>1
<1>11. next' \in [Phys -> Pointer] /\ {head', it'} \subseteq Pointer
  BY <1>1, <1>2, <1>3, <1>4, TypeFacts
<1>12. freePages' \in Nat
  BY <1>1, <1>3
<1>13. Listed(t)' = Listed(s) \ {Cell(it)}
  BY <1>1, <1>3, <1>9 DEF Listed
<1>14. t = Unlinked(s, freePages, k)
  BY <1>1 DEF Unlinked
<1> HIDE DEF t
<1> QED
  BY <1>6, <1>8, <1>10, <1>11, <1>12, <1>13, <1>14

-----------------------------------------------------------------------------
(* Steps that leave a part of the state alone.                             *)

LEMMA KeepManaged ==
  ASSUME TypeOK, ManagedInv, UNCHANGED <<memmap, managed>>,
         entry' \in {entry, entry + 1}, mode' # "addRegion"
  PROVE  ManagedInv'
<1>1. entry \in Nat /\ entry' \in Nat /\ 1 .. entry - 1 \subseteq 1 .. entry' - 1
  <2>1. memmap \in Seq(Entry) /\ entry \in 1 .. Len(memmap) + 1
    BY MemMapsAssumption DEF TypeOK
  <2>2. entry \in Nat /\ entry' \in Nat /\ entry <= entry'
    BY <2>1
  <2>3. \A a, b \in Nat : a <= b => 1 .. a - 1 \subseteq 1 .. b - 1
    OBVIOUS
  <2> QED
    BY <2>2, <2>3
<1>2. ASSUME NEW f, NEW j, LinkedFrom(f, j)
      PROVE  LinkedFrom(f, j)'
  BY <1>2 DEF LinkedFrom
<1>3. \A f \in managed' : \E j \in 1 .. entry' - 1 : LinkedFrom(f, j)'
  BY <1>1, <1>2 DEF ManagedInv
<1> QED
  BY <1>3 DEF ManagedInv

LEMMA KeepOwned ==
  ASSUME OwnedInv, UNCHANGED <<owned, withheld>>, mode' # "free"
  PROVE  OwnedInv'
  BY DEF OwnedInv, Cells

LEMMA KeepCount ==
  ASSUME CountInv, UNCHANGED <<managed, owned, withheld, totalPages, freePages>>
  PROVE  CountInv'
  BY DEF CountInv

LEMMA KeepList ==
  ASSUME ListInv, UNCHANGED <<list, history>>,
         mode \notin {"reserve", "findTail"},
         mode' \notin {"free", "reserve", "findTail"}
  PROVE  ListInv'
<1>1. PICK s \in [1 .. freePages -> Pages] :
        IsFreeList(s) /\ IsTail(s) /\ ListsTheFree(s) /\ Walk(s)
  BY DEF ListInv
<1>2. /\ UNCHANGED <<head, tail, next, freePages>>
      /\ UNCHANGED <<managed, owned, withheld>>
  BY DEF list, history
<1>3. Pages' = Pages /\ Cells(owned)' = Cells(owned)
  BY <1>2 DEF Pages, Cells
<1>4. s \in [1 .. freePages' -> Pages']
  BY <1>1, <1>2, <1>3
<1>5. IsFreeList(s)'
  BY <1>1, <1>2 DEF IsFreeList, ListUpTo
<1>6. IsTail(s)'
  BY <1>1, <1>2 DEF IsTail
<1>7. ListsTheFree(s)'
  BY <1>1, <1>2, <1>3 DEF ListsTheFree, Listed
<1>8. Walk(s)'
  BY DEF Walk
<1> QED
  BY <1>4, <1>5, <1>6, <1>7, <1>8 DEF ListInv

-----------------------------------------------------------------------------
(* Facts the steps of init() and free() rest on.                           *)

(* The entry init() is looking at is one of the memory map.                *)
LEMMA EntryType ==
  ASSUME TypeOK, entry <= Len(memmap)
  PROVE  memmap[entry] \in Entry /\ entry \in DOMAIN memmap
  BY MemMapsAssumption DEF TypeOK

(* Entries do not overlap, so addRegion() never meets a page again.        *)
LEMMA FreshPage ==
  ASSUME TypeOK, ManagedInv, LinkPage
  PROVE  addr \in Frames /\ addr \notin managed
<1>1. /\ mode = "addRegion" /\ addr < Limit(region) /\ First(region) <= addr
      /\ entry > 1 /\ Contributes(memmap[entry - 1]) /\ region = Clamped(memmap[entry - 1])
  BY DEF LinkPage, ManagedInv
<1>2. /\ memmap \in Seq(Entry) /\ entry \in 1 .. Len(memmap) + 1
      /\ memmap \in MemMaps /\ addr \in Nat /\ region \in Region
  BY MemMapsAssumption DEF TypeOK
<1>3. entry - 1 \in DOMAIN memmap
  BY <1>1, <1>2
<1>4. MinPhysical <= First(region) /\ Limit(region) <= PhysTop
  BY <1>1, <1>2, <1>3, MemMapsAssumption
<1>5. addr \in Frames
  BY <1>1, <1>2, <1>4, RegionBounds, ConstantsAssumption DEF Frames
<1>6. ASSUME addr \in managed
      PROVE  FALSE
  <2>1. PICK j \in 1 .. entry - 1 : LinkedFrom(addr, j)
    BY <1>6 DEF ManagedInv
  <2>2. j # entry - 1
    BY <2>1, <1>1, <1>2 DEF LinkedFrom
  <2>3. j \in DOMAIN memmap /\ j < entry - 1
    BY <2>1, <2>2, <1>2
  <2>4. /\ Contributes(memmap[j])
        /\ First(Clamped(memmap[j])) <= addr /\ addr < Limit(Clamped(memmap[j]))
    BY <2>1 DEF LinkedFrom
  <2>5. \/ Limit(Clamped(memmap[j])) <= First(region)
        \/ Limit(region) <= First(Clamped(memmap[j]))
    BY <2>3, <2>4, <1>1, <1>2, <1>3, MemMapsAssumption
  <2>6. Clamped(memmap[j]) \in Region
    BY <2>3, <1>2, ClampedType
  <2> QED
    BY <2>4, <2>5, <2>6, <1>1, <1>2, RegionBounds
<1> QED
  BY <1>5, <1>6

(* A call to free() that reaches the end of the list is about a page that  *)
(* the client holds, under its physical address.                           *)
LEMMA FreedIsOwned ==
  ASSUME DoubleFreesVisible, IInv, mode = "free", it = Null, Mapped(FreedPage)
  PROVE  addr \in owned /\ addr \in managed /\ Cell(addr) = addr
<1>1. managed \subseteq Frames /\ owned \subseteq Pages /\ managed \subseteq Phys
  BY DEF IInv, TypeOK, ManagedInv
<1>2. addr \in Pages
  BY <1>1, PageFacts DEF IInv, OwnedInv
<1>3. addr \in managed
  <2>1. CASE HhdmOffset = 0
    BY <2>1, <1>1, <1>2, ConstantsAssumption DEF Pages, Virt, Add, Phys
  <2>2. CASE HhdmOffset # 0
    BY <2>2, <1>1, <1>2, HhdmAssumption DEF Pages, FreedPage
  <2> QED
    BY <2>1, <2>2
<1>4. Cell(addr) = addr
  BY <1>1, <1>3, FrameFacts
<1>5. ASSUME HhdmOffset = 0, addr \notin owned
      PROVE  FALSE
  <2>1. addr \in managed \ withheld
    BY <1>5 DEF IInv, OwnedInv
  <2>2. PICK s \in [1 .. freePages -> Pages] : ListsTheFree(s) /\ Walk(s)
    BY DEF IInv, ListInv
  <2>3. \A p \in Pages : p \in managed /\ Cell(p) = p /\ p # Null
    BY <1>1, <1>5, ConstantsAssumption, FrameFacts DEF Pages, Virt, Add, Phys
  <2>4. \A i \in 1 .. freePages : s[i] # addr
    BY <2>2, <2>3, <1>1, <1>3, <1>5, ConstantsAssumption DEF Walk, FreedPage, Virt, Add, Phys
  <2>5. addr \notin Cells(owned)
    BY <2>3, <1>1, <1>5 DEF Cells
  <2>6. addr \in {Cell(s[i]) : i \in 1 .. freePages}
    BY <2>1, <2>2, <2>5 DEF ListsTheFree, Listed
  <2> QED
    BY <2>3, <2>4, <2>6
<1> QED
  BY <1>3, <1>4, <1>5 DEF DoubleFreesVisible, IInv, OwnedInv

-----------------------------------------------------------------------------
(* The invariant holds initially, and every step keeps it.                 *)

LEMMA InitInv == Init => IInv
<1> SUFFICES ASSUME Init
             PROVE  IInv
  OBVIOUS
<1>1. TypeOK
  <2>1. 0 \in Pointer /\ ClientData \subseteq Pointer
    BY ConstantsAssumption DEF Pointer
  <2>2. memmap \in MemMaps /\ entry \in 1 .. Len(memmap) + 1
    <3>1. memmap \in MemMaps /\ memmap \in Seq(Entry) /\ entry = 1
      BY MemMapsAssumption DEF Init
    <3> QED
      BY <3>1
  <2>3. next \in [Phys -> Pointer]
    BY <2>1 DEF Init
  <2> QED
    BY <2>1, <2>2, <2>3 DEF Init, TypeOK, Region, NoRegion, Null
<1>2. ManagedInv /\ OwnedInv
  BY DEF Init, ManagedInv, OwnedInv, Cells
<1>3. CountInv
  BY FS_EmptySet DEF Init, CountInv
<1>4. ListInv
  <2> DEFINE s == [i \in 1 .. 0 |-> Null]
  <2>1. s \in [1 .. freePages -> Pages]
    BY DEF Init
  <2>2. IsFreeList(s) /\ IsTail(s) /\ ListsTheFree(s) /\ Walk(s)
    BY DEF Init, IsFreeList, ListUpTo, IsTail, ListsTheFree, Listed, Walk, Cells
  <2> HIDE DEF s
  <2> QED
    BY <2>1, <2>2 DEF ListInv
<1> QED
  BY <1>1, <1>2, <1>3, <1>4 DEF IInv

(* Linking a page at boot, allocating, giving a page back, unlinking one:  *)
(* the steps that change the list and who holds what.                      *)
LEMMA LinkPageInv ==
  ASSUME IInv, LinkPage
  PROVE  IInv'
<1>0. PICK page : page = addr
  OBVIOUS
<1>1. /\ TypeOK /\ ManagedInv /\ OwnedInv /\ CountInv /\ managed \subseteq Frames
      /\ page = addr /\ page \in Frames /\ page \notin managed
  BY <1>0, FreshPage DEF IInv, ManagedInv
<1>2. /\ mode = "addRegion" /\ mode' = "addRegion" /\ addr' = addr + PageSize
      /\ Push(page) /\ totalPages' = totalPages + 1 /\ freePages' = freePages + 1
      /\ managed' = managed \cup {page}
      /\ UNCHANGED <<memmap, entry, region, it, prev, owned, withheld>>
  BY <1>1 DEF LinkPage
<1>3. Pages \subseteq Pages' /\ page \in Pages'
  BY <1>2 DEF Pages
<1>4. PICK s \in [1 .. freePages -> Pages] : IsFreeList(s) /\ IsTail(s) /\ ListsTheFree(s)
  BY DEF IInv, ListInv
<1>5. page \in Pointer \ {Null} /\ Cell(page) = page /\ page \in Phys
  BY <1>1, FrameFacts
<1>6. Cell(page) \notin Listed(s)
  BY <1>1, <1>4, <1>5 DEF ListsTheFree
<1>7. /\ next' \in [Phys -> Pointer] /\ {head', tail'} \subseteq Pointer
      /\ \E t \in [1 .. freePages' -> Pages'] :
           /\ IsFreeList(t)' /\ IsTail(t)'
           /\ Listed(t)' = Listed(s) \cup {Cell(page)}
  <2>1. mode \notin {"reserve", "findTail"} /\ Push(page) /\ freePages' = freePages + 1
    BY <1>2
  <2> QED
    BY <1>1, <1>3, <1>4, <1>5, <1>6, <2>1, PushList
<1>8. TypeOK'
  BY <1>1, <1>2, <1>3, <1>5, <1>7, ConstantsAssumption DEF TypeOK
<1>9. ManagedInv'
  <2>1. \A f \in managed : \E j \in 1 .. entry - 1 : LinkedFrom(f, j)
    BY <1>1 DEF ManagedInv
  <2>2. managed \subseteq Nat /\ addr \in Nat /\ PageSize \in Nat /\ PageSize > 0 /\ entry \in Nat
    BY <1>1, ConstantsAssumption DEF TypeOK, Phys
  <2>3. ASSUME NEW f \in managed, NEW j, LinkedFrom(f, j)
        PROVE  LinkedFrom(f, j)'
    BY <1>2, <2>2, <2>3 DEF LinkedFrom
  <2>4. entry > 1 /\ Contributes(memmap[entry - 1]) /\ region = Clamped(memmap[entry - 1]) /\ First(region) <= addr
    BY <1>1, <1>2 DEF ManagedInv
  <2>5. region \in Region /\ addr < Limit(region)
    BY <1>1 DEF TypeOK, LinkPage
  <2>6. LinkedFrom(page, entry - 1)'
    BY <1>1, <1>2, <2>2, <2>4, <2>5, RegionBounds, ConstantsAssumption DEF LinkedFrom
  <2>7. First(region) <= addr'
    BY <1>2, <2>2, <2>4, <2>5, RegionBounds
  <2>8. \A f \in managed' : \E j \in 1 .. entry' - 1 : LinkedFrom(f, j)'
    BY <1>2, <2>1, <2>2, <2>3, <2>4, <2>6
  <2> QED
    BY <1>1, <1>2, <2>4, <2>7, <2>8 DEF ManagedInv
<1>10. OwnedInv'
  BY <1>1, <1>2, KeepOwned
<1>11. CountInv'
  <2>1. /\ IsFiniteSet(managed) /\ Cardinality(owned) \in Nat
        /\ Cardinality(managed) \in Nat /\ Cardinality(withheld) \in Nat
    BY <1>1, Finiteness, FS_CardinalityType
  <2>2. Cardinality(managed') = Cardinality(managed) + 1
    BY <1>1, <1>2, <2>1, FS_AddElement
  <2> QED
    BY <1>1, <1>2, <2>1, <2>2 DEF CountInv
<1>12. ListInv'
  <2>1. PICK t \in [1 .. freePages' -> Pages'] :
           /\ IsFreeList(t)' /\ IsTail(t)'
           /\ Listed(t)' = Listed(s) \cup {Cell(page)}
    BY <1>7
  <2>2. Cells(owned) \subseteq managed /\ withheld \subseteq managed
    BY <1>1, PageFacts DEF TypeOK, Cells
  <2>3. ListsTheFree(t)'
    BY <1>1, <1>2, <1>4, <1>5, <2>1, <2>2 DEF ListsTheFree, Cells
  <2>4. Walk(t)'
    BY <1>2 DEF Walk
  <2> QED
    BY <2>1, <2>3, <2>4 DEF ListInv
<1> QED
  BY <1>8, <1>9, <1>10, <1>11, <1>12 DEF IInv

LEMMA AllocateInv ==
  ASSUME IInv, Allocate
  PROVE  IInv'
<1>1. TypeOK /\ ManagedInv /\ OwnedInv /\ CountInv /\ managed \subseteq Frames
  BY DEF IInv, ManagedInv
<1>2. /\ mode = "idle" /\ owned' = owned \cup {head} /\ freePages' = freePages - 1
      /\ UNCHANGED <<memmap, mode, entry, region, addr, it, prev>>
      /\ UNCHANGED <<next, totalPages, managed, withheld>>
  BY DEF Allocate, locals
<1>3. PICK s \in [1 .. freePages -> Pages] : IsFreeList(s) /\ IsTail(s) /\ ListsTheFree(s)
  BY DEF IInv, ListInv
<1>4. /\ freePages' \in Nat /\ head \in Pages /\ {head', tail'} \subseteq Pointer
      /\ Cell(head) \in Listed(s)
      /\ \E t \in [1 .. freePages' -> Pages'] :
           IsFreeList(t)' /\ IsTail(t)' /\ Listed(t)' = Listed(s) \ {Cell(head)}
  BY <1>1, <1>3, PopList
<1>5. Cell(head) \notin Cells(owned) /\ Cell(head) \notin withheld /\ Pages' = Pages
  BY <1>2, <1>3, <1>4 DEF ListsTheFree, Pages
<1>6. head \notin owned /\ Cells(owned') = Cells(owned) \cup {Cell(head)}
  BY <1>2, <1>5 DEF Cells
<1>7. TypeOK'
  BY <1>1, <1>2, <1>4, <1>5 DEF TypeOK
<1>8. ManagedInv'
  BY <1>1, <1>2, KeepManaged
<1>9. OwnedInv'
  <2>1. \A p \in owned : Cell(p) # Cell(head)
    BY <1>5 DEF Cells
  <2>2. \A p, q \in owned' : Cell(p) = Cell(q) => p = q
    BY <1>1, <1>2, <2>1 DEF OwnedInv
  <2>3. Cells(owned)' \cap withheld' = {}
    <3>1. Cells(owned)' = Cells(owned) \cup {Cell(head)}
      BY <1>6 DEF Cells
    <3> QED
      BY <1>1, <1>2, <1>5, <3>1 DEF OwnedInv
  <2>4. mode' # "free"
    BY <1>2
  <2> QED
    BY <2>2, <2>3, <2>4 DEF OwnedInv
<1>10. CountInv'
  <2>1. /\ IsFiniteSet(owned) /\ Cardinality(owned) \in Nat
        /\ Cardinality(managed) \in Nat /\ Cardinality(withheld) \in Nat
    BY <1>1, Finiteness, FS_CardinalityType
  <2>2. Cardinality(owned') = Cardinality(owned) + 1
    BY <1>2, <1>6, <2>1, FS_AddElement
  <2> QED
    BY <1>1, <1>2, <2>1, <2>2 DEF CountInv
<1>11. ListInv'
  <2>1. PICK t \in [1 .. freePages' -> Pages'] :
           IsFreeList(t)' /\ IsTail(t)' /\ Listed(t)' = Listed(s) \ {Cell(head)}
    BY <1>4
  <2>2. ListsTheFree(t)'
    BY <1>2, <1>3, <1>6, <2>1 DEF ListsTheFree
  <2>3. Walk(t)'
    BY <1>2 DEF Walk
  <2> QED
    BY <2>1, <2>2, <2>3 DEF ListInv
<1> QED
  BY <1>7, <1>8, <1>9, <1>10, <1>11 DEF IInv

LEMMA FreeLinkInv ==
  ASSUME DoubleFreesVisible, IInv, FreeLink
  PROVE  IInv'
<1>0. PICK page : page = FreedPage
  OBVIOUS
<1>1. /\ TypeOK /\ ManagedInv /\ OwnedInv /\ CountInv /\ managed \subseteq Frames
      /\ page = FreedPage
  BY <1>0 DEF IInv, ManagedInv
<1>2. /\ mode = "free" /\ it = Null /\ Mapped(page) /\ Push(page)
      /\ freePages' = freePages + 1 /\ owned' = owned \ {addr}
      /\ mode' = "idle" /\ region' = NoRegion /\ addr' = 0 /\ it' = Null /\ prev' = Null
      /\ UNCHANGED <<memmap, entry, totalPages, managed, withheld>>
  BY <1>1 DEF FreeLink, Return, DropLocals
<1>3. addr \in owned /\ addr \in managed /\ Cell(addr) = addr
  BY <1>1, <1>2, FreedIsOwned
<1>4. /\ page \in Pages /\ page \in Pointer \ {Null} /\ Cell(page) = addr /\ addr \in Phys
      /\ Pages' = Pages
  BY <1>1, <1>2, <1>3, FrameFacts, PageFacts DEF FreedPage, Pages
<1>5. PICK s \in [1 .. freePages -> Pages] : IsFreeList(s) /\ IsTail(s) /\ ListsTheFree(s)
  BY DEF IInv, ListInv
<1>6. /\ addr \in Cells(owned) /\ addr \notin withheld
      /\ Cells(owned') = Cells(owned) \ {addr}
  <2>1. addr \in Cells(owned)
    BY <1>3 DEF Cells
  <2>2. \A p \in owned : Cell(p) = addr => p = addr
    BY <1>1, <1>3 DEF OwnedInv
  <2>3. Cells(owned') = Cells(owned) \ {addr}
    BY <1>2, <1>3, <2>2 DEF Cells
  <2> QED
    BY <1>1, <2>1, <2>3 DEF OwnedInv
<1>7. Cell(page) \notin Listed(s)
  BY <1>4, <1>5, <1>6 DEF ListsTheFree
<1>8. /\ next' \in [Phys -> Pointer] /\ {head', tail'} \subseteq Pointer
      /\ \E t \in [1 .. freePages' -> Pages'] :
           IsFreeList(t)' /\ IsTail(t)' /\ Listed(t)' = Listed(s) \cup {Cell(page)}
  <2>1. mode \notin {"reserve", "findTail"} /\ Push(page) /\ freePages' = freePages + 1
    BY <1>2
  <2> QED
    BY <1>1, <1>4, <1>5, <1>7, <2>1, PushList
<1>9. TypeOK'
  BY <1>1, <1>2, <1>4, <1>8, TypeFacts DEF TypeOK, NoRegion, Region, Null
<1>10. ManagedInv'
  BY <1>1, <1>2, KeepManaged
<1>11. OwnedInv'
  BY <1>1, <1>2, <1>6 DEF OwnedInv
<1>12. CountInv'
  <2>1. /\ IsFiniteSet(owned) /\ Cardinality(owned) \in Nat
        /\ Cardinality(managed) \in Nat /\ Cardinality(withheld) \in Nat
    BY <1>1, Finiteness, FS_CardinalityType
  <2>2. Cardinality(owned') = Cardinality(owned) - 1
    BY <1>2, <1>3, <2>1, FS_RemoveElement
  <2> QED
    BY <1>1, <1>2, <2>1, <2>2 DEF CountInv
<1>13. ListInv'
  <2>1. PICK t \in [1 .. freePages' -> Pages'] :
           IsFreeList(t)' /\ IsTail(t)' /\ Listed(t)' = Listed(s) \cup {Cell(page)}
    BY <1>8
  <2>2. ListsTheFree(t)'
    BY <1>2, <1>3, <1>4, <1>5, <1>6, <2>1 DEF ListsTheFree
  <2>3. Walk(t)'
    BY <1>2 DEF Walk
  <2> QED
    BY <2>1, <2>2, <2>3 DEF ListInv
<1> QED
  BY <1>9, <1>10, <1>11, <1>12, <1>13 DEF IInv

LEMMA ReserveUnlinkInv ==
  ASSUME IInv, ReserveUnlink
  PROVE  IInv'
<1>1. TypeOK /\ ManagedInv /\ OwnedInv /\ CountInv /\ managed \subseteq Frames
  BY DEF IInv, ManagedInv
<1>2. /\ mode = "reserve" /\ it # Null /\ withheld' = withheld \cup {Cell(it)}
      /\ freePages' = freePages - 1
      /\ UNCHANGED <<memmap, mode, entry, region, addr, prev, tail, totalPages, managed, owned>>
  BY DEF ReserveUnlink, Unlink
<1>3. PICK s \in [1 .. freePages -> Pages] : IsFreeList(s) /\ ListsTheFree(s) /\ Walk(s)
  BY DEF IInv, ListInv
<1>4. PICK k \in 1 .. freePages : /\ it = s[k] /\ \A i \in 1 .. k - 1 : s[i] # addr
                                  /\ prev = IF k = 1 THEN Null ELSE s[k - 1]
  BY <1>2, <1>3 DEF Walk
<1>5. /\ freePages' \in Nat /\ next' \in [Phys -> Pointer] /\ {head', it'} \subseteq Pointer
      /\ \E t \in [1 .. freePages' -> Pages'] :
           /\ IsFreeList(t)' /\ Listed(t)' = Listed(s) \ {Cell(it)}
           /\ \/ it' = Null /\ k = freePages
              \/ /\ k \in 1 .. freePages' /\ it' = t[k]
                 /\ prev' = IF k = 1 THEN Null ELSE t[k - 1]
           /\ t = Unlinked(s, freePages, k)
  <2>1. it = s[k] /\ prev = IF k = 1 THEN Null ELSE s[k - 1]
    BY <1>4
  <2> QED
    BY <1>1, <1>3, <2>1, UnlinkList
<1>6. /\ it \in Pages /\ Cell(it) \in managed /\ Cell(it) \in Listed(s) /\ Pages' = Pages
  BY <1>1, <1>2, <1>4, PageFacts DEF Listed, Pages
<1>7. Cell(it) \notin Cells(owned) /\ Cell(it) \notin withheld /\ Cells(owned') = Cells(owned)
  BY <1>2, <1>3, <1>6 DEF ListsTheFree, Cells
<1>8. TypeOK'
  BY <1>1, <1>2, <1>5, <1>6 DEF TypeOK
<1>9. ManagedInv'
  BY <1>1, <1>2, KeepManaged
<1>10. OwnedInv'
  BY <1>1, <1>2, <1>7 DEF OwnedInv
<1>11. CountInv'
  <2>1. /\ IsFiniteSet(withheld) /\ Cardinality(owned) \in Nat
        /\ Cardinality(managed) \in Nat /\ Cardinality(withheld) \in Nat
    BY <1>1, Finiteness, FS_CardinalityType
  <2>2. Cardinality(withheld') = Cardinality(withheld) + 1
    BY <1>2, <1>7, <2>1, FS_AddElement
  <2> QED
    BY <1>1, <1>2, <2>1, <2>2 DEF CountInv
<1>12. ListInv'
  <2>1. PICK t \in [1 .. freePages' -> Pages'] :
           /\ IsFreeList(t)' /\ Listed(t)' = Listed(s) \ {Cell(it)}
           /\ \/ it' = Null /\ k = freePages
              \/ /\ k \in 1 .. freePages' /\ it' = t[k]
                 /\ prev' = IF k = 1 THEN Null ELSE t[k - 1]
           /\ t = Unlinked(s, freePages, k)
    BY <1>5
  <2>2. ListsTheFree(t)'
    BY <1>2, <1>3, <1>7, <2>1 DEF ListsTheFree
  <2>3. \A i \in 1 .. k - 1 : t[i] # addr'
    <3>1. PICK n \in Nat : n = freePages
      BY <1>1 DEF TypeOK
    <3>2. \A i \in 1 .. k - 1 : i \in 1 .. n - 1 /\ i < k
      BY <3>1
    <3>3. \A i \in 1 .. k - 1 : t[i] = s[i]
      BY <2>1, <3>1, <3>2 DEF Unlinked
    <3> QED
      BY <1>2, <1>4, <3>3
  <2>4. k = freePages => 1 .. freePages' = 1 .. k - 1
    BY <1>2
  <2>5. Walk(t)' /\ IsTail(t)'
    BY <1>2, <2>1, <2>3, <2>4 DEF Walk, IsTail
  <2> QED
    BY <2>1, <2>2, <2>5 DEF ListInv
<1> QED
  BY <1>8, <1>9, <1>10, <1>11, <1>12 DEF IInv

(* The client writes into a page it holds, which is not on the list.       *)
LEMMA ClientWriteInv ==
  ASSUME IInv, NEW a \in owned, NEW d \in ClientData, ClientWrite(a, d)
  PROVE  IInv'
<1>1. TypeOK /\ ManagedInv /\ OwnedInv /\ CountInv /\ managed \subseteq Frames
  BY DEF IInv, ManagedInv
<1>2. /\ mode = "idle" /\ next' = [next EXCEPT ![Cell(a)] = d]
      /\ UNCHANGED <<memmap, mode, entry, region, addr, it, prev>>
      /\ UNCHANGED <<head, tail, totalPages, freePages, managed, owned, withheld>>
  BY DEF ClientWrite, locals, history
<1>3. PICK s \in [1 .. freePages -> Pages] : IsFreeList(s) /\ IsTail(s) /\ ListsTheFree(s)
  BY DEF IInv, ListInv
<1>4. Cell(a) \in Cells(owned) /\ Cell(a) \in Phys /\ d \in Pointer /\ Pages' = Pages
  BY <1>1, <1>2, PageFacts, ConstantsAssumption DEF TypeOK, Cells, Pages
<1>5. \A i \in 1 .. freePages : Cell(s[i]) # Cell(a) /\ Cell(s[i]) \in Phys
  BY <1>1, <1>3, <1>4, PageFacts DEF ListsTheFree, Listed
<1>6. TypeOK'
  BY <1>1, <1>2, <1>4 DEF TypeOK
<1>7. ManagedInv' /\ OwnedInv' /\ CountInv'
  BY <1>1, <1>2, KeepManaged, KeepOwned, KeepCount
<1>8. IsFreeList(s)' /\ IsTail(s)' /\ ListsTheFree(s)' /\ Walk(s)'
  <2>1. \A i \in 1 .. freePages : next'[Cell(s[i])] = next[Cell(s[i])]
    BY <1>1, <1>2, <1>4, <1>5 DEF TypeOK
  <2>2. IsFreeList(s)'
    BY <1>2, <1>3, <2>1 DEF IsFreeList, ListUpTo
  <2> QED
    BY <1>2, <1>3, <2>2 DEF IsTail, ListsTheFree, Listed, Walk, Cells
<1>9. ListInv'
  BY <1>2, <1>4, <1>8 DEF ListInv
<1> QED
  BY <1>6, <1>7, <1>9 DEF IInv

(* Steps that only move the cursors along the list: what is left to show   *)
(* is where they are.                                                      *)
LEMMA CursorInv ==
  ASSUME IInv, TypeOK', UNCHANGED <<memmap, entry, head, next, totalPages, freePages, history>>,
         mode' # "addRegion", mode' = "free" => addr' \in owned \/ (DoubleFrees /\ addr' \in managed \ withheld),
         \A s \in [1 .. freePages -> Pages] :
           IsFreeList(s) /\ IsTail(s) /\ Walk(s) => IsTail(s)' /\ Walk(s)'
  PROVE  IInv'
<1>1. UNCHANGED <<memmap, entry, head, next, totalPages, freePages, managed, owned, withheld>>
  BY DEF history
<1>2. ManagedInv'
  BY <1>1, KeepManaged DEF IInv
<1>3. OwnedInv'
  BY <1>1 DEF IInv, OwnedInv, Cells
<1>4. CountInv'
  BY <1>1, KeepCount DEF IInv
<1>5. PICK s \in [1 .. freePages -> Pages] :
        IsFreeList(s) /\ IsTail(s) /\ ListsTheFree(s) /\ Walk(s)
  BY DEF IInv, ListInv
<1>6. IsFreeList(s)' /\ ListsTheFree(s)' /\ s \in [1 .. freePages' -> Pages']
  BY <1>1, <1>5 DEF IsFreeList, ListUpTo, ListsTheFree, Listed, Cells, Pages
<1>7. ListInv'
  BY <1>5, <1>6 DEF ListInv
<1> QED
  BY <1>2, <1>3, <1>4, <1>7 DEF IInv

(* What a list cursor points to, and what it moves on to.                  *)
LEMMA CursorFacts ==
  ASSUME TypeOK, managed \subseteq Frames,
         NEW s \in [1 .. freePages -> Pages], IsFreeList(s)
  PROVE  /\ freePages \in Nat
         /\ head \in Pointer
         /\ \A i \in 1 .. freePages : s[i] \in Pointer \ {Null} /\ next[Cell(s[i])] \in Pointer
         /\ \A i \in 1 .. freePages :
              next[Cell(s[i])] = IF i = freePages THEN Null ELSE s[i + 1]
         /\ head = IF freePages = 0 THEN Null ELSE s[1]
  BY PageFacts DEF TypeOK, IsFreeList, ListUpTo

LEMMA FreeCallInv ==
  ASSUME IInv, NEW a \in FreeRequests, FreeCall(a)
  PROVE  IInv'
<1>1. TypeOK /\ managed \subseteq Frames /\ owned \subseteq Pages
  BY DEF IInv, ManagedInv, TypeOK
<1>2. /\ mode = "idle" /\ mode' = "free" /\ addr' = a /\ it' = head
      /\ a \in owned \/ (DoubleFrees /\ a \in managed \ withheld)
      /\ UNCHANGED <<memmap, entry, region, prev, list, history>>
  BY DEF FreeCall, MayFree
<1>3. UNCHANGED <<head, tail, next, totalPages, freePages, managed, owned, withheld>>
  BY <1>2 DEF list, history
<1>4. a \in Nat
  BY ConstantsAssumption DEF Pointer
<1>5. TypeOK'
  BY <1>1, <1>2, <1>3, <1>4 DEF TypeOK, Pages
<1>6. ASSUME NEW s \in [1 .. freePages -> Pages], IsFreeList(s), IsTail(s)
      PROVE  IsTail(s)' /\ Walk(s)'
  <2>1. it' = IF freePages = 0 THEN Null ELSE s[1]
    BY <1>2, <1>6 DEF IsFreeList, ListUpTo
  <2>2. freePages = 0 \/ 1 \in 1 .. freePages
    BY <1>1 DEF TypeOK
  <2> QED
    BY <2>1, <2>2, <1>2, <1>3, <1>6 DEF IsTail, Walk
<1> QED
  BY <1>2, <1>3, <1>5, <1>6, CursorInv DEF history

LEMMA FreeScanInv ==
  ASSUME IInv, FreeScan
  PROVE  IInv'
<1>1. TypeOK /\ managed \subseteq Frames /\ OwnedInv
  BY DEF IInv, ManagedInv
<1>2. /\ mode = "free" /\ it # Null
      /\ UNCHANGED <<memmap, entry, head, tail, next, totalPages, freePages, managed, owned, withheld>>
  BY DEF FreeScan, list, history
<1>3. CASE it = FreedPage
  <2>1. mode' \in {"idle", "halted"} /\ region' = NoRegion /\ addr' = 0 /\ it' = Null /\ prev' = Null
    BY <1>3 DEF FreeScan, Report, DropLocals
  <2>2. TypeOK'
    BY <1>1, <1>2, <2>1, TypeFacts DEF TypeOK, Pages, NoRegion, Region, Null
  <2>3. \A s : IsTail(s) => IsTail(s)' /\ Walk(s)'
    BY <1>2, <2>1 DEF IsTail, Walk
  <2> QED
    BY <1>2, <2>1, <2>2, <2>3, CursorInv DEF history
<1>4. CASE it # FreedPage
  <2>1. it' = next[Cell(it)] /\ UNCHANGED <<mode, region, addr, prev>>
    BY <1>4 DEF FreeScan
  <2>2. ASSUME NEW s \in [1 .. freePages -> Pages], IsFreeList(s), IsTail(s), Walk(s)
        PROVE  IsTail(s)' /\ Walk(s)' /\ it' \in Pointer
    <3>1. PICK k \in 1 .. freePages : it = s[k] /\ \A i \in 1 .. k - 1 : s[i] # FreedPage
      BY <1>2, <2>2 DEF Walk
    <3>2. freePages \in Nat /\ it' \in Pointer /\ it' = IF k = freePages THEN Null ELSE s[k + 1]
      BY <1>1, <2>1, <2>2, <3>1, CursorFacts
    <3>3. FreedPage' = FreedPage
      BY <2>1 DEF FreedPage
    <3>4. \A i \in 1 .. k : s[i] # FreedPage
      BY <1>4, <3>1, <3>2
    <3>5. CASE k = freePages
      BY <1>2, <2>1, <2>2, <3>2, <3>3, <3>4, <3>5 DEF IsTail, Walk
    <3>6. CASE k < freePages
      <4>1. k + 1 \in 1 .. freePages /\ it' = s[k + 1]
        BY <3>2, <3>6
      <4>2. \A i \in 1 .. (k + 1) - 1 : s[i] # FreedPage
        BY <3>2, <3>4
      <4> QED
        BY <1>2, <2>1, <2>2, <3>2, <3>3, <4>1, <4>2 DEF IsTail, Walk
    <3> QED
      BY <3>2, <3>5, <3>6
  <2>3. it' \in Pointer
    BY <2>2 DEF IInv, ListInv
  <2>4. TypeOK'
    BY <1>1, <1>2, <2>1, <2>3 DEF TypeOK, Pages
  <2> QED
    BY <1>1, <1>2, <2>1, <2>2, <2>4, CursorInv DEF OwnedInv, history
<1> QED
  BY <1>3, <1>4

(* reserveRegion() starts, or starts again for the next page, at the head. *)
LEMMA ReserveRestartInv ==
  ASSUME IInv, mode \in {"idle", "reserve"}, mode' = "reserve",
         region' \in Region, addr' \in Nat, it' = head, prev' = Null,
         UNCHANGED <<memmap, entry, list, history>>
  PROVE  IInv'
<1>1. TypeOK /\ managed \subseteq Frames
  BY DEF IInv, ManagedInv
<1>2. UNCHANGED <<memmap, entry, head, tail, next, totalPages, freePages, managed, owned, withheld>>
  BY DEF list, history
<1>3. TypeOK'
  BY <1>1, <1>2, TypeFacts DEF TypeOK, Pages
<1>4. ASSUME NEW s \in [1 .. freePages -> Pages], IsFreeList(s)
      PROVE  IsTail(s)' /\ Walk(s)'
  <2>1. (it' = Null /\ freePages = 0) \/ (1 \in 1 .. freePages /\ it' = s[1])
    BY <1>1, <1>4, CursorFacts
  <2> QED
    BY <2>1, <1>2 DEF IsTail, Walk
<1> QED
  BY <1>2, <1>3, <1>4, CursorInv DEF history

LEMMA ReserveSkipInv ==
  ASSUME IInv, ReserveSkip
  PROVE  IInv'
<1>1. TypeOK /\ managed \subseteq Frames
  BY DEF IInv, ManagedInv
<1>2. /\ mode = "reserve" /\ it # Null /\ it # addr /\ prev' = it /\ it' = next[Cell(it)]
      /\ UNCHANGED <<memmap, mode, entry, region, addr>>
      /\ UNCHANGED <<head, tail, next, totalPages, freePages, managed, owned, withheld>>
  BY DEF ReserveSkip, list, history
<1>3. ASSUME NEW s \in [1 .. freePages -> Pages], IsFreeList(s), Walk(s)
      PROVE  IsTail(s)' /\ Walk(s)' /\ it' \in Pointer
  <2>1. PICK k \in 1 .. freePages : it = s[k] /\ \A i \in 1 .. k - 1 : s[i] # addr
    BY <1>2, <1>3 DEF Walk
  <2>2. freePages \in Nat /\ it' \in Pointer /\ it' = IF k = freePages THEN Null ELSE s[k + 1]
    BY <1>1, <1>2, <1>3, <2>1, CursorFacts
  <2>3. \A i \in 1 .. k : s[i] # addr
    BY <1>2, <2>1, <2>2
  <2>4. CASE k = freePages
    BY <1>2, <2>2, <2>3, <2>4 DEF IsTail, Walk
  <2>5. CASE k # freePages
    <3>1. /\ k + 1 \in 1 .. freePages /\ it' = s[k + 1]
          /\ k + 1 # 1 /\ prev' = s[(k + 1) - 1]
      BY <1>2, <2>1, <2>2, <2>5
    <3>2. \A i \in 1 .. (k + 1) - 1 : s[i] # addr
      BY <2>2, <2>3
    <3> QED
      BY <1>2, <2>2, <3>1, <3>2 DEF IsTail, Walk
  <2> QED
    BY <2>4, <2>5
<1>4. it' \in Pointer
  BY <1>3 DEF IInv, ListInv
<1>5. TypeOK'
  BY <1>1, <1>2, <1>4 DEF TypeOK, Pages
<1> QED
  BY <1>2, <1>3, <1>5, CursorInv DEF history

LEMMA ReserveDoneInv ==
  ASSUME IInv, ReserveDone
  PROVE  IInv'
<1>1. TypeOK /\ managed \subseteq Frames
  BY DEF IInv, ManagedInv
<1>2. UNCHANGED <<memmap, entry, head, next, totalPages, freePages, managed, owned, withheld>>
  BY DEF ReserveDone, history
<1>3. CASE Fifo
  <2>1. mode' = "findTail" /\ tail' = Null /\ it' = head /\ UNCHANGED <<region, addr, prev>>
    BY <1>3 DEF ReserveDone
  <2>2. TypeOK'
    BY <1>1, <1>2, <2>1, TypeFacts DEF TypeOK, Pages
  <2>3. ASSUME NEW s \in [1 .. freePages -> Pages], IsFreeList(s)
        PROVE  IsTail(s)' /\ Walk(s)'
    <3>1. (it' = Null /\ freePages = 0) \/ (1 \in 1 .. freePages /\ it' = s[1])
      BY <1>1, <2>1, <2>3, CursorFacts
    <3> QED
      BY <1>2, <2>1, <3>1 DEF IsTail, Walk
  <2> QED
    BY <1>2, <2>1, <2>2, <2>3, CursorInv DEF history
<1>4. CASE ~Fifo
  <2>1. /\ mode' = "idle" /\ tail' = tail
        /\ region' = NoRegion /\ addr' = 0 /\ it' = Null /\ prev' = Null
    BY <1>4 DEF ReserveDone, Return, DropLocals
  <2>2. TypeOK'
    BY <1>1, <1>2, <2>1, TypeFacts DEF TypeOK, Pages, NoRegion, Region, Null
  <2>3. \A s : IsTail(s)' /\ Walk(s)'
    BY <1>4, <2>1 DEF IsTail, Walk
  <2> QED
    BY <1>2, <2>1, <2>2, <2>3, CursorInv DEF history
<1> QED
  BY <1>3, <1>4

LEMMA FindTailInv ==
  ASSUME IInv, FindTail
  PROVE  IInv'
<1>1. TypeOK /\ managed \subseteq Frames
  BY DEF IInv, ManagedInv
<1>2. /\ mode = "findTail"
      /\ UNCHANGED <<memmap, entry, head, next, totalPages, freePages, managed, owned, withheld>>
  BY DEF FindTail, history
<1>3. CASE it # Null /\ next[Cell(it)] # Null
  <2>1. it' = next[Cell(it)] /\ UNCHANGED <<mode, region, addr, prev, tail>>
    BY <1>3 DEF FindTail
  <2>2. ASSUME NEW s \in [1 .. freePages -> Pages], IsFreeList(s), Walk(s)
        PROVE  IsTail(s)' /\ Walk(s)' /\ it' \in Pointer
    <3>1. PICK k \in 1 .. freePages : it = s[k]
      BY <1>2, <1>3, <2>2 DEF Walk
    <3>2. /\ freePages \in Nat /\ it' \in Pointer
          /\ it' = IF k = freePages THEN Null ELSE s[k + 1]
      BY <1>1, <2>1, <2>2, <3>1, CursorFacts
    <3>3. k + 1 \in 1 .. freePages /\ it' = s[k + 1]
      BY <1>3, <2>1, <3>2
    <3> QED
      BY <1>2, <2>1, <3>2, <3>3 DEF IsTail, Walk
  <2>3. it' \in Pointer
    BY <2>2 DEF IInv, ListInv
  <2>4. TypeOK'
    BY <1>1, <1>2, <2>1, <2>3 DEF TypeOK, Pages
  <2> QED
    BY <1>2, <2>1, <2>2, <2>4, CursorInv DEF history
<1>4. CASE ~(it # Null /\ next[Cell(it)] # Null)
  <2>1. /\ tail' = it /\ mode' = "idle"
        /\ region' = NoRegion /\ addr' = 0 /\ it' = Null /\ prev' = Null
    BY <1>4 DEF FindTail, Return, DropLocals
  <2>2. TypeOK'
    BY <1>1, <1>2, <2>1, TypeFacts DEF TypeOK, Pages, NoRegion, Region, Null
  <2>3. ASSUME NEW s \in [1 .. freePages -> Pages], IsFreeList(s), Walk(s)
        PROVE  IsTail(s)' /\ Walk(s)'
    <3>1. it = IF freePages = 0 THEN Null ELSE s[freePages]
      BY <1>1, <1>2, <1>4, <2>3, CursorFacts DEF Walk
    <3> QED
      BY <1>2, <2>1, <3>1 DEF IsTail, Walk
  <2> QED
    BY <1>2, <2>1, <2>2, <2>3, CursorInv DEF history
<1> QED
  BY <1>3, <1>4

(* Steps that end a call or a loop, or end in a panic, without having      *)
(* changed the list.                                                       *)
LEMMA QuietInv ==
  ASSUME IInv, TypeOK', UNCHANGED <<memmap, list, history>>,
         entry' \in {entry, entry + 1},
         mode \notin {"reserve", "findTail"},
         mode' \notin {"addRegion", "free", "reserve", "findTail"}
  PROVE  IInv'
<1>1. UNCHANGED <<managed, owned, withheld, totalPages, freePages>>
  BY DEF list, history
<1> QED
  BY <1>1, KeepManaged, KeepOwned, KeepCount, KeepList DEF IInv

LEMMA NextEntryInv ==
  ASSUME IInv, NextEntry
  PROVE  IInv'
<1>1. TypeOK /\ ManagedInv /\ OwnedInv /\ CountInv /\ memmap \in Seq(Entry)
  BY MemMapsAssumption DEF IInv, TypeOK
<1>2. /\ mode = "init" /\ entry <= Len(memmap) /\ entry' = entry + 1
      /\ UNCHANGED <<memmap, it, prev, list, history>>
      /\ UNCHANGED <<head, tail, next, totalPages, freePages, managed, owned, withheld>>
  BY DEF NextEntry, list, history
<1>3. memmap[entry] \in Entry /\ entry \in 1 .. Len(memmap) /\ entry' \in 1 .. Len(memmap) + 1
  BY <1>1, <1>2, EntryType DEF TypeOK
<1>4. CASE Contributes(memmap[entry])
  <2>1. mode' = "addRegion" /\ region' = Clamped(memmap[entry]) /\ addr' = First(region')
    BY <1>4 DEF NextEntry
  <2>2. region' \in Region /\ First(region') \in Nat
    BY <1>3, <2>1, ClampedType, RegionBounds
  <2>3. TypeOK'
    BY <1>1, <1>2, <1>3, <2>1, <2>2 DEF TypeOK, Pages
  <2>4. ManagedInv'
    <3>1. ASSUME NEW f, NEW j \in 1 .. entry - 1, LinkedFrom(f, j)
          PROVE  LinkedFrom(f, j)' /\ j \in 1 .. entry' - 1
      BY <1>2, <1>3, <3>1 DEF LinkedFrom
    <3>2. \A f \in managed' : \E j \in 1 .. entry' - 1 : LinkedFrom(f, j)'
      BY <1>1, <1>2, <3>1 DEF ManagedInv
    <3>3. entry' > 1 /\ memmap'[entry' - 1] = memmap[entry] /\ First(region') <= addr'
      BY <1>2, <1>3, <2>1, <2>2
    <3> QED
      BY <1>1, <1>2, <1>4, <2>1, <3>2, <3>3 DEF ManagedInv
  <2> QED
    BY <1>1, <1>2, <2>1, <2>3, <2>4, KeepOwned, KeepCount, KeepList DEF IInv
<1>5. CASE ~Contributes(memmap[entry])
  <2>1. UNCHANGED <<mode, region, addr>>
    BY <1>5 DEF NextEntry
  <2>2. TypeOK'
    BY <1>1, <1>2, <1>3, <2>1 DEF TypeOK, Pages
  <2> QED
    BY <1>2, <2>1, <2>2, QuietInv
<1> QED
  BY <1>4, <1>5

LEMMA StutterInv ==
  ASSUME IInv, UNCHANGED vars
  PROVE  IInv'
<1>1. /\ UNCHANGED <<memmap, mode, entry, region, addr, it, prev>>
      /\ UNCHANGED <<head, tail, next, totalPages, freePages, managed, owned, withheld>>
  BY DEF vars, locals, list, history
<1>2. TypeOK'
  BY <1>1 DEF IInv, TypeOK, Pages
<1>3. ManagedInv'
  <2>1. \A f, j : LinkedFrom(f, j) => LinkedFrom(f, j)'
    BY <1>1 DEF LinkedFrom
  <2> QED
    BY <1>1, <2>1 DEF IInv, ManagedInv
<1>4. OwnedInv'
  BY <1>1 DEF IInv, OwnedInv, Cells
<1>5. CountInv'
  BY <1>1, KeepCount DEF IInv
<1>6. PICK s \in [1 .. freePages -> Pages] :
        IsFreeList(s) /\ IsTail(s) /\ ListsTheFree(s) /\ Walk(s)
  BY DEF IInv, ListInv
<1>7. Pages' = Pages /\ Cells(owned)' = Cells(owned)
  BY <1>1 DEF Pages, Cells
<1>8. s \in [1 .. freePages' -> Pages'] /\ IsFreeList(s)' /\ IsTail(s)'
  BY <1>1, <1>6, <1>7 DEF IsFreeList, ListUpTo, IsTail
<1>9. ListsTheFree(s)'
  BY <1>1, <1>6, <1>7 DEF ListsTheFree, Listed
<1>10. Walk(s)'
  BY <1>1, <1>6 DEF Walk, FreedPage
<1>11. ListInv'
  BY <1>8, <1>9, <1>10 DEF ListInv
<1> QED
  BY <1>2, <1>3, <1>4, <1>5, <1>11 DEF IInv

LEMMA StepInv ==
  ASSUME DoubleFreesVisible, IInv, [Next]_vars, ~FreeFault
  PROVE  IInv'
<1>1. TypeOK
  BY DEF IInv
<1>2. CASE NextEntry
  BY <1>2, NextEntryInv
<1>3. CASE LinkPage
  BY <1>3, LinkPageInv
<1>4. CASE InitUnavailable
  <2>1. mode = "init" /\ mode' = "halted" /\ UNCHANGED <<memmap, entry, locals, list, history>>
    BY <1>4 DEF InitUnavailable, Panic
  <2>2. TypeOK'
    BY <1>1, <2>1 DEF TypeOK, Pages, locals, list, history
  <2> QED
    BY <2>1, <2>2, QuietInv
<1>5. CASE EndRegion
  <2>1. /\ mode = "addRegion" /\ mode' = "init" /\ region' = NoRegion /\ addr' = 0
        /\ it' = Null /\ prev' = Null /\ UNCHANGED <<memmap, entry, list, history>>
    BY <1>5 DEF EndRegion, DropLocals
  <2>2. TypeOK'
    BY <1>1, <2>1, TypeFacts DEF TypeOK, Pages, list, history, NoRegion, Region, Null
  <2> QED
    BY <2>1, <2>2, QuietInv
<1>6. CASE InitDone
  <2>1. mode = "init" /\ mode' = "idle" /\ UNCHANGED <<memmap, entry, locals, list, history>>
    BY <1>6 DEF InitDone
  <2>2. TypeOK'
    BY <1>1, <2>1 DEF TypeOK, Pages, locals, list, history
  <2> QED
    BY <2>1, <2>2, QuietInv
<1>7. CASE FreeScan
  BY <1>7, FreeScanInv
<1>8. CASE FreeLink
  BY <1>8, FreeLinkInv
<1>9. CASE FreeFault
  BY <1>9
<1>10. CASE ReserveUnlink
  BY <1>10, ReserveUnlinkInv
<1>11. CASE ReserveSkip
  BY <1>11, ReserveSkipInv
<1>12. CASE ReserveNextPage
  <2>1. /\ mode = "reserve" /\ mode' = "reserve" /\ addr' = addr + PageSize
        /\ it' = head /\ prev' = Null /\ UNCHANGED <<memmap, entry, region, list, history>>
    BY <1>12 DEF ReserveNextPage
  <2>2. addr' \in Nat /\ region' \in Region
    BY <1>1, <2>1, ConstantsAssumption DEF TypeOK
  <2> QED
    BY <2>1, <2>2, ReserveRestartInv
<1>13. CASE ReserveDone
  BY <1>13, ReserveDoneInv
<1>14. CASE FindTail
  BY <1>14, FindTailInv
<1>15. CASE Allocate
  BY <1>15, AllocateInv
<1>16. CASE AllocateOutOfMemory
  <2>1. mode = "idle" /\ mode' = "halted" /\ UNCHANGED <<memmap, entry, locals, list, history>>
    BY <1>16 DEF AllocateOutOfMemory, Panic
  <2>2. TypeOK'
    BY <1>1, <2>1 DEF TypeOK, Pages, locals, list, history
  <2> QED
    BY <2>1, <2>2, QuietInv
<1>17. ASSUME NEW a \in FreeRequests, FreeMisaligned(a)
       PROVE  IInv'
  <2>1. /\ mode = "idle" /\ mode' \in {"idle", "halted"}
        /\ UNCHANGED <<memmap, entry, locals, list, history>>
    BY <1>17 DEF FreeMisaligned, Report
  <2>2. TypeOK'
    BY <1>1, <2>1 DEF TypeOK, Pages, locals, list, history
  <2> QED
    BY <2>1, <2>2, QuietInv
<1>18. ASSUME NEW r \in ReserveRequests, ReserveCall(r)
       PROVE  IInv'
  <2>1. /\ mode = "idle" /\ mode' = "reserve" /\ region' = r /\ addr' = First(r)
        /\ it' = head /\ prev' = Null /\ UNCHANGED <<memmap, entry, list, history>>
    BY <1>18 DEF ReserveCall
  <2>2. addr' \in Nat /\ region' \in Region
    BY <2>1, ConstantsAssumption, RegionBounds
  <2> QED
    BY <2>1, <2>2, ReserveRestartInv
<1>19. CASE Client
  <2>1. CASE Allocate \/ AllocateOutOfMemory
    BY <2>1, <1>15, <1>16
  <2>2. CASE TryAllocateOutOfMemory
    BY <2>2, StutterInv DEF TryAllocateOutOfMemory
  <2>3. CASE \E a \in FreeRequests : FreeMisaligned(a) \/ FreeCall(a)
    BY <2>3, <1>17, FreeCallInv
  <2>4. CASE \E r \in ReserveRequests : ReserveCall(r) \/ ReserveNothing(r)
    BY <2>4, <1>18, StutterInv DEF ReserveNothing
  <2>5. CASE \E a \in owned, d \in ClientData : ClientWrite(a, d)
    BY <2>5, ClientWriteInv
  <2> QED
    BY <1>19, <2>1, <2>2, <2>3, <2>4, <2>5 DEF Client
<1>20. CASE Halted \/ UNCHANGED vars
  BY <1>20, StutterInv DEF Halted
<1> QED
  BY <1>2, <1>3, <1>4, <1>5, <1>6, <1>7, <1>8, <1>9, <1>10, <1>11, <1>12, <1>13, <1>14,
     <1>19, <1>20 DEF Next, Step

-----------------------------------------------------------------------------
(* A free() that faults.                                                   *)

(* What it leaves behind, for good: the exception handler halts. *)
FaultedInv ==
  mode = "faulted" /\ TypeOK /\ ManagedInv /\ OwnedInv /\ CountInv /\ FreeListIntact

AllocatorInv == FaultedInv \/ (mode # "faulted" /\ IInv)

(* Nothing else ends there. *)
LEMMA OnlyFreeFaults ==
  ASSUME mode # "faulted", [Next]_vars, ~FreeFault
  PROVE  mode' # "faulted"
<1>1. CASE Step
  BY <1>1 DEF Step, InitUnavailable, NextEntry, LinkPage, EndRegion, InitDone, FreeScan, FreeLink,
              ReserveUnlink, ReserveSkip, ReserveNextPage, ReserveDone, FindTail,
              Panic, Report, Return
<1>2. CASE Client
  BY <1>2 DEF Client, Allocate, AllocateOutOfMemory, TryAllocateOutOfMemory, FreeMisaligned,
              FreeCall, ReserveCall, ReserveNothing, ClientWrite, vars, Panic, Report
<1>3. CASE Halted \/ UNCHANGED vars
  BY <1>3 DEF Halted, vars
<1> QED
  BY <1>1, <1>2, <1>3 DEF Next

LEMMA FaultIsFinal ==
  ASSUME mode = "faulted", [Next]_vars
  PROVE  UNCHANGED vars
<1>1. CASE Step
  BY <1>1 DEF Step, InitUnavailable, NextEntry, LinkPage, EndRegion, InitDone, FreeScan, FreeLink,
              FreeFault, ReserveUnlink, ReserveSkip, ReserveNextPage, ReserveDone, FindTail
<1>2. CASE Client
  BY <1>2 DEF Client, Allocate, AllocateOutOfMemory, TryAllocateOutOfMemory, FreeMisaligned,
              FreeCall, ReserveCall, ReserveNothing, ClientWrite
<1>3. CASE Halted \/ UNCHANGED vars
  BY <1>3 DEF Halted
<1> QED
  BY <1>1, <1>2, <1>3 DEF Next

(* With a queue, the last page on the list is made to point to the page     *)
(* whose own pointer then cannot be written.                               *)
LEMMA FreeFaultLeaves ==
  ASSUME IInv, FreeFault
  PROVE  FaultedInv'
<1>1. TypeOK /\ managed \subseteq Frames /\ freePages \in Nat /\ next \in [Phys -> Pointer]
  BY DEF IInv, TypeOK, ManagedInv
<1>2. /\ mode = "free" /\ mode' = "faulted"
      /\ next' = IF Fifo /\ tail # Null THEN [next EXCEPT ![Cell(tail)] = FreedPage] ELSE next
      /\ UNCHANGED <<memmap, entry, region, addr, it, prev, head, tail, totalPages, freePages>>
      /\ UNCHANGED <<managed, owned, withheld>>
  BY DEF FreeFault, locals, history
<1>3. FreedPage \in Pointer
  <2>1. addr \in Pages
    BY <1>1, <1>2, PageFacts DEF IInv, OwnedInv, TypeOK, Pages
  <2>2. addr \in Pointer
    BY <1>1, <2>1, PageFacts
  <2> QED
    BY <2>2, ConstantsAssumption DEF FreedPage, Virt, Add, Pointer
<1>4. PICK s \in [1 .. freePages -> Pages] : IsFreeList(s) /\ IsTail(s) /\ ListsTheFree(s)
  BY DEF IInv, ListInv
<1>5. /\ \A i, j \in 1 .. freePages : Cell(s[i]) = Cell(s[j]) => i = j
      /\ \A i \in 1 .. freePages : next[Cell(s[i])] = IF i = freePages THEN Null ELSE s[i + 1]
      /\ head = IF freePages = 0 THEN Null ELSE s[1]
  BY <1>4 DEF IsFreeList, ListUpTo
<1>6. \A i \in 1 .. freePages : Cell(s[i]) \in Phys /\ s[i] # Null
  BY <1>1, <1>4, PageFacts
<1>7. Fifo => tail = IF freePages = 0 THEN Null ELSE s[freePages]
  BY <1>2, <1>4 DEF IsTail
<1>8. \A i \in 1 .. freePages :
        next'[Cell(s[i])] = IF i = freePages THEN IF Fifo THEN FreedPage ELSE Null ELSE s[i + 1]
  <2>1. CASE ~Fifo
    BY <1>2, <1>5, <2>1
  <2>2. CASE Fifo /\ freePages = 0
    BY <1>1, <2>2
  <2>3. CASE Fifo /\ freePages # 0
    <3>1. freePages \in 1 .. freePages
      BY <1>1, <2>3
    <3>2. tail = s[freePages] /\ tail # Null
      BY <1>6, <1>7, <2>3, <3>1
    <3>3. next' = [next EXCEPT ![Cell(s[freePages])] = FreedPage]
      BY <1>2, <2>3, <3>2
    <3> QED
      BY <1>1, <1>5, <1>6, <2>3, <3>1, <3>3
  <2> QED
    BY <2>1, <2>2, <2>3
<1>9. Pages' = Pages /\ Cells(owned)' = Cells(owned) /\ FreedPage' = FreedPage
  BY <1>2 DEF Pages, Cells, FreedPage
<1>10. ListUpTo(s, IF mode = "faulted" /\ Fifo THEN FreedPage ELSE Null)'
  BY <1>2, <1>5, <1>8, <1>9 DEF ListUpTo
<1>11. IsTail(s)' /\ ListsTheFree(s)'
  BY <1>2, <1>4, <1>7, <1>9 DEF IsTail, ListsTheFree, Listed
<1>12. FreeListIntact'
  BY <1>2, <1>4, <1>9, <1>10, <1>11 DEF FreeListIntact
<1>13. next' \in [Phys -> Pointer]
  BY <1>1, <1>2, <1>3
<1>14. TypeOK'
  BY <1>1, <1>2, <1>9, <1>13 DEF TypeOK
<1> QED
  BY <1>2, <1>12, <1>14, KeepManaged, KeepOwned, KeepCount DEF FaultedInv, IInv

LEMMA FaultedStutter ==
  ASSUME FaultedInv, UNCHANGED vars
  PROVE  FaultedInv'
<1>1. /\ UNCHANGED <<memmap, mode, entry, region, addr, it, prev>>
      /\ UNCHANGED <<head, tail, next, totalPages, freePages, managed, owned, withheld>>
  BY DEF vars, locals, list, history
<1>2. Pages' = Pages /\ Cells(owned)' = Cells(owned) /\ FreedPage' = FreedPage
  BY <1>1 DEF Pages, Cells, FreedPage
<1>3. TypeOK'
  BY <1>1, <1>2 DEF FaultedInv, TypeOK
<1>4. PICK s \in [1 .. freePages -> Pages] :
        /\ ListUpTo(s, IF mode = "faulted" /\ Fifo THEN FreedPage ELSE Null)
        /\ IsTail(s) /\ ListsTheFree(s)
  BY DEF FaultedInv, FreeListIntact
<1>5. /\ ListUpTo(s, IF mode = "faulted" /\ Fifo THEN FreedPage ELSE Null)'
      /\ IsTail(s)' /\ ListsTheFree(s)'
  BY <1>1, <1>2, <1>4 DEF ListUpTo, IsTail, ListsTheFree, Listed
<1>6. FreeListIntact'
  BY <1>1, <1>2, <1>4, <1>5 DEF FreeListIntact
<1> QED
  BY <1>1, <1>3, <1>6, KeepManaged, KeepOwned, KeepCount DEF FaultedInv

LEMMA AllocatorStep ==
  ASSUME DoubleFreesVisible, AllocatorInv, [Next]_vars
  PROVE  AllocatorInv'
<1>1. CASE FaultedInv
  BY <1>1, FaultIsFinal, FaultedStutter DEF FaultedInv, AllocatorInv
<1>2. CASE IInv /\ mode # "faulted" /\ FreeFault
  BY <1>2, FreeFaultLeaves DEF AllocatorInv
<1>3. CASE IInv /\ mode # "faulted" /\ ~FreeFault
  BY <1>3, StepInv, OnlyFreeFaults DEF AllocatorInv
<1> QED
  BY <1>1, <1>2, <1>3 DEF AllocatorInv

-----------------------------------------------------------------------------
(* The theorems.  All suppose that double frees are visible: that there is *)
(* no HHDM, or that the client does not free a page twice.                 *)

(* The free list stays sound, whatever sequence of calls is made.          *)
THEOREM InductiveInvariant ==
  ASSUME DoubleFreesVisible
  PROVE  Spec => []AllocatorInv
<1>1. Init => AllocatorInv
  BY InitInv DEF Init, AllocatorInv
<1>2. AllocatorInv /\ [Next]_vars => AllocatorInv'
  BY AllocatorStep
<1> QED
  BY <1>1, <1>2, PTL DEF Spec

(* The counters are never negative, every pointer is a u64, and the client *)
(* holds only pages init() has linked.                                     *)
THEOREM TypeCorrect ==
  ASSUME DoubleFreesVisible
  PROVE  Spec => []TypeOK
<1>1. AllocatorInv => TypeOK
  BY DEF AllocatorInv, FaultedInv, IInv
<1> QED
  BY <1>1, InductiveInvariant, PTL

(* The free list is a null-terminated chain without a cycle that has       *)
(* exactly the free pages, s_free_pages of them; only a free() that faults *)
(* leaves a queue whose last pointer leads to the page it was about.       *)
THEOREM FreeListStaysIntact ==
  ASSUME DoubleFreesVisible
  PROVE  Spec => []FreeListIntact
<1>1. ASSUME IInv, mode # "faulted" PROVE FreeListIntact
  BY <1>1 DEF IInv, ListInv, IsFreeList, FreeListIntact
<1>2. AllocatorInv => FreeListIntact
  BY <1>1 DEF AllocatorInv, FaultedInv
<1> QED
  BY <1>2, InductiveInvariant, PTL

(* freePages() and totalPages() are right, and nobody holds a page that     *)
(* is reserved.                                                            *)
THEOREM PagesStayAccountedFor ==
  ASSUME DoubleFreesVisible
  PROVE  Spec => []PagesAccountedFor
<1>1. AllocatorInv => PagesAccountedFor
  BY DEF AllocatorInv, FaultedInv, IInv, OwnedInv, CountInv, PagesAccountedFor
<1> QED
  BY <1>1, InductiveInvariant, PTL

-----------------------------------------------------------------------------
(* A page on the list is not one the client holds: the stores that link or *)
(* unlink a page go to pages on the list, or to the page being linked.      *)
LEMMA PushWrites ==
  ASSUME IInv, mode \notin {"reserve", "findTail"}, NEW page, Push(page),
         NEW a \in owned, Cell(a) # Cell(page)
  PROVE  next'[Cell(a)] = next[Cell(a)]
<1>1. TypeOK /\ managed \subseteq Frames /\ next \in [Phys -> Pointer] /\ freePages \in Nat
  BY DEF IInv, TypeOK, ManagedInv
<1>2. Cell(a) \in Phys
  BY <1>1, PageFacts DEF TypeOK
<1>3. CASE PushFront(page)
  BY <1>1, <1>2, <1>3 DEF PushFront
<1>4. CASE Fifo /\ PushBack(page)
  <2>1. PICK s \in [1 .. freePages -> Pages] : IsTail(s) /\ ListsTheFree(s)
    BY DEF IInv, ListInv
  <2>2. tail = IF freePages = 0 THEN Null ELSE s[freePages]
    BY <1>4, <2>1 DEF IsTail
  <2>3. tail # Null => Cell(tail) \in Listed(s)
    BY <1>1, <2>2 DEF Listed
  <2>4. tail # Null => Cell(tail) # Cell(a)
    BY <2>1, <2>3 DEF ListsTheFree, Cells
  <2> QED
    BY <1>1, <1>2, <1>4, <2>4 DEF PushBack
<1> QED
  BY <1>3, <1>4 DEF Push

LEMMA UnlinkWrites ==
  ASSUME IInv, ReserveUnlink, NEW a \in owned
  PROVE  next'[Cell(a)] = next[Cell(a)]
<1>1. TypeOK /\ managed \subseteq Frames /\ next \in [Phys -> Pointer] /\ freePages \in Nat
  BY DEF IInv, TypeOK, ManagedInv
<1>2. Cell(a) \in Phys
  BY <1>1, PageFacts DEF TypeOK
<1>3. PICK s \in [1 .. freePages -> Pages] : ListsTheFree(s) /\ Walk(s)
  BY DEF IInv, ListInv
<1>4. PICK k \in 1 .. freePages : prev = IF k = 1 THEN Null ELSE s[k - 1]
  BY <1>3 DEF Walk, ReserveUnlink
<1>5. prev # Null => Cell(prev) \in Listed(s)
  BY <1>1, <1>4 DEF Listed
<1>6. prev # Null => Cell(prev) # Cell(a)
  BY <1>3, <1>5 DEF ListsTheFree, Cells
<1> QED
  BY <1>1, <1>2, <1>6 DEF ReserveUnlink, Unlink

LEMMA FaultWrites ==
  ASSUME IInv, FreeFault, NEW a \in owned
  PROVE  next'[Cell(a)] = next[Cell(a)]
<1>1. TypeOK /\ managed \subseteq Frames /\ next \in [Phys -> Pointer] /\ freePages \in Nat
  BY DEF IInv, TypeOK, ManagedInv
<1>2. Cell(a) \in Phys
  BY <1>1, PageFacts DEF TypeOK
<1>3. PICK s \in [1 .. freePages -> Pages] : IsTail(s) /\ ListsTheFree(s)
  BY DEF IInv, ListInv
<1>4. Fifo => tail = IF freePages = 0 THEN Null ELSE s[freePages]
  BY <1>3 DEF IsTail, FreeFault
<1>5. Fifo /\ tail # Null => Cell(tail) \in Listed(s)
  BY <1>1, <1>4 DEF Listed
<1>6. Fifo /\ tail # Null => Cell(tail) # Cell(a)
  BY <1>3, <1>5 DEF ListsTheFree, Cells
<1> QED
  BY <1>1, <1>2, <1>6 DEF FreeFault

LEMMA StepWrites ==
  ASSUME DoubleFreesVisible, IInv, Next, NEW a \in owned \cap owned'
  PROVE  next'[Cell(a)] \in {next[Cell(a)]} \cup ClientData
<1>1. managed \subseteq Frames /\ owned \subseteq Pages
  BY DEF IInv, TypeOK, ManagedInv
<1>2. CASE LinkPage
  <2>1. addr \in Frames /\ addr \notin managed
    BY <1>2, FreshPage DEF IInv
  <2>2. Cell(a) \in managed /\ Cell(addr) = addr
    BY <1>1, <2>1, PageFacts, FrameFacts
  <2>3. PICK page : page = addr
    OBVIOUS
  <2>4. Push(page) /\ Cell(page) # Cell(a) /\ mode = "addRegion"
    BY <1>2, <2>1, <2>2, <2>3 DEF LinkPage
  <2> QED
    BY <2>4, PushWrites
<1>3. CASE FreeLink
  <2>1. addr \in owned /\ addr \in managed /\ Cell(addr) = addr
    BY <1>3, FreedIsOwned DEF FreeLink
  <2>2. PICK page : page = FreedPage
    OBVIOUS
  <2>3. Cell(page) = addr
    BY <1>1, <2>1, <2>2, FrameFacts DEF FreedPage
  <2>4. Push(page) /\ mode = "free" /\ a # addr
    BY <1>3, <2>2 DEF FreeLink
  <2>5. Cell(a) # Cell(page)
    BY <2>1, <2>3, <2>4 DEF IInv, OwnedInv
  <2> QED
    BY <2>4, <2>5, PushWrites
<1>4. CASE ReserveUnlink
  BY <1>4, UnlinkWrites
<1>5. CASE \E b \in owned, d \in ClientData : ClientWrite(b, d)
  <2>1. Cell(a) \in Phys /\ next \in [Phys -> Pointer]
    BY <1>1, PageFacts DEF IInv, TypeOK
  <2> QED
    BY <1>5, <2>1 DEF ClientWrite
<1>6. CASE FreeFault
  BY <1>6, FaultWrites
<1>7. CASE UNCHANGED next
  BY <1>7
<1>8. \/ LinkPage \/ FreeLink \/ ReserveUnlink \/ FreeFault
      \/ \E b \in owned, d \in ClientData : ClientWrite(b, d)
      \/ UNCHANGED next
  <2>1. Halted \/ Step \/ Client
    BY DEF Next
  <2>2. CASE Halted
    BY <2>2 DEF Halted, vars, list
  <2>3. CASE Step
    BY <2>3 DEF Step, InitUnavailable, NextEntry, EndRegion, InitDone, FreeScan,
                ReserveSkip, ReserveNextPage, ReserveDone, FindTail, list
  <2>4. CASE Client
    BY <2>4 DEF Client, Allocate, AllocateOutOfMemory, TryAllocateOutOfMemory, FreeMisaligned,
                FreeCall, ReserveCall, ReserveNothing, vars, list
  <2> QED
    BY <2>1, <2>2, <2>3, <2>4
<1> QED
  BY <1>2, <1>3, <1>4, <1>5, <1>6, <1>7, <1>8

(* The allocator never writes into a page the client holds.                *)
THEOREM ClientPagesStayUntouched ==
  ASSUME DoubleFreesVisible
  PROVE  Spec => ClientPagesUntouched
<1>1. AllocatorInv /\ [Next]_vars =>
        [\A a \in owned \cap owned' :
           next'[Cell(a)] \in {next[Cell(a)]} \cup ClientData]_vars
  BY StepWrites, FaultIsFinal DEF AllocatorInv, FaultedInv
<1> QED
  BY <1>1, InductiveInvariant, PTL DEF Spec, ClientPagesUntouched

-----------------------------------------------------------------------------
(* Pages are multiples of PageSize.                                        *)

LEMMA Quotient ==
  ASSUME NEW a \in Nat
  PROVE  /\ a \div PageSize \in Nat /\ a % PageSize \in 0 .. PageSize - 1
         /\ a = (a \div PageSize) * PageSize + (a % PageSize)
<1>1. PageSize \in Nat \ {0}
  BY ConstantsAssumption
<1> QED
  BY <1>1

LEMMA Multiple ==
  ASSUME NEW k \in Nat
  PROVE  (k * PageSize) % PageSize = 0 /\ k * PageSize \in Nat
<1>1. PageSize \in Nat \ {0}
  BY ConstantsAssumption
<1> QED
  BY <1>1

LEMMA MultiplesApart ==
  ASSUME NEW k \in Nat, NEW m \in Nat, k * PageSize < m * PageSize
  PROVE  k * PageSize + PageSize <= m * PageSize
<1>1. PageSize \in Nat \ {0}
  BY ConstantsAssumption
<1> QED
  BY <1>1

LEMMA AlignedIsMultiple ==
  ASSUME NEW a \in Nat, Aligned(a)
  PROVE  \E k \in Nat : a = k * PageSize
  BY Quotient, Multiple DEF Aligned

(* Between two page addresses there is a whole page.                       *)
LEMMA AlignedApart ==
  ASSUME NEW a \in Nat, NEW b \in Nat, Aligned(a), Aligned(b), a < b
  PROVE  a + PageSize <= b
<1>1. PICK k \in Nat : a = k * PageSize
  BY AlignedIsMultiple
<1>2. PICK m \in Nat : b = m * PageSize
  BY AlignedIsMultiple
<1> QED
  BY <1>1, <1>2, MultiplesApart

LEMMA AlignedNext ==
  ASSUME NEW a \in Nat, Aligned(a)
  PROVE  Aligned(a + PageSize)
<1>1. PICK k \in Nat : a = k * PageSize
  BY AlignedIsMultiple
<1>2. PICK m \in Nat : m = k + 1
  OBVIOUS
<1>3. PageSize \in Nat
  BY ConstantsAssumption
<1>4. a + PageSize = m * PageSize
  BY <1>1, <1>2, <1>3
<1> QED
  BY <1>4, Multiple DEF Aligned

(* AlignDown() gives the last page address that is not above a.            *)
LEMMA AlignDownFacts ==
  ASSUME NEW a \in Nat
  PROVE  /\ AlignDown(a) \in Nat /\ Aligned(AlignDown(a))
         /\ AlignDown(a) <= a /\ a < AlignDown(a) + PageSize
         /\ \A f \in Nat : Aligned(f) /\ f <= a => f <= AlignDown(a)
<1>1. PICK k \in Nat : k = a \div PageSize
  BY Quotient
<1>2. PageSize \in Nat /\ k * PageSize \in Nat
  BY ConstantsAssumption, Multiple
<1>3. AlignDown(a) = k * PageSize /\ a < AlignDown(a) + PageSize /\ AlignDown(a) <= a
  BY <1>1, <1>2, Quotient DEF AlignDown
<1>4. AlignDown(a) \in Nat /\ Aligned(AlignDown(a))
  BY <1>2, <1>3, Multiple DEF Aligned
<1>5. ASSUME NEW f \in Nat, Aligned(f), f <= a, ~(f <= AlignDown(a))
      PROVE  FALSE
  <2>1. AlignDown(a) + PageSize <= f
    BY <1>4, <1>5, AlignedApart
  <2> QED
    BY <1>2, <1>3, <1>4, <1>5, <2>1
<1> QED
  BY <1>3, <1>4, <1>5

(* AlignUp() gives the first page address that is not below a, unless it   *)
(* wraps around.                                                           *)
LEMMA AlignUpFacts ==
  ASSUME NEW a \in Pointer
  PROVE  /\ AlignUp(a) \in Nat /\ Aligned(AlignUp(a))
         /\ a + PageSize <= AddrSpace =>
              /\ a <= AlignUp(a)
              /\ \A f \in Nat : Aligned(f) /\ a <= f => AlignUp(a) <= f
         /\ a + PageSize > AddrSpace => AlignUp(a) < PageSize
<1>1. PICK b : b = Add(a, PageSize - 1)
  OBVIOUS
<1>2. /\ a \in Nat /\ a < AddrSpace /\ PageSize \in Nat /\ 0 < PageSize
      /\ AddrSpace \in Nat /\ PageSize < AddrSpace
  BY ConstantsAssumption DEF Pointer
<1>3. /\ b \in Nat
      /\ a + PageSize <= AddrSpace => b = a + PageSize - 1
      /\ a + PageSize > AddrSpace => b < PageSize
  BY <1>1, <1>2 DEF Add
<1>4. /\ AlignUp(a) = AlignDown(b) /\ AlignUp(a) \in Nat /\ Aligned(AlignUp(a))
      /\ AlignUp(a) <= b /\ b < AlignUp(a) + PageSize
  BY <1>1, <1>3, AlignDownFacts DEF AlignUp
<1>5. ASSUME a + PageSize <= AddrSpace, NEW f \in Nat, Aligned(f), a <= f, ~(AlignUp(a) <= f)
      PROVE  FALSE
  <2>1. f + PageSize <= AlignUp(a)
    BY <1>4, <1>5, AlignedApart
  <2> QED
    BY <1>2, <1>3, <1>4, <1>5, <2>1
<1> QED
  BY <1>2, <1>3, <1>4, <1>5

(* The whole pages of what init() passes on of an entry.                   *)
LEMMA ClampedFacts ==
  ASSUME NEW e \in Entry
  PROVE  /\ Clamped(e).base = IF e.base < MinPhysical THEN MinPhysical ELSE e.base
         /\ Clamped(e) \in Region
         /\ EntryEnd(e) \in Pointer
         /\ EntryEnd(e) = IF e.base + e.length < AddrSpace THEN e.base + e.length
                          ELSE e.base + e.length - AddrSpace
         /\ Limit(Clamped(e)) = AlignDown(EntryEnd(e))
<1>1. /\ e.base \in Nat /\ e.length \in Nat /\ e.base < AddrSpace /\ e.length < AddrSpace
      /\ AddrSpace \in Nat /\ MinPhysical \in Nat /\ MinPhysical < AddrSpace
  BY ConstantsAssumption DEF Entry, Pointer
<1>2. PICK start : start = IF e.base < MinPhysical THEN MinPhysical ELSE e.base
  OBVIOUS
<1>3. Clamped(e).base = start /\ Clamped(e).length = Sub(EntryEnd(e), start)
  BY <1>2 DEF Clamped
<1>4. /\ EntryEnd(e) = IF e.base + e.length < AddrSpace THEN e.base + e.length
                       ELSE e.base + e.length - AddrSpace
      /\ EntryEnd(e) \in Pointer
  BY <1>1 DEF EntryEnd, Add, Pointer
<1>5. start \in Pointer
  BY <1>1, <1>2 DEF Pointer
<1>6. \A a, b \in Pointer : Add(b, Sub(a, b)) = a
  BY <1>1 DEF Add, Sub, Pointer
<1> QED
  BY <1>2, <1>3, <1>4, <1>5, <1>6, ClampedType DEF Limit

LEMMA ClampedIsUsable ==
  ASSUME NEW e \in Entry, Contributes(e), MinPhysical <= First(Clamped(e)),
         NEW f \in Nat, Aligned(f), First(Clamped(e)) <= f, f < Limit(Clamped(e))
  PROVE  f >= MinPhysical /\ e.usable /\ e.base <= f /\ f + PageSize <= e.base + e.length
<1>1. /\ e.base \in Nat /\ e.length \in Nat /\ e.base < AddrSpace /\ e.length < AddrSpace
      /\ AddrSpace \in Nat /\ MinPhysical \in Nat /\ PageSize \in Nat /\ PageSize <= MinPhysical
  BY ConstantsAssumption DEF Entry, Pointer
<1>2. PICK start \in Pointer : start = Clamped(e).base
  BY ClampedFacts DEF Region
<1>3. start \in Nat /\ e.base <= start /\ First(Clamped(e)) = AlignUp(start)
  BY <1>1, <1>2, ClampedFacts DEF First, Pointer
<1>4. AlignUp(start) \in Nat /\ start <= AlignUp(start)
  BY <1>1, <1>2, <1>3, AlignUpFacts
<1>5. PICK end \in Nat : end = EntryEnd(e)
  BY ClampedFacts DEF Pointer
<1>6. /\ Limit(Clamped(e)) = AlignDown(end) /\ AlignDown(end) \in Nat
      /\ AlignDown(end) <= end /\ Aligned(AlignDown(end))
  BY <1>5, ClampedFacts, AlignDownFacts
<1>7. f + PageSize <= AlignDown(end)
  BY <1>6, AlignedApart
<1>8. e.base <= f /\ f < end
  BY <1>1, <1>3, <1>4, <1>6
<1>9. end = e.base + e.length
  BY <1>1, <1>5, <1>8, ClampedFacts
<1>10. f >= MinPhysical
  BY <1>1, <1>3, <1>4
<1>11. f + PageSize <= end
  BY <1>1, <1>6, <1>7
<1> QED
  BY <1>8, <1>9, <1>10, <1>11 DEF Contributes

LEMMA UsableIsClamped ==
  ASSUME NEW e \in Entry, e.usable, e.base + e.length < AddrSpace,
         NEW f \in Nat, Aligned(f), f >= MinPhysical,
         e.base <= f, f + PageSize <= e.base + e.length
  PROVE  Contributes(e) /\ First(Clamped(e)) <= f /\ f < Limit(Clamped(e))
<1>1. /\ e.base \in Nat /\ e.length \in Nat
      /\ AddrSpace \in Nat /\ MinPhysical \in Nat /\ PageSize \in Nat /\ 0 < PageSize
  BY ConstantsAssumption DEF Entry, Pointer
<1>2. PICK start \in Pointer : start = Clamped(e).base
  BY ClampedFacts DEF Region
<1>3. start \in Nat /\ start <= f /\ First(Clamped(e)) = AlignUp(start)
  BY <1>1, <1>2, ClampedFacts DEF First, Pointer
<1>4. AlignUp(start) \in Nat /\ AlignUp(start) <= f
  BY <1>1, <1>2, <1>3, AlignUpFacts
<1>5. PICK end \in Nat : end = EntryEnd(e)
  BY ClampedFacts DEF Pointer
<1>6. end = e.base + e.length
  BY <1>5, ClampedFacts
<1>7. Limit(Clamped(e)) = AlignDown(end) /\ AlignDown(end) \in Nat
  BY <1>5, ClampedFacts, AlignDownFacts
<1>8. f + PageSize \in Nat /\ Aligned(f + PageSize) /\ f + PageSize <= end
  BY <1>1, <1>6, AlignedNext
<1>9. f + PageSize <= AlignDown(end)
  BY <1>5, <1>8, AlignDownFacts
<1> QED
  BY <1>1, <1>3, <1>4, <1>5, <1>6, <1>7, <1>9 DEF Contributes

-----------------------------------------------------------------------------
(* init() misses no page: all whole pages of the entries it has passed are *)
(* linked, but for those of the entry it is at that are still to come.     *)
PassedInv ==
  /\ \A f \in managed : Aligned(f)
  /\ mode = "addRegion" => Aligned(addr)
  /\ \A j \in 1 .. entry - 1 : Contributes(memmap[j]) =>
       \A f \in Nat :
         Aligned(f) /\ First(Clamped(memmap[j])) <= f /\ f < Limit(Clamped(memmap[j])) =>
           f \in managed \/ (mode = "addRegion" /\ j = entry - 1 /\ f >= addr)
  /\ mode \notin {"init", "addRegion", "halted"} => entry > Len(memmap)

LEMMA PassedInit ==
  Init => PassedInv
  BY DEF Init, PassedInv

LEMMA PassedStep ==
  ASSUME TypeOK, ManagedInv, PassedInv, [Next]_vars
  PROVE  PassedInv'
<1>1. /\ memmap \in Seq(Entry) /\ entry \in 1 .. Len(memmap) + 1 /\ addr \in Nat
      /\ mode = "addRegion" =>
           /\ entry > 1 /\ region = Clamped(memmap[entry - 1]) /\ First(region) <= addr
  BY MemMapsAssumption DEF TypeOK, ManagedInv
<1>2. CASE NextEntry
  <2>1. /\ mode = "init" /\ entry <= Len(memmap) /\ entry' = entry + 1
        /\ UNCHANGED <<memmap, managed>>
    BY <1>2 DEF NextEntry, history
  <2>2. memmap[entry] \in Entry
    BY <2>1, EntryType
  <2>3. CASE Contributes(memmap[entry])
    <3>1. /\ mode' = "addRegion" /\ addr' = First(Clamped(memmap[entry]))
      BY <1>2, <2>3 DEF NextEntry
    <3>2. Clamped(memmap[entry]).base \in Pointer
      BY <2>2, ClampedFacts DEF Region
    <3>3. Aligned(addr')
      BY <3>1, <3>2, AlignUpFacts DEF First
    <3>4. entry' - 1 = entry /\ \A j \in 1 .. entry' - 1 : j = entry \/ j \in 1 .. entry - 1
      BY <1>1, <2>1
    <3> QED
      BY <2>1, <3>1, <3>3, <3>4 DEF PassedInv
  <2>4. CASE ~Contributes(memmap[entry])
    <3>1. UNCHANGED mode
      BY <1>2, <2>4 DEF NextEntry
    <3>2. \A j \in 1 .. entry' - 1 : j = entry \/ j \in 1 .. entry - 1
      BY <1>1, <2>1
    <3> QED
      BY <2>1, <2>4, <3>1, <3>2 DEF PassedInv
  <2> QED
    BY <2>3, <2>4
<1>3. CASE LinkPage
  <2>1. /\ mode = "addRegion" /\ addr' = addr + PageSize /\ managed' = managed \cup {addr}
        /\ UNCHANGED <<memmap, mode, entry>>
    BY <1>3 DEF LinkPage
  <2>2. Aligned(addr) /\ Aligned(addr')
    BY <1>1, <2>1, AlignedNext DEF PassedInv
  <2>3. \A f \in Nat : Aligned(f) /\ f >= addr => f = addr \/ f >= addr'
    <3> SUFFICES ASSUME NEW f \in Nat, Aligned(f), f > addr
                 PROVE  f >= addr'
      BY <1>1
    <3>1. addr + PageSize <= f
      BY <1>1, <2>2, AlignedApart
    <3> QED
      BY <2>1, <3>1, <1>1, ConstantsAssumption
  <2> QED
    BY <2>1, <2>2, <2>3 DEF PassedInv
<1>4. CASE EndRegion
  <2>1. /\ mode = "addRegion" /\ addr >= Limit(region) /\ mode' = "init"
        /\ UNCHANGED <<memmap, entry, managed>>
    BY <1>4 DEF EndRegion, history
  <2>2. memmap[entry - 1] \in Entry
    BY <1>1, <2>1
  <2>3. Limit(region) \in Nat
    BY <1>1, <2>1, <2>2, ClampedFacts, RegionBounds
  <2> QED
    BY <1>1, <2>1, <2>3 DEF PassedInv
<1>5. CASE InitDone
  BY <1>1, <1>5 DEF InitDone, PassedInv, history
<1>6. CASE /\ UNCHANGED <<memmap, entry, managed>>
           /\ mode \notin {"init", "addRegion"} /\ mode' \notin {"init", "addRegion"}
           /\ mode = "halted" => mode' = "halted"
  BY <1>6 DEF PassedInv
<1>7. CASE UNCHANGED <<memmap, entry, managed, mode, addr>>
  BY <1>7 DEF PassedInv
<1>8. CASE InitUnavailable
  BY <1>8 DEF InitUnavailable, PassedInv, history, Panic
<1>9. \/ NextEntry \/ LinkPage \/ EndRegion \/ InitDone \/ InitUnavailable
      \/ UNCHANGED <<memmap, entry, managed, mode, addr>>
      \/ /\ UNCHANGED <<memmap, entry, managed>>
         /\ mode \notin {"init", "addRegion"} /\ mode' \notin {"init", "addRegion"}
         /\ mode = "halted" => mode' = "halted"
  <2>1. CASE Step
    BY <2>1 DEF Step, FreeScan, FreeLink, FreeFault, ReserveUnlink, ReserveSkip,
                ReserveNextPage, ReserveDone, FindTail, history, Panic, Report, Return
  <2>2. CASE Client
    BY <2>2 DEF Client, Allocate, AllocateOutOfMemory, TryAllocateOutOfMemory, FreeMisaligned,
                FreeCall, ReserveCall, ReserveNothing, ClientWrite, vars, locals, history,
                Panic, Report
  <2>3. CASE Halted \/ UNCHANGED vars
    BY <2>3 DEF Halted, vars, locals, history
  <2> QED
    BY <2>1, <2>2, <2>3 DEF Next
<1> QED
  BY <1>2, <1>3, <1>4, <1>5, <1>6, <1>7, <1>8, <1>9

LEMMA PagesAreUsable ==
  ASSUME TypeOK, ManagedInv, PassedInv
  PROVE  ManagesUsablePages
<1>1. memmap \in MemMaps /\ memmap \in Seq(Entry) /\ entry \in 1 .. Len(memmap) + 1
  BY MemMapsAssumption DEF TypeOK
<1>2. ASSUME NEW f \in managed
      PROVE  UsablePage(f)
  <2>1. PICK j \in 1 .. entry - 1 : LinkedFrom(f, j)
    BY DEF ManagedInv
  <2>2. j \in DOMAIN memmap /\ memmap[j] \in Entry
    BY <1>1
  <2>3. /\ Contributes(memmap[j])
        /\ First(Clamped(memmap[j])) <= f /\ f < Limit(Clamped(memmap[j]))
    BY <2>1 DEF LinkedFrom
  <2>4. MinPhysical <= First(Clamped(memmap[j]))
    BY <1>1, <2>2, <2>3, MemMapsAssumption
  <2>5. f \in Nat /\ Aligned(f)
    BY DEF TypeOK, Phys, PassedInv
  <2>6. PICK e \in Entry : e = memmap[j]
    BY <2>2
  <2>7. f >= MinPhysical /\ e.usable /\ e.base <= f /\ f + PageSize <= e.base + e.length
    BY <2>3, <2>4, <2>5, <2>6, ClampedIsUsable
  <2> QED
    BY <2>2, <2>5, <2>6, <2>7 DEF UsablePage
<1>3. ASSUME mode \notin {"init", "addRegion", "halted"}, NEW f \in Phys, UsablePage(f)
      PROVE  f \in managed
  <2>1. PICK j \in DOMAIN memmap :
          /\ memmap[j].usable
          /\ memmap[j].base <= f /\ f + PageSize <= memmap[j].base + memmap[j].length
    BY <1>3 DEF UsablePage
  <2>2. Aligned(f) /\ f >= MinPhysical /\ f \in Nat /\ f < PhysTop
    BY <1>3, ConstantsAssumption DEF UsablePage, Phys
  <2>3. PICK e \in Entry : e = memmap[j]
    BY <1>1
  <2>4. e.base \in Nat /\ PhysTop \in Nat /\ e.base < PhysTop
    BY <2>1, <2>2, <2>3, ConstantsAssumption DEF Entry, Pointer
  <2>5. e.base + e.length < AddrSpace
    BY <1>1, <2>1, <2>3, <2>4, MemMapsAssumption
  <2>6. Contributes(e) /\ First(Clamped(e)) <= f /\ f < Limit(Clamped(e))
    BY <2>1, <2>2, <2>3, <2>5, UsableIsClamped
  <2>7. j \in 1 .. entry - 1
    BY <1>1, <1>3 DEF PassedInv
  <2> QED
    BY <1>3, <2>2, <2>3, <2>6, <2>7 DEF PassedInv
<1> QED
  BY <1>2, <1>3 DEF ManagesUsablePages

(* init() offers the whole pages of the usable entries above kMinPhysical,  *)
(* no others, and none of them is missing when it returns: the rounding of  *)
(* addRegion() is right for every memory map and every page size.           *)
THEOREM UsablePagesAreManaged ==
  ASSUME DoubleFreesVisible
  PROVE  Spec => []ManagesUsablePages
<1>1. Init => PassedInv
  BY PassedInit
<1>2. AllocatorInv => TypeOK /\ ManagedInv
  BY DEF AllocatorInv, FaultedInv, IInv
<1>3. TypeOK /\ ManagedInv /\ PassedInv /\ [Next]_vars => PassedInv'
  BY PassedStep
<1>4. TypeOK /\ ManagedInv /\ PassedInv => ManagesUsablePages
  BY PagesAreUsable
<1> QED
  BY <1>1, <1>2, <1>3, <1>4, InductiveInvariant, PTL DEF Spec

-----------------------------------------------------------------------------
(* Induction along a list.                                                 *)

LEMMA LeastElement ==
  ASSUME NEW T \in SUBSET Nat, T # {}
  PROVE  \E m \in T : \A k \in T : m <= k
<1>1. PICK m \in T : \A k \in T : ~(<<k, m>> \in OpToRel(<, Nat))
  BY NatLessThanWellFounded, WFMin
<1>2. ASSUME NEW k \in T
      PROVE  m <= k
  <2>1. <<k, m>> \in Nat \X Nat
    OBVIOUS
  <2>2. ~(<<k, m>> \in {ss \in Nat \X Nat : ss[1] < ss[2]})
    BY <1>1 DEF OpToRel
  <2>3. ~(k < m)
    BY <2>1, <2>2
  <2> QED
    BY <2>3
<1> QED
  BY <1>2

(* Induction along a list of n pages: a set with the first position, and    *)
(* with every position that follows one of its own, has them all.          *)
LEMMA AllPositions ==
  ASSUME NEW n \in Nat, NEW T \in SUBSET (1 .. n),
         n > 0 => 1 \in T,
         \A i \in 1 .. n : i > 1 /\ i - 1 \in T => i \in T
  PROVE  T = 1 .. n
<1> DEFINE Rest == (1 .. n) \ T
<1> SUFFICES ASSUME Rest # {}
             PROVE  FALSE
  OBVIOUS
<1>1. Rest \in SUBSET Nat
  OBVIOUS
<1>2. PICK m \in Rest : \A k \in Rest : m <= k
  <2> HIDE DEF Rest
  <2> QED
    BY <1>1, LeastElement
<1>3. m \in 1 .. n /\ m \notin T /\ m > 1
  OBVIOUS
<1>4. m - 1 \in 1 .. n /\ ~(m <= m - 1)
  BY <1>3
<1>5. m - 1 \in T
  BY <1>2, <1>4
<1> QED
  BY <1>3, <1>5

-----------------------------------------------------------------------------
(* The refinement: the list of pages is the pool of frames.                *)

(* The frames of a list of n pages. *)
Frame(s, n) == [i \in 1 .. n |-> Cell(s[i])]

LEMMA ListFromPages ==
  ASSUME NEW n \in Nat, NEW h, NEW nx, NEW S, NEW s \in [1 .. n -> S],
         n > 0 => s[1] = h,
         \A i \in 1 .. n : i > 1 => s[i] = nx[Cell(s[i - 1])]
  PROVE  ListFrom(h, nx, n) = Frame(s, n)
<1> DEFINE Follows(g) == [i \in 1 .. n |-> IF i = 1 THEN h ELSE nx[Cell(g[i - 1])]]
           page == CHOOSE g : g = Follows(g)
<1>1. s = Follows(s)
  <2> HIDE DEF Follows
  <2>1. ASSUME NEW i \in 1 .. n
        PROVE  s[i] = IF i = 1 THEN h ELSE nx[Cell(s[i - 1])]
    <3>1. CASE i = 1
      BY <3>1
    <3>2. CASE i > 1
      BY <3>2
    <3> QED
      BY <3>1, <3>2
  <2> USE DEF Follows
  <2> QED
    BY <2>1
<1>2. page = Follows(page)
  <2> HIDE DEF Follows
  <2> QED
    BY <1>1
<1>3. PICK g : g = page
  OBVIOUS
<1>4. \A i \in 1 .. n : g[i] = IF i = 1 THEN h ELSE nx[Cell(g[i - 1])]
  <2> HIDE DEF page
  <2> QED
    BY <1>2, <1>3
<1> HIDE DEF page, Follows
<1> DEFINE T == {i \in 1 .. n : g[i] = s[i]}
<1>5. n > 0 => 1 \in T
  BY <1>4
<1>6. ASSUME NEW i \in 1 .. n, i > 1, i - 1 \in T
      PROVE  i \in T
  <2>1. g[i] = nx[Cell(g[i - 1])]
    BY <1>4, <1>6
  <2>2. s[i] = nx[Cell(s[i - 1])]
    BY <1>6
  <2> QED
    BY <1>6, <2>1, <2>2
<1>7. T = 1 .. n
  <2>1. T \in SUBSET (1 .. n)
    OBVIOUS
  <2> HIDE DEF T
  <2> QED
    BY <1>5, <1>6, <2>1, AllPositions
<1>8. ListFrom(h, nx, n) = [i \in 1 .. n |-> Cell(page[i])]
  BY DEF ListFrom, page, Follows
<1>9. \A i \in 1 .. n : page[i] = s[i]
  BY <1>3, <1>7
<1> QED
  BY <1>8, <1>9 DEF Frame

LEMMA FrameSeq ==
  ASSUME NEW n \in Nat, NEW s, \A i \in 1 .. n : Cell(s[i]) \in Phys
  PROVE  /\ Frame(s, n) \in Seq(Phys) /\ Len(Frame(s, n)) = n /\ DOMAIN Frame(s, n) = 1 .. n
         /\ \A i \in 1 .. n : Frame(s, n)[i] = Cell(s[i])
  BY DEF Frame

LEMMA PushedFrames ==
  ASSUME NEW n \in Nat, NEW s, \A i \in 1 .. n : Cell(s[i]) \in Phys,
         NEW page, Cell(page) \in Phys
  PROVE  Frame(Pushed(s, n, page), n + 1) =
           IF Fifo THEN Append(Frame(s, n), Cell(page)) ELSE <<Cell(page)>> \o Frame(s, n)
<1>1. PICK c \in Seq(Phys) : /\ c = Frame(s, n) /\ Len(c) = n
                             /\ \A i \in 1 .. n : c[i] = Cell(s[i])
  BY FrameSeq
<1>2. PICK t : t = Pushed(s, n, page)
  OBVIOUS
<1>3. CASE Fifo
  <2>1. \A i \in 1 .. n + 1 : t[i] = IF i = n + 1 THEN page ELSE s[i]
    BY <1>2, <1>3 DEF Pushed
  <2>2. \A i \in 1 .. n + 1 : Cell(t[i]) = Append(c, Cell(page))[i]
    BY <1>1, <2>1
  <2> QED
    BY <1>1, <1>2, <1>3, <2>2 DEF Frame
<1>4. CASE ~Fifo
  <2>1. \A i \in 1 .. n + 1 : t[i] = IF i = 1 THEN page ELSE s[i - 1]
    BY <1>2, <1>4 DEF Pushed
  <2>2. PICK d \in Seq(Phys) : d = <<Cell(page)>> \o c
    <3>1. <<Cell(page)>> \in Seq(Phys)
      OBVIOUS
    <3> QED
      BY <3>1, ConcatProperties
  <2>3. Len(d) = n + 1 /\ \A i \in 1 .. n + 1 : d[i] = IF i = 1 THEN Cell(page) ELSE c[i - 1]
    BY <1>1, <2>2
  <2>4. \A i \in 1 .. n + 1 : Cell(t[i]) = d[i]
    BY <1>1, <2>1, <2>3
  <2> QED
    BY <1>1, <1>2, <1>4, <2>2, <2>3, <2>4 DEF Frame
<1> QED
  BY <1>3, <1>4

LEMMA PoppedFrames ==
  ASSUME NEW n \in Nat \ {0}, NEW s, \A i \in 1 .. n : Cell(s[i]) \in Phys
  PROVE  /\ Frame(s, n) # <<>> /\ Head(Frame(s, n)) = Cell(s[1])
         /\ Frame(Popped(s, n), n - 1) = Tail(Frame(s, n))
<1>1. PICK c \in Seq(Phys) : /\ c = Frame(s, n) /\ Len(c) = n
                             /\ \A i \in 1 .. n : c[i] = Cell(s[i])
  BY FrameSeq
<1>2. c # <<>> /\ Head(c) = Cell(s[1])
  BY <1>1
<1>3. PICK t : t = Popped(s, n)
  OBVIOUS
<1>4. \A i \in 1 .. n - 1 : t[i] = s[i + 1]
  BY <1>3 DEF Popped
<1>5. PICK d \in Seq(Phys) : d = Tail(c)
  BY <1>2, HeadTailProperties
<1>6. Len(d) = n - 1 /\ \A i \in 1 .. n - 1 : d[i] = c[i + 1]
  BY <1>1, <1>2, <1>5, HeadTailProperties
<1>7. \A i \in 1 .. n - 1 : Cell(t[i]) = d[i]
  BY <1>1, <1>4, <1>6
<1>8. Frame(t, n - 1) = d
  BY <1>6, <1>7 DEF Frame
<1> QED
  BY <1>1, <1>2, <1>3, <1>5, <1>8

LEMMA UnlinkedFrames ==
  ASSUME NEW n \in Nat, NEW s, \A i \in 1 .. n : Cell(s[i]) \in Phys, NEW k \in 1 .. n
  PROVE  Frame(Unlinked(s, n, k), n - 1) = Pool!RemoveAt(Frame(s, n), k)
<1>1. PICK c \in Seq(Phys) : /\ c = Frame(s, n) /\ Len(c) = n
                             /\ \A i \in 1 .. n : c[i] = Cell(s[i])
  BY FrameSeq
<1>2. PICK t : t = Unlinked(s, n, k)
  OBVIOUS
<1>3. \A i \in 1 .. n - 1 : t[i] = IF i < k THEN s[i] ELSE s[i + 1]
  BY <1>2 DEF Unlinked
<1>4. PICK a : a = SubSeq(c, 1, k - 1)
  OBVIOUS
<1>5. PICK b : b = SubSeq(c, k + 1, n)
  OBVIOUS
<1>6. a \in Seq(Phys) /\ Len(a) = k - 1 /\ \A i \in 1 .. k - 1 : a[i] = c[i]
  <2>1. \A i \in 1 .. k - 1 : c[i] \in Phys
    BY <1>1
  <2>2. 1 \in Int /\ k - 1 \in Int
    OBVIOUS
  <2>3. /\ a \in Seq(Phys) /\ Len(a) = IF 1 <= k - 1 THEN k - 1 - 1 + 1 ELSE 0
        /\ \A i \in 1 .. k - 1 - 1 + 1 : a[i] = c[1 + i - 1]
    BY <1>4, <2>1, <2>2, SubSeqProperties
  <2> QED
    BY <2>3
<1>7. b \in Seq(Phys) /\ Len(b) = n - k /\ \A i \in 1 .. n - k : b[i] = c[i + k]
  <2>1. \A i \in k + 1 .. n : c[i] \in Phys
    BY <1>1
  <2> QED
    BY <1>5, <2>1, SubSeqProperties
<1>8. PICK d \in Seq(Phys) : d = a \o b
  BY <1>6, <1>7, ConcatProperties
<1>9. /\ Len(d) = n - 1
      /\ \A i \in 1 .. n - 1 : d[i] = IF i < k THEN a[i] ELSE b[i - (k - 1)]
  <2>1. /\ Len(d) = Len(a) + Len(b)
        /\ \A i \in 1 .. Len(a) + Len(b) : d[i] = IF i <= Len(a) THEN a[i] ELSE b[i - Len(a)]
    BY <1>6, <1>7, <1>8, ConcatProperties
  <2> QED
    BY <1>6, <1>7, <2>1
<1>10. ASSUME NEW i \in 1 .. n - 1
       PROVE  Cell(t[i]) = d[i]
  <2>1. CASE i < k
    BY <2>1, <1>1, <1>3, <1>6, <1>9
  <2>2. CASE i >= k
    <3>1. i - (k - 1) \in 1 .. n - k /\ (i - (k - 1)) + k = i + 1 /\ i + 1 \in 1 .. n
      BY <2>2
    <3> QED
      BY <2>2, <3>1, <1>1, <1>3, <1>7, <1>9
  <2> QED
    BY <2>1, <2>2
<1>11. Frame(t, n - 1) = d
  BY <1>9, <1>10 DEF Frame
<1>12. d = Pool!RemoveAt(c, k)
  BY <1>1, <1>4, <1>5, <1>8 DEF Pool!RemoveAt
<1> QED
  BY <1>1, <1>2, <1>11, <1>12

(* The list of the implementation in terms of the pages on it, now and     *)
(* after a step.                                                           *)
LEMMA FreeListFrames ==
  ASSUME TypeOK, managed \subseteq Frames,
         NEW s \in [1 .. freePages -> Pages], IsFreeList(s)
  PROVE  /\ FreeList = Frame(s, freePages)
         /\ \A i \in 1 .. freePages : Cell(s[i]) \in Phys
<1>1. freePages \in Nat
  BY DEF TypeOK
<1>2. freePages > 0 => s[1] = head
  BY <1>1 DEF IsFreeList, ListUpTo
<1>3. ASSUME NEW i \in 1 .. freePages, i > 1
      PROVE  s[i] = next[Cell(s[i - 1])]
  <2>1. i - 1 \in 1 .. freePages /\ i - 1 # freePages
    BY <1>1, <1>3
  <2> QED
    BY <1>1, <2>1 DEF IsFreeList, ListUpTo
<1>4. ListFrom(head, next, freePages) = Frame(s, freePages)
  BY <1>1, <1>2, <1>3, ListFromPages
<1> QED
  BY <1>4, PageFacts DEF FreeList

LEMMA FreeListFramesAfter ==
  ASSUME freePages' \in Nat, NEW S, NEW t \in [1 .. freePages' -> S], IsFreeList(t)'
  PROVE  FreeList' = Frame(t, freePages')
<1>0. PICK h : h = head'
  OBVIOUS
<1>1. PICK nx : nx = next'
  OBVIOUS
<1>2. PICK n \in Nat : n = freePages'
  OBVIOUS
<1>3. n > 0 => t[1] = h
  BY <1>0, <1>2 DEF IsFreeList, ListUpTo
<1>4. ASSUME NEW i \in 1 .. n, i > 1
      PROVE  t[i] = nx[Cell(t[i - 1])]
  <2>1. i - 1 \in 1 .. n /\ i - 1 # n
    BY <1>4
  <2> QED
    BY <1>1, <1>2, <2>1 DEF IsFreeList, ListUpTo
<1>5. t \in [1 .. n -> S]
  BY <1>2
<1>6. ListFrom(h, nx, n) = Frame(t, n)
  BY <1>3, <1>4, <1>5, ListFromPages
<1>7. FreeList' = ListFrom(h, nx, n)
  BY <1>0, <1>1, <1>2 DEF FreeList
<1> QED
  BY <1>2, <1>6, <1>7

(* Linking a page puts its frame where Put does. *)
LEMMA PushRefines ==
  ASSUME TypeOK, managed \subseteq Frames,
         mode \notin {"reserve", "findTail"},
         NEW s \in [1 .. freePages -> Pages], IsFreeList(s), IsTail(s),
         NEW page \in Pointer \ {Null}, Cell(page) \in Phys,
         Cell(page) \notin Listed(s),
         page \in Pages', Pages \subseteq Pages',
         Push(page), freePages' = freePages + 1
  PROVE  Pool!Put(Cell(page))
<1>1. PICK t \in [1 .. freePages' -> Pages'] :
        IsFreeList(t)' /\ t = Pushed(s, freePages, page)
  BY PushList
<1>2. PICK n \in Nat : n = freePages
  BY DEF TypeOK
<1>3. FreeList' = Frame(t, n + 1)
  <2>1. freePages' = n + 1 /\ n + 1 \in Nat
    BY <1>2
  <2> QED
    BY <1>1, <2>1, FreeListFramesAfter
<1>4. FreeList = Frame(s, n) /\ \A i \in 1 .. n : Cell(s[i]) \in Phys
  BY <1>2, FreeListFrames
<1>5. t = Pushed(s, n, page)
  BY <1>1, <1>2
<1>6. Frame(t, n + 1) =
        IF Fifo THEN Append(Frame(s, n), Cell(page)) ELSE <<Cell(page)>> \o Frame(s, n)
  BY <1>4, <1>5, PushedFrames
<1> QED
  BY <1>3, <1>4, <1>6 DEF Pool!Put

LEMMA InPoolIsListed ==
  ASSUME TypeOK, managed \subseteq Frames,
         NEW s \in [1 .. freePages -> Pages], IsFreeList(s)
  PROVE  Pool!InPool = Listed(s)
<1>1. PICK n \in Nat : n = freePages
  BY DEF TypeOK
<1>2. FreeList = Frame(s, n) /\ DOMAIN Frame(s, n) = 1 .. n
  BY <1>1, FreeListFrames, FrameSeq
<1>3. \A i \in 1 .. n : Frame(s, n)[i] = Cell(s[i])
  BY DEF Frame
<1>4. Pool!InPool = {Frame(s, n)[i] : i \in 1 .. n}
  BY <1>2 DEF Pool!InPool, Pool!Range
<1> QED
  BY <1>1, <1>3, <1>4 DEF Listed

LEMMA LinkPageRefines ==
  ASSUME IInv, LinkPage
  PROVE  Pool!Next
<1>0. PICK page : page = addr
  OBVIOUS
<1>1. /\ TypeOK /\ managed \subseteq Frames /\ page = addr /\ page \in Frames
      /\ page \notin managed
  BY <1>0, FreshPage DEF IInv, ManagedInv
<1>2. /\ mode \notin {"reserve", "findTail"} /\ Push(page) /\ freePages' = freePages + 1
      /\ managed' = managed \cup {page} /\ UNCHANGED <<owned, withheld>>
  BY <1>1 DEF LinkPage
<1>3. Pages \subseteq Pages' /\ page \in Pages'
  BY <1>2 DEF Pages
<1>4. PICK s \in [1 .. freePages -> Pages] : IsFreeList(s) /\ IsTail(s) /\ ListsTheFree(s)
  BY DEF IInv, ListInv
<1>5. page \in Pointer \ {Null} /\ Cell(page) = page /\ page \in Phys
  BY <1>1, FrameFacts
<1>6. page \notin Listed(s) /\ page \notin Cells(owned) /\ page \notin withheld
  BY <1>1, <1>4, PageFacts DEF ListsTheFree, TypeOK, Cells
<1>7. Pool!Put(page)
  BY <1>1, <1>2, <1>3, <1>4, <1>5, <1>6, PushRefines
<1>8. page \notin Pool!InPool
  BY <1>1, <1>4, <1>6, InPoolIsListed
<1>9. UNCHANGED <<Cells(owned), withheld>>
  BY <1>2 DEF Cells
<1>10. Pool!Provide(page)
  BY <1>6, <1>7, <1>8, <1>9 DEF Pool!Provide
<1> QED
  BY <1>5, <1>10 DEF Pool!Next

LEMMA AllocateRefines ==
  ASSUME IInv, Allocate
  PROVE  Pool!Next
<1>1. TypeOK /\ managed \subseteq Frames
  BY DEF IInv, ManagedInv
<1>2. PICK s \in [1 .. freePages -> Pages] : IsFreeList(s) /\ IsTail(s)
  BY DEF IInv, ListInv
<1>3. PICK n \in Nat : n = freePages
  BY <1>1 DEF TypeOK
<1>4. PICK t \in [1 .. freePages' -> Pages'] :
        freePages' \in Nat /\ IsFreeList(t)' /\ t = Popped(s, freePages)
  BY <1>1, <1>2, PopList
<1>5. /\ head # Null /\ freePages' = n - 1
      /\ owned' = owned \cup {head} /\ UNCHANGED withheld
  BY <1>3 DEF Allocate
<1>6. n \in Nat \ {0} /\ head = s[1]
  BY <1>2, <1>3, <1>5 DEF IsFreeList, ListUpTo
<1>7. FreeList' = Frame(t, n - 1)
  BY <1>4, <1>5, FreeListFramesAfter
<1>8. FreeList = Frame(s, n) /\ \A i \in 1 .. n : Cell(s[i]) \in Phys
  BY <1>1, <1>2, <1>3, FreeListFrames
<1>9. /\ FreeList # <<>> /\ Head(FreeList) = Cell(head)
      /\ FreeList' = Tail(FreeList)
  BY <1>3, <1>4, <1>6, <1>7, <1>8, PoppedFrames
<1>10. Cells(owned)' = Cells(owned) \cup {Cell(head)}
  BY <1>5 DEF Cells
<1> QED
  BY <1>5, <1>9, <1>10 DEF Pool!Next, Pool!Take

LEMMA FreeLinkRefines ==
  ASSUME DoubleFreesVisible, IInv, FreeLink
  PROVE  Pool!Next
<1>0. PICK page : page = FreedPage
  OBVIOUS
<1>1. PICK f : f = addr
  OBVIOUS
<1>2. TypeOK /\ OwnedInv /\ managed \subseteq Frames
  BY DEF IInv, ManagedInv
<1>3. /\ mode = "free" /\ it = Null /\ Mapped(FreedPage) /\ Push(page)
      /\ freePages' = freePages + 1 /\ owned' = owned \ {f}
      /\ UNCHANGED <<managed, withheld>>
  BY <1>0, <1>1 DEF FreeLink
<1>4. f \in owned /\ f \in managed /\ Cell(f) = f
  BY <1>1, <1>3, FreedIsOwned
<1>5. /\ page \in Pages /\ page \in Pointer \ {Null} /\ Cell(page) = f /\ f \in Phys
      /\ Pages' = Pages
  BY <1>0, <1>1, <1>2, <1>3, <1>4, FrameFacts, PageFacts DEF FreedPage, Pages
<1>6. PICK s \in [1 .. freePages -> Pages] : IsFreeList(s) /\ IsTail(s) /\ ListsTheFree(s)
  BY DEF IInv, ListInv
<1>7. f \in Cells(owned) /\ Cells(owned)' = Cells(owned) \ {f}
  <2>1. f \in Cells(owned)
    BY <1>4 DEF Cells
  <2>2. \A p \in owned : Cell(p) = f => p = f
    BY <1>2, <1>4 DEF OwnedInv
  <2>3. Cells(owned)' = Cells(owned) \ {f}
    BY <1>3, <1>4, <2>2 DEF Cells
  <2> QED
    BY <2>1, <2>3
<1>8. Cell(page) \notin Listed(s)
  BY <1>5, <1>6, <1>7 DEF ListsTheFree
<1>9. Pool!Put(f)
  <2>1. mode \notin {"reserve", "findTail"}
    BY <1>3
  <2>2. Pool!Put(Cell(page))
    BY <1>2, <1>3, <1>5, <1>6, <1>8, <2>1, PushRefines
  <2> QED
    BY <1>5, <2>2
<1>10. Pool!GiveBack(f)
  BY <1>3, <1>7, <1>9 DEF Pool!GiveBack
<1> QED
  BY <1>5, <1>10 DEF Pool!Next

LEMMA ReserveUnlinkRefines ==
  ASSUME IInv, ReserveUnlink
  PROVE  Pool!Next
<1>1. TypeOK /\ managed \subseteq Frames
  BY DEF IInv, ManagedInv
<1>2. /\ mode = "reserve" /\ it # Null /\ withheld' = withheld \cup {Cell(it)}
      /\ freePages' = freePages - 1 /\ UNCHANGED owned
  BY DEF ReserveUnlink, Unlink
<1>3. PICK s \in [1 .. freePages -> Pages] : IsFreeList(s) /\ Walk(s)
  BY DEF IInv, ListInv
<1>4. PICK k \in 1 .. freePages : it = s[k] /\ prev = IF k = 1 THEN Null ELSE s[k - 1]
  BY <1>2, <1>3 DEF Walk
<1>5. PICK t \in [1 .. freePages' -> Pages'] :
        freePages' \in Nat /\ IsFreeList(t)' /\ t = Unlinked(s, freePages, k)
  BY <1>1, <1>3, <1>4, UnlinkList
<1>6. PICK n \in Nat : n = freePages
  BY <1>1 DEF TypeOK
<1>7. FreeList' = Frame(t, n - 1)
  BY <1>2, <1>5, <1>6, FreeListFramesAfter
<1>8. FreeList = Frame(s, n) /\ \A i \in 1 .. n : Cell(s[i]) \in Phys
  BY <1>1, <1>3, <1>6, FreeListFrames
<1>9. FreeList' = Pool!RemoveAt(FreeList, k)
  BY <1>4, <1>5, <1>6, <1>7, <1>8, UnlinkedFrames
<1>10. k \in DOMAIN FreeList /\ FreeList[k] = Cell(it)
  BY <1>4, <1>6, <1>8, FrameSeq
<1>11. UNCHANGED Cells(owned)
  BY <1>2 DEF Cells
<1>12. Pool!Withhold(k)
  BY <1>2, <1>9, <1>10, <1>11 DEF Pool!Withhold
<1> QED
  BY <1>10, <1>12 DEF Pool!Next

(* What the client writes into its pages does not show in the pool. *)
LEMMA ClientWriteRefines ==
  ASSUME IInv, NEW a \in owned, NEW d \in ClientData, ClientWrite(a, d)
  PROVE  UNCHANGED Pool!vars
<1>1. TypeOK /\ managed \subseteq Frames
  BY DEF IInv, ManagedInv
<1>2. /\ next' = [next EXCEPT ![Cell(a)] = d]
      /\ UNCHANGED <<head, freePages, managed, owned, withheld>>
  BY DEF ClientWrite, history
<1>3. PICK s \in [1 .. freePages -> Pages] : IsFreeList(s) /\ ListsTheFree(s)
  BY DEF IInv, ListInv
<1>4. Cell(a) \in Cells(owned) /\ Cell(a) \in Phys
  BY <1>1, PageFacts DEF TypeOK, Cells
<1>5. \A i \in 1 .. freePages : Cell(s[i]) # Cell(a) /\ Cell(s[i]) \in Phys
  BY <1>1, <1>3, <1>4, PageFacts DEF ListsTheFree, Listed
<1>6. \A i \in 1 .. freePages : next'[Cell(s[i])] = next[Cell(s[i])]
  BY <1>1, <1>2, <1>4, <1>5 DEF TypeOK
<1>7. IsFreeList(s)'
  BY <1>2, <1>3, <1>6 DEF IsFreeList, ListUpTo
<1>8. freePages \in Nat /\ freePages' \in Nat /\ s \in [1 .. freePages' -> Pages]
  BY <1>1, <1>2 DEF TypeOK
<1>9. FreeList' = Frame(s, freePages')
  BY <1>7, <1>8, FreeListFramesAfter
<1>10. FreeList = Frame(s, freePages)
  BY <1>1, <1>3, FreeListFrames
<1> QED
  BY <1>2, <1>9, <1>10 DEF Pool!vars, Cells

LEMMA QuietRefines ==
  ASSUME UNCHANGED <<head, next, freePages, owned, withheld>>
  PROVE  UNCHANGED Pool!vars
  BY DEF Pool!vars, FreeList, Cells

(* A queue that is left pointing to an unmapped page is the same pool. *)
LEMMA FaultRefines ==
  ASSUME IInv, FreeFault
  PROVE  UNCHANGED Pool!vars
<1>1. TypeOK /\ managed \subseteq Frames /\ freePages \in Nat
  BY DEF IInv, TypeOK, ManagedInv
<1>2. /\ UNCHANGED <<head, freePages, owned, withheld>>
      /\ UNCHANGED next \/ (Fifo /\ next' = [next EXCEPT ![Cell(tail)] = FreedPage])
  BY DEF FreeFault, history
<1>3. CASE UNCHANGED next
  BY <1>2, <1>3, QuietRefines
<1>4. CASE Fifo /\ next' = [next EXCEPT ![Cell(tail)] = FreedPage]
  <2>1. PICK s \in [1 .. freePages -> Pages] : IsFreeList(s) /\ IsTail(s)
    BY DEF IInv, ListInv
  <2>2. PICK n \in Nat : n = freePages
    BY <1>1
  <2>3. PICK h : h = head
    OBVIOUS
  <2>4. PICK nx : nx = next'
    OBVIOUS
  <2>5. PICK S : S = Pages
    OBVIOUS
  <2>6. ASSUME NEW i \in 1 .. n, i > 1
        PROVE  s[i] = nx[Cell(s[i - 1])]
    <3>1. i - 1 \in 1 .. freePages /\ i - 1 # freePages /\ freePages \in 1 .. freePages
      BY <1>1, <2>2, <2>6
    <3>2. s[i] = next[Cell(s[i - 1])]
      BY <1>1, <2>1, <3>1 DEF IsFreeList, ListUpTo
    <3>3. tail = s[freePages]
      BY <1>1, <2>1, <3>1, <1>4 DEF IsTail, FreeFault
    <3>4. Cell(s[i - 1]) # Cell(tail)
      BY <2>1, <3>1, <3>3 DEF IsFreeList, ListUpTo
    <3>5. Cell(s[i - 1]) \in Phys
      BY <1>1, <2>1, <3>1, PageFacts
    <3> QED
      BY <1>1, <1>4, <2>2, <2>4, <3>2, <3>4, <3>5 DEF TypeOK
  <2>7. n > 0 => s[1] = h
    BY <1>1, <2>1, <2>2, <2>3 DEF IsFreeList, ListUpTo
  <2>8. ListFrom(h, nx, n) = Frame(s, n)
    <3>1. s \in [1 .. n -> S]
      BY <2>1, <2>2, <2>5
    <3> QED
      BY <2>6, <2>7, <3>1, ListFromPages
  <2>9. FreeList' = ListFrom(h, nx, n)
    BY <1>2, <2>2, <2>3, <2>4 DEF FreeList
  <2>10. FreeList = Frame(s, n)
    BY <1>1, <2>1, <2>2, FreeListFrames
  <2> QED
    BY <1>2, <2>8, <2>9, <2>10 DEF Pool!vars, Cells
<1> QED
  BY <1>2, <1>3, <1>4

LEMMA StepRefines ==
  ASSUME DoubleFreesVisible, IInv, [Next]_vars
  PROVE  [Pool!Next]_(Pool!vars)
<1>1. CASE LinkPage
  BY <1>1, LinkPageRefines
<1>2. CASE Allocate
  BY <1>2, AllocateRefines
<1>3. CASE FreeLink
  BY <1>3, FreeLinkRefines
<1>4. CASE ReserveUnlink
  BY <1>4, ReserveUnlinkRefines
<1>5. CASE \E a \in owned, d \in ClientData : ClientWrite(a, d)
  BY <1>5, ClientWriteRefines
<1>6. CASE FreeFault
  BY <1>6, FaultRefines
<1>7. CASE UNCHANGED <<head, next, freePages, owned, withheld>>
  BY <1>7, QuietRefines
<1>8. \/ FreeFault \/ LinkPage \/ Allocate \/ FreeLink \/ ReserveUnlink
      \/ \E a \in owned, d \in ClientData : ClientWrite(a, d)
      \/ UNCHANGED <<head, next, freePages, owned, withheld>>
  <2>1. CASE Step
    BY <2>1 DEF Step, InitUnavailable, NextEntry, EndRegion, InitDone, FreeScan,
                ReserveSkip, ReserveNextPage, ReserveDone, FindTail, list, history
  <2>2. CASE Client
    BY <2>2 DEF Client, AllocateOutOfMemory, TryAllocateOutOfMemory, FreeMisaligned,
                FreeCall, ReserveCall, ReserveNothing, vars, list, history
  <2>3. CASE Halted \/ UNCHANGED vars
    BY <2>3 DEF Halted, vars, list, history
  <2> QED
    BY <2>1, <2>2, <2>3 DEF Next
<1> QED
  BY <1>1, <1>2, <1>3, <1>4, <1>5, <1>6, <1>7, <1>8

LEMMA InitRefines ==
  ASSUME Init
  PROVE  Pool!Init
<1>1. freePages = 0 /\ owned = {} /\ withheld = {}
  BY DEF Init
<1>2. FreeList = <<>>
  BY <1>1 DEF FreeList, ListFrom
<1> QED
  BY <1>1, <1>2 DEF Pool!Init, Cells

(* Pointers, cursors and all, the allocator implements a pool of frames     *)
(* that a client takes from and gives back to, in the order kPmmUseFifo     *)
(* prescribes: every step of pmm.hh is one step of the pool or none.        *)
THEOREM AllocatorIsFramePool ==
  ASSUME DoubleFreesVisible
  PROVE  Spec => IsFramePool
<1>1. Init => Pool!Init
  BY InitRefines
<1>2. ASSUME mode = "faulted", [Next]_vars PROVE UNCHANGED Pool!vars
  BY <1>2, FaultIsFinal, QuietRefines DEF vars, list, history
<1>3. AllocatorInv /\ [Next]_vars => [Pool!Next]_(Pool!vars)
  BY <1>2, StepRefines DEF AllocatorInv, FaultedInv
<1> QED
  BY <1>1, <1>3, InductiveInvariant, PTL DEF Spec, IsFramePool, Pool!Spec

-----------------------------------------------------------------------------
(* reserveRegion() leaves no page of the range behind.                     *)

(* The range asked for does not reach the last page of the address space:  *)
(* with one that does, the rounding wraps around.                          *)
RequestsFit ==
  \A r \in ReserveRequests : r.base + PageSize <= AddrSpace /\ r.base + r.length < AddrSpace

(* No managed page from First(region) up to a is on the list. *)
ReservedUpTo(a) ==
  \A f \in managed : First(region) <= f /\ f < a => f \in Cells(owned) \cup withheld

ReserveInv ==
  /\ mode \in {"reserve", "findTail"} => region \in ReserveRequests
  /\ mode = "reserve" =>
       /\ Aligned(addr) /\ First(region) <= addr /\ addr < Limit(region)
       /\ ReservedUpTo(addr)
  /\ mode = "findTail" => ReservedUpTo(Limit(region))

(* The whole pages of a range are those First and Limit enclose.           *)
LEMMA WholePages ==
  ASSUME RequestsFit, NEW r \in ReserveRequests, NEW f \in Nat, Aligned(f)
  PROVE  InRegion(f, r) <=> First(r) <= f /\ f < Limit(r)
<1>1. /\ r \in Region /\ r.base \in Pointer /\ r.base \in Nat /\ r.length \in Nat
      /\ AddrSpace \in Nat /\ PageSize \in Nat /\ 0 < PageSize
  BY ConstantsAssumption DEF Region, Pointer
<1>2. r.base + PageSize <= AddrSpace /\ r.base + r.length < AddrSpace
  BY DEF RequestsFit
<1>3. PICK end \in Nat : end = r.base + r.length
  BY <1>1
<1>4. Limit(r) = AlignDown(end)
  BY <1>2, <1>3 DEF Limit, Add
<1>5. /\ AlignDown(end) \in Nat /\ Aligned(AlignDown(end)) /\ AlignDown(end) <= end
      /\ \A g \in Nat : Aligned(g) /\ g <= end => g <= AlignDown(end)
  BY AlignDownFacts
<1>6. /\ First(r) \in Nat /\ r.base <= First(r)
      /\ r.base <= f => First(r) <= f
  BY <1>1, <1>2, AlignUpFacts DEF First
<1>7. f + PageSize \in Nat /\ Aligned(f + PageSize)
  BY <1>1, AlignedNext
<1>8. ASSUME InRegion(f, r)
      PROVE  First(r) <= f /\ f < Limit(r)
  <2>1. r.base <= f /\ f + PageSize <= end
    BY <1>3, <1>8 DEF InRegion
  <2>2. f + PageSize <= AlignDown(end)
    BY <1>5, <1>7, <2>1
  <2> QED
    BY <1>1, <1>4, <1>5, <1>6, <2>1, <2>2
<1>9. ASSUME First(r) <= f, f < Limit(r)
      PROVE  InRegion(f, r)
  <2>1. f + PageSize <= AlignDown(end)
    BY <1>4, <1>5, <1>9, AlignedApart
  <2> QED
    BY <1>1, <1>3, <1>5, <1>6, <1>9, <2>1 DEF InRegion
<1> QED
  BY <1>8, <1>9

LEMMA ManagedAligned ==
  ASSUME IInv, PassedInv
  PROVE  /\ \A f \in managed : f \in Nat /\ Aligned(f)
         /\ addr \in Nat /\ PageSize \in Nat /\ 0 < PageSize
  BY ConstantsAssumption DEF IInv, TypeOK, PassedInv, Phys

(* When the walk for addr has reached the end of the list, the page at     *)
(* addr is done as well.                                                   *)
LEMMA WalkedPast ==
  ASSUME HhdmOffset = 0, IInv, PassedInv, ReserveInv, mode = "reserve", it = Null
  PROVE  ReservedUpTo(addr + PageSize)
<1>1. /\ managed \subseteq Frames /\ managed \subseteq Phys /\ owned \subseteq Pages
      /\ Aligned(addr)
      /\ ReservedUpTo(addr)
  BY DEF IInv, TypeOK, ManagedInv, ReserveInv
<1>2. PICK s \in [1 .. freePages -> Pages] : ListsTheFree(s) /\ Walk(s)
  BY DEF IInv, ListInv
<1>3. \A p \in Pages : Cell(p) = p /\ p # Null
  BY <1>1, ConstantsAssumption, FrameFacts DEF Pages, Virt, Add, Phys
<1>4. \A i \in 1 .. freePages : s[i] # addr
  BY <1>2, <1>3 DEF Walk
<1>5. addr \notin Listed(s)
  BY <1>3, <1>4 DEF Listed
<1>6. addr \in managed => addr \in Cells(owned) \cup withheld
  BY <1>2, <1>5 DEF ListsTheFree
<1>7. ASSUME NEW f \in managed, First(region) <= f, f < addr + PageSize
      PROVE  f \in Cells(owned) \cup withheld
  <2>1. f \in Nat /\ Aligned(f) /\ addr \in Nat /\ PageSize \in Nat
    BY ManagedAligned
  <2>2. ~(addr < f)
    <3>1. addr < f => addr + PageSize <= f
      BY <1>1, <2>1, AlignedApart
    <3> QED
      BY <1>7, <2>1, <3>1
  <2>3. f = addr \/ f < addr
    BY <2>1, <2>2
  <2> QED
    BY <1>1, <1>6, <1>7, <2>3 DEF ReservedUpTo
<1> QED
  BY <1>7 DEF ReservedUpTo

(* The last page of the range ends where the range does.                   *)
LEMMA LastPage ==
  ASSUME HhdmOffset = 0, IInv, PassedInv, ReserveInv,
         mode = "reserve", it = Null, addr + PageSize >= Limit(region)
  PROVE  ReservedUpTo(Limit(region))
<1>1. /\ region \in Region /\ Limit(region) \in Nat /\ managed \subseteq Nat
      /\ addr \in Nat /\ PageSize \in Nat
  BY ManagedAligned, RegionBounds DEF IInv, TypeOK
<1>2. ReservedUpTo(addr + PageSize)
  BY WalkedPast
<1> QED
  BY <1>1, <1>2 DEF ReservedUpTo

LEMMA ReserveInit ==
  Init => ReserveInv
  BY DEF Init, ReserveInv

LEMMA ReserveStep ==
  ASSUME HhdmOffset = 0, IInv, PassedInv, ReserveInv, [Next]_vars
  PROVE  ReserveInv'
<1>1. CASE \E r \in ReserveRequests : ReserveCall(r)
  <2>1. PICK r \in ReserveRequests : ReserveCall(r)
    BY <1>1
  <2>2. mode' = "reserve" /\ region' = r /\ addr' = First(r) /\ First(r) < Limit(r)
    BY <2>1 DEF ReserveCall
  <2>3. r \in Region /\ r.base \in Pointer
    BY ConstantsAssumption DEF Region
  <2>4. First(r) \in Nat /\ Aligned(First(r))
    BY <2>3, AlignUpFacts DEF First
  <2>5. managed' \subseteq Nat
    BY <2>1, ManagedAligned DEF ReserveCall, history
  <2>6. ReservedUpTo(addr)'
    BY <2>2, <2>4, <2>5 DEF ReservedUpTo
  <2> QED
    BY <2>2, <2>4, <2>6 DEF ReserveInv
<1>2. CASE ReserveUnlink
  <2>1. /\ mode = "reserve" /\ withheld \subseteq withheld'
        /\ UNCHANGED <<mode, region, addr, managed, owned>>
    BY <1>2 DEF ReserveUnlink
  <2>2. ReservedUpTo(addr)'
    BY <2>1 DEF ReserveInv, ReservedUpTo, Cells
  <2> QED
    BY <2>1, <2>2 DEF ReserveInv
<1>3. CASE ReserveNextPage
  <2>1. /\ mode = "reserve" /\ it = Null /\ addr + PageSize < Limit(region)
        /\ addr' = addr + PageSize
        /\ UNCHANGED <<mode, region, managed, owned, withheld>>
    BY <1>3 DEF ReserveNextPage, history
  <2>2. addr \in Nat /\ PageSize \in Nat /\ region \in Region /\ First(region) \in Nat
    BY ManagedAligned, RegionBounds DEF IInv, TypeOK
  <2>3. Aligned(addr') /\ First(region) <= addr'
    BY <2>1, <2>2, AlignedNext DEF ReserveInv
  <2>4. ReservedUpTo(addr + PageSize)
    BY <2>1, WalkedPast
  <2>5. ReservedUpTo(addr)'
    BY <2>1, <2>4 DEF ReservedUpTo, Cells
  <2> QED
    BY <2>1, <2>3, <2>5 DEF ReserveInv
<1>4. CASE ReserveDone
  <2>1. /\ mode = "reserve" /\ it = Null /\ addr + PageSize >= Limit(region)
        /\ mode' = "idle" \/ (mode' = "findTail" /\ UNCHANGED region)
        /\ UNCHANGED <<managed, owned, withheld>>
    BY <1>4 DEF ReserveDone, Return, history
  <2>2. ReservedUpTo(Limit(region))
    BY <2>1, LastPage
  <2>3. mode' = "findTail" => ReservedUpTo(Limit(region))'
    BY <2>1, <2>2 DEF ReservedUpTo, Cells
  <2> QED
    BY <2>1, <2>3 DEF ReserveInv
<1>5. CASE UNCHANGED <<mode, region, addr, managed, owned, withheld>>
  BY <1>5 DEF ReserveInv, ReservedUpTo, Cells
<1>6. CASE mode' \notin {"reserve", "findTail"}
  BY <1>6 DEF ReserveInv
<1>7. \/ \E r \in ReserveRequests : ReserveCall(r)
      \/ ReserveUnlink \/ ReserveNextPage \/ ReserveDone
      \/ UNCHANGED <<mode, region, addr, managed, owned, withheld>>
      \/ mode' \notin {"reserve", "findTail"}
  <2>1. CASE Step
    BY <2>1 DEF Step, InitUnavailable, NextEntry, LinkPage, EndRegion, InitDone, FreeScan,
                FreeLink, FreeFault, ReserveSkip, FindTail, history, Panic, Report, Return
  <2>2. CASE Client
    BY <2>2 DEF Client, Allocate, AllocateOutOfMemory, TryAllocateOutOfMemory, FreeMisaligned,
                FreeCall, ReserveNothing, ClientWrite, vars, locals, history, Panic, Report
  <2>3. CASE Halted \/ UNCHANGED vars
    BY <2>3 DEF Halted, vars, locals, history
  <2> QED
    BY <2>1, <2>2, <2>3 DEF Next
<1> QED
  BY <1>1, <1>2, <1>3, <1>4, <1>5, <1>6, <1>7

(* What a single step does to the property.                                *)
LEMMA ReserveReturns ==
  ASSUME HhdmOffset = 0, RequestsFit, IInv, PassedInv, ReserveInv, [Next]_vars,
         mode \in {"reserve", "findTail"}, mode' = "idle",
         NEW f \in managed, InRegion(f, region)
  PROVE  f \in Cells(owned) \cup withheld
<1>1. ReservedUpTo(Limit(region))
  <2>1. CASE mode = "findTail"
    BY <2>1 DEF ReserveInv
  <2>2. CASE mode = "reserve"
    <3>1. ReserveDone
      <4>1. CASE Step
        BY <2>2, <4>1 DEF Step, InitUnavailable, NextEntry, LinkPage, EndRegion, InitDone,
                          FreeScan, FreeLink, FreeFault, ReserveUnlink, ReserveSkip,
                          ReserveNextPage, FindTail
      <4>2. CASE Client
        BY <2>2, <4>2 DEF Client, Allocate, AllocateOutOfMemory, TryAllocateOutOfMemory,
                          FreeMisaligned, FreeCall, ReserveCall, ReserveNothing, ClientWrite
      <4>3. CASE Halted \/ UNCHANGED vars
        BY <2>2, <4>3 DEF Halted, vars
      <4> QED
        BY <4>1, <4>2, <4>3 DEF Next
    <3>2. it = Null /\ addr + PageSize >= Limit(region)
      BY <3>1 DEF ReserveDone
    <3> QED
      BY <2>2, <3>2, LastPage
  <2> QED
    BY <2>1, <2>2
<1>2. f \in Nat /\ Aligned(f) /\ region \in ReserveRequests
  BY ManagedAligned DEF ReserveInv
<1>3. First(region) <= f /\ f < Limit(region)
  BY <1>2, WholePages
<1> QED
  BY <1>1, <1>3 DEF ReservedUpTo

LEMMA ReserveTakes ==
  ASSUME HhdmOffset = 0, RequestsFit, IInv, PassedInv, ReserveInv, [Next]_vars,
         NEW f \in withheld' \ withheld
  PROVE  InRegion(f, region)
<1>1. ReserveUnlink
  <2>1. CASE Step
    BY <2>1 DEF Step, InitUnavailable, NextEntry, LinkPage, EndRegion, InitDone, FreeScan,
                FreeLink, FreeFault, ReserveSkip, ReserveNextPage, ReserveDone, FindTail, history
  <2>2. CASE Client
    BY <2>2 DEF Client, Allocate, AllocateOutOfMemory, TryAllocateOutOfMemory, FreeMisaligned,
                FreeCall, ReserveCall, ReserveNothing, ClientWrite, vars, history
  <2>3. CASE Halted \/ UNCHANGED vars
    BY <2>3 DEF Halted, vars, history
  <2> QED
    BY <2>1, <2>2, <2>3 DEF Next
<1>2. mode = "reserve" /\ it = addr /\ f = Cell(addr)
  BY <1>1 DEF ReserveUnlink
<1>3. f = addr /\ addr \in Nat
  BY <1>2, ManagedAligned DEF Cell
<1>4. /\ region \in ReserveRequests /\ Aligned(addr)
      /\ First(region) <= addr /\ addr < Limit(region)
  BY <1>2 DEF ReserveInv
<1> QED
  BY <1>3, <1>4, WholePages

(* reserveRegion() takes exactly the free pages that lie inside the range   *)
(* it is given, whatever the alignment of its ends and wherever the pages   *)
(* are on the list, and it has taken them all when it returns.  Without an  *)
(* HHDM: the code compares the range with the pointers on the list.         *)
THEOREM ReservationIsExact ==
  ASSUME HhdmOffset = 0, RequestsFit
  PROVE  Spec => ReserveExact
<1>1. Init => PassedInv /\ ReserveInv
  BY PassedInit, ReserveInit
<1>2. AllocatorInv /\ PassedInv /\ [Next]_vars => PassedInv'
  BY PassedStep DEF AllocatorInv, FaultedInv, IInv
<1>3. ASSUME mode = "faulted", [Next]_vars PROVE ReserveInv' /\ UNCHANGED vars
  BY <1>3, FaultIsFinal DEF ReserveInv, vars
<1>4. AllocatorInv /\ PassedInv /\ ReserveInv /\ [Next]_vars => ReserveInv'
  BY <1>3, ReserveStep DEF AllocatorInv, FaultedInv
<1>5. Spec => []AllocatorInv
  BY InductiveInvariant DEF DoubleFreesVisible
<1> DEFINE Exact ==
      /\ mode \in {"reserve", "findTail"} /\ mode' = "idle" =>
           \A f \in managed : InRegion(f, region) => f \in Cells(owned) \cup withheld
      /\ \A f \in withheld' \ withheld : InRegion(f, region)
<1>6. IInv /\ PassedInv /\ ReserveInv /\ [Next]_vars => [Exact]_vars
  BY ReserveReturns, ReserveTakes
<1>7. AllocatorInv /\ PassedInv /\ ReserveInv /\ [Next]_vars => [Exact]_vars
  BY <1>3, <1>6 DEF AllocatorInv, FaultedInv
<1> QED
  BY <1>1, <1>2, <1>4, <1>5, <1>7, PTL DEF Spec, ReserveExact
=============================================================================
