-------------------------------- MODULE EfiProofs --------------------------------
(***************************************************************************)
(* Proofs about the bootloader's responses and the walk of the EFI memory   *)
(* map, for any responses and maps.                                        *)
(***************************************************************************)
EXTENDS Efi, SequenceTheorems, NaturalsInduction, WellFoundedInduction, TLAPS

Modes == {"start", "mapped", "walking", "walked", "switched", "fault", "reset"}

(* What the constructor of MemoryMap has taken from the response, if it was *)
(* called.                                                                 *)
MapTaken ==
  \/ map = None
  \/ /\ memResponse.answered
     /\ map = [entryCount |-> EntryCount(memResponse.value[1], memResponse.value[2]),
               descSize |-> memResponse.value[2]]

QueryAnswered == query = <<>> \/ \E r \in Responses : query = <<r, Classes(r)>>

EfiInv ==
  /\ mode \in Modes /\ memResponse \in MapResponses
  /\ QueryAnswered /\ MapTaken
  /\ mode = "fault" => RS = "null" \/ ~memResponse.answered
  /\ mode \in {"start", "mapped"} => idx = 0 /\ seen = <<>>
  /\ idx \in 0 .. map.entryCount /\ seen \in Seq(Nat)
  /\ RuntimeWalked

-----------------------------------------------------------------------------
(* The map.                                                                *)

LEMMA EntriesFit ==
  ASSUME NEW size \in Nat, NEW desc \in Nat
  PROVE  EntryCount(size, desc) \in Nat /\ EntryCount(size, desc) * desc <= size
<1>1. CASE desc = 0
  BY <1>1 DEF EntryCount
<1>2. CASE desc # 0
  <2>1. PICK q : q = size \div desc
    OBVIOUS
  <2>2. q \in Nat /\ q * desc <= size
    BY <1>2, <2>1
  <2> QED
    BY <1>2, <2>1, <2>2 DEF EntryCount
<1> QED
  BY <1>1, <1>2

LEMMA MapShape ==
  ASSUME EfiInv
  PROVE  map.entryCount \in Nat
<1>1. CASE map = None
  BY <1>1 DEF None
<1>2. CASE /\ memResponse.answered
           /\ map = [entryCount |-> EntryCount(memResponse.value[1], memResponse.value[2]),
                     descSize |-> memResponse.value[2]]
  <2>1. memResponse.value \in Seq(Nat) /\ Len(memResponse.value) = 2
    BY <1>2, ResponsesAssumption DEF EfiInv
  <2>2. memResponse.value[1] \in Nat /\ memResponse.value[2] \in Nat
    BY <2>1, LenProperties
  <2>3. EntryCount(memResponse.value[1], memResponse.value[2]) \in Nat
    BY <2>2, EntriesFit
  <2> QED
    BY <1>2, <2>3
<1> QED
  BY <1>1, <1>2, Zenon DEF EfiInv, MapTaken

LEMMA Least ==
  ASSUME NEW T \in SUBSET Nat, T # {}
  PROVE  \E m \in T : \A k \in T : m <= k
<1>1. PICK m \in T : \A k \in T : ~(<<k, m>> \in OpToRel(<, Nat))
  BY NatLessThanWellFounded, WFMin
<1>2. ASSUME NEW k \in T PROVE m <= k
  <2>1. <<k, m>> \in Nat \X Nat
    OBVIOUS
  <2>2. ~(<<k, m>> \in {ss \in Nat \X Nat : ss[1] < ss[2]})
    BY <1>1 DEF OpToRel
  <2>3. ~(k < m)
    BY <2>1, <2>2
  <2> QED
    BY <2>3
<1> QED
  BY <1>2

(* advanceToNext() ends at the first runtime descriptor from i on, if any.  *)
EndsAt(i, j) ==
  /\ j \in i .. map.entryCount
  /\ \A k \in i .. j - 1 : ~isRuntime(k)
  /\ j = map.entryCount \/ isRuntime(j)

LEMMA Advance ==
  ASSUME NEW n \in Nat, n = map.entryCount, NEW i \in 0 .. n
  PROVE  EndsAt(i, advanceToNext(i))
<1> DEFINE T == {j \in i .. n : j = n \/ isRuntime(j)}
<1>1. T \in SUBSET Nat /\ n \in T
  OBVIOUS
<1>2. PICK m \in T : \A k \in T : m <= k
  <2> HIDE DEF T
  <2> QED
    BY <1>1, Least
<1>3. m \in i .. n /\ (m = n \/ isRuntime(m))
  OBVIOUS
<1>4. ASSUME NEW k \in i .. m - 1 PROVE ~isRuntime(k)
  <2>1. k \in i .. n /\ ~(m <= k)
    BY <1>3
  <2> QED
    BY <1>2, <2>1
<1>5. EndsAt(i, m)
  BY <1>3, <1>4, Zenon DEF EndsAt
<1>6. \E j \in i .. map.entryCount :
        /\ \A k \in i .. j - 1 : ~isRuntime(k)
        /\ j = map.entryCount \/ isRuntime(j)
  BY <1>5, Zenon DEF EndsAt
<1> QED
  BY <1>6, Zenon DEF EndsAt, advanceToNext

(* Nothing runtime is passed over. *)
LEMMA SameBefore ==
  ASSUME NEW i \in Nat, NEW j, EndsAt(i, j), map.entryCount \in Nat
  PROVE  RuntimeBefore(j) = RuntimeBefore(i)
<1>1. j \in Nat /\ i <= j
  BY DEF EndsAt
<1>2. ASSUME NEW k \in 0 .. j - 1, isRuntime(k) PROVE k \in 0 .. i - 1
  <2>1. k \in i .. j - 1 => FALSE
    BY <1>2, Zenon DEF EndsAt
  <2> QED
    BY <1>1, <2>1
<1>3. ASSUME NEW k \in 0 .. i - 1 PROVE k \in 0 .. j - 1
  BY <1>1
<1> QED
  BY <1>2, <1>3 DEF RuntimeBefore

LEMMA OneMore ==
  ASSUME NEW s \in Seq(Nat), NEW i \in Nat, InOrder(s, RuntimeBefore(i)), isRuntime(i)
  PROVE  InOrder(Append(s, i), RuntimeBefore(i + 1))
<1>1. PICK n \in Nat : n = Len(s)
  BY LenProperties
<1>2. PICK t : t = Append(s, i)
  OBVIOUS
<1>3. t \in Seq(Nat) /\ Len(t) = n + 1 /\ t[n + 1] = i /\ \A j \in 1 .. n : t[j] = s[j]
  BY <1>1, <1>2, AppendProperties
<1>4. DOMAIN t = 1 .. n + 1 /\ DOMAIN s = 1 .. n
  BY <1>1, <1>3, LenProperties
<1>5. /\ \A j \in 1 .. n : s[j] \in RuntimeBefore(i)
      /\ \A x \in RuntimeBefore(i) : \E j \in 1 .. n : s[j] = x
      /\ \A j \in 1 .. n : \A k \in 1 .. n : j < k => s[j] < s[k]
  BY <1>4, Zenon DEF InOrder, Range
<1>6. \A x : x \in RuntimeBefore(i + 1) <=> x \in RuntimeBefore(i) \/ x = i
  BY DEF RuntimeBefore
<1>7. \A x \in RuntimeBefore(i) : x < i
  BY DEF RuntimeBefore
<1>8. ASSUME NEW j \in 1 .. n + 1, NEW k \in 1 .. n + 1, j < k PROVE t[j] < t[k]
  <2>1. j \in 1 .. n
    BY <1>8
  <2>2. CASE k = n + 1
    BY <1>3, <1>5, <1>7, <2>1, <2>2
  <2>3. CASE k # n + 1
    <3>1. k \in 1 .. n
      BY <2>3
    <3>2. t[j] = s[j] /\ t[k] = s[k]
      BY <1>3, <2>1, <3>1
    <3> QED
      BY <1>5, <1>8, <2>1, <3>1, <3>2
  <2> QED
    BY <2>2, <2>3
<1>9. ASSUME NEW j \in 1 .. n + 1 PROVE t[j] \in RuntimeBefore(i + 1)
  <2>1. CASE j = n + 1
    BY <1>3, <1>6, <2>1
  <2>2. CASE j # n + 1
    <3>1. j \in 1 .. n
      BY <2>2
    <3> QED
      BY <1>3, <1>5, <1>6, <3>1
  <2> QED
    BY <2>1, <2>2
<1>10. ASSUME NEW x \in RuntimeBefore(i + 1) PROVE \E j \in 1 .. n + 1 : t[j] = x
  <2>1. CASE x = i
    <3>1. n + 1 \in 1 .. n + 1
      OBVIOUS
    <3> QED
      BY <1>3, <2>1, <3>1, Zenon
  <2>2. CASE x \in RuntimeBefore(i)
    <3>1. PICK j \in 1 .. n : s[j] = x
      BY <1>5, <2>2, Zenon
    <3>2. j \in 1 .. n + 1
      OBVIOUS
    <3>3. t[j] = x
      BY <1>3, <3>1
    <3> QED
      BY <3>2, <3>3, Zenon
  <2> QED
    BY <1>6, <1>10, <2>1, <2>2, Zenon
<1>11. Range(t) = RuntimeBefore(i + 1)
  BY <1>4, <1>9, <1>10, Zenon DEF Range
<1> QED
  BY <1>2, <1>4, <1>8, <1>11, Zenon DEF InOrder

-----------------------------------------------------------------------------
(* The invariant, one action at a time.                                    *)

LEMMA InitInv ==
  ASSUME Init
  PROVE  EfiInv
<1>1. /\ mode = "start" /\ memResponse \in MapResponses /\ query = <<>> /\ map = None
      /\ idx = 0 /\ seen = <<>> /\ RS = "null"
  BY DEF Init
<1>2. idx \in 0 .. map.entryCount
  BY <1>1 DEF None
<1>3. RuntimeBefore(0) = {}
  BY DEF RuntimeBefore
<1>4. InOrder(<<>>, {})
  BY DEF InOrder, Range
<1>5. RuntimeWalked
  BY <1>1, <1>3, <1>4 DEF RuntimeWalked
<1>6. seen \in Seq(Nat)
  BY <1>1
<1> QED
  BY <1>1, <1>2, <1>5, <1>6 DEF EfiInv, QueryAnswered, MapTaken, Modes

(* Where the map and the walk are left alone. *)
LEMMA WalkKept ==
  ASSUME EfiInv, UNCHANGED <<memResponse, map, idx, seen, given>>, mode' \in Modes, QueryAnswered',
         mode' = "fault" => RS' = "null" \/ ~memResponse.answered,
         mode' \in {"start", "mapped"} => mode = mode',
         mode' = "walking" /\ valid => mode = "walking",
         mode' \in {"walked", "switched"} => mode = mode'
  PROVE  EfiInv'
<1>1. MapTaken'
  BY Zenon DEF EfiInv, MapTaken, None
<1>2. RuntimeWalked'
  <2>1. InOrder(seen, RuntimeBefore(idx))'
    <3>1. InOrder(seen, RuntimeBefore(idx))
      BY Zenon DEF EfiInv, RuntimeWalked
    <3>2. RuntimeBefore(idx)' = RuntimeBefore(idx)
      BY DEF RuntimeBefore, isRuntime
    <3> QED
      BY <3>1, <3>2 DEF InOrder
  <2>2. (mode = "walking" /\ valid => isRuntime(idx))'
    BY Zenon DEF EfiInv, RuntimeWalked, valid, isRuntime
  <2>3. (mode \in {"walked", "switched"} => idx = map.entryCount)'
    BY Zenon DEF EfiInv, RuntimeWalked
  <2>4. (mode = "switched" => given = seen)'
    BY DEF EfiInv, RuntimeWalked
  <2> QED
    BY <2>1, <2>2, <2>3, <2>4, Zenon DEF RuntimeWalked
<1> QED
  BY <1>1, <1>2 DEF EfiInv

LEMMA KeepQuery ==
  ASSUME EfiInv, NEW r \in Responses, Query(r)
  PROVE  EfiInv'
<1>1. /\ UNCHANGED <<memResponse, map, idx, seen, given, mode, RS>> /\ query' = <<r, Classes(r)>>
  BY Zenon DEF Query
<1>2. QueryAnswered'
  BY <1>1, Zenon DEF QueryAnswered
<1> QED
  BY <1>1, <1>2, WalkKept, Zenon DEF EfiInv

LEMMA KeepInitialize ==
  ASSUME EfiInv, initializeSystemTable
  PROVE  EfiInv'
<1>1. /\ UNCHANGED <<memResponse, map, idx, seen, given, query>> /\ mode # "fault" /\ RS = "null"
      /\ mode' = (IF EFISupport(sysResponse).available = "fault" THEN "fault" ELSE mode)
      /\ RS' = (IF EFISupport(sysResponse).available = "yes" THEN "services" ELSE RS)
  BY Zenon DEF initializeSystemTable
<1>2. QueryAnswered'
  BY <1>1, Zenon DEF EfiInv, QueryAnswered
<1>3. mode' = mode \/ (mode' = "fault" /\ RS' = "null")
  BY <1>1
<1> QED
  BY <1>1, <1>2, <1>3, WalkKept DEF EfiInv, Modes

LEMMA KeepMakeMap ==
  ASSUME EfiInv, MakeMap
  PROVE  EfiInv'
<1>1. /\ UNCHANGED <<memResponse, RS, idx, seen, given, query>> /\ mode = "start"
  BY Zenon DEF MakeMap
<1>2. QueryAnswered'
  BY <1>1, Zenon DEF EfiInv, QueryAnswered
<1>3. (EFISupport(memResponse).value = Fault) = ~memResponse.answered
  BY DEF EFISupport, Address, Unguarded, Fault, Value
<1>4. CASE ~memResponse.answered
  <2>1. mode' = "fault" /\ map' = map
    BY <1>3, <1>4, Zenon DEF MakeMap
  <2> QED
    BY <1>1, <1>2, <1>4, <2>1, WalkKept DEF Modes
<1>5. CASE memResponse.answered
  <2>1. /\ mode' = "mapped"
        /\ map' = [entryCount |-> EntryCount(memResponse.value[1], memResponse.value[2]),
                   descSize |-> memResponse.value[2]]
    BY <1>3, <1>5, Zenon DEF MakeMap
  <2>2. MapTaken'
    BY <1>1, <1>5, <2>1, Zenon DEF MapTaken
  <2>3. idx' = 0 /\ seen' = <<>>
    BY <1>1, Zenon DEF EfiInv
  <2>4. idx' \in 0 .. map'.entryCount
    <3>1. memResponse.value \in Seq(Nat) /\ Len(memResponse.value) = 2
      BY <1>5, ResponsesAssumption DEF EfiInv
    <3>2. memResponse.value[1] \in Nat /\ memResponse.value[2] \in Nat
      BY <3>1, LenProperties
    <3>3. EntryCount(memResponse.value[1], memResponse.value[2]) \in Nat
      BY <3>2, EntriesFit
    <3> QED
      BY <2>1, <2>3, <3>3
  <2>5. InOrder(seen, RuntimeBefore(idx))'
    <3>1. RuntimeBefore(idx)' = {}
      BY <2>3 DEF RuntimeBefore
    <3>2. InOrder(<<>>, {})
      BY DEF InOrder, Range
    <3> QED
      BY <2>3, <3>1, <3>2 DEF InOrder
  <2>6. RuntimeWalked'
    BY <2>1, <2>5 DEF RuntimeWalked
  <2>7. seen' \in Seq(Nat)
    BY <2>3
  <2> QED
    BY <1>1, <1>2, <2>1, <2>2, <2>3, <2>4, <2>6, <2>7 DEF EfiInv, Modes
<1> QED
  BY <1>4, <1>5

(* The iterator moves to j, and the caller has taken what is before it.     *)
LEMMA Moved ==
  ASSUME EfiInv, UNCHANGED <<memResponse, map, RS, query, given>>, mode' = "walking",
         NEW i \in 0 .. map.entryCount, idx' = advanceToNext(i),
         seen' \in Seq(Nat), InOrder(seen', RuntimeBefore(i))
  PROVE  EfiInv'
<1>1. PICK n \in Nat : n = map.entryCount
  BY MapShape
<1>2. PICK j : j = advanceToNext(i) /\ EndsAt(i, j)
  BY <1>1, Advance
<1>3. j \in 0 .. n /\ idx' = j /\ i \in Nat
  BY <1>1, <1>2 DEF EndsAt
<1>4. RuntimeBefore(j) = RuntimeBefore(i)
  BY <1>1, <1>2, <1>3, SameBefore
<1>5. InOrder(seen, RuntimeBefore(idx))'
  <2>1. RuntimeBefore(idx)' = RuntimeBefore(j)
    BY <1>3 DEF RuntimeBefore, isRuntime
  <2> QED
    BY <1>4, <2>1 DEF InOrder
<1>6. (mode = "walking" /\ valid => isRuntime(idx))'
  <2>1. j = n \/ isRuntime(j)
    BY <1>1, <1>2, Zenon DEF EndsAt
  <2>2. ~(n < n)
    OBVIOUS
  <2> QED
    BY <1>1, <1>3, <2>1, <2>2, Zenon DEF valid, isRuntime
<1>7. RuntimeWalked'
  BY <1>5, <1>6 DEF RuntimeWalked
<1>8. QueryAnswered' /\ MapTaken'
  BY Zenon DEF EfiInv, QueryAnswered, MapTaken, None
<1>9. idx' \in 0 .. map'.entryCount
  BY <1>1, <1>3
<1> QED
  BY <1>7, <1>8, <1>9 DEF EfiInv, Modes

LEMMA KeepBegin ==
  ASSUME EfiInv, Begin
  PROVE  EfiInv'
<1>1. /\ UNCHANGED <<memResponse, map, RS, query, given, seen>> /\ mode = "mapped"
      /\ mode' = "walking" /\ idx' = advanceToNext(0)
  BY Zenon DEF Begin, MoveTo
<1>2. 0 \in 0 .. map.entryCount
  BY MapShape
<1>3. seen' \in Seq(Nat) /\ idx = 0
  BY <1>1 DEF EfiInv
<1>4. InOrder(seen', RuntimeBefore(0))
  BY <1>1, <1>3, Zenon DEF EfiInv, RuntimeWalked
<1> QED
  BY <1>1, <1>2, <1>3, <1>4, Moved, Zenon

LEMMA KeepTake ==
  ASSUME EfiInv, Take
  PROVE  EfiInv'
<1>1. /\ UNCHANGED <<memResponse, map, RS, query, given, mode>> /\ mode = "walking" /\ valid
      /\ seen' = Append(seen, idx) /\ idx' = advanceToNext(idx + 1)
  BY Zenon DEF Take, MoveTo
<1>2. PICK n \in Nat : n = map.entryCount
  BY MapShape
<1>3. PICK i \in 0 .. n : i = idx /\ i < n
  BY <1>1, <1>2 DEF EfiInv, valid
<1>4. i + 1 \in 0 .. map.entryCount /\ i \in Nat
  BY <1>2, <1>3
<1>5. seen \in Seq(Nat) /\ InOrder(seen, RuntimeBefore(i)) /\ isRuntime(i)
  BY <1>1, <1>3, Zenon DEF EfiInv, RuntimeWalked
<1>6. InOrder(seen', RuntimeBefore(i + 1))
  BY <1>1, <1>3, <1>4, <1>5, OneMore
<1>7. seen' \in Seq(Nat)
  BY <1>1, <1>3, <1>4, <1>5, AppendProperties
<1>8. mode' = "walking" /\ idx' = advanceToNext(i + 1)
  BY <1>1, <1>3
<1> QED
  BY <1>1, <1>4, <1>6, <1>7, <1>8, Moved, Zenon

LEMMA KeepWalked ==
  ASSUME EfiInv, Walked
  PROVE  EfiInv'
<1>1. /\ UNCHANGED <<memResponse, map, RS, query, given, idx, seen>> /\ mode = "walking" /\ ~valid
      /\ mode' = "walked"
  BY Zenon DEF Walked
<1>2. idx = map.entryCount
  <2>1. PICK n \in Nat : n = map.entryCount
    BY MapShape
  <2>2. idx \in 0 .. n /\ ~(idx < n)
    BY <1>1, <2>1, Zenon DEF EfiInv, valid
  <2> QED
    BY <2>1, <2>2
<1>3. RuntimeWalked'
  <2>1. InOrder(seen, RuntimeBefore(idx))'
    <3>1. InOrder(seen, RuntimeBefore(idx))
      BY Zenon DEF EfiInv, RuntimeWalked
    <3>2. RuntimeBefore(idx)' = RuntimeBefore(idx)
      BY <1>1 DEF RuntimeBefore, isRuntime
    <3> QED
      BY <1>1, <3>1, <3>2 DEF InOrder
  <2> QED
    BY <1>1, <1>2, <2>1 DEF RuntimeWalked
<1>4. QueryAnswered' /\ MapTaken'
  BY <1>1, Zenon DEF EfiInv, QueryAnswered, MapTaken, None
<1> QED
  BY <1>1, <1>3, <1>4 DEF EfiInv, Modes

LEMMA KeepSetVirtualAddressMap ==
  ASSUME EfiInv, SetVirtualAddressMap
  PROVE  EfiInv'
<1>1. /\ UNCHANGED <<memResponse, map, RS, query, idx, seen>> /\ mode = "walked" /\ given' = seen
      /\ mode' = (IF RS = "null" THEN "fault" ELSE "switched")
  BY Zenon DEF SetVirtualAddressMap, Through
<1>2. RuntimeWalked'
  <2>1. InOrder(seen, RuntimeBefore(idx))'
    <3>1. InOrder(seen, RuntimeBefore(idx))
      BY Zenon DEF EfiInv, RuntimeWalked
    <3>2. RuntimeBefore(idx)' = RuntimeBefore(idx)
      BY <1>1 DEF RuntimeBefore, isRuntime
    <3> QED
      BY <1>1, <3>1, <3>2 DEF InOrder
  <2>2. idx' = map'.entryCount
    BY <1>1 DEF EfiInv, RuntimeWalked
  <2> QED
    BY <1>1, <2>1, <2>2 DEF RuntimeWalked
<1>3. QueryAnswered' /\ MapTaken'
  BY <1>1, Zenon DEF EfiInv, QueryAnswered, MapTaken, None
<1> QED
  BY <1>1, <1>2, <1>3 DEF EfiInv, Modes

LEMMA KeepCalls ==
  ASSUME EfiInv, CallService \/ ResetSystem
  PROVE  EfiInv'
<1>1. /\ UNCHANGED <<memResponse, map, RS, query, given, idx, seen>>
      /\ mode' = mode \/ (mode' = "fault" /\ RS = "null") \/ mode' = "reset"
  BY DEF CallService, ResetSystem, Through
<1>2. QueryAnswered'
  BY <1>1, Zenon DEF EfiInv, QueryAnswered
<1> QED
  BY <1>1, <1>2, WalkKept DEF EfiInv, Modes

LEMMA NextInv ==
  ASSUME EfiInv, [Next]_vars
  PROVE  EfiInv'
<1>1. CASE UNCHANGED vars
  <2>1. UNCHANGED <<memResponse, map, RS, query, given, idx, seen, mode>>
    BY <1>1 DEF vars
  <2>2. QueryAnswered'
    BY <2>1, Zenon DEF EfiInv, QueryAnswered
  <2> QED
    BY <2>1, <2>2, WalkKept DEF EfiInv
<1> QED
  BY <1>1, KeepQuery, KeepInitialize, KeepMakeMap, KeepBegin, KeepTake, KeepWalked,
     KeepSetVirtualAddressMap, KeepCalls, Zenon DEF Next

(* The walk of the map by RuntimeIterator, interrupted by calls of services *)
(* or not, has an invariant that says where it is on the list of runtime    *)
(* descriptors and what has been taken from the response.                  *)
THEOREM EfiIsInvariant == Spec => []EfiInv
<1>1. Init => EfiInv
  BY InitInv
<1>2. EfiInv /\ [Next]_vars => EfiInv'
  BY NextInv
<1> QED
  BY <1>1, <1>2, PTL DEF Spec

(* RuntimeIterator gives the caller every runtime descriptor of the map, in *)
(* the order of the map and once, and stops at no other, for every map and  *)
(* every pattern of runtime descriptors.                                   *)
THEOREM WalkIsComplete == Spec => []RuntimeWalked
<1>1. EfiInv => RuntimeWalked
  BY Zenon DEF EfiInv
<1> QED
  BY <1>1, EfiIsInvariant, PTL

-----------------------------------------------------------------------------
(* What is read of the map.                                                *)

(* The bootloader's descriptors are no smaller than MemoryDescriptor, or it *)
(* gives them the size 0: the constructor of MemoryMap asks for nothing else. *)
DescriptorsWhole ==
  \A r \in MapResponses : r.answered => r.value[2] = 0 \/ r.value[2] >= 40

LEMMA LastFits ==
  ASSUME NEW q \in Nat, NEW k \in Nat, NEW desc \in Nat, NEW size \in Nat,
         k < q, q * desc <= size
  PROVE  k * desc + desc <= size
<1>1. PICK t \in Nat : q = k + 1 + t /\ t = q - k - 1
  OBVIOUS
<1>2. q * desc = k * desc + desc + t * desc
  BY <1>1
<1>3. PICK a \in Nat : a = t * desc
  BY <1>1
<1>4. PICK b \in Nat : b = k * desc
  OBVIOUS
<1> QED
  BY <1>2, <1>3, <1>4

LEMMA ReadInside ==
  ASSUME EfiInv, DescriptorsWhole, NEW k \in Nat, k < map.entryCount
  PROVE  AttributeAt(k) \subseteq 0 .. memResponse.value[1] - 1
<1>1. map # None
  BY DEF None
<1>2. /\ memResponse.answered
      /\ map = [entryCount |-> EntryCount(memResponse.value[1], memResponse.value[2]),
                descSize |-> memResponse.value[2]]
  BY <1>1, Zenon DEF EfiInv, MapTaken
<1>3. memResponse.value \in Seq(Nat) /\ Len(memResponse.value) = 2
  BY <1>2, ResponsesAssumption DEF EfiInv
<1>4. PICK size \in Nat : size = memResponse.value[1]
  BY <1>3, LenProperties
<1>5. PICK desc \in Nat : desc = memResponse.value[2]
  BY <1>3, LenProperties
<1>6. PICK q \in Nat : q = map.entryCount /\ q = EntryCount(size, desc) /\ q * desc <= size
  BY <1>2, <1>4, <1>5, EntriesFit
<1>7. desc >= 40
  <2>1. desc # 0
    BY <1>6 DEF EntryCount
  <2>2. desc = 0 \/ desc >= 40
    BY <1>2, <1>5 DEF DescriptorsWhole, EfiInv
  <2> QED
    BY <2>1, <2>2
<1>8. k * desc + desc <= size
  BY <1>6, LastFits
<1>9. PICK b \in Nat : b = k * desc
  OBVIOUS
<1>10. AttributeAt(k) = b + 32 .. b + 39
  BY <1>2, <1>5, <1>9 DEF AttributeAt
<1> QED
  BY <1>4, <1>7, <1>8, <1>9, <1>10

LEMMA MoveReads ==
  ASSUME EfiInv, DescriptorsWhole, ReadsInsideMap, UNCHANGED <<memResponse, map>>,
         NEW i \in 0 .. map.entryCount, MoveTo(i)
  PROVE  ReadsInsideMap'
<1>1. /\ read' = read \cup UNION {AttributeAt(k) : k \in {k \in i .. idx' : k < map.entryCount}}
      /\ idx' = advanceToNext(i)
  BY Zenon DEF MoveTo
<1>2. PICK n \in Nat : n = map.entryCount
  BY MapShape
<1>3. EndsAt(i, advanceToNext(i))
  BY <1>2, Advance
<1>4. idx' \in i .. n
  BY <1>1, <1>2, <1>3 DEF EndsAt
<1>5. \A k \in i .. idx' : k \in Nat
  BY <1>4
<1>6. ASSUME NEW x \in read' PROVE x \in 0 .. memResponse.value[1] - 1
  <2>1. CASE x \in read
    BY <2>1, Zenon DEF ReadsInsideMap
  <2>2. CASE \E k \in i .. idx' : k < map.entryCount /\ x \in AttributeAt(k)
    BY <1>5, <2>2, ReadInside, Zenon
  <2> QED
    BY <1>1, <1>6, <2>1, <2>2, Zenon
<1> QED
  BY <1>6, Zenon DEF ReadsInsideMap

(* RuntimeIterator reads no byte outside the map: for every size of it and  *)
(* of its descriptors, also one that does not divide the other, as long as  *)
(* a descriptor is at least as large as the struct.                        *)
THEOREM ReadsStayInside ==
  ASSUME DescriptorsWhole
  PROVE  Spec => []ReadsInsideMap
<1>1. Init => ReadsInsideMap
  BY DEF Init, ReadsInsideMap
<1>2. ASSUME EfiInv, ReadsInsideMap, [Next]_vars PROVE ReadsInsideMap'
  <2>1. CASE Begin
    <3>1. MoveTo(0) /\ UNCHANGED <<memResponse, map>>
      BY <2>1, Zenon DEF Begin
    <3>2. 0 \in 0 .. map.entryCount
      BY <1>2, MapShape
    <3> QED
      BY <1>2, <3>1, <3>2, MoveReads, Zenon
  <2>2. CASE Take
    <3>1. MoveTo(idx + 1) /\ UNCHANGED <<memResponse, map>> /\ valid
      BY <2>2, Zenon DEF Take
    <3>2. idx + 1 \in 0 .. map.entryCount
      <4>1. PICK n \in Nat : n = map.entryCount
        BY <1>2, MapShape
      <4>2. idx \in 0 .. n /\ idx < n
        BY <1>2, <3>1, <4>1, Zenon DEF EfiInv, valid
      <4> QED
        BY <4>1, <4>2
    <3> QED
      BY <1>2, <3>1, <3>2, MoveReads, Zenon
  <2>3. CASE UNCHANGED <<memResponse, read>>
    BY <1>2, <2>3, Zenon DEF ReadsInsideMap
  <2> QED
    BY <1>2, <2>1, <2>2, <2>3, Zenon
       DEF Next, Query, initializeSystemTable, MakeMap, Walked, SetVirtualAddressMap, CallService,
           ResetSystem, vars
<1>3. EfiInv /\ ReadsInsideMap /\ [Next]_vars => ReadsInsideMap'
  BY <1>2
<1> QED
  BY <1>1, <1>3, EfiIsInvariant, PTL DEF Spec

-----------------------------------------------------------------------------
(* The classes of Limine.                                                  *)

LEMMA Answers ==
  ASSUME NEW r
  PROVE  /\ Checked(r) \in {"yes", "no"} /\ CheckedItems(r) \in {"yes", "no"}
         /\ Checked(r) = "yes" => r.answered
         /\ CheckedItems(r) = "yes" => r.answered
         /\ Unchecked(r) \in {"yes", "no", "fault"} /\ UncheckedItems(r) \in {"yes", "no", "fault"}
         /\ Unchecked(r) = "fault" <=> ~r.answered
         /\ UncheckedItems(r) = "fault" <=> ~r.answered
  BY DEF Checked, CheckedItems, Unchecked, UncheckedItems, YesNo

LEMMA GuardedValue ==
  ASSUME NEW a \in {"yes", "no", "fault"}, NEW empty, NEW v
  PROVE  /\ a = "yes" => Guarded(a, empty, v) = Value(v)
         /\ a = "no" => Guarded(a, empty, v) = Value(empty)
         /\ a = "fault" => Guarded(a, empty, v) = Fault
         /\ Guarded(a, empty, v) = Fault <=> a = "fault"
  BY DEF Guarded, Value, Fault

(* A class with a value and no array. *)
LEMMA ValueTrusted ==
  ASSUME NEW r, NEW a \in {"yes", "no", "fault"}, a = "fault" => ~r.answered,
         NEW k, k.available = a, "at" \notin DOMAIN k, "file" \notin DOMAIN k,
         a = "yes" => k.value = Value(r.value), k.value = Fault <=> a = "fault"
  PROVE  Trusted(k, r)
  BY Zenon DEF Trusted

LEMMA ItemsTrusted ==
  ASSUME NEW r, r.items \in Seq(Int), NEW a \in {"yes", "no", "fault"},
         a = "fault" => ~r.answered, a = "yes" => r.answered,
         NEW k, k.available = a, "value" \notin DOMAIN k, "file" \notin DOMAIN k,
         k.count = count(a, r), k.view = view(a, r), DOMAIN k.at = 0 .. Len(r.items) + 1,
         \A i \in 0 .. Len(r.items) + 1 :
           k.at[i] = at(a, r, i) \/ (at(a, r, i) = NullPtr /\ k.at[i] = Fault)
  PROVE  Trusted(k, r)
<1>1. PICK n \in Nat : n = Len(r.items)
  BY LenProperties
<1>2. a = "yes" => k.count = Value(<<n>>) /\ k.view = Value(r.items)
  BY <1>1, GuardedValue DEF count, view
<1>3. a = "no" => k.count = Value(<<0>>) /\ k.view = Empty
  BY GuardedValue DEF count, view, Empty
<1>4. a = "fault" => k.count = Fault
  BY GuardedValue DEF count
<1>5. a = "yes" => k.count # Fault /\ k.count.val[1] = n /\ \A i : k.view.val[i] = r.items[i]
  BY <1>2 DEF Value, Fault
<1>6. a = "no" => k.count # Fault /\ k.count.val[1] = 0
  BY <1>3 DEF Value, Fault
<1>7. ASSUME NEW i \in 0 .. n + 1
      PROVE  /\ k.at[i].tag = "value" <=> a = "yes" /\ i < k.count.val[1]
             /\ a = "yes" /\ i < n => k.at[i].val = <<k.view.val[i + 1]>>
  <2>1. NullPtr.tag # "value" /\ Fault.tag # "value"
    BY DEF NullPtr, Fault
  <2>2. CASE a = "fault"
    <3>1. at(a, r, i) = Fault
      BY <1>4, <2>2 DEF at
    <3> QED
      BY <1>1, <2>1, <2>2, <3>1
  <2>3. CASE a = "no"
    <3>1. at(a, r, i) = NullPtr
      BY <1>6, <2>3 DEF at
    <3> QED
      BY <1>1, <2>1, <2>3, <3>1
  <2>4. CASE a = "yes" /\ i < n
    <3>1. at(a, r, i) = Item(r, i)
      BY <1>5, <2>4 DEF at
    <3>2. Item(r, i) = Value(<<r.items[i + 1]>>)
      BY <1>1, <2>4 DEF Item
    <3>3. Item(r, i).tag = "value" /\ Item(r, i).val = <<r.items[i + 1]>> /\ Item(r, i) # NullPtr
      BY <3>2 DEF Value, NullPtr
    <3>4. k.at[i] = Item(r, i)
      BY <1>1, <3>1, <3>3
    <3> QED
      BY <1>5, <2>4, <3>3, <3>4
  <2>5. CASE a = "yes" /\ ~(i < n)
    <3>1. at(a, r, i) = NullPtr
      BY <1>5, <2>5 DEF at
    <3> QED
      BY <1>1, <1>5, <2>1, <2>5, <3>1
  <2> QED
    BY <2>2, <2>3, <2>4, <2>5
<1>8. \A i \in DOMAIN k.at : k.at[i].tag = "value" <=> a = "yes" /\ i < k.count.val[1]
  BY <1>1, <1>7
<1>9. a = "yes" => \A i \in 0 .. k.count.val[1] - 1 : k.at[i].val = <<k.view.val[i + 1]>>
  <2>1. \A i \in 0 .. n - 1 : i \in 0 .. n + 1 /\ i < n
    OBVIOUS
  <2> QED
    BY <1>5, <1>7, <2>1
<1> QED
  BY <1>1, <1>2, <1>3, <1>8, <1>9, Zenon DEF Trusted

(* Every class keeps what available() promises, whatever it wraps.          *)
LEMMA ClassesTrusted ==
  ASSUME NEW r \in Responses
  PROVE  \A c \in DOMAIN Classes(r) : Trusted(Classes(r)[c], r)
<1>1. r.items \in Seq(Int)
  BY ResponsesAssumption
<1>2. PICK n \in Nat : n = Len(r.items)
  BY <1>1, LenProperties
<1>3. Trusted(Text(r), r)
  <2>1. /\ Text(r).available = Checked(r)
        /\ "at" \notin DOMAIN Text(r) /\ "file" \notin DOMAIN Text(r)
        /\ Text(r).value = Guarded(Checked(r), <<>>, r.value)
    BY DEF Text
  <2> QED
    BY <2>1, Answers, GuardedValue, ValueTrusted
<1>4. \A none : Trusted(Number(r, none), r)
  <2> TAKE none
  <2>1. /\ Number(r, none).available = Checked(r)
        /\ "at" \notin DOMAIN Number(r, none) /\ "file" \notin DOMAIN Number(r, none)
        /\ Number(r, none).value = Guarded(Checked(r), <<none>>, r.value)
    BY DEF Number
  <2> QED
    BY <2>1, Answers, GuardedValue, ValueTrusted
<1>5. Trusted(Address(r), r)
  <2>1. /\ Address(r).available = Unchecked(r)
        /\ "at" \notin DOMAIN Address(r) /\ "file" \notin DOMAIN Address(r)
        /\ Address(r).value = IF r.answered THEN Value(r.value) ELSE Fault
    BY DEF Address, Unguarded
  <2>2. Value(r.value) # Fault
    BY DEF Value, Fault
  <2> QED
    BY <2>1, <2>2, Answers, ValueTrusted
<1>6. Trusted(FirmwareType(r), r)
  <2>1. /\ FirmwareType(r).available = Checked(r)
        /\ "at" \notin DOMAIN FirmwareType(r) /\ "file" \notin DOMAIN FirmwareType(r)
        /\ FirmwareType(r).value = Guarded(Checked(r), <<-1>>, r.value)
    BY DEF FirmwareType
  <2> QED
    BY <2>1, Answers, GuardedValue, ValueTrusted
<1>7. Trusted(ExecutableFileInfo(r), r)
  <2>1. PICK a : a = YesNo(r.answered /\ r.revision # 0 /\ file(r) # NullPtr)
    OBVIOUS
  <2>2. a \in {"yes", "no"}
    BY <2>1 DEF YesNo
  <2>3. /\ ExecutableFileInfo(r).available = a /\ "at" \notin DOMAIN ExecutableFileInfo(r)
        /\ ExecutableFileInfo(r).value = Guarded(a, <<>>, r.value)
        /\ ExecutableFileInfo(r).file = file(r)
    BY <2>1 DEF ExecutableFileInfo
  <2>4. NullPtr # Fault /\ Value(<<r.items[1]>>) # Fault
    BY DEF NullPtr, Fault, Value
  <2>5. ASSUME r.answered, r.items # <<>> PROVE file(r) = Value(<<r.items[1]>>)
    <3>1. 0 < Len(r.items)
      BY <1>1, <2>5, EmptySeq, LenProperties
    <3> QED
      BY <2>5, <3>1 DEF file, Item
  <2>6. file(r) = Fault <=> ~r.answered
    BY <2>4, <2>5 DEF file
  <2>7. a = "yes" => r.answered /\ r.items # <<>>
    BY <2>1 DEF YesNo, file
  <2>8. PICK k : k = ExecutableFileInfo(r)
    OBVIOUS
  <2>9. /\ k.available = a /\ "at" \notin DOMAIN k
        /\ k.file = file(r) /\ k.value = Guarded(a, <<>>, r.value)
    BY <2>3, <2>8, Zenon
  <2>10. /\ a # "fault" /\ (a = "yes" => k.value = Value(r.value))
         /\ (k.value = Fault <=> a = "fault")
    BY <2>2, <2>9, GuardedValue
  <2>11. (a = "yes" => k.file = Value(<<r.items[1]>>)) /\ (k.file = Fault <=> ~r.answered)
    BY <2>5, <2>6, <2>7, <2>9
  <2>12. Trusted(k, r)
    BY <2>9, <2>10, <2>11, Zenon DEF Trusted
  <2> QED
    BY <2>8, <2>12, Zenon
<1>8. ASSUME NEW a
      PROVE  /\ Array(a, r).available = a /\ "value" \notin DOMAIN Array(a, r)
             /\ "file" \notin DOMAIN Array(a, r)
             /\ Array(a, r).count = count(a, r) /\ Array(a, r).view = view(a, r)
             /\ Array(a, r).at = [i \in 0 .. n + 1 |-> at(a, r, i)]
  BY <1>2 DEF Array
<1>9. ASSUME NEW a \in {"yes", "no", "fault"}, a = "fault" => ~r.answered, a = "yes" => r.answered
      PROVE  Trusted(Array(a, r), r)
  <2>1. PICK k : k = Array(a, r)
    OBVIOUS
  <2>2. PICK g : g = k.at /\ g = [i \in 0 .. n + 1 |-> at(a, r, i)]
    BY <1>8, <2>1, Zenon
  <2>3. DOMAIN g = 0 .. n + 1 /\ \A i \in 0 .. n + 1 : g[i] = at(a, r, i)
    BY <2>2
  <2>4. /\ DOMAIN k.at = 0 .. Len(r.items) + 1
        /\ \A i \in 0 .. Len(r.items) + 1 : k.at[i] = at(a, r, i)
    BY <1>2, <2>2, <2>3, Zenon
  <2>5. /\ k.available = a /\ "value" \notin DOMAIN k /\ "file" \notin DOMAIN k
        /\ k.count = count(a, r) /\ k.view = view(a, r)
    BY <1>8, <2>1, Zenon
  <2>6. Trusted(k, r)
    BY <1>1, <1>9, <2>4, <2>5, ItemsTrusted, Zenon
  <2> QED
    BY <2>1, <2>6, Zenon
<1>10. Trusted(MemoryMap(r), r)
  BY <1>9, Answers DEF MemoryMap
<1>11. Trusted(ModuleList(r), r)
  <2>1. UncheckedItems(r) = "yes" => r.answered
    BY DEF UncheckedItems
  <2> QED
    BY <1>9, <2>1, Answers DEF ModuleList
<1>12. Trusted(Framebuffer(r), r)
  <2>1. PICK a : a = CheckedItems(r)
    OBVIOUS
  <2>2. PICK k : k = Framebuffer(r)
    OBVIOUS
  <2>3. /\ k.available = a /\ "value" \notin DOMAIN k /\ "file" \notin DOMAIN k
        /\ k.count = count(a, r) /\ k.view = view(a, r)
        /\ k.at = [i \in DOMAIN Array(a, r).at |-> FB(Array(a, r).at[i])]
    BY <2>1, <2>2 DEF Framebuffer, Array
  <2>4. PICK g : g = Array(a, r).at /\ g = [i \in 0 .. n + 1 |-> at(a, r, i)]
    BY <1>8, Zenon
  <2>5. DOMAIN g = 0 .. n + 1 /\ \A i \in 0 .. n + 1 : g[i] = at(a, r, i)
    BY <2>4
  <2>6. k.at = [i \in DOMAIN g |-> FB(g[i])]
    BY <2>3, <2>4, Zenon
  <2>7. k.at = [i \in 0 .. n + 1 |-> FB(at(a, r, i))]
    BY <2>5, <2>6
  <2>8. \A i \in 0 .. n + 1 : k.at[i] = at(a, r, i) \/ (at(a, r, i) = NullPtr /\ k.at[i] = Fault)
    BY <2>7 DEF FB
  <2>9. DOMAIN k.at = 0 .. n + 1
    BY <2>7
  <2>10. /\ DOMAIN k.at = 0 .. Len(r.items) + 1
         /\ \A i \in 0 .. Len(r.items) + 1 :
              k.at[i] = at(a, r, i) \/ (at(a, r, i) = NullPtr /\ k.at[i] = Fault)
    BY <1>2, <2>8, <2>9, Zenon
  <2>11. a \in {"yes", "no", "fault"} /\ (a = "fault" => ~r.answered) /\ (a = "yes" => r.answered)
    BY <2>1, Answers
  <2>12. Trusted(k, r)
    BY <1>1, <2>3, <2>10, <2>11, ItemsTrusted, Zenon
  <2> QED
    BY <2>2, <2>12, Zenon
<1> QED
  BY <1>3, <1>4, <1>5, <1>6, <1>7, <1>10, <1>11, <1>12
     DEF Classes, BootloaderInfo, ExecutableCmdline, ExecutableAddressInfo, HHDM, EFISupport,
         RSDPInfo, SMBIOSInfo, BootTime

(* What available() of the thirteen classes says can be relied on, for any  *)
(* response, but that file() faults where there is none; and nothing faults *)
(* once there is a map and initializeSystemTable() has returned true.       *)
THEOREM AnswersAreTrusted == Spec => []AvailabilityTrusted
<1>1. ASSUME EfiInv PROVE AvailabilityTrusted
  <2>1. memResponse.answered /\ RS # "null" => mode # "fault"
    BY <1>1, Zenon DEF EfiInv
  <2>2. ASSUME query # <<>> PROVE \A c \in DOMAIN query[2] : Trusted(query[2][c], query[1])
    <3>1. PICK r \in Responses : query = <<r, Classes(r)>>
      BY <1>1, <2>2, Zenon DEF EfiInv, QueryAnswered
    <3>2. query[1] = r /\ query[2] = Classes(r)
      BY <3>1
    <3> QED
      BY <3>2, ClassesTrusted, Zenon
  <2> QED
    BY <2>1, <2>2, Zenon DEF AvailabilityTrusted
<1>2. EfiInv => AvailabilityTrusted
  BY <1>1
<1> QED
  BY <1>2, EfiIsInvariant, PTL
=============================================================================
