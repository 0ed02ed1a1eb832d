--------------------------------- MODULE Efi ---------------------------------
(***************************************************************************)
(* arch/efi.hh over core/limine.hh: a caller takes the system table and the *)
(* memory map from the bootloader's responses, walks the runtime           *)
(* descriptors of the map, hands them to SetVirtualAddressMap() and calls  *)
(* services of the firmware, in any order.                                 *)
(*                                                                         *)
(* The value of the response with the map is <<memmap_size, desc_size>>,   *)
(* its items are the descriptors in it, TRUE for those with the attribute  *)
(* EFI_MEMORY_RUNTIME, and what would be read as one more behind it.       *)
(*                                                                         *)
(* EntryCountUp and advanceToNextOnce are faulty variants of the           *)
(* definitions that follow them, used only to see that a property notices  *)
(* the fault.                                                              *)
(***************************************************************************)
EXTENDS Limine, FiniteSets, SequencesExt

CONSTANTS
  Responses,     \* the responses to any request
  MapResponses,  \* the responses to the request for the EFI memory map
  MaxCalls       \* bounds the calls of services

ASSUME EfiAssumption == Unanswered \in Responses /\ Unanswered \in MapResponses /\ MaxCalls \in Nat

VARIABLES
  sysResponse, memResponse,  \* sysRequest.response, memRequest.response
  query,   \* what the wrappers return for some response
  RS,      \* "null", or "services"
  map,     \* the MemoryMap: its entryCount_ and descSize
  idx,     \* RuntimeIterator::idx
  read,    \* history: the bytes of the map that were read
  seen,    \* history: the descriptors the caller was given
  mode,    \* what the caller is at
  given,   \* history: the descriptors SetVirtualAddressMap() was called with
  calls

vars == <<sysResponse, memResponse, query, RS, map, idx, read, seen, mode, given, calls>>

None == [entryCount |-> 0, descSize |-> 0]

Init ==
  /\ sysResponse \in Responses /\ memResponse \in MapResponses
  /\ query = <<>> /\ RS = "null" /\ map = None /\ idx = 0
  /\ read = {} /\ seen = <<>> /\ mode = "start" /\ given = <<>> /\ calls = 0

-----------------------------------------------------------------------------
(* The wrappers of the other requests. *)
Query(r) ==
  /\ mode = "start" /\ query = <<>>
  /\ query' = <<r, Classes(r)>>
  /\ UNCHANGED <<sysResponse, memResponse, RS, map, idx, read, seen, mode, given, calls>>

(* initializeSystemTable() *)
initializeSystemTable ==
  /\ mode # "fault" /\ mode # "reset" /\ RS = "null" /\ query = <<>>
  /\ LET available == EFISupport(sysResponse).available
     IN  /\ mode' = IF available = "fault" THEN "fault" ELSE mode
         /\ RS' = IF available = "yes" THEN "services" ELSE RS
  /\ UNCHANGED <<sysResponse, memResponse, query, map, idx, read, seen, given, calls>>

(* The constructor of MemoryMap does not ask memmapAvailable().             *)
EntryCountUp(size, descSize) == IF descSize = 0 THEN 0 ELSE (size + descSize - 1) \div descSize
EntryCount(size, descSize) == IF descSize = 0 THEN 0 ELSE size \div descSize

(* The bootloader's arrays; its map has the items of all its descriptors.   *)
ASSUME ResponsesAssumption ==
  /\ \A r \in Responses : r.items \in Seq(Int)
  /\ \A r \in MapResponses : r.answered =>
       /\ r.value \in Seq(Nat) /\ Len(r.value) = 2 /\ r.items \in Seq(BOOLEAN)
       /\ Len(r.items) > EntryCount(r.value[1], r.value[2])

MakeMap ==
  /\ mode = "start" /\ query = <<>>
  /\ IF EFISupport(memResponse).value = Fault
       THEN mode' = "fault" /\ UNCHANGED map
       ELSE /\ map' = [entryCount |-> EntryCount(memResponse.value[1], memResponse.value[2]),
                       descSize |-> memResponse.value[2]]
            /\ mode' = "mapped"
  /\ UNCHANGED <<sysResponse, memResponse, query, RS, idx, read, seen, given, calls>>

-----------------------------------------------------------------------------
(* isRuntime() reads the last 8 of the 40 bytes of descriptorAt(i).         *)
AttributeAt(i) == i * map.descSize + 32 .. i * map.descSize + 39
isRuntime(i) == memResponse.items[i + 1]

(* The loop of advanceToNext(): where it ends, and up to where it has read. *)
advanceToNextOnce(i) == i
advanceToNext(i) ==
  CHOOSE j \in i .. map.entryCount :
    /\ \A k \in i .. j - 1 : ~isRuntime(k)
    /\ j = map.entryCount \/ isRuntime(j)

valid == idx < map.entryCount

MoveTo(i) ==
  /\ idx' = advanceToNext(i)
  /\ read' = read \cup UNION {AttributeAt(k) : k \in {k \in i .. idx' : k < map.entryCount}}

(* runtimeBegin() *)
Begin ==
  /\ mode = "mapped"
  /\ MoveTo(0)
  /\ mode' = "walking"
  /\ UNCHANGED <<sysResponse, memResponse, query, RS, map, seen, given, calls>>

(* The loop of the caller: it takes the descriptor, and calls next(). *)
Take ==
  /\ mode = "walking" /\ valid
  /\ seen' = Append(seen, idx)
  /\ MoveTo(idx + 1)
  /\ UNCHANGED <<sysResponse, memResponse, query, RS, map, mode, given, calls>>

(* next() does nothing at the end. *)
Walked ==
  /\ mode = "walking" /\ ~valid
  /\ mode' = "walked"
  /\ UNCHANGED <<sysResponse, memResponse, query, RS, map, idx, read, seen, given, calls>>

-----------------------------------------------------------------------------
(* Every wrapper calls through RS, whatever it is. *)
Through(next) == mode' = IF RS = "null" THEN "fault" ELSE next

SetVirtualAddressMap ==
  /\ mode = "walked"
  /\ Through("switched")
  /\ given' = seen
  /\ UNCHANGED <<sysResponse, memResponse, query, RS, map, idx, read, seen, calls>>

(* GetTime(), SetTime(), GetVariable(), SetVariable(). *)
CallService ==
  /\ mode \notin {"fault", "reset"} /\ query = <<>> /\ calls < MaxCalls
  /\ Through(mode)
  /\ calls' = calls + 1
  /\ UNCHANGED <<sysResponse, memResponse, query, RS, map, idx, read, seen, given>>

ResetSystem ==
  /\ mode \notin {"fault", "reset"} /\ query = <<>>
  /\ Through("reset")
  /\ UNCHANGED <<sysResponse, memResponse, query, RS, map, idx, read, seen, given, calls>>

Next ==
  \/ \E r \in Responses : Query(r)
  \/ initializeSystemTable \/ MakeMap \/ Begin \/ Take \/ Walked
  \/ SetVirtualAddressMap \/ CallService \/ ResetSystem

Spec == Init /\ [][Next]_vars

-----------------------------------------------------------------------------
(* What available() says can be relied on.  After a yes no getter faults,    *)
(* the view is the whole array, and the items that at() returns are those of *)
(* the view and no others; after a no the count is 0, the view is empty and  *)
(* at() returns no item.  Asking can fault, but only where the request is    *)
(* unanswered, and then so do the getters.  One getter is not covered by a   *)
(* no: file() of ExecutableFileInfo faults on an unanswered request, where   *)
(* available() says no, and nowhere else.  And a caller that has a response  *)
(* with the map, and for which initializeSystemTable() has returned true,    *)
(* does not fault any more.                                                 *)
Trusted(k, r) ==
  LET yes == k.available = "yes"
      no == k.available = "no"
  IN  /\ k.available = "fault" => ~r.answered
      /\ "value" \in DOMAIN k =>
           /\ yes => k.value = Value(r.value)
           /\ k.value = Fault <=> k.available = "fault"
      /\ "file" \in DOMAIN k =>
           /\ yes => k.file = Value(<<r.items[1]>>)
           /\ k.file = Fault <=> ~r.answered
      /\ "at" \in DOMAIN k =>
           /\ yes => k.count = Value(<<Len(r.items)>>) /\ k.view = Value(r.items)
           /\ no => k.count = Value(<<0>>) /\ k.view = Empty
           /\ \A i \in DOMAIN k.at :
                k.at[i].tag = "value" <=> yes /\ i < k.count.val[1]
           /\ yes => \A i \in 0 .. k.count.val[1] - 1 : k.at[i].val = <<k.view.val[i + 1]>>
AvailabilityTrusted ==
  /\ memResponse.answered /\ RS # "null" => mode # "fault"
  /\ query # <<>> => \A c \in DOMAIN query[2] : Trusted(query[2][c], query[1])

(* The walk gives the caller the runtime descriptors of the map, in order,   *)
(* each once, none before the end missing; SetVirtualAddressMap() gets all.  *)
RuntimeBefore(n) == {i \in 0 .. n - 1 : isRuntime(i)}
InOrder(s, S) ==
  Range(s) = S /\ \A i \in DOMAIN s : \A j \in DOMAIN s : i < j => s[i] < s[j]
RuntimeWalked ==
  /\ InOrder(seen, RuntimeBefore(idx))
  /\ mode = "walking" /\ valid => isRuntime(idx)
  /\ mode \in {"walked", "switched"} => idx = map.entryCount
  /\ mode = "switched" => given = seen

(* The iterator reads no byte outside the map, also when the size of the map *)
(* is no multiple of that of a descriptor, or one of them is 0.             *)
ReadsInsideMap == read \subseteq 0 .. memResponse.value[1] - 1
=============================================================================
