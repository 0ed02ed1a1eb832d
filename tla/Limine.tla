------------------------------- MODULE Limine -------------------------------
(***************************************************************************)
(* core/limine.hh: what the classes that wrap the requests to the          *)
(* bootloader return for a response.  The bootloader may leave a request   *)
(* unanswered, so that its response is null: a getter that reads it then   *)
(* faults.  A response has a revision, a value (a text, a number) and the  *)
(* items of an array; to read behind the array is a fault, too.            *)
(*                                                                         *)
(* A class is an operator from the response to what its getters return.    *)
(*                                                                         *)
(* atInclusive is a faulty variant of the definition that follows it, used *)
(* only to see that a property notices the fault.                          *)
(***************************************************************************)
EXTENDS Integers, Sequences

Response(revision, value, items) ==
  [answered |-> TRUE, revision |-> revision, value |-> value, items |-> items]
Unanswered == [answered |-> FALSE, revision |-> 0, value |-> <<0>>, items |-> <<>>]

(* Results: a value, a null pointer, or a read through one. *)
Value(v) == [tag |-> "value", val |-> v]
NullPtr == [tag |-> "null", val |-> <<>>]
Fault == [tag |-> "fault", val |-> <<>>]
Empty == Value(<<>>)

-----------------------------------------------------------------------------
(* available(), as most classes have it, as those with an array have it, and *)
(* as those have it that do not look whether there is a response.            *)
YesNo(b) == IF b THEN "yes" ELSE "no"

Checked(r) == YesNo(r.answered /\ r.revision # 0)
CheckedItems(r) == YesNo(r.answered /\ r.revision # 0 /\ r.items # <<>>)
Unchecked(r) == IF r.answered THEN YesNo(r.revision # 0) ELSE "fault"
UncheckedItems(r) == IF r.answered THEN YesNo(r.revision # 0 /\ r.items # <<>>) ELSE "fault"

(* A getter that asks available() first, and one that does not. *)
Guarded(a, empty, v) ==
  CASE a = "fault" -> Fault [] a = "no" -> Value(empty) [] a = "yes" -> Value(v)
Unguarded(r) == IF r.answered THEN Value(r.value) ELSE Fault

(* The classes with an array: how many items there are, a view of them, and *)
(* one of them.                                                            *)
count(a, r) == Guarded(a, <<0>>, <<Len(r.items)>>)
view(a, r) == Guarded(a, <<>>, r.items)

Item(r, i) == IF r.answered /\ i < Len(r.items) THEN Value(<<r.items[i + 1]>>) ELSE Fault

atInclusive(a, r, i) ==
  IF count(a, r) = Fault THEN Fault
  ELSE IF i > count(a, r).val[1] THEN NullPtr ELSE Item(r, i)
at(a, r, i) ==
  IF count(a, r) = Fault THEN Fault
  ELSE IF i >= count(a, r).val[1] THEN NullPtr ELSE Item(r, i)

-----------------------------------------------------------------------------
Array(a, r) ==
  [available |-> a, count |-> count(a, r), view |-> view(a, r),
   at |-> [i \in 0 .. Len(r.items) + 1 |-> at(a, r, i)]]

Text(r) == [available |-> Checked(r), value |-> Guarded(Checked(r), <<>>, r.value)]
Number(r, none) == [available |-> Checked(r), value |-> Guarded(Checked(r), <<none>>, r.value)]
Address(r) == [available |-> Unchecked(r), value |-> Unguarded(r)]

BootloaderInfo(r) == Text(r)
ExecutableCmdline(r) == Text(r)
ExecutableAddressInfo(r) == Number(r, 0)
HHDM(r) == Number(r, 0)
EFISupport(r) == Address(r)
RSDPInfo(r) == Address(r)
SMBIOSInfo(r) == Address(r)
BootTime(r) == Address(r)

(* asString() has a name for four types, and one for all others. *)
FirmwareType(r) ==
  [available |-> Checked(r), value |-> Guarded(Checked(r), <<-1>>, r.value),
   view |-> Guarded(Checked(r), <<>>, IF r.value[1] \in 0 .. 3 THEN r.value ELSE <<4>>)]

(* The getters of an FB read through its pointer, which is null for an      *)
(* index that is too large.                                                *)
FB(f) == IF f = NullPtr THEN Fault ELSE f
Framebuffer(r) == [Array(CheckedItems(r), r) EXCEPT !.at = [i \in DOMAIN @ |-> FB(@[i])]]
MemoryMap(r) == Array(CheckedItems(r), r)
ModuleList(r) == Array(UncheckedItems(r), r)

(* The file is the item of the response, or null.  file() does not look      *)
(* whether there is a response; available() does before it calls it.        *)
file(r) ==
  IF ~r.answered THEN Fault ELSE IF r.items = <<>> THEN NullPtr ELSE Item(r, 0)
ExecutableFileInfo(r) ==
  LET a == YesNo(r.answered /\ r.revision # 0 /\ file(r) # NullPtr)
  IN  [available |-> a, file |-> file(r), value |-> Guarded(a, <<>>, r.value)]

(* All classes, if each had this response. *)
Classes(r) ==
  [BootloaderInfo |-> BootloaderInfo(r), ExecutableCmdline |-> ExecutableCmdline(r),
   FirmwareType |-> FirmwareType(r), Framebuffer |-> Framebuffer(r), MemoryMap |-> MemoryMap(r),
   ModuleList |-> ModuleList(r), ExecutableFileInfo |-> ExecutableFileInfo(r),
   ExecutableAddressInfo |-> ExecutableAddressInfo(r), EFISupport |-> EFISupport(r),
   RSDPInfo |-> RSDPInfo(r), SMBIOSInfo |-> SMBIOSInfo(r), BootTime |-> BootTime(r),
   HHDM |-> HHDM(r)]
=============================================================================
