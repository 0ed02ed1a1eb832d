------------------------ MODULE PhysicalMemoryManager ------------------------
(***************************************************************************)
(* The page allocator of core/pmm.hh.  Free pages form a singly linked     *)
(* list threaded through the pages themselves: the word at the start of a  *)
(* free page points to the next one.  The module follows the code at the   *)
(* level of those pointers.  A call that walks the list takes one step per *)
(* loop iteration; everything else a call does is in the step that does it *)
(* in the code.                                                            *)
(*                                                                         *)
(* A page is named by the address of its first byte.  The list is built    *)
(* by addRegion() from physical addresses, while free() links a page by    *)
(* phys + HHDM offset: both are pointers to the same memory, and Cell maps *)
(* them to it.                                                             *)
(*                                                                         *)
(* A definition whose name adds to another's a word for what goes wrong    *)
(* (AlignUpTruncates, AllocateStaleTail, ...) is a faulty variant of it,   *)
(* used only to see that a property notices the fault.                     *)
(***************************************************************************)
EXTENDS Integers, Sequences, FiniteSets

CONSTANTS
  AddrSpace,        \* the number of values of a u64
  PageSize,         \* PageSize
  MinPhysical,      \* kMinPhysical
  PhysTop,          \* the first physical address that is not memory
  HhdmOffset,       \* Limine::HHDM::offset(), 0 when the bootloader gave none
  Fifo,             \* kPmmUseFifo
  PanicOnError,     \* kPanicOnError
  MemMaps,          \* the memory maps the bootloader may report
  FreeRequests,     \* the addresses the client may pass to free()
  DoubleFrees,      \* whether the client may free a page that is already free
  ReserveRequests,  \* the [base, length] the client may pass to reserveRegion()
  ClientData        \* what the client may write at the start of a page it holds

VARIABLES
  memmap,      \* Limine::MemoryMap, a sequence of [base, length, usable]
  mode,        \* the loop or call in progress; "idle" between calls
  entry,       \* init()'s i: the next memory map entry
  region,      \* the parameters of the addRegion() or reserveRegion() in progress
  addr,        \* their loop variable; in free(), the parameter phys_addr
  it, prev,    \* the list cursors of free() and reserveRegion()
  head, tail,  \* s_freelist_head, s_freelist_tail
  next,        \* the pointer stored at each physical address
  totalPages, freePages,    \* s_total_pages, s_free_pages
  managed,     \* history: the pages addRegion() has linked
  owned,       \* history: the addresses handed out and not yet given back
  withheld     \* history: the pages reserveRegion() has unlinked

(* The three history variables are never read by a guard of the code: they *)
(* say what the client may do next and what the properties are about.      *)

locals == <<region, addr, it, prev>>
list == <<head, tail, next, totalPages, freePages>>
history == <<managed, owned, withheld>>
vars == <<memmap, mode, entry, locals, list, history>>

-----------------------------------------------------------------------------
(* Addresses. *)

Null == 0
Pointer == 0 .. AddrSpace - 1
Phys == 0 .. PhysTop - 1

Entry == [base : Pointer, length : Pointer, usable : BOOLEAN]
Region == [base : Pointer, length : Pointer]
NoRegion == [base |-> 0, length |-> 0]

(* u64 addition and subtraction wrap around. *)
Add(a, b) == IF a + b < AddrSpace THEN a + b ELSE a + b - AddrSpace
Sub(a, b) == IF a < b THEN a - b + AddrSpace ELSE a - b

Aligned(a) == a % PageSize = 0

AlignDown(a) == a - (a % PageSize)
AlignUpTruncates(a) == AlignDown(a)
AlignUp(a) == AlignDown(Add(a, PageSize - 1))

(* The whole pages of a region, as addRegion() and reserveRegion() round it. *)
First(r) == AlignUp(r.base)
LimitRoundedUp(r) == AlignUp(Add(r.base, r.length))
Limit(r) == AlignDown(Add(r.base, r.length))

(* The physical address a pointer leads to: all of physical memory is       *)
(* mapped at the HHDM offset, and low addresses are supposed to be identity *)
(* mapped, too, since the code uses physical addresses as pointers.         *)
Virt(a) == Add(a, HhdmOffset)
Mapped(p) == p < PhysTop \/ p \in HhdmOffset .. HhdmOffset + PhysTop - 1
Cell(p) == IF p < PhysTop THEN p ELSE p - HhdmOffset
Cells(S) == {Cell(p) : p \in S}

(* The two pointers to each managed page that a call may come across. *)
Pages == managed \cup {Virt(f) : f \in managed}

-----------------------------------------------------------------------------
(* The memory map. *)

EntryEnd(e) == Add(e.base, e.length)

(* The region init() passes to addRegion() for an entry it does not skip. *)
Clamped(e) ==
  LET start == IF e.base < MinPhysical THEN MinPhysical ELSE e.base
  IN  [base |-> start, length |-> Sub(EntryEnd(e), start)]

(* init() passes the entry on, and addRegion() does not return at once. *)
Contributes(e) ==
  /\ e.usable
  /\ EntryEnd(e) > MinPhysical
  /\ First(Clamped(e)) < Limit(Clamped(e))

(* The bounds the constants have in the kernel. *)
ASSUME ConstantsAssumption ==
  /\ AddrSpace \in Nat /\ PageSize \in Nat /\ MinPhysical \in Nat
  /\ PhysTop \in Nat /\ HhdmOffset \in Nat
  /\ 0 < PageSize /\ PageSize <= MinPhysical
  /\ MinPhysical < PhysTop /\ PhysTop + HhdmOffset <= AddrSpace
  /\ HhdmOffset = 0 \/ PhysTop <= HhdmOffset
  /\ Fifo \in BOOLEAN /\ PanicOnError \in BOOLEAN /\ DoubleFrees \in BOOLEAN
  /\ FreeRequests \subseteq Pointer /\ ReserveRequests \subseteq Region
  /\ ClientData \subseteq Pointer /\ ClientData # {}

(* The HHDM lies in the upper half of the address space, so that a pointer *)
(* into it to which the offset is added once more is not canonical.        *)
ASSUME HhdmAssumption ==
  HhdmOffset = 0 \/ \A a \in Phys : ~Mapped(Virt(Virt(a)))

(* What the Limine protocol guarantees of a memory map: usable entries lie *)
(* in memory and do not overlap.  Only the whole pages above kMinPhysical  *)
(* matter; and an entry that begins in memory does not go on beyond the    *)
(* last address.                                                           *)
ASSUME MemMapsAssumption ==
  \A m \in MemMaps :
    /\ m \in Seq(Entry)
    /\ \A i \in DOMAIN m :
         m[i].usable /\ m[i].base < PhysTop => m[i].base + m[i].length < AddrSpace
    /\ \A i \in DOMAIN m : Contributes(m[i]) =>
         MinPhysical <= First(Clamped(m[i])) /\ Limit(Clamped(m[i])) <= PhysTop
    /\ \A i, j \in DOMAIN m :
         i < j /\ Contributes(m[i]) /\ Contributes(m[j]) =>
           \/ Limit(Clamped(m[i])) <= First(Clamped(m[j]))
           \/ Limit(Clamped(m[j])) <= First(Clamped(m[i]))

Init ==
  /\ memmap \in MemMaps
  /\ mode = "init" /\ entry = 1
  /\ region = NoRegion /\ addr = 0 /\ it = Null /\ prev = Null
  /\ head = Null /\ tail = Null
  /\ next \in [Phys -> ClientData]
  /\ totalPages = 0 /\ freePages = 0
  /\ managed = {} /\ owned = {} /\ withheld = {}

-----------------------------------------------------------------------------
(* The free list. *)

PushFront(page) ==
  /\ next' = [next EXCEPT ![Cell(page)] = head]
  /\ head' = page
  /\ tail' = IF tail = Null THEN page ELSE tail

PushBackUnterminated(page) ==
  /\ next' = IF tail = Null THEN next ELSE [next EXCEPT ![Cell(tail)] = page]
  /\ head' = IF tail = Null THEN page ELSE head
  /\ tail' = page

PushBack(page) ==
  /\ next' = IF tail = Null
               THEN [next EXCEPT ![Cell(page)] = Null]
               ELSE [next EXCEPT ![Cell(tail)] = page, ![Cell(page)] = Null]
  /\ head' = IF tail = Null THEN page ELSE head
  /\ tail' = page

PushAtTheOtherEnd(page) ==
  \/ ~Fifo /\ PushBack(page)
  \/ Fifo /\ PushFront(page)

Push(page) ==
  \/ Fifo /\ PushBack(page)
  \/ ~Fifo /\ PushFront(page)

(* kpanic() does not return; a warning is printed and the call returns. *)
Panic == mode' = "halted"
Report == mode' = IF PanicOnError THEN "halted" ELSE "idle"

(* Back in the caller: the locals of the call are gone. *)
DropLocals == region' = NoRegion /\ addr' = 0 /\ it' = Null /\ prev' = Null
Return == mode' = "idle" /\ DropLocals

-----------------------------------------------------------------------------
(* init() and addRegion(). *)

InitUnavailable ==
  /\ mode = "init" /\ memmap = <<>>
  /\ Panic
  /\ UNCHANGED <<memmap, entry, locals, list, history>>

NextEntry ==
  /\ mode = "init" /\ entry <= Len(memmap)
  /\ entry' = entry + 1
  /\ IF Contributes(memmap[entry])
       THEN /\ mode' = "addRegion"
            /\ region' = Clamped(memmap[entry])
            /\ addr' = First(region')
       ELSE UNCHANGED <<mode, region, addr>>
  /\ UNCHANGED <<memmap, it, prev, list, history>>

LinkPage ==
  /\ mode = "addRegion" /\ addr < Limit(region)
  /\ Push(addr)
  /\ totalPages' = totalPages + 1
  /\ freePages' = freePages + 1
  /\ addr' = addr + PageSize   \* cannot wrap: both are multiples of PageSize
  /\ managed' = managed \cup {addr}
  /\ UNCHANGED <<memmap, mode, entry, region, it, prev, owned, withheld>>

EndRegion ==
  /\ mode = "addRegion" /\ addr >= Limit(region)
  /\ mode' = "init" /\ DropLocals
  /\ UNCHANGED <<memmap, entry, list, history>>

InitDone ==
  /\ mode = "init" /\ memmap # <<>> /\ entry > Len(memmap)
  /\ mode' = "idle"
  /\ UNCHANGED <<memmap, entry, locals, list, history>>

-----------------------------------------------------------------------------
(* allocate() and tryAllocate(). *)

AllocateStaleTail ==
  /\ mode = "idle" /\ head # Null
  /\ head' = next[Cell(head)]
  /\ freePages' = freePages - 1
  /\ owned' = owned \cup {head}
  /\ UNCHANGED <<memmap, mode, entry, locals, tail, next, totalPages, managed, withheld>>

Allocate ==
  /\ mode = "idle" /\ head # Null
  /\ head' = next[Cell(head)]
  /\ tail' = IF Fifo /\ head' = Null THEN Null ELSE tail
  /\ freePages' = freePages - 1
  /\ owned' = owned \cup {head}
  /\ UNCHANGED <<memmap, mode, entry, locals, next, totalPages, managed, withheld>>

AllocateOutOfMemory ==
  /\ mode = "idle" /\ head = Null
  /\ Panic
  /\ UNCHANGED <<memmap, entry, locals, list, history>>

(* tryAllocate() on an empty list returns {0, nullptr}. *)
TryAllocateOutOfMemory ==
  /\ mode = "idle" /\ head = Null
  /\ UNCHANGED vars

-----------------------------------------------------------------------------
(* free(). *)

(* The client gives back what it holds.  It may get this wrong in the two  *)
(* ways the code looks for: a misaligned address, or a page that is free.   *)
MayFree(a) ==
  \/ ~Aligned(a)
  \/ a \in owned
  \/ DoubleFrees /\ a \in managed \ withheld

FreeMisaligned(a) ==
  /\ mode = "idle" /\ MayFree(a) /\ ~Aligned(a)
  /\ Report
  /\ UNCHANGED <<memmap, entry, locals, list, history>>

FreeCall(a) ==
  /\ mode = "idle" /\ MayFree(a) /\ Aligned(a)
  /\ mode' = "free"
  /\ addr' = a
  /\ it' = head
  /\ UNCHANGED <<memmap, entry, region, prev, list, history>>

(* The pointer free() looks for and links. *)
FreedPage == Virt(addr)

(* One iteration of the double-free check. *)
FreeScan ==
  /\ mode = "free" /\ it # Null
  /\ IF it = FreedPage
       THEN Report /\ DropLocals
       ELSE it' = next[Cell(it)] /\ UNCHANGED <<mode, region, addr, prev>>
  /\ UNCHANGED <<memmap, entry, list, history>>

FreeLink ==
  /\ mode = "free" /\ it = Null /\ Mapped(FreedPage)
  /\ Push(FreedPage)
  /\ freePages' = freePages + 1
  /\ owned' = owned \ {addr}
  /\ Return
  /\ UNCHANGED <<memmap, entry, totalPages, managed, withheld>>

(* The store to page->next faults, and the exception handler panics.  In a *)
(* queue the last page already points to the page by then.                 *)
FreeFault ==
  /\ mode = "free" /\ it = Null /\ ~Mapped(FreedPage)
  /\ mode' = "faulted"
  /\ next' = IF Fifo /\ tail # Null THEN [next EXCEPT ![Cell(tail)] = FreedPage] ELSE next
  /\ UNCHANGED <<memmap, entry, locals, head, tail, totalPages, freePages, history>>

-----------------------------------------------------------------------------
(* reserveRegion(). *)

ReserveCall(r) ==
  /\ mode = "idle" /\ First(r) < Limit(r)
  /\ mode' = "reserve"
  /\ region' = r /\ addr' = First(r)
  /\ it' = head /\ prev' = Null
  /\ UNCHANGED <<memmap, entry, list, history>>

ReserveNothing(r) ==
  /\ mode = "idle" /\ First(r) >= Limit(r)
  /\ UNCHANGED vars

UnlinkUncounted ==
  /\ head' = IF prev = Null THEN next[Cell(it)] ELSE head
  /\ next' = IF prev = Null THEN next ELSE [next EXCEPT ![Cell(prev)] = next[Cell(it)]]
  /\ it' = next[Cell(it)]
  /\ UNCHANGED freePages

(* The page `it` is taken off the list; `prev` stays where it is. *)
Unlink ==
  /\ head' = IF prev = Null THEN next[Cell(it)] ELSE head
  /\ next' = IF prev = Null THEN next ELSE [next EXCEPT ![Cell(prev)] = next[Cell(it)]]
  /\ it' = next[Cell(it)]
  /\ freePages' = freePages - 1

ReserveUnlink ==
  /\ mode = "reserve" /\ it # Null /\ it = addr
  /\ Unlink
  /\ withheld' = withheld \cup {Cell(it)}
  /\ UNCHANGED <<memmap, mode, entry, region, addr, prev, tail, totalPages, managed, owned>>

ReserveSkip ==
  /\ mode = "reserve" /\ it # Null /\ it # addr
  /\ prev' = it
  /\ it' = next[Cell(it)]
  /\ UNCHANGED <<memmap, mode, entry, region, addr, list, history>>

ReserveSamePage ==
  /\ mode = "reserve" /\ it = Null /\ addr + PageSize < Limit(region)
  /\ it' = head /\ prev' = Null
  /\ UNCHANGED <<memmap, mode, entry, region, addr, list, history>>

ReserveNextPage ==
  /\ mode = "reserve" /\ it = Null /\ addr + PageSize < Limit(region)
  /\ addr' = addr + PageSize
  /\ it' = head /\ prev' = Null
  /\ UNCHANGED <<memmap, mode, entry, region, list, history>>

(* All pages are done; with a queue the tail is looked up again. *)
ReserveDone ==
  /\ mode = "reserve" /\ it = Null /\ addr + PageSize >= Limit(region)
  /\ IF Fifo
       THEN /\ mode' = "findTail"
            /\ tail' = Null /\ it' = head
            /\ UNCHANGED <<region, addr, prev>>
       ELSE Return /\ UNCHANGED tail
  /\ UNCHANGED <<memmap, entry, head, next, totalPages, freePages, history>>

FindTail ==
  /\ mode = "findTail"
  /\ IF it # Null /\ next[Cell(it)] # Null
       THEN it' = next[Cell(it)] /\ UNCHANGED <<mode, region, addr, prev, tail>>
       ELSE tail' = it /\ Return
  /\ UNCHANGED <<memmap, entry, head, next, totalPages, freePages, history>>

-----------------------------------------------------------------------------
(* The client uses the memory of a page it holds. *)
ClientWrite(a, d) ==
  /\ mode = "idle" /\ a \in owned /\ Mapped(a)
  /\ next' = [next EXCEPT ![Cell(a)] = d]
  /\ UNCHANGED <<memmap, mode, entry, locals, head, tail, totalPages, freePages, history>>

(* haltCatchFire(): for (;;) hlt. *)
Halted == mode \in {"halted", "faulted"} /\ UNCHANGED vars

(* The steps of a call in progress. *)
Step ==
  \/ InitUnavailable \/ NextEntry \/ LinkPage \/ EndRegion \/ InitDone
  \/ FreeScan \/ FreeLink \/ FreeFault
  \/ ReserveUnlink \/ ReserveSkip \/ ReserveNextPage \/ ReserveDone \/ FindTail

(* The calls the client may make. *)
Client ==
  \/ Allocate \/ AllocateOutOfMemory \/ TryAllocateOutOfMemory
  \/ \E a \in FreeRequests : FreeMisaligned(a) \/ FreeCall(a)
  \/ \E r \in ReserveRequests : ReserveCall(r) \/ ReserveNothing(r)
  \/ \E a \in owned, d \in ClientData : ClientWrite(a, d)

Next == Step \/ Client \/ Halted

Spec == Init /\ [][Next]_vars

(* The processor keeps executing a call that is in progress; nothing       *)
(* obliges the client to make one.                                         *)
FairSpec == Spec /\ WF_vars(Step)
-----------------------------------------------------------------------------
(* The state has the shape the declarations of pmm.hh give it: pointers are *)
(* u64 values, the counters do not go below 0, and what the client holds    *)
(* and what is reserved are pages that init() has linked.                   *)
TypeOK ==
  /\ memmap \in MemMaps
  /\ mode \in {"init", "addRegion", "idle", "free", "reserve", "findTail", "halted", "faulted"}
  /\ entry \in 1 .. Len(memmap) + 1
  /\ region \in Region /\ addr \in Nat
  /\ {it, prev, head, tail} \subseteq Pointer
  /\ next \in [Phys -> Pointer]
  /\ totalPages \in Nat /\ freePages \in Nat
  /\ managed \subseteq Phys /\ owned \subseteq Pages /\ withheld \subseteq managed

(* s enumerates the free list: it starts at the head, follows the pointers  *)
(* and ends at this pointer, without meeting a page twice.                  *)
ListUpTo(s, end) ==
  LET n == freePages IN
  /\ \A i, j \in 1 .. n : Cell(s[i]) = Cell(s[j]) => i = j
  /\ head = IF n = 0 THEN Null ELSE s[1]
  /\ \A i \in 1 .. n : next[Cell(s[i])] = IF i = n THEN end ELSE s[i + 1]

IsFreeList(s) == ListUpTo(s, Null)

(* With a queue, the tail is the last page of the list, except while       *)
(* reserveRegion() is at work.                                             *)
IsTail(s) ==
  Fifo /\ mode \notin {"reserve", "findTail"} =>
    tail = IF freePages = 0 THEN Null ELSE s[freePages]

(* The pages on the list are those nobody holds. *)
Listed(s) == {Cell(s[i]) : i \in 1 .. freePages}
ListsTheFree(s) == Listed(s) = managed \ (Cells(owned) \cup withheld)

(* After any sequence of calls, including those cut short by an error, the  *)
(* free list is a null-terminated chain without a cycle, it has exactly     *)
(* s_free_pages pages, and they are exactly the managed pages that neither  *)
(* the client nor a reservation holds: none is lost, and none is listed     *)
(* while somebody uses its memory.  Only a free() that faults leaves a      *)
(* queue whose last page points on, to the unmapped address of the page     *)
(* that could not be linked; a stack it leaves as it was.                   *)
FreeListIntact ==
  \E s \in [1 .. freePages -> Pages] :
    /\ ListUpTo(s, IF mode = "faulted" /\ Fifo THEN FreedPage ELSE Null)
    /\ IsTail(s) /\ ListsTheFree(s)

(* The counters freePages() and totalPages() return are right: every        *)
(* managed page is free, handed out or reserved, and no page is handed out  *)
(* twice or handed out though reserved.                                     *)
PagesAccountedFor ==
  /\ Cells(owned) \cap withheld = {}
  /\ totalPages = Cardinality(managed)
  /\ freePages = totalPages - Cardinality(owned) - Cardinality(withheld)

(* A page inside the memory map's usable part, above kMinPhysical.          *)
UsablePage(f) ==
  /\ Aligned(f) /\ f >= MinPhysical
  /\ \E i \in DOMAIN memmap :
       /\ memmap[i].usable
       /\ memmap[i].base <= f /\ f + PageSize <= memmap[i].base + memmap[i].length

(* init() offers no page that reaches outside a usable entry or below       *)
(* kMinPhysical, whatever the alignment of the entry, and once it returns   *)
(* it has offered all the others.                                           *)
ManagesUsablePages ==
  /\ \A f \in managed : UsablePage(f)
  /\ mode \notin {"init", "addRegion", "halted"} =>
       \A f \in Phys : UsablePage(f) => f \in managed

(* The list runs through the pages themselves, so a stale pointer would     *)
(* make the allocator write into memory it has given away: no step of it    *)
(* changes the word at the start of a page that the client holds.           *)
ClientPagesUntouched ==
  [][\A a \in owned \cap owned' :
       next'[Cell(a)] \in {next[Cell(a)]} \cup ClientData]_vars

(* When reserveRegion() returns, no page that lies inside the requested     *)
(* range is left on the free list, and it took no page that does not.       *)
InRegion(f, r) == r.base <= f /\ f + PageSize <= r.base + r.length

ReserveExact ==
  [][/\ mode \in {"reserve", "findTail"} /\ mode' = "idle" =>
          \A f \in managed : InRegion(f, region) => f \in Cells(owned) \cup withheld
     /\ \A f \in withheld' \ withheld : InRegion(f, region)]_vars

(* The loops of init(), free() and reserveRegion() end: the list they walk  *)
(* has no cycle, and what they change on the way keeps it so.               *)
AtRest == mode \in {"idle", "halted", "faulted"}
CallsReturn == ~AtRest ~> AtRest

-----------------------------------------------------------------------------
(* The pages in the order the list has them: n of them, from h on. *)
ListFrom(h, nx, n) ==
  LET page[i \in 1 .. n] == IF i = 1 THEN h ELSE nx[Cell(page[i - 1])]
  IN  [i \in 1 .. n |-> Cell(page[i])]

FreeList == ListFrom(head, next, freePages)

Pool == INSTANCE FramePool WITH
          Frame <- Phys, pool <- FreeList, owned <- Cells(owned)

(* Pointers and all, the allocator is a pool of frames: a page that is freed *)
(* goes to the end of the queue (or to the top of the stack), allocate()     *)
(* takes the page whose turn it is, a rejected free() changes nothing, and   *)
(* reserveRegion() removes pages without changing the order of the others.   *)
IsFramePool == Pool!Spec

(* What free() reports as "double-free detected": a page that is on the free *)
(* list when it is freed is not linked a second time.                        *)
DoubleFreeDetected ==
  \A i, j \in 1 .. freePages : FreeList[i] = FreeList[j] => i = j
=============================================================================
