# Verification of the Yerp kernel

Yerp is a small x86-64 kernel that Limine boots. This directory holds TLA+
modules that model its parts, TLC configurations that check them on small
instances, and proofs that TLAPS checks. Paths below are relative to
`src/kernel/Source/`.

The boot code (`core/_start.cc`) starts the serial ports, prints and halts; its
calls of the GDT, the IDT and the page allocator are commented out, and
`core/pmm.hh`, `core/limine.hh` and `arch/efi.hh` are within `#if 0`. The models
are of the components as they are written: they say what a caller may expect of
each one.

## Inventory

| Component | State | Operations | Meets |
|---|---|---|---|
| Physical memory manager, `core/pmm.hh` | `free_list_head`, `free_list_tail`, `total_pages`, `free_pages`, and the first word of every free page | `init`, `addRegion`, `allocate`, `tryAllocate`, `free`, `reserveRegion` | the memory map and the HHDM offset of Limine; `panic` |
| Interrupt stubs, `arch/idt.S` | registers and stack | 256 stubs, `common_stub` | called by the processor, call `real_handler_table` |
| Interrupt table, `arch/idt.hh` | `idt_table`, `real_handler_table`, the interrupt flag | `init`, `load`, `registerHandler`, `defaultInterruptHandler`, `kpanic`, `haltCatchFire` | stubs; prints on the serial ports |
| `SpinLock`, `AutoLock`, `atomic`, `ktl/atomic` | one byte or word of shared memory | `lock`, `try_lock`, `unlock`; load, store, exchange, compare-exchange, fetch-add | other processors, interrupt handlers |
| `call_once`, `ktl/call_once` | `once_flag::_state` | `call_once` | other processors, interrupt handlers |
| Formatted output, `core/format.hh` | a static digit buffer for each base | `printf`, `print`, `puts`, `put_hex`, `put_bin`, `put_dec` | `put` of a port; every handler that prints |
| C strings, `util/string.c` | `strtok`'s static place; the caller's memory | `mem*`, `str*`, `itoa`, `atoi`, `strtol` and their wider forms | callers only |
| Serial ports and port I/O, `arch/serial.hh`, `arch/io.hh` | registers and FIFOs of the device | `init`, `put`, `get`, `flush`; `in`, `out` | `core/format.hh`; every handler that prints |
| GDT and TSS, `arch/gdt.hh` | constant tables; segment registers | `load`, `set_rsp0`, `set_ists` | the selector in the gates of the IDT |
| EFI tables, `arch/efi.hh` | `ST`, `RS`; a map and an index into it | `initializeSystemTable`, iterator over descriptors, services | the responses of Limine; firmware |
| Limine requests, `core/limine.hh` | what the bootloader stored | getters of 13 classes | the page allocator, EFI |
| Boot, `core/_start.cc` | none | `_start` | the ports, both tables |
| `optional`, `slice`, `string_view`, `ktl` | a value and a flag; a pointer and a size | constructors, assignments, derived views | everything |
| `pair`, `tuple`, `type_traits` and other headers of `ktl` | values | constructors, accessors | everything |

What is hard to test here:

- **Interrupts.** There are no threads; concurrency comes from interrupt
  handlers, and exceptions enter through trap gates, which leave interrupts
  enabled. Static data (`strtok`'s place, the digit buffers, the handler table)
  is shared with whatever a handler calls.
- **Store buffers.** `unlock()` and the last store of `call_once()` are plain
  stores with a compiler barrier only.
- **A list inside the memory it manages.** The pages of the free list are
  linked through their own first words, by pointers of two kinds: physical
  addresses from `addRegion()`, virtual ones from `free()`.
- **Frame layout.** `idt.S` and `registers_ctx` must agree on the place of
  every word, and on which exceptions push an error code.
- **A device between test and access.** `put()` and `get()` test the line and
  then access it; a handler that uses the port in between changes what the test
  has found. While `init()` sets the speed, the data register is another one.
- **Tables that must agree.** The gates of the IDT name a selector of the GDT,
  and the selectors the bootloader left are read again at every `iretq`.
- **Responses that may be missing.** A request the bootloader does not answer has
  a null response, and half of the classes read through it.
- **Boundaries.** Rounding of regions to pages, wrapping of addresses, bounds
  of 0, the least integer.

`PROJECT.json` lists these as hazards, each at its line.

What makes each component correct:

- *Page allocator*: a page is free, held by one client, or reserved, and never
  two of these; only whole usable pages above `kMinPhysical` are handed out; the
  list is an acyclic chain of exactly the free pages; pages in a client's hands
  are not written to; every call returns.
- *Stubs*: what was interrupted is resumed as it was; the handler sees the
  interrupt that happened, with the stack aligned.
- *Interrupt table*: there is a handler before there is an interrupt;
  registered handlers stay; panics end in the halt loop.
- *Locks*: mutual exclusion, and visibility of what was done under the lock.
- *call_once*: one execution, complete and visible before anybody returns.
- *Serial port*: the bytes put are transmitted, in order; the bytes received are
  got, once; the line keeps its speed; `put()` returns.
- *Tables*: every selector in use has a descriptor of the right kind; nothing
  faults.
- *Boot information*: what `available()` says can be relied on; the iterator gives
  the runtime descriptors, all of them, and reads inside the map.
- *Views and optionals*: no element outside the array can be reached; every object
  is constructed and destroyed once.
- *Formatted output and C strings*: agreement with a reference definition, and
  bounded damage where static data is shared.

## Modules

| Module | Models |
|---|---|
| `FramePool` | What the page allocator promises: a pool of frames in one order, a set that is held, a set that is withheld |
| `PhysicalMemoryManager` | `core/pmm.hh` |
| `PhysicalMemoryManagerProofs` | Theorems about it |
| `InterruptStub`, `InterruptStubProofs` | `arch/idt.S`, one instruction per step |
| `InterruptDescriptorTable`, `...Proofs` | `arch/idt.hh` |
| `StoreBuffers` | Memory of several processors with store buffers, and handlers that run on the processor of what they interrupt |
| `SpinLock`, `CallOnce` | `SpinLock` and `AutoLock`; `call_once`; both over `StoreBuffers` |
| `Format`, `FormatProofs` | `printf` and what it calls |
| `CString`, `CStringCalls` | The memory and string functions as operators on memory, and their calls |
| `Strtok` | `strtok` used by a program and by a handler |
| `CStringProofs` | Theorems about `CStringCalls` and `Strtok` |
| `NumberText` | `itoa`, `atoi` and `strtol` |
| `Views`, `Optional` | `ktl/slice` and `ktl/string_view`; `ktl/optional` |
| `Ktl` | These two for any array and any values |
| `KtlProofs` | Theorems about `SpinLock`, `CallOnce`, `Views` and `Optional` |
| `Serial` | A 16550 and the accesses of `arch/serial.hh` to it |
| `GlobalDescriptorTable` | `arch/gdt.hh` and how the processor decodes it |
| `Boot`, `BootProofs` | `core/_start.cc` with handlers: composes the two |
| `Limine` | The classes of `core/limine.hh`, as operators on a response |
| `Efi`, `EfiProofs` | `arch/efi.hh`, over `Limine` |
| `MC...` | Small values for the constants; `MCSynchronization` runs `SpinLock` and `CallOnce`, `MCLibrary` runs `CStringCalls`, `Strtok`, `NumberText`, `Views` and `Optional`, one of them in each behaviour |

In each module some definitions are faulty variants of the one that follows
them (a guard dropped, a counter not updated). They take no part in any
specification; each shows that a property notices such a fault.

### PhysicalMemoryManager

`head`, `tail`, `totalPages` and `freePages` are the static members; `next` is
the word at the start of each page. `mode` is the loop or call in progress,
`addr`, `it`, `prev`, `entry` and `region` its local variables; a call that
walks the list takes a step per iteration. `managed`, `owned` and `withheld` are
history: the pages `init()` has linked, those the client holds, those reserved.
A pointer is an address below `AddrSpace`; `Cell` maps the two addresses of a
page, physical and in the HHDM, to the same memory, and an address that is in
neither is not mapped: a store to it is a fault, which ends the behaviour (`mode` is
`"faulted"`). In a queue `free()` has by then stored the unmapped pointer in the last
page, behind which the list goes on to it. That physical addresses can be used as
pointers is a supposition of the code, which does so for every page of
`addRegion()`, and of the model (`Mapped`): the bootloader has to map low memory to
itself. Whether it does with the base revision that `core/_start.cc:12` asks for, 3,
is outside this repository. Arithmetic of addresses wraps at `AddrSpace`. The client allocates, writes to the first word of what it holds,
reserves, and frees what it holds; it may also pass a misaligned address and,
when `DoubleFrees` is set, a page that is free already: the two errors the code
looks for. `kPmmZeroOnAlloc` and `kPmmZeroOnFree` are off in `constants.h` and
left out, as is debug output.

The refinement `IsFramePool` maps `pool` to the cells of the list from the head
on, `owned` and `withheld` to the history variables.

### InterruptStub

The program of the stubs is a table of instructions that the module builds as
the macros of `idt.S` do; the processor executes one per step. The stack is a
sequence of words and `rsp` its length. `Interrupt` is the processor's part: it
aligns the stack, pushes the frame and the error code, and clears the interrupt
flag for device interrupts. A handler is one step that leaves arbitrary values
in the registers it need not preserve; the handlers in `Custom` return, others
panic. `frames` is history. Register values are small numbers; only r10 has
several, since the stub takes the table index from it (see *Findings*).

### InterruptDescriptorTable

`active` is the stack of activations: the boot code and, above it, one for each
interrupt in progress. The test, the assignment and the message of
`registerHandler()` are three steps, as are the three parts of `kpanic()`; an
interrupt may come between any two. Any handler may be the one a stub calls,
because of the index the stub takes.

### SpinLock and CallOnce

`StoreBuffers` gives each processor a queue of stores that it sees itself and
that reach memory later, in order. An instruction with a `lock` prefix, or
`xchg`, first waits for the queue to be empty. A handler runs to its end before
what it interrupted goes on. In `SpinLock` each section adds 1 to a counter with
a plain load and store; in `CallOnce` the function stores a word.

### Format, CString, Strtok, NumberText

`Format` puts one character or writes one digit per step; words have `WordBits`
bits and the buffers are in proportion. Arguments are integers, pointers,
strings, views, atomics, slices, pairs and values of a type that `printf` does not
know. The reference (`Expected`) is written over the
parts a format is made of and does not scan characters. It does not cover calls
with too few arguments, negative numbers (which the code prints as the unsigned
words they convert to) and braces behind the last placeholder (which the code
copies as they are); these calls are in the run for `StaysInBounds`, which
is also that what is put from a buffer are digits of its base, although every call that
interrupts may have written there.

`CString` has each function as an operator on a memory of bytes, written the way its
loop goes; a character that is passed on its own is any int, of which `memset` stores
the low byte (`Unsigned`), and with which `strchr` and `strrchr` compare a signed char
(`Signed`) and `memchr` an unsigned one. A loop that writes is a recursive function, one that only looks where to
stop is the first address (`Walk`) or the first round (`Rounds`) that ends it.
`CStringCalls` compares them with a reference stated with sets and quantifiers. Calls whose behaviour is undefined (a string without an end,
overlapping `memcpy`, ranges outside memory) are left out by a guard. The code
differs from the C standard in places that a caller must know, and the model
follows it: `strncpy` writes one byte more than `n` for a short string,
`strnlen` reads `s[maxlen]`, and the character to search for is not converted
to the type of the bytes (see *Findings*).

`Strtok` takes a step for each loop of a call, so that a handler may split a string of
its own in between. The reference says which runs of characters are tokens, and `Tokens`
numbers them by how many start before. `NumberText` prints with `itoa` and reads again with `atoi`
and `strtol`; `ltoa`, `lltoa`, `atol`, `atoll` and `strtoll` are the same code at
another width. A negative number in a base other than 10 is printed, by a rule of its
own, and not read again. Undefined behaviour is left out: `itoa` of the least integer in
base 10, numbers that overflow in `atoi`, `strtol` with base 0 (which divides by it).

### Views, Optional

`Views` derives a view from a view, without end, with any number as argument; sizes
and pointers wrap around. `as_bytes()` and `as_writable_bytes()`, whose views have
elements of another type, are left out, as are slices of a fixed extent. `part` is what the view should hold, as a sequence.
`remove_prefix()` and `remove_suffix()` of `string_view` do not look at the size;
the model passes them no more than there is. `Optional` has two optionals and, for
each, the object in it: none, one with a value, or one that was moved from.
`construct`, `destroy` and `assign` note when they meet an object that should not
be there, or none where one should be. `holds` is what each should contain.

### Serial, GlobalDescriptorTable, Boot

`Serial` is the device (registers, two FIFOs, the divisor latch that takes the
place of two registers while bit 7 of LCR is set) and what one access of the driver
does. A port is present, stuck (it never transmits) or absent (it reads as 0xFF, so
that every test succeeds). `GlobalDescriptorTable` has the table as bytes and the
processor's way of decoding it, the bootloader's table by what its selectors mean,
and `load()` one instruction at a time. `Boot` has a stack of activations: the boot
code and a handler on each other. Everyone who uses the port takes a step for the
test that ends the loop and a step for the access; an interrupt may come between any
two steps once the interrupt table is loaded. A handler prints a character, reads
one, or does neither. After installing the tables the boot code calls the driver,
`init()` too, a number of times. `disturbed` and `raced` are history: the data
register was used while it was the divisor; a `get()` took the byte that another one
had tested for. The kernel has the installation of the tables commented out: the
boot code may also halt before it, as it does at present.

The properties say what remains true with handlers that share the port: output is
neither lost nor overtaken as long as fewer handlers nest than the FIFO holds
characters (`BootAssumption`; a FIFO has 16); `OutputInOrder` is false with a FIFO of
one character. Input is another matter: `get()` returns a stale byte when a handler
reads in between (`raced`), and `init()` must not run while handlers print
(`disturbed`).

### Limine, Efi

A response is answered or not, and has a revision, a value and items. Each class is
an operator from a response to the record of what its getters return, where `Fault`
is a read through a null pointer or behind an array. `Query` asks all classes about
a response. `file()` of `ExecutableFileInfo` is among the getters: it has no test of its
own. The rest of `Efi` is a caller: it initialises the system table, builds
the map, walks it, passes what it has found to `SetVirtualAddressMap()` and calls
services, in any order that the calls allow. The values of the memory map's response
are its size and that of a descriptor; its items are the descriptors.

## Runs

| Run | Module, configuration | Shows |
|---|---|---|
| `pmm_queue` | `MCPhysicalMemoryManager`, `PmmQueue.cfg` | Queue, warnings, no HHDM offset, double frees: counters, which pages are managed, what a reservation takes, no write to held pages, `FramePool`, every call returns |
| `pmm_hhdm` | same, `PmmHhdm.cfg` | Stack, panics, HHDM offset, a client that frees what it holds: with a list of mixed pointers it still implements `FramePool` |
| `pmm_hhdm_queue` | same, `PmmHhdmQueue.cfg` | Queue, warnings, HHDM offset, the same client: the chain of the list through both kinds of pointers and through reservations, and where it leads after a `free()` that faults |
| `pmm_double_free` | same, `PmmDoubleFree.cfg` | **Violation**: with an HHDM offset a double free is not detected |
| `stub_nested` | `InterruptStub`, `InterruptStub.cfg` | Two interrupts, the second at any instruction of the first one's stub |
| `stub_dispatch` | `InterruptStub`, `InterruptStubDispatch.cfg` | **Violation**: the handler called is not the one of the vector |
| `idt_nested` | `InterruptDescriptorTable`, its cfg | Registrations, interrupts and panics in all orders |
| `synchronization` | `MCSynchronization`, `Synchronization.cfg` | The lock: exclusion, no lost update, and the only way to wait for ever. `call_once`: one execution, seen by all who return |
| `format` | `MCFormat`, `Format.cfg` | `printf` against the reference, alone and interrupted by other calls |
| `library` | `MCLibrary`, `Library.cfg` | Memory and string functions, number conversion, `strtok`, views and optionals, each against its reference |
| `boot` | `MCBoot`, `Boot.cfg` | A serial port shared by boot code and nested handlers, and the installation of the tables |
| `boot_info` | `MCEfi`, `Efi.cfg` | The bootloader's responses through every class, and the walk of the EFI memory map |

Bounds, and why they are enough:

- *Page allocator*: pages of 2 bytes, 16 bytes of memory, 6-bit addresses. The
  memory maps have entries that start and end inside pages, straddle
  `kMinPhysical`, hold no page or one, and wrap around; the list gets up to four
  pages, so that a page is unlinked at the head, in the middle and at the end.
  Neither calls nor steps are bounded: the state space is finite. `pmm_hhdm`
  has one map with three pages.
- *Stubs*: two interrupts (`MaxInterrupts`), which is one nested in another; the
  vectors are an exception without an error code, one with it, one whose stub is
  wrong about it (21, see *Findings*), and a device interrupt.
- *Interrupt table*: three vectors, one of them an exception; three interrupts,
  two registrations: enough for a handler to register for a vector whose
  registration it interrupts, with an exception on top.
- *SpinLock, CallOnce*: two processors, a program on each and a handler on the
  first, five calls (`MaxCalls`). The proofs are for any number.
- *Format*: all 8-bit numbers with all flags, three widths and four types; all
  formats of up to three parts from six, with up to two arguments from ten. One
  call with numbers in two bases is interrupted by up to two others (`MaxCalls`).
- *C strings*: memories whose last 5 bytes have the values 0, 1 and 233, the last of
  which is negative as a character, and all calls that fit into these, at the end of
  memory, with the characters 0, 1, -23, 233 and 257;
  for `strtok`, a string of 4 characters and one of 2, with a delimiter each; for
  numbers, all 8-bit integers, but the least in base 10, in bases 2, 3, 8, 10, 16 and 36, with
  blanks before and text behind.
- *Views, optionals*: an array of 3 elements among 16 addresses, every argument from
  0 to the largest word; two optionals, two values. Neither bounds the number of
  calls: the state spaces are finite.
- *Boot*: two nested handlers (`MaxNesting`, `MaxInterrupts`) with FIFOs of 3, which
  is the least that `BootAssumption` allows, so that the transmitter gets full; two
  calls after booting (`MaxCalls`), two bytes received (`MaxReceived`). The TSS is
  where the linker script puts the kernel's data; ss is 0 or the bootloader's 0x30.
- *Boot information*: responses of both kinds of revision with up to two items, maps
  of 0 to 144 bytes with descriptors of 0, 40 and 48 bytes, that is of none to three
  descriptors, with all patterns of runtime descriptors. `CHECK_DEADLOCK` is off
  there and in `boot`: callers may stop, the boot code halts, and a fault is an end.

Fairness. Liveness properties assume weak fairness of the steps of what is
already running: a processor does not stop between instructions, a store leaves
its buffer at some time, a registered handler returns. A
port that is not stuck transmits at some time. Nobody is obliged to make
a call, and no interrupt is obliged to come. The bounds on calls and interrupts
make them cease; under endless contention `SpinLock` promises no one that they
get the lock, and the properties do not say so.

## Proofs

All theorems hold for every value of the constants that satisfies the named
assumptions of the modules. They are proved by an inductive invariant, `IInv` or
named after the module, of which the properties are consequences. Hypotheses beyond
the named assumptions are stated in the theorem that needs them.

### Assumptions on the constants

Most say what kind of values the constants have. These say more:

- `MemMapsAssumption`: usable entries of a memory map lie in memory and do not
  overlap, as the Limine protocol promises. Other entries may do both.
- `HhdmAssumption`: the HHDM offset, added twice, leads nowhere.
- `KtlAssumption`: the array lies among the words, not at address 0; the values of an
  optional can be told from no object.
- `BufferAssumption`: every number of a word fits into each digit buffer of `printf`, as
  it does into 64, 24 and 16 characters.
- `CallsAssumption` of `Format`: the arguments of `printf` have types that `route()`
  tells apart. `CallsAssumption` of `CStringCalls`: pointers are addresses, lengths
  natural numbers, characters integers, and memory holds bytes.
- `StrtokAssumption`: the strings that are split are strings, and overlap no other one.
- `BootAssumption`: fewer handlers nest than the FIFO holds characters.
- `ResponsesAssumption`: a map has as many bytes as its response says.
- `ContextsAssumption`, `StubAssumption`, `VectorsAssumption`: handlers run on the
  processor of what they interrupt; there are at most 256 vectors; exceptions are
  some of them.

### Theorems

- **`PhysicalMemoryManagerProofs`**: `TypeOK` (which no run checks), `FreeListIntact`,
  `PagesAccountedFor`, `ClientPagesUntouched`, `ManagesUsablePages`, the refinement
  `IsFramePool` and `ReserveExact`, for stack and queue, any number of pages and any
  memory map. The hypothesis `DoubleFreesVisible` is that there is no HHDM offset or
  that the client frees only what it holds; a double free that is not detected breaks
  the list, as `pmm_double_free` shows. After a `free()` that faults, `FreeListIntact`
  says where the chain ends: in a queue, at the pointer that could not be written
  through. The invariant is `AllocatorInv`: `IInv` while there has been no fault,
  `FaultedInv` after one (`OnlyFreeFaults`, `FaultIsFinal`). `FreeListIntact` alone is not inductive:
  `IInv` adds where the cursors of a walk are on the list (`Walk`), that `it` and
  `prev` are neighbours in a reservation and that a scan has not met the page, which
  entry of the map each page came from (`ManagedInv`, so that no page is linked twice),
  that no page is held by two pointers (`OwnedInv`), and the counts. Three lemmas
  say what pushing, popping and unlinking do to the sequence the list stands for;
  there is one lemma for each group of actions above them.
  - `ManagesUsablePages` follows from `PassedInv`: every whole page behind the cursor
    of `init()` has been linked. The rounding of `addRegion()` is in the lemmas for it.
  - `IsFramePool` is proved step by step: each action, on the sequence the list
    stands for, is an action of `FramePool` or leaves `pool`, `owned` and `withheld`
    as they are. Unlinking at index *k* is `Withhold(k)`.
  - `ReserveExact` needs `ReserveInv`, that the pages behind the cursor are withheld
    or held by the client. It has hypotheses of its own: `HhdmOffset = 0`, since the
    code compares the range with whatever pointer is on the list (see *Findings*), and
    `RequestsFit`: no request ends above the last address, where the sum wraps.
- **`KtlProofs`**: of the lock, the types, `MutualExclusion` and
  `NoLostUpdate`, for any processors, contexts and buffers. `LockInv` adds what the buffers may hold in each
  of three situations: the lock is free, it is held, or its release is still in
  one buffer, behind the update made under it.
  Of `call_once`, the types, `RunsOnce` and `InitialisedOnReturn`, with an invariant on
  the phases of the flag in the same manner (`OnceInv`).
  Of views and optionals, `LifetimesMatch`, for any values, and `ViewsArePart`, for any array
  of integers, any width of a word and any arguments. `OptionalInv` adds that memory is
  `Sound`: nothing was misused, and `m_engaged` says where the objects are; a lemma for
  each function of `optional` says which contents it changes. `ViewInv` adds where a view
  that is not empty points; an empty one may point anywhere (`last()` with too large a
  number). `Derived` is what all derivations have in common. That `compare()` is right
  rests on the first place where two sequences differ.
- **`InterruptDescriptorTableProofs`**: `TypeOK` (with it, no stub finds a null
  handler), `InterruptsDoNotNest`, `RegisteredForGood`, and `NeverReplaced` when
  handlers do not register any. `IInv` adds that the table is full once loaded,
  that the boot code is the lowest activation and alone before that, that a
  device interrupt and everything above it runs with interrupts masked, and that
  a registration between its test and its assignment still finds the vector
  unregistered, or contested.
- **`InterruptStubProofs`**: `InterruptedStackUntouched`, `ReturnRestores` and
  `ContextShowsInterrupt`, for any nesting of interrupts of any vectors. An interrupt
  turns what its victim has come to into the next frame of the history; hence the
  invariant `StubInv` has a level for each frame (`InStub`), which relates the frame
  to the next one or, at the top, to the processor: at every instruction, which words
  lie above the interrupted stack (`Depth`, `Word`) and which registers are still, or
  again, the interrupted ones (`RegistersAt`). `Nested` says that each stack lies
  beneath the ones above it. The vectors 21, 29 and 30 are in the theorems: their
  frames are a word longer, so that their `iretq` faults and returns nothing wrongly.
- **`BootProofs`**: `LineSpeedKept`, `OutputInOrder`, `ReceivedOnce` and
  `SegmentsUsable`, for any nesting the FIFO has room for, any divisor and format, and
  any number of calls, handlers and bytes. `BootInv` adds what the registers hold by
  how far `init()` has come (`PortInv`); that whoever is between the test of `put()`
  and its write, with *i* activations up to its own, finds room for the character and
  for those of everyone below it (`OutInv`: they may all have seen the same empty
  transmitter, so that `OutputInOrder` is not inductive without it); that whoever is
  between the test of `get()` and its read finds a byte, unless `raced` (`InInv`); and
  what `load()` has loaded (`SegInv`). The hypothesis of `SegmentsStayUsable` is that
  bits 24 to 27 of the address of the TSS are 0, as they are at the address the kernel
  is linked to; see *Findings*.
- **`EfiProofs`**: `RuntimeWalked`, `ReadsInsideMap` and `AvailabilityTrusted`, for any
  responses and maps; the second half of what the third says is that `file()` faults on
  an unanswered request, and only there. `EfiInv` adds what was taken from the response and that only
  a call without a table or a map can fault. The hypothesis of `ReadsInsideMap`,
  `DescriptorsWhole`, is that a descriptor has at least the 40 bytes of its struct, or
  size 0: UEFI promises that, and the code asks for the 0 only.
- **`FormatProofs`**: `StaysInBounds`, for any width of a word,
  any buffers that a word fits into, any formats and arguments, and any number of calls
  that interrupt each other. `FormatInv` adds of each frame that it is at a place in its
  format and arguments and has room for the digit it is about to write (`HasRoom`), and
  that the digits it has written are digits still (`Intact`), since who interrupts writes
  digits of the same base into the buffer.
- **`CStringProofs`**: of `strtok`, `OnlyDelimitersCut` and `TokensInOrder`, for any
  memory, strings and delimiters. `CutInv` suffices for the first: whoever executes is
  inside one of the strings (`Inside`), where a 0 lies ahead. `StrtokInv` adds of whom
  nobody has interrupted where it is (`Place`): from there on nothing has been cut, no
  token is going on, and it has got as many tokens as start before. A cut then returns
  the next one (`NextToken`, `TokenText`), and lies in the own string (`CutIsOwn`).
  Of the other functions, `CallsAsSpecified`, for any memory of any size, and any call
  its caller may make. `CallInv` is only that memory and the result are what the
  function makes of memory before; the work is in a lemma for each function. A function
  that writes is `Written`: memory is as it was, but for these bytes at `d`
  (`CopyWrites`, `MoveBackIs`, `FillWrites`), and what is written behind something
  written is one piece (`WrittenBehind`), which is how `strcat`, `strncat` and `strncpy`
  are put together. A function that reads stops in the first round that ends its loop;
  that round is where the reference finds the first position that qualifies
  (`FirstOfIs`) or the first difference (`ComparedIs`). The caller's part is in `Valid`.

The provers cannot use induction theorems, which have a predicate as a parameter.
Where the argument is an induction on a position of a list or on an index, the proofs
take the least position at which the claim fails and refute that. A recursive function
is dealt with in the same manner: it is some function that satisfies its equation; the
closed form of what the loop has done does, so there is one; and the least round in
which the two would differ is refuted (`CopyIs`, `StrrchrIs`).

### Only model-checked

- All liveness: `CallsReturn`, `HandlersReturn`, `PanicHalts`, and every other property
  with `~>` or `<>`. TLAPS has no rules here for fairness and ENABLED.
- `DamageIsDigits` and `PrintsAsSpecified` of `Format`, and `NumbersReadBack`: their
  references are folds over the digits of a number or the pieces of a format, for which
  there is no closed form as there is for the functions on strings; each proof would be
  an induction on data.

## Findings

Shown by a run:

- `free()` (`core/pmm.hh:171`) looks on the list for `phys + HHDM offset`, and
  `addRegion()` links pages by their physical address: a double free of a page
  that was never allocated is not detected. For the same reason
  `reserveRegion()`, which compares with physical addresses, does not find a page
  that has come back through `free()`: this is why `ReserveExact` is checked
  without an HHDM offset only.
- `common_stub` (`arch/idt.S:36`) takes the table index from `120(%rsp)`, where
  it has saved r10, and not from the vector's word.

Met on the way and modelled as the code has it:

- With an HHDM offset, a page that is allocated, freed and allocated again comes back
  from `allocate()` as its HHDM pointer (`core/pmm.hh:149`: `free()` links it by that
  one). Freed once more, it gets the offset added a second time and `free()` stores
  through an address that is not mapped (line 199 or 207). In a queue the last page
  points to that address by then (line 198). `pmm_hhdm` and `pmm_hhdm_queue` reach it.
- The stubs of vectors 21, 29 and 30 push a 0 although the processor pushes an
  error code for them: `registers_ctx` is off by a word and `iretq` ends in a
  fault. `stub_nested` exempts them from alignment and from the layout of
  `registers_ctx`, and shows that they resume nothing wrongly: they end in that
  fault, and what interrupts them is handled and resumed as it should be.
- The general registers are pushed in the opposite order to that in which
  `registers_ctx` declares them, so the dump of `kpanic()` names them wrongly;
  `ContextShowsInterrupt` is about the other fields.
- `kpanic()` prints "System halted." before `cli`: after an exception that came
  through a trap gate an interrupt handler may still run. `PanicHalts` shows that
  the panic reaches the halt loop all the same.
- The overflow test of `strtol()` holds for every number that is not negative,
  so `StrtolInvertsNegative` is about negative ones.
- `GlobalDescriptorTable::load()` does not reload ss. Limine leaves 0x30 there, which
  in the kernel's table is the upper half of the TSS descriptor: the first `iretq`
  faults. `SegmentsUsable` shows that nothing else does. Were `load()` called twice,
  `ltr` would fault on a TSS that is busy.
- Bits 24 to 27 of the address of the TSS are put into its limit (`arch/gdt.hh:150`).
  At the address the kernel is linked to they are 0.
- `available()` of `ModuleList`, `EFISupport`, `RSDPInfo`, `SMBIOSInfo` and `BootTime`
  reads through a null response; `AvailabilityTrusted` says so. The constructor of
  `EFI::MemoryMap` does not ask it. All classes demand a revision other than 0, which
  a response of revision 0 does not have, and put their requests into the section
  `.limine_reqs`, which the linker script does not place between the markers that
  `_start.cc` has: this may be why the memory map was "zero" (`core/limine.hh:4`).
- `file()` of `ExecutableFileInfo` (`core/limine.hh:260`) is public and reads through a
  null response where `available()` says no; the other getters of the class ask first.
- `strchr()` and `strrchr()` (`util/string.c:122`, `133`) compare a signed char with the
  int they are given: `strchr(s, 0xE9)` does not find the byte 0xE9, `strchr(s, -23)` does.
  `memchr()` (line 112) is the other way round. C converts the int first, in all three.
- `itoa()` of a negative number in a base other than 10 has neither sign nor digits: each
  character is as far below `'0'` as the digit should be above it.
- A handler that waits in `get()` keeps everything it has interrupted from going on,
  and `flush()` returns when the FIFO is empty, with a character still on the line.
- `emplace()` of an optional with its own value reads it after it was destroyed, and
  `slice::last()` with too large a number leaves a wild pointer, in an empty slice.


## Plan

Done, in this order: page allocator with its abstract specification and proofs;
stubs; store buffers, lock and `call_once` with proofs; interrupt table with
proofs; formatted output; C strings; serial port, segment table and boot code;
boot information and EFI; views and optionals.

Then, as theorems: the refinement of `FramePool`, which pages are managed and what a
reservation takes; the stubs; the port, the output and the segments of the boot code;
the walk of the EFI map; views and optionals; the bounds of `printf`; `strtok`; the
functions on strings and memory.

Next:

1. `DamageIsDigits` without its reference: that a call puts as many digits as its
   number has, whoever interrupts it.
2. The page allocator called by a program and by handlers, at the level of single
   loads and stores.

## Not modelled

- `pair`, `tuple`, `algorythm`, `type_traits`, `assert`, `constants.h` and the build
  files: aggregates without state, computation at compile time, or a message and a
  halt. The options of `constants.h` are constants of the modules.
- `set_rsp0()` and `set_ists()`: no gate names an interrupt stack and there is no user
  mode, so that nothing reads what they store.
- `fetch_add` and `fetch_sub` of `atomic`, `put_hex` and `put_bin`: nothing calls them.
- The page allocator under interrupts: its calls are single steps, or one step for
  each page; nothing in the repository calls it from a handler.
- What firmware services do, and the layout of the bootloader's structures.
