----------------------- MODULE MCPhysicalMemoryManager -----------------------
(***************************************************************************)
(* Small instances of PhysicalMemoryManager: pages of 2 bytes, 16 bytes of *)
(* physical memory, kMinPhysical at 4, 6 bits of address.                  *)
(***************************************************************************)
EXTENDS PhysicalMemoryManager

U(b, l) == [base |-> b, length |-> l, usable |-> TRUE]
R(b, l) == [base |-> b, length |-> l, usable |-> FALSE]

(* An entry that straddles kMinPhysical and starts and ends inside a page,  *)
(* a reserved one between usable ones, one that ends at the top of memory.  *)
Scattered == <<U(1, 8), R(9, 2), U(11, 5)>>

(* An entry below kMinPhysical, one that holds no whole page, one with a    *)
(* single page, and one whose end wraps around to 0.                       *)
Ragged == <<U(0, 4), U(6, 4), U(11, 2), U(13, 3), U(63, 1)>>

(* No usable memory at all. *)
Unusable == <<R(0, 16)>>

MCMemMaps == {Scattered, Ragged, Unusable, <<>>}

(* All pages above kMinPhysical and an address inside one. *)
MCFreeRequests == {4, 5, 6, 8, 12, 14}

(* With the HHDM at 24: three pages, the addresses allocate() returns for    *)
(* them before and after they were once freed, and a misaligned one.         *)
MCMemMapsHhdm == {Ragged}
MCFreeRequestsHhdm == {6, 7, 8, 14} \cup {30, 32, 38}

(* The same for all maps. *)
MCFreeRequestsHhdmQueue == {4, 6, 7, 8, 12, 14} \cup {28, 30, 32, 36, 38}

(* A range that covers pages of two usable entries and a part of a page on   *)
(* either side, one that ends at the top of memory, one without a whole page. *)
MCReserveRequests ==
  {[base |-> 5, length |-> 8], [base |-> 12, length |-> 4], [base |-> 7, length |-> 2]}

(* Not the address of a page of any list. *)
MCClientData == {2}
=============================================================================
