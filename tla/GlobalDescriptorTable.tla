------------------------ MODULE GlobalDescriptorTable ------------------------
(***************************************************************************)
(* arch/gdt.hh: the descriptors of the kernel's table, as the processor    *)
(* decodes them, and load(), one instruction at a time.  Addresses and     *)
(* descriptors are made of bytes.  The bootloader's table, and what it     *)
(* leaves in the segment registers, are those of the Limine protocol.      *)
(*                                                                         *)
(* TssGranularityWhole is a faulty variant of the definition that follows  *)
(* it, used only to see that a property notices the fault.                 *)
(***************************************************************************)
EXTENDS Integers, Sequences

CONSTANTS
  TssAddress,  \* &tss_instance: its bytes, the lowest one first
  BootStacks   \* what ss may hold when the kernel is entered

ASSUME TssAddressAssumption == TssAddress \in [1 .. 8 -> 0 .. 255]

VARIABLES
  gdtr,  \* the table in use: "bootloader" or "kernel"
  seg,   \* the selectors in the segment registers and in tr
  busy   \* ltr has marked the TSS descriptor busy

gdtVars == <<gdtr, seg, busy>>

-----------------------------------------------------------------------------
(* gdt_table.  Entry 6 is the upper half of the TSS descriptor. *)

GDTEntry(limit, b0, b1, b2, access, granularity, b3) ==
  [limit_low |-> limit, base |-> <<b0, b1, b2, b3>>, access |-> access, granularity |-> granularity]

Flat(access, granularity) == GDTEntry(65535, 0, 0, 0, access, granularity, 0)

TssSize == 104

(* The bits 16 to 27 of the address, masked with 0xF00 and shifted: bits    *)
(* 24 to 27 of the address end up in the limit.                            *)
TssGranularityWhole == TssAddress[4]
TssGranularity == TssAddress[4] % 16

gdt_table ==
  << GDTEntry(0, 0, 0, 0, 0, 0, 0),
     Flat(154, 160), Flat(146, 192), Flat(250, 160), Flat(242, 192),
     GDTEntry(TssSize - 1, TssAddress[1], TssAddress[2], TssAddress[3], 137,
              TssGranularity, TssAddress[4]),
     GDTEntry(TssAddress[5] + 256 * TssAddress[6], TssAddress[7], TssAddress[8], 0, 0, 0, 0) >>

io_map_base == TssSize

-----------------------------------------------------------------------------
(* What the processor makes of a descriptor. *)

Kind(e) ==
  IF e.access < 128 THEN "not present"
  ELSE CASE e.access % 32 = 9                                -> "tss"
         [] e.access % 32 \in 24 .. 31 /\ (e.granularity \div 32) % 2 = 1 -> "code64"
         [] e.access % 32 \in {18, 19}                       -> "data"
         [] OTHER                                            -> "other"
Kernel(e) == (e.access \div 32) % 4 = 0
Limit(e) ==
  LET l == e.limit_low + 65536 * (e.granularity % 16)
  IN  IF e.granularity >= 128 THEN l * 4096 + 4095 ELSE l

(* The bootloader's table has 64-bit code at 0x28 and data at 0x30, behind  *)
(* segments of other sizes.                                                *)
BootKind(s) == CASE s = 40 -> "code64" [] s = 48 -> "data" [] OTHER -> "other"

KindOf(s) ==
  IF gdtr = "bootloader" THEN BootKind(s)
  ELSE IF Kernel(gdt_table[s \div 8 + 1]) THEN Kind(gdt_table[s \div 8 + 1]) ELSE "user"

(* Selectors that may be loaded into cs, and into the others: a null        *)
(* selector is no fault in 64-bit mode.                                    *)
CodeSelector(s) == KindOf(s) = "code64"
DataSelector(s) == s = 0 \/ KindOf(s) = "data"

-----------------------------------------------------------------------------
GdtInit ==
  /\ gdtr = "bootloader" /\ busy = FALSE
  /\ \E s \in BootStacks :
       seg = [cs |-> 40, ds |-> 48, es |-> 48, fs |-> 48, gs |-> 48, ss |-> s, tr |-> 0]

(* load(): which register is loaded with what, after lgdt.  The far return  *)
(* loads cs.  ss is not loaded.                                            *)
LoadSteps ==
  << <<"ds", 16>>, <<"es", 16>>, <<"fs", 16>>, <<"gs", 16>>, <<"cs", 8>>, <<"tr", 40>> >>

Loadable(r, s) ==
  CASE r = "cs" -> CodeSelector(s)
    [] r = "tr" -> KindOf(s) = "tss" /\ ~busy
    [] OTHER    -> DataSelector(s)

lgdt == gdtr' = "kernel" /\ UNCHANGED <<seg, busy>>

load(k) ==
  LET r == LoadSteps[k][1]
      s == LoadSteps[k][2]
  IN  /\ Loadable(r, s)
      /\ seg' = [seg EXCEPT ![r] = s]
      /\ busy' = (busy \/ r = "tr")
      /\ UNCHANGED gdtr

(* The task register leads to tss_instance, which is all of the segment:    *)
(* no bytes behind it are taken for an I/O permission bitmap.               *)
TssReached ==
  LET low == gdt_table[seg.tr \div 8 + 1]
      high == gdt_table[seg.tr \div 8 + 2]
  IN  /\ busy
      /\ low.base \o <<high.limit_low % 256, high.limit_low \div 256, high.base[1], high.base[2]>>
           = TssAddress
      /\ Limit(low) = TssSize - 1 /\ io_map_base > Limit(low)
=============================================================================
