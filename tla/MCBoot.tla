------------------------------- MODULE MCBoot -------------------------------
(* tss_instance is where the linker script puts the kernel's data; ss is     *)
(* null, or selects the bootloader's data segment.                          *)
EXTENDS Boot

MCTssAddress == <<64, 80, 2, 128, 255, 255, 255, 255>>
MCBootStacks == {0, 48}
=============================================================================
