----------------------------- MODULE FlashWriter ------------------------------
(***************************************************************************)
(* os::stm32::FlashWriter of src/bootloader/src/flash_writer.hpp (the      *)
(* application carries a copy): what one operation of the flash controller *)
(* does to the flash, byte by byte.  A page is the smallest unit of        *)
(* erasure, a halfword the unit of programming.                            *)
(***************************************************************************)
EXTENDS Integers, FiniteSetsExt

CONSTANTS
    PageSize,   \* bytes in a page: 2048 on this MCU
    FF          \* the value of an erased byte

ASSUME PageAssumption == PageSize \in Nat \ {0} /\ PageSize % 2 = 0

\* The bytes [from, from + size).
Region(from, size) == from .. from + size - 1

PageOf(a) == a \div PageSize

\* The byte the blank check of erase() stops at next: it scans upwards.
Dirty(mem, region) == {a \in region : mem[a] # FF}
FirstDirty(mem, region) == Min(Dirty(mem, region))

\* Mutation: FLASH_CR_MER, the mass erasure.
EraseAll(mem, a) == [b \in DOMAIN mem |-> FF]

\* FLASH_CR_PER with FLASH_AR = a erases the whole page around a.
ErasePage(mem, a) ==
    [b \in DOMAIN mem |-> IF PageOf(b) = PageOf(a) THEN FF ELSE mem[b]]

\* An erasure that fails or is cut short leaves some bytes as they were.
TornErase(mem, a, kept) ==
    [b \in DOMAIN mem |->
        IF PageOf(b) = PageOf(a) /\ b \notin kept THEN FF ELSE mem[b]]

\* write() rounds the length up to halfwords.
Halfwords(size) == (size + 1) \div 2

\* The controller refuses (PGERR) to program a halfword that is not erased.
CanProgram(mem, a) == mem[a] = FF /\ mem[a + 1] = FF

ProgramHalfword(mem, a, low, high) == [mem EXCEPT ![a] = low, ![a + 1] = high]
=============================================================================
