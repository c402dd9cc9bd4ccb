----------------------------- MODULE FlashLayout -----------------------------
(***************************************************************************)
(* The flash memory map of the STM32F411 as the bootloader uses it, and    *)
(* the arithmetic of Commands.cpp over it: which sectors an image of a     *)
(* given size occupies, which sectors a bit mask names, what programming a *)
(* flash byte does.  No state: BootDevice and FlashDriver build on it.     *)
(***************************************************************************)
EXTENDS Naturals

CONSTANTS
  FLASH_NUMBER_OF_SECTORS,  (* sectors of the flash, 8 on the target        *)
  SECTORS_SIZE,             (* bytes of each sector                         *)
  SECTOR_ADDRESS,           (* first byte of each sector, relative to the   *)
                            (* start of the flash; [FLASH_NUMBER_OF_SECTORS]*)
                            (* is the address just past the last sector     *)
  BitAnd(_, _)              (* the bitwise AND of two bytes                 *)

Byte == 0 .. 255

(***************************************************************************)
(* A flash cell reads 0xFF after an erase.                                 *)
(***************************************************************************)
Erased == 255

Sectors == 0 .. FLASH_NUMBER_OF_SECTORS - 1

(***************************************************************************)
(* The addresses of Mcu_MemMap.h are the running sums of SECTORS_SIZE, and *)
(* a byte mask names at most eight sectors.                                *)
(***************************************************************************)
ASSUME LayoutAssumption ==
  /\ FLASH_NUMBER_OF_SECTORS \in 3 .. 8
  /\ SECTORS_SIZE \in [Sectors -> Nat \ {0}]
  /\ SECTOR_ADDRESS \in [0 .. FLASH_NUMBER_OF_SECTORS -> Nat]
  /\ SECTOR_ADDRESS[0] = 0
  /\ \A s \in Sectors : SECTOR_ADDRESS[s + 1] = SECTOR_ADDRESS[s] + SECTORS_SIZE[s]
  /\ \A s, t \in 0 .. FLASH_NUMBER_OF_SECTORS : s < t => SECTOR_ADDRESS[s] < SECTOR_ADDRESS[t]

ASSUME BitAndAssumption ==
  \A a, b \in Byte : /\ BitAnd(a, b) \in Byte
                     /\ BitAnd(Erased, b) = b
                     /\ BitAnd(BitAnd(a, b), b) = BitAnd(a, b)

(***************************************************************************)
(* User applications start at sector 2; sector 0 holds the bootloader.     *)
(***************************************************************************)
SECTOR2 == 2
SECTOR2_ADDRESS == SECTOR_ADDRESS[SECTOR2]

FLASH_END == SECTOR_ADDRESS[FLASH_NUMBER_OF_SECTORS]
Address == 0 .. FLASH_END - 1

CellsOf(s) == SECTOR_ADDRESS[s] .. SECTOR_ADDRESS[s + 1] - 1
CellsOfAll(S) == UNION {CellsOf(s) : s \in S}

(***************************************************************************)
(* The sectors whose bit is set in a mask byte (1u << sector).             *)
(***************************************************************************)
SectorsOfMask(mask) == {s \in Sectors : (mask \div 2^s) % 2 = 1}

(***************************************************************************)
(* The mask byte that names a set of sectors.                              *)
(***************************************************************************)
MaskOfSectors(S) == CHOOSE mask \in Byte : SectorsOfMask(mask) = S

ASSUME MaskAssumption ==
  \A S \in SUBSET Sectors : \E mask \in Byte : SectorsOfMask(mask) = S

(***************************************************************************)
(* Commands.cpp GetSectorsForFlash: sectors are taken from sector 2 on;    *)
(* the loop goes past a sector only while the image is not smaller than    *)
(* the total size taken so far.  An image that fills its sectors exactly   *)
(* takes one more, and one larger than the flash takes all of them (the    *)
(* ST_NOK the loop then yields is ignored by its caller).                  *)
(***************************************************************************)
totalSizeRequired(sector) == SECTOR_ADDRESS[sector + 1] - SECTOR2_ADDRESS

(* A mutant: sectors are taken from the start of the flash. *)
GetSectorsFromStart(binSize) ==
  {s \in Sectors : \A r \in 0 .. s - 1 : binSize >= SECTOR_ADDRESS[r + 1]}

GetSectorsForFlash(binSize) ==
  {s \in SECTOR2 .. FLASH_NUMBER_OF_SECTORS - 1 :
     \A r \in SECTOR2 .. s - 1 : binSize >= totalSizeRequired(r)}

(***************************************************************************)
(* What the flash hardware does to a cell: an erase sets it to 0xFF, a     *)
(* program operation can only clear bits.                                  *)
(***************************************************************************)
EraseCells(mem, cells) == [a \in DOMAIN mem |-> IF a \in cells THEN Erased ELSE mem[a]]

ProgramCell(old, new) == BitAnd(old, new)
=============================================================================
