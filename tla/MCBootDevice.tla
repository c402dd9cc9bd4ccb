---------------------------- MODULE MCBootDevice ----------------------------
(***************************************************************************)
(* BootDevice on a flash of four sectors with one to two cells, against a  *)
(* host that sends every command with good and bad parameters in any order.*)
(***************************************************************************)
EXTENDS BootDevice, Bitwise

MCSectorSize == [s \in 0 .. 3 |-> IF s = 3 THEN 2 ELSE 1]
MCSectorAddress == [s \in 0 .. 4 |-> IF s = 4 THEN 5 ELSE s]
MCBitAnd(a, b) == a & b

MCBootCode == 1
MCOldByte  == 2
MCInitialFlash == [a \in 0 .. 4 |-> IF a = 0 THEN MCBootCode ELSE MCOldByte]

MCVersion == <<50>>
MCUid == <<49>>
MCBanner == <<74>>
MCOptionBytes == [SPRMOD |-> FALSE, nWRP |-> 0 .. 3, RDP |-> 170]
ProtectedOptionBytes == [SPRMOD |-> FALSE, nWRP |-> 0 .. 2, RDP |-> 170]

Good(frameType, cmd, data) == Frame(frameType, cmd, data, TRUE)

(* Sizes that need one sector, exactly one, two, and more than there is;
   blocks of zero to two bytes; a frame without the data it should have. *)
SizeFrames == {Good(CONSEC_FRAME, CMD_CODE_BOOT_FLASH_WRITE, <<n, 0, 0, 0>>) : n \in {0, 1, 9}}
BlockFrames ==
  {Good(CONSEC_FRAME, CMD_CODE_BOOT_FLASH_WRITE, <<5, 6>>),
   Good(LAST_FRAME, CMD_CODE_BOOT_FLASH_WRITE, <<9>>),
   Good(LAST_FRAME, CMD_CODE_BOOT_FLASH_WRITE, <<>>)}
EraseFrames ==
  {Good(LAST_FRAME, CMD_CODE_BOOT_FLASH_ERASE, <<mask>>) : mask \in {5, 12, ALL_SECTORS}}
ProtectionFrames ==
  {Good(LAST_FRAME, CMD_CODE_BOOT_SET_FLASH_RW_PROT, <<mode, mask>>) : mode \in {0, 1}, mask \in {0, 8}}
QueryFrames ==
  {Good(LAST_FRAME, cmd, <<>>) :
     cmd \in serviceTable \ {CMD_CODE_BOOT_FLASH_ERASE, CMD_CODE_BOOT_FLASH_WRITE,
                             CMD_CODE_BOOT_SET_FLASH_RW_PROT}}
BadFrames ==
  {Frame(CONSEC_FRAME, CMD_CODE_BOOT_FLASH_WRITE, <<5, 6>>, FALSE),
   Good(LAST_FRAME, 1, <<>>),
   Good(LAST_FRAME, CMD_CODE_BOOT_FLASH_ERASE, <<>>)}

MCFrames == SizeFrames \cup BlockFrames \cup EraseFrames \cup ProtectionFrames
              \cup QueryFrames \cup BadFrames
=============================================================================
