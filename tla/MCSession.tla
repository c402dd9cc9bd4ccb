----------------------------- MODULE MCSession -----------------------------
(***************************************************************************)
(* Session on a flash of four sectors, of one, one, two and six cells: the *)
(* image of three bytes takes two sectors, and there is room for it when   *)
(* it is programmed four bytes too far.                                    *)
(***************************************************************************)
EXTENDS Session, Bitwise

MCSectorSize == [s \in 0 .. 3 |-> CASE s = 2 -> 2 [] s = 3 -> 6 [] OTHER -> 1]
MCSectorAddress == [s \in 0 .. 4 |-> CASE s = 3 -> 4 [] s = 4 -> 10 [] OTHER -> s]
MCBitAnd(a, b) == a & b

MCBootCode == 1
MCInitialFlash == [a \in 0 .. 9 |-> IF a = 0 THEN MCBootCode ELSE 2]
MCVersion == <<50>>
MCUid == <<49, 4, 0, 16>>
MCBanner == <<74, 117, 109>>
MCOptionBytes == [SPRMOD |-> FALSE, nWRP |-> 0 .. 3, RDP |-> 170]

MCFiles == {<<5, 6, 9>>}
WholeBlockFiles == {<<5, 6>>}

Query(cmd) == Frame(LAST_FRAME, cmd, <<>>, TRUE)

(* What the menu can send.  The protection command protects the sector of the
   image, with protection type 1, "WriteProtection" to the user; a reset of
   the board takes the protection back. *)
MCMenuFrames ==
  {Query(CMD_CODE_BOOT_GET_MCUID), Query(CMD_CODE_BOOT_GET_FLASH_RW_PROT),
   Frame(LAST_FRAME, CMD_CODE_BOOT_FLASH_ERASE, <<8>>, TRUE),
   Frame(LAST_FRAME, CMD_CODE_BOOT_FLASH_ERASE, <<ALL_SECTORS>>, TRUE),
   Frame(LAST_FRAME, CMD_CODE_BOOT_SET_FLASH_RW_PROT, <<1, 4>>, TRUE)}
NoMenuFrames == {}

(* A reset in the erase of a sector leaves any of its cells erased; one in a
   mass erase either sector of the image, all of the application's, all but
   the bootloader, or everything. *)
MCGone == UNION {SUBSET CellsOf(s) : s \in Sectors}
            \cup {SECTOR2_ADDRESS .. FLASH_END - 1, 1 .. FLASH_END - 1, Address}

Images == MCFiles \cup WholeBlockFiles
Sent == MCMenuFrames \cup {SizeFrame(f) : f \in Images}
          \cup UNION {{BlockFrame(f, start) : start \in 0 .. Len(f) - 1} : f \in Images}
MCFrames == Sent \cup {[f EXCEPT !.crcOk = FALSE] : f \in Sent}
=============================================================================
