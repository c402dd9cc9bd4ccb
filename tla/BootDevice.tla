----------------------------- MODULE BootDevice -----------------------------
(***************************************************************************)
(* The bootloader firmware: main, BootControl, the nine command handlers   *)
(* of Commands.cpp and the flash they change.  The host is any host: it    *)
(* sends any frame of Frames at any time the device listens, and reads the *)
(* device's bytes whenever it likes.  The board can be reset at any time,  *)
(* in the middle of an erase or of a block too.                            *)
(*                                                                         *)
(* A handler that only computes a reply is one step.  One that erases or   *)
(* programs takes a step per sector or byte, so that a reset can fall      *)
(* between two of them.                                                    *)
(***************************************************************************)
EXTENDS FlashLayout, SerialLine

CONSTANTS
  Frames,         (* the frames the host may send                           *)
  StaleBytes,     (* what localBuffer may hold past the received data: it   *)
                  (* is uninitialised, then full of earlier frames          *)
  bootloaderVersion, mcu_id,       (* bytes of the two identity replies     *)
  OPTION_BYTES,   (* the option bytes of flash: SPRMOD, nWRP and RDP        *)
  OptcrLive,      (* does FLASH_OPTCR protect before OPTSTRT commits it?    *)
  BOOT_CODE,      (* content of a cell of the bootloader's sector           *)
  INITIAL_FLASH,  (* the flash as shipped: bootloader, perhaps an old image *)
  BootBanner, AppBanner,           (* the two texts main sends              *)
  MaxUnread       (* bound: the device listens while the host has at most   *)
                  (* this many bytes to read                                *)

VARIABLES
  phase,              (* main's loop, BootControl, the application, no code *)
  op,                 (* what BootControl is in the middle of               *)
  sectors,            (* the sectors BootFlashErase was asked to erase      *)
  toErase,            (* the sectors SectorErase's loop has still to erase  *)
  block, blockType,   (* the data and the type of the frame being written   *)
  idx,                (* WriteFlash's loop counter                          *)
  state, progAddress, sectorsToBeErased,   (* statics of BootFlashWrite     *)
  currentState,       (* FLASH::currentState                                *)
  mem,                (* the flash                                          *)
  WRPERR,             (* the write protection error flag of FLASH_SR        *)
  optcr               (* FLASH_OPTCR: SPRMOD and the sectors with nWRP = 1  *)

transfer == <<state, progAddress, sectorsToBeErased>>
driver   == <<op, sectors, toErase, block, blockType, idx, currentState>>
flash    == <<mem, WRPERR, optcr>>
vars     == <<phase, transfer, driver, flash, tx>>

ASSUME DeviceAssumption ==
  /\ Frames \subseteq FrameSet(Byte)
  /\ \A f \in Frames : Len(f.data) \in Byte
  /\ StaleBytes \subseteq Byte /\ StaleBytes # {}
  /\ bootloaderVersion \in Seq(Byte) /\ Len(bootloaderVersion) \in Byte
  /\ mcu_id \in Seq(Byte) /\ Len(mcu_id) \in Byte
  /\ OPTION_BYTES \in [SPRMOD : BOOLEAN, nWRP : SUBSET Sectors, RDP : Byte]
  /\ OptcrLive \in BOOLEAN
  /\ BOOT_CODE \in Byte \ {Erased}
  /\ INITIAL_FLASH \in [Address -> Byte]
  /\ \A a \in CellsOf(0) : INITIAL_FLASH[a] = BOOT_CODE
  /\ BootBanner \in Seq(Byte) /\ AppBanner \in Seq(Byte)
  /\ MaxUnread \in Nat

(***************************************************************************)
(* Building blocks.                                                        *)
(***************************************************************************)
(* OPTSTRT is never set, so the option bytes themselves never change; a
   reset loads them into FLASH_OPTCR. *)
OptcrAtReset == [SPRMOD |-> OPTION_BYTES.SPRMOD, nWRP |-> OPTION_BYTES.nWRP]

(* In write protection mode a cleared nWRP bit protects, in PCROP mode
   (SPRMOD = 1) a set one does. *)
ProtectedBy(o) == IF o.SPRMOD THEN o.nWRP ELSE Sectors \ o.nWRP

LiveProtection(o) == ProtectedBy(IF OptcrLive THEN o ELSE OptcrAtReset)

WriteProtected == LiveProtection(optcr)

(* What a handler finds at localBuffer[i - 1]. *)
BufferByte(data, i, stale) == IF i <= Len(data) THEN data[i] ELSE stale

binSizeOf(data, stale) ==
  BufferByte(data, 1, stale) + 256 * BufferByte(data, 2, stale)
    + 65536 * BufferByte(data, 3, stale) + 16777216 * BufferByte(data, 4, stale)

(* GetSectorRWProtection, as the reply byte it becomes. *)
ProtectionOf(o, sector) ==
  IF sector \notin ProtectedBy(o) THEN NO_PROTECTION
  ELSE IF o.SPRMOD THEN RW_PROTECTION ELSE W_PROTECTION

(* Mutants of the next definition: no inversion of nWRP between the modes;
   a bit of nWRP past the last sector. *)
OptcrAfterSetNoInversion(mode, mask) ==
  [SPRMOD |-> mode # WRITE_PROTECTION, nWRP |-> SectorsOfMask(mask)]

OptcrAfterSetPastLast(mode, mask) ==
  [SPRMOD |-> mode # WRITE_PROTECTION,
   nWRP   |-> (0 .. FLASH_NUMBER_OF_SECTORS) \ SectorsOfMask(mask)]

(* SetFlashProtectionMode followed by SetSectorRWProtection. *)
OptcrAfterSet(mode, mask) ==
  [SPRMOD |-> mode # WRITE_PROTECTION,
   nWRP   |-> IF mode = WRITE_PROTECTION THEN Sectors \ SectorsOfMask(mask)
                                          ELSE SectorsOfMask(mask)]

(* The first bytes of the bootloader are its vector table and its code. *)
BootIntact(m) == \A a \in CellsOf(0) : m[a] = BOOT_CODE

Init ==
  /\ phase = "Main"
  /\ op = "Receive" /\ sectors = {} /\ toErase = {}
  /\ block = <<>> /\ blockType = LAST_FRAME /\ idx = 0
  /\ state = "Get_BIN_Size"
  /\ progAddress = SECTOR2_ADDRESS
  /\ sectorsToBeErased = {}
  /\ currentState = "FLASH_AVAILABLE"
  /\ mem = INITIAL_FLASH
  /\ WRPERR = FALSE
  /\ optcr = OptcrAtReset
  /\ tx = <<>>

-----------------------------------------------------------------------------
(***************************************************************************)
(* main.                                                                   *)
(***************************************************************************)
ButtonPressed ==
  /\ phase = "Main" /\ Len(tx) <= MaxUnread
  /\ Transmit(BootBanner)
  /\ phase' = "Control"
  /\ UNCHANGED <<transfer, driver, flash>>

BootTimeout ==
  /\ phase = "Main" /\ Len(tx) <= MaxUnread
  /\ Transmit(AppBanner)
  /\ phase' = "App"
  /\ UNCHANGED <<transfer, driver, flash>>

(***************************************************************************)
(* BootControl has read a frame, and answers it itself or hands it to the  *)
(* handler of its command.                                                 *)
(***************************************************************************)
Listening == phase = "Control" /\ op = "Receive" /\ Len(tx) <= MaxUnread

Accepts(f, cmd) == Listening /\ f.crcOk /\ f.cmd = cmd

WrongCRC(f) ==
  /\ Listening /\ ~ f.crcOk
  /\ Transmit(StatusByte(ST_WRONG_CRC))
  /\ UNCHANGED <<phase, transfer, driver, flash>>

CommandNotFound(f) ==
  /\ Listening /\ f.crcOk /\ f.cmd \notin serviceTable
  /\ Transmit(StatusByte(CMD_NOT_FOUND))
  /\ UNCHANGED <<phase, transfer, driver, flash>>

(***************************************************************************)
(* Handlers that only reply.  The status of the last Transmit is TIMEOUT   *)
(* when a tick falls into it (see module Delay), although every byte has  *)
(* been sent; the handlers that return it make BootControl add that byte.  *)
(***************************************************************************)
TransmitStatus == {ST_OK, TIMEOUT}

BootGetVersion(f, status) ==
  /\ Accepts(f, CMD_CODE_BOOT_GET_VERSION)
  /\ Transmit(PositiveReply(f.cmd, bootloaderVersion) \o StatusByte(status))
  /\ UNCHANGED <<phase, transfer, driver, flash>>

BootGetMCUID(f, status) ==
  /\ Accepts(f, CMD_CODE_BOOT_GET_MCUID)
  /\ Transmit(PositiveReply(f.cmd, mcu_id) \o StatusByte(status))
  /\ UNCHANGED <<phase, transfer, driver, flash>>

BootFlashVerify(f) ==
  /\ Accepts(f, CMD_CODE_BOOT_FLASH_VERIFY)
  /\ UNCHANGED vars

BootReadFlashProtStatus(f) ==
  /\ Accepts(f, CMD_CODE_BOOT_READ_FLASH_PROT_STATUS)
  /\ Transmit(PositiveReply(f.cmd, <<OPTION_BYTES.RDP>>))
  /\ UNCHANGED <<phase, transfer, driver, flash>>

(* The length byte counts the three control bytes as well. *)
RWProtReply(o) ==
  <<CMD_CODE_BOOT_GET_FLASH_RW_PROT, POSITIVE_RESP,
    FLASH_NUMBER_OF_SECTORS + NUMBER_CONTROL_BYTES>>
    \o [i \in 1 .. FLASH_NUMBER_OF_SECTORS |-> ProtectionOf(o, i - 1)]

(* A failed GET asks Transmit for no byte at all, which sends the first one; a
   failed SET sends its three control bytes. *)
GetFailure(status) == <<CMD_CODE_BOOT_GET_FLASH_RW_PROT>> \o StatusByte(status)

SetFailure(status) ==
  <<CMD_CODE_BOOT_GET_FLASH_RW_PROT, NEGATIVE_RESP, 0>> \o StatusByte(status)

BootGetRWProt(f) ==
  /\ Accepts(f, CMD_CODE_BOOT_GET_FLASH_RW_PROT)
  /\ Transmit(IF currentState = "FLASH_AVAILABLE" THEN RWProtReply(optcr)
                                                  ELSE GetFailure(ST_BUSY))
  /\ UNCHANGED <<phase, transfer, driver, flash>>

(* The reply carries the code of the GET command. *)
BootSetRWProt(f, stale) ==
  /\ Accepts(f, CMD_CODE_BOOT_SET_FLASH_RW_PROT)
  /\ IF currentState = "FLASH_AVAILABLE"
     THEN /\ optcr' = OptcrAfterSet(BufferByte(f.data, 1, stale), BufferByte(f.data, 2, stale))
          /\ Transmit(PositiveReply(CMD_CODE_BOOT_GET_FLASH_RW_PROT, <<>>))
     ELSE /\ optcr' = optcr
          /\ Transmit(SetFailure(ST_BUSY))
  /\ UNCHANGED <<phase, transfer, driver, mem, WRPERR>>

BootJumpToApplication(f) ==
  /\ Accepts(f, CMD_CODE_BOOT_JUMP_TO_APP)
  /\ Transmit(PositiveReply(f.cmd, <<>>))
  /\ phase' = "App"
  /\ UNCHANGED <<transfer, driver, flash>>

-----------------------------------------------------------------------------
(***************************************************************************)
(* Erasing: BootFlashErase, and the loop of FLASH::SectorErase it shares   *)
(* with BootFlashWrite.                                                    *)
(***************************************************************************)
EraseReply(requested, response) ==
  PositiveReply(CMD_CODE_BOOT_FLASH_ERASE,
                [i \in 1 .. FLASH_NUMBER_OF_SECTORS |->
                   IF i - 1 \in requested THEN response ELSE 0])

MassErase(f, stale) ==
  /\ Accepts(f, CMD_CODE_BOOT_FLASH_ERASE)
  /\ BufferByte(f.data, 1, stale) = ALL_SECTORS
  /\ IF currentState = "FLASH_AVAILABLE"
     THEN op' = "MassErase" /\ currentState' = "FLASH_BUSY" /\ UNCHANGED tx
     ELSE Transmit(StatusByte(ST_BUSY)) /\ UNCHANGED <<op, currentState>>
  /\ UNCHANGED <<phase, transfer, flash, sectors, toErase, block, blockType, idx>>

BootFlashErase(f, stale, status) ==
  /\ Accepts(f, CMD_CODE_BOOT_FLASH_ERASE)
  /\ BufferByte(f.data, 1, stale) # ALL_SECTORS
  /\ LET requested == SectorsOfMask(BufferByte(f.data, 1, stale)) IN
     IF currentState = "FLASH_AVAILABLE"
     THEN /\ op' = "EraseCommand"
          /\ currentState' = "FLASH_BUSY"
          /\ sectors' = requested
          /\ toErase' = requested
          /\ UNCHANGED tx
     ELSE /\ Transmit(EraseReply(requested, NEGATIVE_RESP) \o StatusByte(status))
          /\ UNCHANGED <<op, currentState, sectors, toErase>>
  /\ UNCHANGED <<phase, transfer, flash, block, blockType, idx>>

Erasing == phase = "Control" /\ op \in {"EraseCommand", "EraseForWrite"}
ErasingAll == phase = "Control" /\ op = "MassErase"

(* A mass erase takes the bootloader with it.  The flash refuses it when a
   sector is write protected: the flag nobody reads is set, the handler
   returns ST_OK and nothing is sent. *)
AllErased ==
  /\ ErasingAll
  /\ IF WriteProtected = {}
     THEN /\ mem' = EraseCells(mem, Address)
          /\ phase' = "Halted"
          /\ UNCHANGED <<op, currentState, WRPERR>>
     ELSE /\ WRPERR' = TRUE
          /\ op' = "Receive" /\ currentState' = "FLASH_AVAILABLE"
          /\ UNCHANGED <<phase, mem>>
  /\ UNCHANGED <<transfer, sectors, toErase, block, blockType, idx, optcr, tx>>

NextToErase == CHOOSE s \in toErase : \A t \in toErase : s <= t

(* Mutants of LeftToErase: the loop skips a sector; the loop tries a refused
   sector again. *)
LeftToEraseSkipping == toErase \ {NextToErase, NextToErase + 1}
LeftToEraseRetrying == IF NextToErase \in WriteProtected THEN toErase
                                                         ELSE toErase \ {NextToErase}

LeftToErase == toErase \ {NextToErase}

(* A write protected sector is left as it is.  Without sector 0 there is no
   code to go on with. *)
SectorErase ==
  /\ Erasing /\ toErase # {}
  /\ toErase' = LeftToErase
  /\ IF NextToErase \in WriteProtected
     THEN /\ WRPERR' = TRUE
          /\ UNCHANGED <<mem, phase>>
     ELSE /\ mem' = EraseCells(mem, CellsOf(NextToErase))
          /\ phase' = IF NextToErase = 0 THEN "Halted" ELSE phase
          /\ UNCHANGED WRPERR
  /\ UNCHANGED <<transfer, op, sectors, block, blockType, idx, currentState, optcr, tx>>

(* A mutant: the driver stays busy. *)
EraseCommandStaysBusy(status) ==
  /\ Erasing /\ toErase = {} /\ op = "EraseCommand"
  /\ Transmit(EraseReply(sectors, POSITIVE_RESP) \o StatusByte(status))
  /\ op' = "Receive"
  /\ sectors' = {}
  /\ UNCHANGED <<phase, transfer, flash, toErase, block, blockType, idx, currentState>>

EraseCommandDone(status) ==
  /\ Erasing /\ toErase = {} /\ op = "EraseCommand"
  /\ Transmit(EraseReply(sectors, POSITIVE_RESP) \o StatusByte(status))
  /\ op' = "Receive"
  /\ sectors' = {}
  /\ currentState' = "FLASH_AVAILABLE"
  /\ UNCHANGED <<phase, transfer, flash, toErase, block, blockType, idx>>

-----------------------------------------------------------------------------
(***************************************************************************)
(* BootFlashWrite.  The first frame gives the size of the image: the       *)
(* sectors it needs are announced, erased and announced again.  Every      *)
(* further frame is a block of the image, up to one marked LAST_FRAME.     *)
(***************************************************************************)
SectorsAck(S) == PositiveReply(CMD_CODE_BOOT_FLASH_WRITE, <<MaskOfSectors(S)>>)

(* A mutant: no reply to a block. *)
NoBlockAck == <<>>

BlockAck == PositiveReply(CMD_CODE_BOOT_FLASH_WRITE, <<>>)

GetBinSize(f, stale) ==
  /\ Accepts(f, CMD_CODE_BOOT_FLASH_WRITE) /\ state = "Get_BIN_Size"
  /\ sectorsToBeErased' = GetSectorsForFlash(binSizeOf(f.data, stale))
  /\ IF currentState = "FLASH_AVAILABLE"
     THEN /\ Transmit(SectorsAck(sectorsToBeErased'))
          /\ op' = "EraseForWrite"
          /\ currentState' = "FLASH_BUSY"
          /\ toErase' = sectorsToBeErased'
     ELSE /\ Transmit(SectorsAck(sectorsToBeErased') \o StatusByte(ST_BUSY))
          /\ UNCHANGED <<op, currentState, toErase>>
  /\ UNCHANGED <<phase, state, progAddress, sectors, block, blockType, idx, flash>>

(* A mutant: the second reply before the last sector is erased. *)
SectorsErasedTooSoon ==
  /\ Erasing /\ op = "EraseForWrite"
  /\ Transmit(SectorsAck(sectorsToBeErased))
  /\ state' = "Write_FLASH_Sectors"
  /\ op' = "Receive"
  /\ currentState' = "FLASH_AVAILABLE"
  /\ toErase' = {}
  /\ UNCHANGED <<phase, progAddress, sectorsToBeErased, flash, sectors,
                 block, blockType, idx>>

SectorsErased ==
  /\ Erasing /\ toErase = {} /\ op = "EraseForWrite"
  /\ Transmit(SectorsAck(sectorsToBeErased))
  /\ state' = "Write_FLASH_Sectors"
  /\ op' = "Receive"
  /\ currentState' = "FLASH_AVAILABLE"
  /\ UNCHANGED <<phase, progAddress, sectorsToBeErased, flash, sectors, toErase,
                 block, blockType, idx>>

(* Mutants of EndOfBlock: the pointer is left where it is after the last
   block; it goes back to the start of the flash; it moves one byte short. *)
EndOfBlockKeepsAddress(frameType, length) ==
  /\ progAddress' = progAddress + length
  /\ IF frameType = LAST_FRAME THEN state' = "Get_BIN_Size" /\ sectorsToBeErased' = {}
                               ELSE UNCHANGED <<state, sectorsToBeErased>>

EndOfBlockAtFlashStart(frameType, length) ==
  IF frameType = LAST_FRAME
  THEN state' = "Get_BIN_Size" /\ progAddress' = 0 /\ sectorsToBeErased' = {}
  ELSE progAddress' = progAddress + length /\ UNCHANGED <<state, sectorsToBeErased>>

EndOfBlockOneShort(frameType, length) ==
  IF frameType = LAST_FRAME
  THEN state' = "Get_BIN_Size" /\ progAddress' = SECTOR2_ADDRESS /\ sectorsToBeErased' = {}
  ELSE progAddress' = progAddress + length - 1 /\ UNCHANGED <<state, sectorsToBeErased>>

(* After a block of that many bytes: on to the next one, or back to the
   defaults when it was the last. *)
EndOfBlock(frameType, length) ==
  IF frameType = LAST_FRAME
  THEN /\ state' = "Get_BIN_Size"
       /\ progAddress' = SECTOR2_ADDRESS
       /\ sectorsToBeErased' = {}
  ELSE /\ progAddress' = progAddress + length
       /\ UNCHANGED <<state, sectorsToBeErased>>

WriteBlock(f) ==
  /\ Accepts(f, CMD_CODE_BOOT_FLASH_WRITE) /\ state = "Write_FLASH_Sectors"
  /\ IF currentState = "FLASH_AVAILABLE"
     THEN /\ op' = "Program"
          /\ currentState' = "FLASH_BUSY"
          /\ block' = f.data /\ blockType' = f.frameType /\ idx' = 0
          /\ UNCHANGED <<transfer, tx>>
     ELSE /\ EndOfBlock(f.frameType, Len(f.data))
          /\ Transmit(StatusByte(ST_BUSY))
          /\ UNCHANGED <<op, currentState, block, blockType, idx>>
  /\ UNCHANGED <<phase, flash, sectors, toErase>>

(* One turn of WriteFlash's byte loop (X8).  There is no memory past the
   last sector: the store faults. *)
WriteFlash ==
  /\ phase = "Control" /\ op = "Program" /\ idx < Len(block)
  /\ LET dest == progAddress + idx IN
     IF dest \notin Address
     THEN phase' = "Halted" /\ UNCHANGED <<mem, WRPERR, idx>>
     ELSE /\ idx' = idx + 1
          /\ IF dest \in CellsOfAll(WriteProtected)
             THEN WRPERR' = TRUE /\ UNCHANGED mem
             ELSE /\ mem' = [mem EXCEPT ![dest] = ProgramCell(@, block[idx + 1])]
                  /\ UNCHANGED WRPERR
          /\ UNCHANGED phase
  /\ UNCHANGED <<transfer, op, sectors, toErase, block, blockType, currentState, optcr, tx>>

BlockWritten ==
  /\ phase = "Control" /\ op = "Program" /\ idx = Len(block)
  /\ EndOfBlock(blockType, Len(block))
  /\ Transmit(BlockAck)
  /\ op' = "Receive"
  /\ currentState' = "FLASH_AVAILABLE"
  /\ block' = <<>> /\ blockType' = LAST_FRAME /\ idx' = 0
  /\ UNCHANGED <<phase, flash, sectors, toErase>>

-----------------------------------------------------------------------------
(***************************************************************************)
(* The board is reset, by its button or its supply.  RAM starts over, the  *)
(* option bytes are loaded, and what was being erased, a sector or all of  *)
(* the flash, keeps some of its cells.  What the bootloader has sent is with the host.      *)
(***************************************************************************)
HalfErased ==
  IF ErasingAll /\ WriteProtected = {} THEN Address
  ELSE IF Erasing /\ toErase # {} /\ NextToErase \notin WriteProtected
  THEN CellsOf(NextToErase) ELSE {}

Reset(gone) ==
  /\ mem' = EraseCells(mem, gone)
  /\ phase' = IF BootIntact(mem') THEN "Main" ELSE "Halted"
  /\ op' = "Receive" /\ sectors' = {} /\ toErase' = {}
  /\ block' = <<>> /\ blockType' = LAST_FRAME /\ idx' = 0
  /\ state' = "Get_BIN_Size"
  /\ progAddress' = SECTOR2_ADDRESS
  /\ sectorsToBeErased' = {}
  /\ currentState' = "FLASH_AVAILABLE"
  /\ WRPERR' = FALSE
  /\ optcr' = OptcrAtReset
  /\ UNCHANGED tx

(* The host takes the oldest bytes, or purges what it has received. *)
HostReads ==
  /\ \E n \in 1 .. Len(tx) : Take(n)
  /\ UNCHANGED <<phase, transfer, driver, flash>>

(* What BootControl does with a frame. *)
Receive(f) ==
  \/ WrongCRC(f)
  \/ CommandNotFound(f)
  \/ \E status \in TransmitStatus : BootGetVersion(f, status)
  \/ \E status \in TransmitStatus : BootGetMCUID(f, status)
  \/ \E stale \in StaleBytes : MassErase(f, stale)
  \/ \E stale \in StaleBytes, status \in TransmitStatus : BootFlashErase(f, stale, status)
  \/ \E stale \in StaleBytes : GetBinSize(f, stale)
  \/ WriteBlock(f)
  \/ BootFlashVerify(f)
  \/ BootReadFlashProtStatus(f)
  \/ BootGetRWProt(f)
  \/ \E stale \in StaleBytes : BootSetRWProt(f, stale)
  \/ BootJumpToApplication(f)

(* What a handler does after the first step, without the host. *)
Continue ==
  \/ AllErased
  \/ SectorErase
  \/ \E status \in TransmitStatus : EraseCommandDone(status)
  \/ SectorsErased
  \/ WriteFlash
  \/ BlockWritten

Next ==
  \/ ButtonPressed
  \/ BootTimeout
  \/ \E f \in Frames : Receive(f)
  \/ Continue
  \/ \E gone \in SUBSET HalfErased : Reset(gone)
  \/ HostReads

Spec == Init /\ [][Next]_vars

(* The processor runs: a handler that has begun goes on. *)
FairSpec == Spec /\ WF_vars(Continue)

-----------------------------------------------------------------------------
(***************************************************************************)
(* Properties.                                                             *)
(***************************************************************************)
Optcr == [SPRMOD : BOOLEAN, nWRP : SUBSET Sectors]

(* Every variable has a value of its C++ type; the bytes of a block are the
   at most 255 of one frame. *)
TypeOK ==
  /\ phase \in {"Main", "Control", "App", "Halted"}
  /\ op \in {"Receive", "MassErase", "EraseCommand", "EraseForWrite", "Program"}
  /\ sectors \in SUBSET Sectors /\ toErase \in SUBSET Sectors
  /\ block \in Seq(Byte) /\ blockType \in Byte /\ idx \in 0 .. Len(block)
  /\ state \in {"Get_BIN_Size", "Write_FLASH_Sectors"}
  /\ progAddress \in Nat
  /\ sectorsToBeErased \in SUBSET Sectors
  /\ currentState \in {"FLASH_AVAILABLE", "FLASH_BUSY"}
  /\ mem \in [Address -> Byte]
  /\ WRPERR \in BOOLEAN
  /\ optcr \in Optcr
  /\ tx \in Seq(Byte)

(* Whenever BootControl reads the next frame the flash driver is free, so no
   handler ever takes its ST_BUSY branch, whatever was sent or reset before. *)
DriverFree == (op = "Receive") <=> (currentState = "FLASH_AVAILABLE")

(* Outside a transfer the statics of BootFlashWrite have their defaults, as
   the comment at Commands.cpp:229 asks for: the next image starts at sector
   2, with no sector left over from an earlier image. *)
ResetToDefault ==
  state = "Get_BIN_Size" =>
    /\ progAddress = SECTOR2_ADDRESS
    /\ op # "EraseForWrite" => sectorsToBeErased = {}

(* During a transfer everything of the announced sectors that the next
   block can still reach is erased, so a block programs exactly its bytes;
   unless the flash has refused an erase and set WRPERR.  Whatever other
   commands, resets or second transfers come in between. *)
AheadErased ==
  (state = "Write_FLASH_Sectors" /\ ~ WRPERR) =>
    \A a \in CellsOfAll(sectorsToBeErased) :
      a >= progAddress + idx => mem[a] = Erased

(* While a transfer's sectors are being erased, those the loop has left
   behind are erased, unless WRPERR says that the flash refused one. *)
ErasedSoFar ==
  (op = "EraseForWrite" /\ ~ WRPERR) =>
    \A a \in CellsOfAll(sectorsToBeErased \ toErase) : mem[a] = Erased

(* The part of the current block that has been programmed into announced
   sectors reads back as it was sent. *)
BlockAsSent ==
  (op = "Program" /\ ~ WRPERR) =>
    \A i \in 1 .. idx :
      progAddress + i - 1 \in CellsOfAll(sectorsToBeErased) =>
        mem[progAddress + i - 1] = block[i]

(* The write pointer stays between the start of sector 2 and the end of the
   flash, however many blocks a host sends. *)
PointerInApplication ==
  progAddress + idx \in SECTOR2_ADDRESS .. FLASH_END

(* The bootloader's own sector changes only while a FLASH_ERASE command that
   named it, or a mass erase, is carried out: no sequence of writes, of any
   announced size, does it. *)
BootloaderSurvives ==
  [][(\E a \in CellsOf(0) : mem'[a] # mem[a]) =>
       \/ op = "EraseCommand" /\ 0 \in sectors
       \/ op = "MassErase"]_vars

(* What SET_FLASH_RW_PROT has just set is what GET_FLASH_RW_PROT reports,
   sector by sector and in both modes, although the meaning of nWRP is
   inverted between them. *)
ReportsWhatWasSet ==
  [][\A f \in Frames, stale \in StaleBytes :
       BootSetRWProt(f, stale) =>
         \A s \in Sectors :
           LET mode == BufferByte(f.data, 1, stale)
               set  == s \in SectorsOfMask(BufferByte(f.data, 2, stale))
           IN ProtectionOf(optcr', s) =
                IF ~ set THEN NO_PROTECTION
                ELSE IF mode = WRITE_PROTECTION THEN W_PROTECTION ELSE RW_PROTECTION]_vars

(* A positive second reply to the size of an image means that the sectors it
   names are erased, "ack that the previously sent sectors have been erased"
   (Commands.cpp:196). *)
AckMeansErased ==
  [][SectorsErased => \A a \in CellsOfAll(sectorsToBeErased) : mem[a] = Erased]_vars

(* The handlers use the flash as FlashSpec allows, one task at a time: what
   FlashDriver implements is what they rely on. *)
Task ==
  CASE op \in {"Receive", "MassErase"} -> [kind |-> "None"]
    [] op = "Program" -> [kind |-> "Program", dest |-> progAddress + idx,
                          data |-> SubSeq(block, idx + 1, Len(block))]
    [] OTHER          -> [kind |-> "Erase", left |-> toErase]

Flash == INSTANCE FlashSpec WITH task <- Task, Protected <- LiveProtection

FlashAsSpecified == Flash!Spec

(* A handler that has begun to erase or to program comes back to BootControl
   and answers, or the board is reset or its code is gone. *)
HandlerReturns ==
  \A o \in {"MassErase", "EraseCommand", "EraseForWrite", "Program"} :
    (phase = "Control" /\ op = o) ~> (op = "Receive" \/ phase # "Control")
=============================================================================
