-------------------------- MODULE BootDevice_proofs --------------------------
(***************************************************************************)
(* BootDevice keeps its types, and during a transfer the flash ahead of    *)
(* the write pointer is erased, for every flash map, every set of frames   *)
(* and every option byte.                                                  *)
(***************************************************************************)
EXTENDS BootDevice, FlashLayout_proofs

USE DEF DeviceAssumption

-----------------------------------------------------------------------------
(* What the bootloader transmits is a sequence of bytes. *)
LEMMA StatusByteType ==
  ASSUME NEW status \in Byte
  PROVE  StatusByte(status) \in Seq(Byte)
BY DEF StatusByte

LEMMA ReplyType ==
  ASSUME NEW cmd \in Byte, NEW data \in Seq(Byte), Len(data) \in Byte
  PROVE  PositiveReply(cmd, data) \in Seq(Byte)
BY DEF PositiveReply, Byte, POSITIVE_RESP

LEMMA CodesAreBytes ==
  /\ serviceTable \subseteq Byte
  /\ {ST_OK, ST_BUSY, TIMEOUT, ST_WRONG_CRC, CMD_NOT_FOUND} \subseteq Byte
  /\ {POSITIVE_RESP, NEGATIVE_RESP, NO_PROTECTION, RW_PROTECTION, W_PROTECTION} \subseteq Byte
  /\ LAST_FRAME \in Byte
  /\ TransmitStatus \subseteq Byte
BY DEF serviceTable, Byte, ST_OK, ST_BUSY, TIMEOUT, ST_WRONG_CRC, CMD_NOT_FOUND,
       POSITIVE_RESP, NEGATIVE_RESP, NO_PROTECTION, RW_PROTECTION, W_PROTECTION,
       LAST_FRAME, TransmitStatus, CMD_CODE_BOOT_GET_VERSION, CMD_CODE_BOOT_GET_MCUID,
       CMD_CODE_BOOT_FLASH_ERASE, CMD_CODE_BOOT_FLASH_WRITE, CMD_CODE_BOOT_FLASH_VERIFY,
       CMD_CODE_BOOT_READ_FLASH_PROT_STATUS, CMD_CODE_BOOT_GET_FLASH_RW_PROT,
       CMD_CODE_BOOT_JUMP_TO_APP, CMD_CODE_BOOT_SET_FLASH_RW_PROT

LEMMA EraseReplyType ==
  ASSUME NEW requested, NEW response \in Byte
  PROVE  EraseReply(requested, response) \in Seq(Byte)
<1> DEFINE answers == [i \in 1 .. FLASH_NUMBER_OF_SECTORS |->
                         IF i - 1 \in requested THEN response ELSE 0]
<1>1. FLASH_NUMBER_OF_SECTORS \in Nat /\ FLASH_NUMBER_OF_SECTORS \in Byte
  BY LayoutAssumption DEF Byte
<1>2. \A i \in 1 .. FLASH_NUMBER_OF_SECTORS : answers[i] \in Byte
  BY DEF Byte
<1>3. answers \in [1 .. FLASH_NUMBER_OF_SECTORS -> Byte]
  BY <1>2
<1>4. answers \in Seq(Byte) /\ Len(answers) = FLASH_NUMBER_OF_SECTORS
  BY <1>1, <1>3
<1> HIDE DEF answers
<1>5. PositiveReply(CMD_CODE_BOOT_FLASH_ERASE, answers) \in Seq(Byte)
  BY <1>1, <1>4, ReplyType, CodesAreBytes DEF serviceTable
<1>6. QED
  BY <1>5 DEF EraseReply, answers

LEMMA RWProtReplyType ==
  ASSUME NEW o
  PROVE  RWProtReply(o) \in Seq(Byte)
<1> DEFINE levels == [i \in 1 .. FLASH_NUMBER_OF_SECTORS |-> ProtectionOf(o, i - 1)]
           header == <<CMD_CODE_BOOT_GET_FLASH_RW_PROT, POSITIVE_RESP,
                       FLASH_NUMBER_OF_SECTORS + NUMBER_CONTROL_BYTES>>
<1>1. FLASH_NUMBER_OF_SECTORS \in Nat /\ FLASH_NUMBER_OF_SECTORS + NUMBER_CONTROL_BYTES \in Byte
  BY LayoutAssumption DEF Byte, NUMBER_CONTROL_BYTES
<1>2. \A i \in 1 .. FLASH_NUMBER_OF_SECTORS : ProtectionOf(o, i - 1) \in Byte
  BY CodesAreBytes DEF ProtectionOf
<1>3. levels \in [1 .. FLASH_NUMBER_OF_SECTORS -> Byte]
  BY <1>2
<1>4. levels \in Seq(Byte)
  BY <1>1, <1>3
<1>5. header \in Seq(Byte)
  BY <1>1, CodesAreBytes DEF serviceTable
<1> HIDE DEF levels, header
<1>6. header \o levels \in Seq(Byte)
  BY <1>4, <1>5
<1>7. QED
  BY <1>6 DEF RWProtReply, header, levels

LEMMA AckTypes ==
  /\ \A S \in SUBSET Sectors : SectorsAck(S) \in Seq(Byte)
  /\ BlockAck \in Seq(Byte)
<1>1. ASSUME NEW S \in SUBSET Sectors
      PROVE  SectorsAck(S) \in Seq(Byte)
  <2>1. <<MaskOfSectors(S)>> \in Seq(Byte) /\ Len(<<MaskOfSectors(S)>>) = 1
    BY MaskType
  <2>2. 1 \in Byte
    BY DEF Byte
  <2>3. QED
    BY <2>1, <2>2, ReplyType, CodesAreBytes DEF SectorsAck, serviceTable
<1>2. BlockAck \in Seq(Byte)
  <2>1. <<>> \in Seq(Byte) /\ Len(<<>>) = 0 /\ 0 \in Byte
    BY DEF Byte
  <2>2. QED
    BY <2>1, ReplyType, CodesAreBytes DEF BlockAck, serviceTable
<1>3. QED
  BY <1>1, <1>2

LEMMA RWProtFailureType == GetFailure(ST_BUSY) \in Seq(Byte) /\ SetFailure(ST_BUSY) \in Seq(Byte)
<1>1. /\ <<CMD_CODE_BOOT_GET_FLASH_RW_PROT, NEGATIVE_RESP, 0>> \in Seq(Byte)
      /\ <<CMD_CODE_BOOT_GET_FLASH_RW_PROT>> \in Seq(Byte)
  BY CodesAreBytes DEF serviceTable, Byte
<1>2. QED
  BY <1>1, StatusByteType, CodesAreBytes DEF GetFailure, SetFailure

(* Transmitting bytes keeps the host's queue a queue of bytes. *)
LEMMA TransmitType ==
  ASSUME tx \in Seq(Byte), NEW bytes \in Seq(Byte), Transmit(bytes)
  PROVE  tx' \in Seq(Byte)
BY DEF Transmit

LEMMA MaskNamesSectors ==
  ASSUME NEW mask PROVE SectorsOfMask(mask) \in SUBSET Sectors
BY DEF SectorsOfMask

LEMMA OptcrTypes ==
  /\ OptcrAtReset \in Optcr
  /\ \A mode, mask : OptcrAfterSet(mode, mask) \in Optcr
BY MaskNamesSectors, DeviceAssumption DEF OptcrAtReset, OptcrAfterSet, Optcr

(* The next sector of the erase loop is one of those left. *)
LEMMA NextToEraseType ==
  ASSUME toErase \in SUBSET Sectors, toErase # {}
  PROVE  NextToErase \in toErase /\ NextToErase \in Sectors
BY SmallestSector DEF NextToErase

LEMMA FrameType ==
  ASSUME NEW f \in Frames
  PROVE  f.frameType \in Byte /\ f.cmd \in Byte /\ f.data \in Seq(Byte) /\ Len(f.data) \in Byte
BY DeviceAssumption DEF FrameSet

-----------------------------------------------------------------------------
(* The commands BootControl answers without touching any state. *)
LEMMA TypeReplies ==
  ASSUME TypeOK, NEW f \in Frames,
         \/ WrongCRC(f)
         \/ CommandNotFound(f)
         \/ \E status \in TransmitStatus : BootGetVersion(f, status) \/ BootGetMCUID(f, status)
         \/ BootFlashVerify(f)
         \/ BootReadFlashProtStatus(f)
         \/ BootGetRWProt(f)
         \/ BootJumpToApplication(f)
  PROVE  TypeOK'
<1>1. /\ UNCHANGED <<transfer, driver, flash>>
      /\ phase' \in {phase, "App"}
  BY DEF WrongCRC, CommandNotFound, BootGetVersion, BootGetMCUID, BootFlashVerify,
         BootReadFlashProtStatus, BootGetRWProt, BootJumpToApplication, vars
<1>2. tx \in Seq(Byte)
  BY DEF TypeOK
<1>3. tx' \in Seq(Byte)
  <2>1. CASE WrongCRC(f) \/ CommandNotFound(f)
    BY <2>1, <1>2, StatusByteType, CodesAreBytes, TransmitType DEF WrongCRC, CommandNotFound
  <2>2. CASE \E status \in TransmitStatus : BootGetVersion(f, status) \/ BootGetMCUID(f, status)
    <3>1. PICK status \in TransmitStatus : BootGetVersion(f, status) \/ BootGetMCUID(f, status)
      BY <2>2
    <3>2. StatusByte(status) \in Seq(Byte)
      BY StatusByteType, CodesAreBytes
    <3>3. /\ PositiveReply(f.cmd, bootloaderVersion) \in Seq(Byte)
          /\ PositiveReply(f.cmd, mcu_id) \in Seq(Byte)
      BY ReplyType, FrameType, DeviceAssumption
    <3>4. /\ PositiveReply(f.cmd, bootloaderVersion) \o StatusByte(status) \in Seq(Byte)
          /\ PositiveReply(f.cmd, mcu_id) \o StatusByte(status) \in Seq(Byte)
      BY <3>2, <3>3
    <3>5. QED
      BY <3>1, <3>4, <1>2, TransmitType DEF BootGetVersion, BootGetMCUID
  <2>3. CASE BootFlashVerify(f)
    BY <2>3, <1>2 DEF BootFlashVerify, vars
  <2>4. CASE BootReadFlashProtStatus(f)
    <3>1. <<OPTION_BYTES.RDP>> \in Seq(Byte) /\ Len(<<OPTION_BYTES.RDP>>) = 1 /\ 1 \in Byte
      BY DeviceAssumption DEF Byte
    <3>2. PositiveReply(f.cmd, <<OPTION_BYTES.RDP>>) \in Seq(Byte)
      BY <3>1, ReplyType, FrameType
    <3>3. QED
      BY <3>2, <2>4, <1>2, TransmitType DEF BootReadFlashProtStatus
  <2>5. CASE BootGetRWProt(f)
    BY <2>5, <1>2, RWProtReplyType, RWProtFailureType, TransmitType DEF BootGetRWProt
  <2>6. CASE BootJumpToApplication(f)
    <3>1. <<>> \in Seq(Byte) /\ Len(<<>>) = 0 /\ 0 \in Byte
      BY DEF Byte
    <3>2. PositiveReply(f.cmd, <<>>) \in Seq(Byte)
      BY <3>1, ReplyType, FrameType
    <3>3. QED
      BY <3>2, <2>6, <1>2, TransmitType DEF BootJumpToApplication
  <2>7. QED
    BY <2>1, <2>2, <2>3, <2>4, <2>5, <2>6
<1>4. QED
  BY <1>1, <1>3 DEF TypeOK, transfer, driver, flash

LEMMA TypeSetRWProt ==
  ASSUME TypeOK, NEW f \in Frames, NEW stale \in StaleBytes, BootSetRWProt(f, stale)
  PROVE  TypeOK'
<1>1. <<>> \in Seq(Byte) /\ Len(<<>>) = 0 /\ 0 \in Byte
  BY DEF Byte
<1>2. PositiveReply(CMD_CODE_BOOT_GET_FLASH_RW_PROT, <<>>) \in Seq(Byte)
  BY <1>1, ReplyType, CodesAreBytes DEF serviceTable
<1>3. tx' \in Seq(Byte)
  BY <1>2, RWProtFailureType, TransmitType DEF BootSetRWProt, TypeOK
<1>4. optcr' \in Optcr
  BY OptcrTypes DEF BootSetRWProt, TypeOK
<1>5. QED
  BY <1>3, <1>4 DEF TypeOK, BootSetRWProt, transfer, driver

LEMMA TypeMassErase ==
  ASSUME TypeOK, NEW f \in Frames, NEW stale \in StaleBytes, MassErase(f, stale)
  PROVE  TypeOK'
<1>1. tx' \in Seq(Byte)
  BY StatusByteType, CodesAreBytes, TransmitType DEF MassErase, TypeOK
<1>2. op' \in {op, "MassErase"} /\ currentState' \in {currentState, "FLASH_BUSY"}
  BY DEF MassErase
<1>3. QED
  BY <1>1, <1>2 DEF TypeOK, MassErase, transfer, flash

LEMMA TypeAllErased ==
  ASSUME TypeOK, AllErased
  PROVE  TypeOK'
<1>1. EraseCells(mem, Address) \in [Address -> Byte]
  BY EraseCellsType DEF TypeOK
<1>2. mem' \in [Address -> Byte]
  BY <1>1 DEF AllErased, ErasingAll, TypeOK
<1>3. /\ WRPERR' \in BOOLEAN /\ phase' \in {phase, "Halted"}
      /\ op' \in {op, "Receive"} /\ currentState' \in {currentState, "FLASH_AVAILABLE"}
  BY DEF AllErased, ErasingAll, TypeOK
<1>4. QED
  BY <1>2, <1>3 DEF TypeOK, AllErased, transfer

LEMMA TypeFlashErase ==
  ASSUME TypeOK, NEW f \in Frames, NEW stale \in StaleBytes, NEW status \in TransmitStatus,
         BootFlashErase(f, stale, status)
  PROVE  TypeOK'
<1> DEFINE requested == SectorsOfMask(BufferByte(f.data, 1, stale))
<1>1. EraseReply(requested, NEGATIVE_RESP) \in Seq(Byte) /\ StatusByte(status) \in Seq(Byte)
  BY EraseReplyType, StatusByteType, CodesAreBytes
<1>2. EraseReply(requested, NEGATIVE_RESP) \o StatusByte(status) \in Seq(Byte)
  BY <1>1
<1>3. tx' \in Seq(Byte)
  BY <1>2, TransmitType DEF BootFlashErase, TypeOK
<1>4. requested \in SUBSET Sectors
  BY MaskNamesSectors
<1>5. QED
  BY <1>3, <1>4 DEF TypeOK, BootFlashErase, transfer, flash

LEMMA TypeGetBinSize ==
  ASSUME TypeOK, NEW f \in Frames, NEW stale \in StaleBytes, GetBinSize(f, stale)
  PROVE  TypeOK'
<1>1. sectorsToBeErased' \in SUBSET Sectors
  BY SectorsForFlashType DEF GetBinSize
<1>2. /\ SectorsAck(sectorsToBeErased') \in Seq(Byte)
      /\ StatusByte(ST_BUSY) \in Seq(Byte)
  BY <1>1, AckTypes, StatusByteType, CodesAreBytes
<1>3. SectorsAck(sectorsToBeErased') \o StatusByte(ST_BUSY) \in Seq(Byte)
  BY <1>2
<1>4. tx' \in Seq(Byte)
  BY <1>2, <1>3, TransmitType DEF GetBinSize, TypeOK
<1>5. QED
  BY <1>1, <1>4 DEF TypeOK, GetBinSize, flash

(* EndOfBlock keeps the types of BootFlashWrite's statics. *)
LEMMA TypeEndOfBlock ==
  ASSUME TypeOK, NEW frameType, NEW length \in Nat, EndOfBlock(frameType, length)
  PROVE  /\ state' \in {"Get_BIN_Size", "Write_FLASH_Sectors"}
         /\ progAddress' \in Nat
         /\ sectorsToBeErased' \in SUBSET Sectors
BY ApplicationArea DEF TypeOK, EndOfBlock

LEMMA TypeWriteBlock ==
  ASSUME TypeOK, NEW f \in Frames, WriteBlock(f)
  PROVE  TypeOK'
<1>1. Len(f.data) \in Nat /\ f.data \in Seq(Byte) /\ f.frameType \in Byte
  BY FrameType
<1>2. tx' \in Seq(Byte)
  BY StatusByteType, CodesAreBytes, TransmitType DEF WriteBlock, TypeOK
<1>3. /\ state' \in {"Get_BIN_Size", "Write_FLASH_Sectors"}
      /\ progAddress' \in Nat
      /\ sectorsToBeErased' \in SUBSET Sectors
  <2>1. CASE currentState = "FLASH_AVAILABLE"
    BY <2>1 DEF WriteBlock, TypeOK, transfer
  <2>2. CASE currentState # "FLASH_AVAILABLE"
    BY <2>2, <1>1, TypeEndOfBlock DEF WriteBlock
  <2>3. QED
    BY <2>1, <2>2
<1>4. block' \in Seq(Byte) /\ blockType' \in Byte /\ idx' \in 0 .. Len(block')
  BY <1>1 DEF WriteBlock, TypeOK
<1>5. QED
  BY <1>2, <1>3, <1>4 DEF TypeOK, WriteBlock, flash

LEMMA TypeSectorErase ==
  ASSUME TypeOK, SectorErase
  PROVE  TypeOK'
<1>1. EraseCells(mem, CellsOf(NextToErase)) \in [Address -> Byte]
  BY EraseCellsType DEF TypeOK
<1>2. mem' \in [Address -> Byte]
  BY <1>1 DEF SectorErase, LeftToErase, TypeOK
<1>3. WRPERR' \in BOOLEAN
  BY DEF SectorErase, LeftToErase, TypeOK
<1>4. phase' \in {phase, "Halted"} /\ toErase' \in SUBSET Sectors
  BY DEF SectorErase, LeftToErase, TypeOK
<1>5. QED
  BY <1>2, <1>3, <1>4 DEF TypeOK, SectorErase, LeftToErase, transfer

LEMMA TypeEraseCommandDone ==
  ASSUME TypeOK, NEW status \in TransmitStatus, EraseCommandDone(status)
  PROVE  TypeOK'
<1>1. EraseReply(sectors, POSITIVE_RESP) \in Seq(Byte) /\ StatusByte(status) \in Seq(Byte)
  BY EraseReplyType, StatusByteType, CodesAreBytes
<1>2. EraseReply(sectors, POSITIVE_RESP) \o StatusByte(status) \in Seq(Byte)
  BY <1>1
<1>3. tx' \in Seq(Byte)
  BY <1>2, TransmitType DEF EraseCommandDone, TypeOK
<1>4. QED
  BY <1>3 DEF TypeOK, EraseCommandDone, transfer, flash

LEMMA TypeSectorsErased ==
  ASSUME TypeOK, SectorsErased
  PROVE  TypeOK'
<1>1. tx' \in Seq(Byte)
  BY AckTypes, TransmitType DEF SectorsErased, TypeOK
<1>2. QED
  BY <1>1 DEF TypeOK, SectorsErased, flash

LEMMA TypeWriteFlash ==
  ASSUME TypeOK, WriteFlash
  PROVE  TypeOK'
<1>1. idx \in Nat /\ idx < Len(block) /\ Len(block) \in Nat
  BY DEF TypeOK, WriteFlash
<1>2. idx + 1 \in 1 .. Len(block) /\ block[idx + 1] \in Byte
  BY <1>1 DEF TypeOK
<1>3. \A a \in Address : ProgramCell(mem[a], block[idx + 1]) \in Byte
  BY <1>2, BitAndAssumption DEF TypeOK, ProgramCell
<1>4. mem' \in [Address -> Byte]
  BY <1>3 DEF TypeOK, WriteFlash
<1>5. idx' \in 0 .. Len(block)
  BY <1>1 DEF WriteFlash
<1>6. phase' \in {phase, "Halted"} /\ WRPERR' \in BOOLEAN
  BY DEF WriteFlash, TypeOK
<1>7. QED
  BY <1>4, <1>5, <1>6 DEF TypeOK, WriteFlash, transfer

LEMMA TypeBlockWritten ==
  ASSUME TypeOK, BlockWritten
  PROVE  TypeOK'
<1>1. tx' \in Seq(Byte)
  BY AckTypes, TransmitType DEF BlockWritten, TypeOK
<1>2. Len(block) \in Nat
  BY DEF TypeOK
<1>3. /\ state' \in {"Get_BIN_Size", "Write_FLASH_Sectors"}
      /\ progAddress' \in Nat
      /\ sectorsToBeErased' \in SUBSET Sectors
  BY <1>2, TypeEndOfBlock DEF BlockWritten
<1>4. block' = <<>> /\ idx' = 0 /\ blockType' \in Byte
  BY CodesAreBytes DEF BlockWritten
<1>5. block' \in Seq(Byte) /\ idx' \in 0 .. Len(block')
  BY <1>4
<1>6. QED
  BY <1>1, <1>3, <1>4, <1>5 DEF TypeOK, BlockWritten, flash

LEMMA TypeReset ==
  ASSUME TypeOK, NEW gone, Reset(gone)
  PROVE  TypeOK'
<1>1. mem' \in [Address -> Byte]
  BY EraseCellsType DEF Reset, TypeOK
<1>2. <<>> \in Seq(Byte) /\ 0 \in 0 .. Len(<<>>) /\ LAST_FRAME \in Byte
  BY CodesAreBytes
<1>3. optcr' \in Optcr /\ progAddress' \in Nat
  BY OptcrTypes, ApplicationArea DEF Reset
<1>4. QED
  BY <1>1, <1>2, <1>3 DEF TypeOK, Reset

LEMMA TypeInit == Init => TypeOK
<1>1. <<>> \in Seq(Byte) /\ 0 \in 0 .. Len(<<>>) /\ LAST_FRAME \in Byte
  BY CodesAreBytes
<1>2. QED
  BY <1>1, OptcrTypes, ApplicationArea, DeviceAssumption DEF Init, TypeOK

LEMMA TypeStep == TypeOK /\ [Next]_vars => TypeOK'
<1> SUFFICES ASSUME TypeOK, [Next]_vars PROVE TypeOK'
  OBVIOUS
<1>1. CASE ButtonPressed \/ BootTimeout
  <2>1. tx' \in Seq(Byte)
    BY <1>1, TransmitType, DeviceAssumption DEF ButtonPressed, BootTimeout, TypeOK
  <2>2. QED
    BY <1>1, <2>1 DEF ButtonPressed, BootTimeout, TypeOK, transfer, driver, flash
<1>2. CASE \E f \in Frames : Receive(f)
  BY <1>2, TypeReplies, TypeSetRWProt, TypeMassErase, TypeFlashErase, TypeGetBinSize,
     TypeWriteBlock DEF Receive
<1>3. CASE Continue
  BY <1>3, TypeAllErased, TypeSectorErase, TypeEraseCommandDone, TypeSectorsErased, TypeWriteFlash,
     TypeBlockWritten DEF Continue
<1>4. CASE \E gone \in SUBSET HalfErased : Reset(gone)
  BY <1>4, TypeReset
<1>5. CASE HostReads
  <2>1. tx' \in Seq(Byte)
    BY <1>5 DEF HostReads, Take, TypeOK
  <2>2. QED
    BY <1>5, <2>1 DEF HostReads, TypeOK, transfer, driver, flash
<1>6. CASE UNCHANGED vars
  BY <1>6 DEF vars, TypeOK, transfer, driver, flash
<1>7. QED
  BY <1>1, <1>2, <1>3, <1>4, <1>5, <1>6 DEF Next

(* Type correctness, for every flash map and every host. *)
THEOREM TypeCorrect == Spec => []TypeOK
BY TypeInit, TypeStep, PTL DEF Spec

-----------------------------------------------------------------------------
(* The inductive invariant.  The properties of BootDevice are not inductive *)
(* by themselves: they rest on where the handlers' loops stand, and         *)
(* AheadErased on what the erase loop has done so far.                      *)

(* A loop has work only during its own operation, an erase for a write      *)
(* comes before its transfer, and only application sectors are announced.   *)
Bookkeeping ==
  /\ op \in {"Receive", "MassErase", "Program"} => toErase = {}
  /\ op # "Program" => idx = 0
  /\ op = "EraseForWrite" => state = "Get_BIN_Size" /\ toErase \subseteq sectorsToBeErased
  /\ op = "Program" => state = "Write_FLASH_Sectors"
  /\ op = "EraseCommand" => toErase \subseteq sectors
  /\ \A s \in sectorsToBeErased : s >= SECTOR2

IInv ==
  /\ Bookkeeping
  /\ DriverFree
  /\ ResetToDefault
  /\ PointerInApplication
  /\ ErasedSoFar
  /\ AheadErased
  /\ BlockAsSent

(* None of it looks at phase, optcr or tx. *)
LEMMA IInvUnchanged ==
  ASSUME IInv, UNCHANGED <<transfer, driver, mem, WRPERR>>
  PROVE  IInv'
BY DEF IInv, Bookkeeping, DriverFree, ResetToDefault, PointerInApplication, ErasedSoFar,
       AheadErased, BlockAsSent, transfer, driver

LEMMA AnnouncedCells ==
  ASSUME NEW S \in SUBSET Sectors
  PROVE  CellsOfAll(S) \subseteq Address
BY CellsInFlash DEF CellsOfAll

LEMMA IInvMassErase ==
  ASSUME TypeOK, IInv, NEW f \in Frames, NEW stale \in StaleBytes, MassErase(f, stale)
  PROVE  IInv'
<1>1. op = "Receive" /\ currentState = "FLASH_AVAILABLE"
  BY DEF MassErase, Accepts, Listening, IInv, DriverFree
<1>2. /\ op' = "MassErase" /\ currentState' = "FLASH_BUSY"
      /\ UNCHANGED <<transfer, flash, sectors, toErase, block, blockType, idx>>
  BY <1>1 DEF MassErase
<1>3. QED
  BY <1>1, <1>2 DEF IInv, Bookkeeping, DriverFree, ResetToDefault, PointerInApplication,
                    ErasedSoFar, AheadErased, BlockAsSent, transfer, flash

LEMMA IInvAllErased ==
  ASSUME TypeOK, IInv, AllErased
  PROVE  IInv'
<1>1. /\ op = "MassErase" /\ op' \in {"MassErase", "Receive"}
      /\ UNCHANGED <<transfer, sectors, toErase, block, blockType, idx>>
  BY DEF AllErased, ErasingAll
<1>2. DriverFree'
  BY <1>1 DEF AllErased, ErasingAll, IInv, DriverFree
<1>3. Bookkeeping' /\ ResetToDefault' /\ PointerInApplication' /\ ErasedSoFar' /\ BlockAsSent'
  BY <1>1 DEF IInv, Bookkeeping, ResetToDefault, PointerInApplication, ErasedSoFar, BlockAsSent,
              transfer
<1>4. CASE WRPERR' = TRUE
  BY <1>2, <1>3, <1>4 DEF IInv, AheadErased
<1>5. CASE mem' = EraseCells(mem, Address)
  <2>1. \A a \in Address : mem'[a] = Erased
    BY <1>5, EraseCellsType DEF TypeOK
  <2>2. AheadErased'
    BY <1>1, <2>1, AnnouncedCells DEF AheadErased, TypeOK, transfer
  <2>3. QED
    BY <1>2, <1>3, <2>2 DEF IInv
<1>6. QED
  BY <1>4, <1>5 DEF AllErased, ErasingAll

LEMMA IInvFlashErase ==
  ASSUME TypeOK, IInv, NEW f \in Frames, NEW stale \in StaleBytes,
         NEW status \in TransmitStatus, BootFlashErase(f, stale, status)
  PROVE  IInv'
<1>1. op = "Receive" /\ currentState = "FLASH_AVAILABLE"
  BY DEF BootFlashErase, Accepts, Listening, IInv, DriverFree
<1>2. /\ op' = "EraseCommand" /\ currentState' = "FLASH_BUSY" /\ toErase' = sectors'
      /\ UNCHANGED <<transfer, flash, block, blockType, idx>>
  BY <1>1 DEF BootFlashErase
<1>3. QED
  BY <1>1, <1>2 DEF IInv, Bookkeeping, DriverFree, ResetToDefault, PointerInApplication,
                    ErasedSoFar, AheadErased, BlockAsSent, transfer, flash

LEMMA IInvGetBinSize ==
  ASSUME TypeOK, IInv, NEW f \in Frames, NEW stale \in StaleBytes, GetBinSize(f, stale)
  PROVE  IInv'
<1>1. /\ op = "Receive" /\ currentState = "FLASH_AVAILABLE"
      /\ state = "Get_BIN_Size" /\ idx = 0
  BY DEF GetBinSize, Accepts, Listening, IInv, DriverFree, Bookkeeping
<1>2. /\ op' = "EraseForWrite" /\ currentState' = "FLASH_BUSY" /\ toErase' = sectorsToBeErased'
      /\ UNCHANGED <<state, progAddress, idx, block>>
  BY <1>1 DEF GetBinSize
<1>3. \A s \in sectorsToBeErased' : s >= SECTOR2
  BY SectorsForFlashType DEF GetBinSize
<1>4. ErasedSoFar'
  <2>1. sectorsToBeErased' \ toErase' = {}
    BY <1>2
  <2>2. CellsOfAll(sectorsToBeErased' \ toErase') = {}
    BY <2>1 DEF CellsOfAll
  <2>3. QED
    BY <2>2 DEF ErasedSoFar
<1>5. QED
  BY <1>1, <1>2, <1>3, <1>4 DEF IInv, Bookkeeping, DriverFree, ResetToDefault,
     PointerInApplication, AheadErased, BlockAsSent

LEMMA IInvWriteBlock ==
  ASSUME TypeOK, IInv, NEW f \in Frames, WriteBlock(f)
  PROVE  IInv'
<1>1. /\ op = "Receive" /\ currentState = "FLASH_AVAILABLE" /\ idx = 0
      /\ state = "Write_FLASH_Sectors"
  BY DEF WriteBlock, Accepts, Listening, IInv, DriverFree, Bookkeeping
<1>2. /\ op' = "Program" /\ currentState' = "FLASH_BUSY" /\ idx' = 0
      /\ UNCHANGED <<transfer, flash, sectors, toErase>>
  BY <1>1 DEF WriteBlock
<1>3. BlockAsSent'
  BY <1>2 DEF BlockAsSent
<1>4. QED
  BY <1>1, <1>2, <1>3 DEF IInv, Bookkeeping, DriverFree, ResetToDefault,
     PointerInApplication, AheadErased, ErasedSoFar, transfer, flash

LEMMA IInvSectorErase ==
  ASSUME TypeOK, IInv, SectorErase
  PROVE  IInv'
<1> DEFINE s == NextToErase
<1>1. /\ op \in {"EraseCommand", "EraseForWrite"} /\ toErase # {}
      /\ toErase' = toErase \ {s}
      /\ UNCHANGED <<transfer, op, sectors, block, blockType, idx, currentState>>
  BY DEF SectorErase, LeftToErase, Erasing
<1>2. s \in toErase /\ s \in Sectors
  BY <1>1, NextToEraseType DEF TypeOK
<1>3. Bookkeeping' /\ DriverFree' /\ ResetToDefault' /\ PointerInApplication'
  BY <1>1 DEF IInv, Bookkeeping, DriverFree, ResetToDefault, PointerInApplication, transfer
<1>4. CASE WRPERR'
  BY <1>3, <1>4 DEF IInv, ErasedSoFar, AheadErased, BlockAsSent
<1>5. CASE ~ WRPERR'
  <2>1. mem' = EraseCells(mem, CellsOf(s)) /\ ~ WRPERR
    BY <1>5 DEF SectorErase, LeftToErase
  <2>2. \A a \in Address : mem'[a] = IF a \in CellsOf(s) THEN Erased ELSE mem[a]
    BY <2>1, EraseCellsType DEF TypeOK
  <2>3. AheadErased'
    BY <1>1, <2>1, <2>2, AnnouncedCells DEF IInv, AheadErased, TypeOK, transfer
  <2>4. ErasedSoFar'
    <3>1. SUFFICES ASSUME op' = "EraseForWrite",
                          NEW t \in (sectorsToBeErased \ toErase)', NEW a \in CellsOf(t)
                   PROVE  mem'[a] = Erased
      BY DEF ErasedSoFar, CellsOfAll
    <3>2. t \in Sectors /\ a \in Address
      BY <1>1, CellsInFlash DEF TypeOK, transfer
    <3>3. CASE t = s
      BY <3>2, <3>3, <2>2
    <3>4. CASE t # s
      <4>1. t \in sectorsToBeErased \ toErase
        BY <1>1, <3>4 DEF transfer
      <4>2. mem[a] = Erased
        BY <1>1, <2>1, <3>1, <4>1 DEF IInv, ErasedSoFar, CellsOfAll
      <4>3. QED
        BY <3>2, <4>2, <2>2
    <3>5. QED
      BY <3>3, <3>4
  <2>5. BlockAsSent'
    BY <1>1 DEF BlockAsSent
  <2>6. QED
    BY <1>3, <2>3, <2>4, <2>5 DEF IInv
<1>6. QED
  BY <1>4, <1>5

LEMMA IInvEraseCommandDone ==
  ASSUME TypeOK, IInv, NEW status \in TransmitStatus, EraseCommandDone(status)
  PROVE  IInv'
<1>1. /\ op = "EraseCommand" /\ toErase = {} /\ op' = "Receive"
      /\ currentState' = "FLASH_AVAILABLE"
      /\ UNCHANGED <<transfer, flash, toErase, idx, block>>
  BY DEF EraseCommandDone
<1>2. QED
  BY <1>1 DEF IInv, Bookkeeping, DriverFree, ResetToDefault, PointerInApplication,
     ErasedSoFar, AheadErased, BlockAsSent, transfer, flash

(* The second acknowledgement: what has been erased so far is everything. *)
LEMMA IInvSectorsErased ==
  ASSUME TypeOK, IInv, SectorsErased
  PROVE  IInv'
<1>1. /\ op = "EraseForWrite" /\ toErase = {} /\ op' = "Receive"
      /\ state' = "Write_FLASH_Sectors" /\ currentState' = "FLASH_AVAILABLE"
      /\ UNCHANGED <<progAddress, sectorsToBeErased, flash, toErase, idx>>
  BY DEF SectorsErased
<1>2. AheadErased'
  BY <1>1 DEF IInv, ErasedSoFar, AheadErased, flash
<1>3. QED
  BY <1>1, <1>2 DEF IInv, Bookkeeping, DriverFree, ResetToDefault, PointerInApplication,
     ErasedSoFar, BlockAsSent, flash

LEMMA IInvWriteFlash ==
  ASSUME TypeOK, IInv, WriteFlash
  PROVE  IInv'
<1> DEFINE dest == progAddress + idx
<1>1. /\ op = "Program" /\ idx \in Nat /\ progAddress \in Nat
      /\ idx + 1 \in 1 .. Len(block) /\ block[idx + 1] \in Byte
      /\ UNCHANGED <<transfer, op, sectors, toErase, block, blockType, currentState>>
  BY DEF WriteFlash, TypeOK
<1>2. CASE dest \notin Address
  <2>1. UNCHANGED <<transfer, driver, mem, WRPERR>>
    BY <1>1, <1>2 DEF WriteFlash, driver
  <2>2. QED
    BY <2>1, IInvUnchanged
<1>3. CASE dest \in Address
  <2>1. idx' = idx + 1
    BY <1>3 DEF WriteFlash
  <2>2. Bookkeeping' /\ DriverFree' /\ ResetToDefault' /\ ErasedSoFar'
    BY <1>1 DEF IInv, Bookkeeping, DriverFree, ResetToDefault, ErasedSoFar, transfer
  <2>3. PointerInApplication'
    BY <1>1, <1>3, <2>1, ApplicationArea
    DEF IInv, PointerInApplication, Address, transfer
  <2>4. CASE WRPERR'
    BY <2>2, <2>3, <2>4 DEF IInv, AheadErased, BlockAsSent
  <2>5. CASE ~ WRPERR'
    <3>1. /\ ~ WRPERR
          /\ mem' = [mem EXCEPT ![dest] = ProgramCell(@, block[idx + 1])]
      BY <1>3, <2>5 DEF WriteFlash
    <3>2. /\ mem'[dest] = ProgramCell(mem[dest], block[idx + 1])
          /\ \A a \in Address : a # dest => mem'[a] = mem[a]
      BY <1>3, <3>1 DEF TypeOK
    <3>3. CellsOfAll(sectorsToBeErased) \subseteq Address
      BY AnnouncedCells DEF TypeOK
    <3>4. AheadErased'
      BY <1>1, <2>1, <3>1, <3>2, <3>3
      DEF IInv, AheadErased, Bookkeeping, Address, transfer
    <3>5. BlockAsSent'
      <4>1. SUFFICES ASSUME NEW i \in 1 .. idx + 1,
                            progAddress + i - 1 \in CellsOfAll(sectorsToBeErased)
                     PROVE  mem'[progAddress + i - 1] = block[i]
        BY <1>1, <2>1 DEF BlockAsSent, transfer
      <4>2. CASE i = idx + 1
        <5>1. mem[dest] = Erased
          BY <1>1, <3>1, <4>1, <4>2 DEF IInv, AheadErased, Bookkeeping
        <5>2. ProgramCell(mem[dest], block[idx + 1]) = block[idx + 1]
          BY <1>1, <5>1, BitAndAssumption DEF ProgramCell
        <5>3. QED
          BY <1>1, <3>2, <4>2, <5>2
      <4>3. CASE i # idx + 1
        <5>1. i \in 1 .. idx /\ progAddress + i - 1 # dest
          BY <1>1, <4>3
        <5>2. mem[progAddress + i - 1] = block[i]
          BY <1>1, <3>1, <4>1, <5>1 DEF IInv, BlockAsSent
        <5>3. QED
          BY <3>2, <3>3, <4>1, <5>1, <5>2
      <4>4. QED
        BY <4>2, <4>3
    <3>6. QED
      BY <2>2, <2>3, <3>4, <3>5 DEF IInv
  <2>6. QED
    BY <2>4, <2>5
<1>4. QED
  BY <1>2, <1>3

LEMMA IInvBlockWritten ==
  ASSUME TypeOK, IInv, BlockWritten
  PROVE  IInv'
<1>1. /\ op = "Program" /\ idx = Len(block) /\ op' = "Receive" /\ idx' = 0
      /\ currentState' = "FLASH_AVAILABLE" /\ toErase = {}
      /\ state = "Write_FLASH_Sectors"
      /\ UNCHANGED <<flash, sectors, toErase>>
      /\ EndOfBlock(blockType, Len(block))
  BY DEF BlockWritten, IInv, Bookkeeping
<1>2. CASE blockType = LAST_FRAME
  <2>1. state' = "Get_BIN_Size" /\ progAddress' = SECTOR2_ADDRESS /\ sectorsToBeErased' = {}
    BY <1>1, <1>2 DEF EndOfBlock
  <2>2. QED
    BY <1>1, <2>1, ApplicationArea DEF IInv, Bookkeeping, DriverFree, ResetToDefault,
       PointerInApplication, ErasedSoFar, AheadErased, BlockAsSent
<1>3. CASE blockType # LAST_FRAME
  <2>1. progAddress' + idx' = progAddress + idx /\ UNCHANGED <<state, sectorsToBeErased>>
    BY <1>1, <1>3 DEF EndOfBlock, TypeOK
  <2>2. QED
    BY <1>1, <2>1 DEF IInv, Bookkeeping, DriverFree, ResetToDefault,
       PointerInApplication, ErasedSoFar, AheadErased, BlockAsSent, flash
<1>4. QED
  BY <1>2, <1>3

LEMMA IInvReset ==
  ASSUME NEW gone, Reset(gone)
  PROVE  IInv'
BY ApplicationArea DEF Reset, IInv, Bookkeeping, DriverFree, ResetToDefault,
   PointerInApplication, ErasedSoFar, AheadErased, BlockAsSent

LEMMA IInvInit == Init => IInv
BY ApplicationArea DEF Init, IInv, Bookkeeping, DriverFree, ResetToDefault,
   PointerInApplication, ErasedSoFar, AheadErased, BlockAsSent

LEMMA IInvStep == TypeOK /\ IInv /\ [Next]_vars => IInv'
<1> SUFFICES ASSUME TypeOK, IInv, [Next]_vars PROVE IInv'
  OBVIOUS
<1>1. ASSUME NEW f \in Frames, Receive(f)
      PROVE  IInv'
  <2>1. CASE \/ WrongCRC(f)
             \/ CommandNotFound(f)
             \/ \E status \in TransmitStatus : BootGetVersion(f, status) \/ BootGetMCUID(f, status)
             \/ BootFlashVerify(f)
             \/ BootReadFlashProtStatus(f)
             \/ BootGetRWProt(f)
             \/ \E stale \in StaleBytes : BootSetRWProt(f, stale)
             \/ BootJumpToApplication(f)
    <3>1. UNCHANGED <<transfer, driver, mem, WRPERR>>
      BY <2>1 DEF WrongCRC, CommandNotFound, BootGetVersion, BootGetMCUID, BootFlashVerify,
         BootReadFlashProtStatus, BootGetRWProt, BootSetRWProt, BootJumpToApplication, vars, flash
    <3>2. QED
      BY <3>1, IInvUnchanged
  <2>2. CASE \E stale \in StaleBytes : MassErase(f, stale)
    BY <2>2, IInvMassErase
  <2>3. CASE \E stale \in StaleBytes, status \in TransmitStatus : BootFlashErase(f, stale, status)
    BY <2>3, IInvFlashErase
  <2>4. CASE \E stale \in StaleBytes : GetBinSize(f, stale)
    BY <2>4, IInvGetBinSize
  <2>5. CASE WriteBlock(f)
    BY <2>5, IInvWriteBlock
  <2>6. QED
    BY <1>1, <2>1, <2>2, <2>3, <2>4, <2>5 DEF Receive
<1>2. CASE Continue
  BY <1>2, IInvAllErased, IInvSectorErase, IInvEraseCommandDone, IInvSectorsErased, IInvWriteFlash,
     IInvBlockWritten DEF Continue
<1>3. CASE \E gone \in SUBSET HalfErased : Reset(gone)
  BY <1>3, IInvReset
<1>4. CASE ButtonPressed \/ BootTimeout \/ HostReads \/ UNCHANGED vars
  <2>1. UNCHANGED <<transfer, driver, mem, WRPERR>>
    BY <1>4 DEF ButtonPressed, BootTimeout, HostReads, vars, flash
  <2>2. QED
    BY <2>1, IInvUnchanged
<1>5. QED
  BY <1>1, <1>2, <1>3, <1>4 DEF Next

LEMMA Inductive == Spec => [](TypeOK /\ IInv)
<1>1. Init => TypeOK /\ IInv
  BY TypeInit, IInvInit
<1>2. (TypeOK /\ IInv) /\ [Next]_vars => (TypeOK /\ IInv)'
  BY TypeStep, IInvStep
<1>3. QED
  BY <1>1, <1>2, PTL DEF Spec

(* Whatever any host sends and whenever the board is reset, what the next
   block of a transfer can reach in the announced sectors is erased, as long
   as the flash has refused nothing. *)
THEOREM TransferMeetsErasedFlash == Spec => []AheadErased
<1>1. IInv => AheadErased
  BY DEF IInv
<1>2. QED
  BY <1>1, Inductive, PTL

(* The erase loop of a transfer leaves erased sectors behind it. *)
THEOREM ErasingGoesInOrder == Spec => []ErasedSoFar
<1>1. IInv => ErasedSoFar
  BY DEF IInv
<1>2. QED
  BY <1>1, Inductive, PTL

(* Every block lands in the announced sectors as it was sent. *)
THEOREM BlocksAreProgrammed == Spec => []BlockAsSent
<1>1. IInv => BlockAsSent
  BY DEF IInv
<1>2. QED
  BY <1>1, Inductive, PTL

(* Between transfers BootFlashWrite is back at its defaults. *)
THEOREM TransfersStartAfresh == Spec => []ResetToDefault
<1>1. IInv => ResetToDefault
  BY DEF IInv
<1>2. QED
  BY <1>1, Inductive, PTL

(* The write pointer never leaves the application area. *)
THEOREM PointerStays == Spec => []PointerInApplication
<1>1. IInv => PointerInApplication
  BY DEF IInv
<1>2. QED
  BY <1>1, Inductive, PTL

(* The driver is free whenever a frame is read, so no ST_BUSY branch of any
   handler is ever taken. *)
THEOREM DriverIsFree == Spec => []DriverFree
<1>1. IInv => DriverFree
  BY DEF IInv
<1>2. QED
  BY <1>1, Inductive, PTL

-----------------------------------------------------------------------------
(* The two action properties, from the same invariant. *)

OnlyByErase ==
  (\E a \in CellsOf(0) : mem'[a] # mem[a]) =>
     \/ op = "EraseCommand" /\ 0 \in sectors
     \/ op = "MassErase"

(* The erase loop of a write never works on sector 0. *)
LEMMA SectorZeroIsNamed ==
  ASSUME TypeOK, IInv, Erasing, toErase # {},
         NEW a \in CellsOf(0), a \in CellsOf(NextToErase)
  PROVE  op = "EraseCommand" /\ 0 \in sectors
<1>1. NextToErase \in toErase /\ NextToErase \in Sectors /\ 0 \in Sectors
  BY NextToEraseType, ApplicationArea DEF TypeOK
<1>2. NextToErase = 0
  BY <1>1, SectorsDisjoint
<1>3. op # "EraseForWrite"
  BY <1>1, <1>2 DEF IInv, Bookkeeping, SECTOR2
<1>4. QED
  BY <1>1, <1>2, <1>3 DEF Erasing, IInv, Bookkeeping

LEMMA OnlyByEraseStep == TypeOK /\ IInv /\ [Next]_vars => OnlyByErase \/ UNCHANGED vars
<1> SUFFICES ASSUME TypeOK, IInv, [Next]_vars, NEW a \in CellsOf(0), mem'[a] # mem[a]
             PROVE  \/ op = "EraseCommand" /\ 0 \in sectors
                    \/ op = "MassErase"
  BY DEF OnlyByErase
<1>1. a \in Address /\ 0 \in Sectors
  BY ApplicationArea, CellsInFlash
<1>2. ASSUME NEW f \in Frames, Receive(f)
      PROVE  FALSE
  BY <1>2 DEF Receive, MassErase, WrongCRC, CommandNotFound, BootGetVersion, BootGetMCUID,
     BootFlashVerify, BootReadFlashProtStatus, BootGetRWProt, BootSetRWProt,
     BootJumpToApplication, BootFlashErase, GetBinSize, WriteBlock, vars, flash
<1>3. CASE SectorErase
  <2>1. mem' = EraseCells(mem, CellsOf(NextToErase))
    BY <1>3 DEF SectorErase, LeftToErase
  <2>2. a \in CellsOf(NextToErase)
    BY <1>1, <2>1, EraseCellsType DEF TypeOK
  <2>3. QED
    BY <1>3, <2>2, SectorZeroIsNamed DEF SectorErase, LeftToErase
<1>4. CASE WriteFlash
  <2>1. progAddress + idx \in Nat /\ progAddress + idx >= SECTOR2_ADDRESS
    BY ApplicationArea DEF TypeOK, IInv, PointerInApplication
  <2>2. a < SECTOR2_ADDRESS
    <3>1. /\ 1 \in 0 .. FLASH_NUMBER_OF_SECTORS /\ 2 \in 0 .. FLASH_NUMBER_OF_SECTORS
      BY LayoutAssumption
    <3>2. SECTOR_ADDRESS[1] \in Nat /\ SECTOR_ADDRESS[2] \in Nat
          /\ SECTOR_ADDRESS[1] < SECTOR_ADDRESS[2]
      BY <3>1, LayoutAssumption
    <3>3. a < SECTOR_ADDRESS[1] /\ a \in Nat
      BY <1>1, <3>2, LayoutAssumption DEF CellsOf
    <3>4. QED
      BY <3>2, <3>3 DEF SECTOR2_ADDRESS, SECTOR2
  <2>3. a # progAddress + idx
    BY <1>1, <2>1, <2>2, ApplicationArea DEF Address
  <2>4. mem'[a] = mem[a]
    BY <1>1, <1>4, <2>3 DEF WriteFlash, TypeOK
  <2>5. QED
    BY <2>4
<1>5. CASE SectorsErased \/ BlockWritten \/ \E status \in TransmitStatus : EraseCommandDone(status)
  BY <1>5 DEF SectorsErased, BlockWritten, EraseCommandDone, flash
<1>6. CASE \E gone \in SUBSET HalfErased : Reset(gone)
  <2>1. PICK gone \in SUBSET HalfErased : Reset(gone)
    BY <1>6
  <2>2. a \in gone
    BY <1>1, <2>1, EraseCellsType DEF TypeOK, Reset
  <2>3. op = "MassErase" \/ (Erasing /\ toErase # {} /\ a \in CellsOf(NextToErase))
    <3>1. a \in HalfErased
      BY <2>1, <2>2
    <3>2. CASE op # "MassErase"
      BY <3>1, <3>2 DEF HalfErased, ErasingAll
    <3>3. QED
      BY <3>2
  <2>4. QED
    BY <2>3, SectorZeroIsNamed
<1>7. CASE ButtonPressed \/ BootTimeout \/ HostReads \/ UNCHANGED vars
  BY <1>7 DEF ButtonPressed, BootTimeout, HostReads, vars, flash
<1>8. CASE AllErased
  BY <1>8 DEF AllErased, ErasingAll
<1>9. QED
  BY <1>2, <1>3, <1>4, <1>5, <1>6, <1>7, <1>8 DEF Next, Continue

(* Nothing but an erase that names sector 0 destroys the bootloader. *)
THEOREM BootloaderIsSafe == Spec => BootloaderSurvives
<1>1. TypeOK /\ IInv /\ [Next]_vars => [OnlyByErase]_vars
  BY OnlyByEraseStep
<1>2. Spec => [][OnlyByErase]_vars
  BY <1>1, Inductive, PTL DEF Spec
<1>3. QED
  BY <1>2 DEF BootloaderSurvives, OnlyByErase

-----------------------------------------------------------------------------
(* The work a handler has begun and not yet done, in steps: a sector to      *)
(* erase or a byte to program each, and one to answer.                       *)
Work == CASE op = "Receive" -> 0
          [] op = "Program" -> Len(block) - idx + 1
          [] OTHER          -> Cardinality(toErase) + 1

(* While a handler works no frame is taken: what happens is its own next
   step, which leaves less to do or has no code to go on with, the host's
   reading, or a reset. *)
WorkIsDone ==
  phase = "Control" /\ op # "Receive" =>
    \/ Continue /\ (phase' = "Halted" \/ Work' < Work)
    \/ HostReads /\ UNCHANGED Work
    \/ \E gone \in SUBSET HalfErased : Reset(gone)

LEMMA WorkWhen ==
  ASSUME TypeOK
  PROVE  /\ op = "Receive" => Work = 0
         /\ op = "Program" => Work = Len(block) - idx + 1 /\ Len(block) - idx \in Nat
         /\ op \in {"MassErase", "EraseCommand", "EraseForWrite"} =>
              Work = Cardinality(toErase) + 1 /\ Cardinality(toErase) \in 0 .. 8
<1>1. Cardinality(toErase) \in 0 .. 8
  BY SectorsAreFew DEF TypeOK
<1>2. Len(block) - idx \in Nat
  <2>1. Len(block) \in Nat /\ idx \in 0 .. Len(block)
    BY DEF TypeOK
  <2>2. QED
    BY <2>1
<1>3. QED
  BY <1>1, <1>2 DEF Work

LEMMA WorkStep == TypeOK /\ TypeOK' /\ [Next]_vars => WorkIsDone \/ UNCHANGED vars
<1> SUFFICES ASSUME TypeOK, TypeOK', Next, phase = "Control", op # "Receive"
             PROVE  WorkIsDone
  BY DEF WorkIsDone
<1>1. ASSUME NEW f \in Frames, Receive(f) PROVE FALSE
  BY <1>1 DEF Receive, Listening, Accepts, WrongCRC, CommandNotFound, BootGetVersion, BootGetMCUID,
     BootFlashVerify, BootReadFlashProtStatus, BootGetRWProt, BootSetRWProt, MassErase,
     BootJumpToApplication, BootFlashErase, GetBinSize, WriteBlock
<1>2. ~ ButtonPressed /\ ~ BootTimeout
  BY DEF ButtonPressed, BootTimeout
<1>3. CASE SectorErase
  <2>1. op \in {"EraseCommand", "EraseForWrite"} /\ op' = op
    BY <1>3 DEF SectorErase, Erasing
  <2>2. toErase' = toErase \ {NextToErase} /\ NextToErase \in toErase
    BY <1>3, NextToEraseType DEF SectorErase, LeftToErase, TypeOK
  <2>3. Cardinality(toErase') < Cardinality(toErase)
    <3>1. toErase \in SUBSET Sectors
      BY DEF TypeOK
    <3>2. QED
      BY <3>1, <2>2, SectorsAreFew
  <2>4. Work = Cardinality(toErase) + 1 /\ Cardinality(toErase) \in 0 .. 8
    BY <2>1, WorkWhen
  <2>5. Work' = Cardinality(toErase') + 1
    BY <2>1 DEF Work
  <2>6. Cardinality(toErase') \in 0 .. 8
    <3>1. toErase' \in SUBSET Sectors
      BY DEF TypeOK
    <3>2. QED
      BY <3>1, SectorsAreFew
  <2>7. Work' < Work
    BY <2>3, <2>4, <2>5, <2>6
  <2>8. QED
    BY <1>3, <2>1, <2>7 DEF WorkIsDone, Continue
<1>4. CASE SectorsErased \/ BlockWritten \/ \E status \in TransmitStatus : EraseCommandDone(status)
  <2>1. op' = "Receive"
    BY <1>4 DEF SectorsErased, BlockWritten, EraseCommandDone
  <2>2. Work' = 0
    BY <2>1 DEF Work
  <2>3. Work > 0
    BY WorkWhen DEF TypeOK
  <2>4. QED
    BY <1>4, <2>1, <2>2, <2>3 DEF WorkIsDone, Continue
<1>5. CASE WriteFlash
  <2>1. op = "Program" /\ op' = op /\ block' = block /\ idx < Len(block)
    BY <1>5 DEF WriteFlash
  <2>2. idx' = idx + 1 \/ phase' = "Halted"
    BY <1>5 DEF WriteFlash
  <2>3. Work = Len(block) - idx + 1 /\ Work' = Len(block) - idx' + 1
    BY <2>1 DEF Work
  <2>4. Len(block) \in Nat /\ idx \in Nat
    BY DEF TypeOK
  <2>5. Work' < Work \/ phase' = "Halted"
    BY <2>2, <2>3, <2>4
  <2>6. QED
    BY <1>5, <2>5, Zenon DEF WorkIsDone, Continue
<1>6. CASE HostReads
  <2>1. UNCHANGED Work
    BY <1>6 DEF HostReads, driver, Work
  <2>2. QED
    BY <1>6, <2>1 DEF WorkIsDone
<1>7. CASE \E gone \in SUBSET HalfErased : Reset(gone)
  BY <1>7, Zenon DEF WorkIsDone
<1>8. CASE AllErased
  <2>1. phase' = "Halted" \/ op' = "Receive"
    BY <1>8 DEF AllErased, ErasingAll
  <2>2. op' = "Receive" => Work' = 0
    BY DEF Work
  <2>3. Work > 0
    BY <1>8, WorkWhen DEF AllErased, ErasingAll
  <2>4. QED
    BY <1>8, <2>1, <2>2, <2>3 DEF WorkIsDone, Continue
<1>9. QED
  BY <1>1, <1>2, <1>3, <1>4, <1>5, <1>6, <1>7, <1>8 DEF Next, Continue

(* A block has the bytes of one frame. *)
BlockFits == Len(block) <= 255

LEMMA BlockStep == TypeOK /\ BlockFits /\ [Next]_vars => BlockFits'
<1> SUFFICES ASSUME TypeOK, BlockFits, [Next]_vars PROVE BlockFits'
  OBVIOUS
<1>1. ASSUME NEW f \in Frames, WriteBlock(f) PROVE block' \in {block, f.data}
  BY <1>1 DEF WriteBlock
<1>2. ASSUME NEW f \in Frames, Receive(f), ~ WriteBlock(f) PROVE block' = block
  BY <1>2 DEF Receive, WrongCRC, CommandNotFound, BootGetVersion, BootGetMCUID,
     BootFlashVerify, BootReadFlashProtStatus, BootGetRWProt, BootSetRWProt, MassErase,
     BootJumpToApplication, BootFlashErase, GetBinSize, vars, driver
<1>3. ASSUME Continue PROVE block' \in {block, <<>>}
  BY <1>3 DEF Continue, AllErased, SectorErase, EraseCommandDone, SectorsErased, WriteFlash, BlockWritten
<1>4. ASSUME ButtonPressed \/ BootTimeout \/ HostReads \/ UNCHANGED vars PROVE block' = block
  BY <1>4 DEF ButtonPressed, BootTimeout, HostReads, vars, driver
<1>5. ASSUME \E gone \in SUBSET HalfErased : Reset(gone) PROVE block' = <<>>
  BY <1>5, Zenon DEF Reset
<1>6. block' = block \/ block' = <<>> \/ \E f \in Frames : block' = f.data
  <2>1. CASE \E f \in Frames : Receive(f)
    BY <2>1, <1>1, <1>2
  <2>2. CASE ~ \E f \in Frames : Receive(f)
    BY <2>2, <1>3, <1>4, <1>5 DEF Next
  <2>3. QED
    BY <2>1, <2>2
<1>7. ASSUME NEW f \in Frames PROVE Len(f.data) <= 255
  <2>1. Len(f.data) \in Byte
    BY FrameType
  <2>2. \A n \in Byte : n <= 255
    BY DEF Byte
  <2>3. QED
    BY <2>1, <2>2, Zenon
<1>8. QED
  BY <1>6, <1>7 DEF BlockFits

(* The handlers never take on more than the 255 bytes of a frame or the
   sectors of the flash, whatever is sent. *)
THEOREM HandlersAreShort == Spec => [](Work \in 0 .. 256)
<1>1. Init => BlockFits
  BY DEF Init, BlockFits
<1>2. TypeOK /\ BlockFits => Work \in 0 .. 256
  <2> SUFFICES ASSUME TypeOK, BlockFits PROVE Work \in 0 .. 256
    OBVIOUS
  <2>1. Len(block) \in Nat /\ idx \in Nat /\ Len(block) <= 255
    BY DEF TypeOK, BlockFits
  <2>2. CASE op = "Receive"
    BY <2>2, WorkWhen
  <2>3. CASE op = "Program"
    <3>1. Work = Len(block) - idx + 1 /\ Len(block) - idx \in Nat
      BY <2>3, WorkWhen, Zenon
    <3>2. \A l, i \in Nat : l <= 255 /\ l - i \in Nat => l - i + 1 \in 0 .. 256
      OBVIOUS
    <3>3. Len(block) - idx + 1 \in 0 .. 256
      BY <2>1, <3>1, <3>2, Zenon
    <3>4. QED
      BY <3>1, <3>3, Zenon
  <2>4. CASE op \in {"MassErase", "EraseCommand", "EraseForWrite"}
    <3>1. Work = Cardinality(toErase) + 1 /\ Cardinality(toErase) \in 0 .. 8
      BY <2>4, WorkWhen, Zenon
    <3>2. QED
      BY <3>1
  <2>5. QED
    BY <2>2, <2>3, <2>4 DEF TypeOK
<1>3. QED
  BY <1>1, <1>2, BlockStep, TypeCorrect, PTL DEF Spec

(* A handler that has begun runs down its work, and nothing gives it more:
   with HandlersAreShort, it takes at most 256 steps of the processor to
   answer.  This is the part of HandlerReturns that needs no fairness. *)
THEOREM HandlersRunDown == Spec => [][WorkIsDone]_vars
<1>1. TypeOK /\ TypeOK' /\ [Next]_vars => [WorkIsDone]_vars
  BY WorkStep
<1>2. QED
  BY <1>1, TypeCorrect, PTL DEF Spec

Reported(f, stale) ==
  BootSetRWProt(f, stale) =>
    \A s \in Sectors :
      LET mode == BufferByte(f.data, 1, stale)
          set  == s \in SectorsOfMask(BufferByte(f.data, 2, stale))
      IN ProtectionOf(optcr', s) =
           IF ~ set THEN NO_PROTECTION
           ELSE IF mode = WRITE_PROTECTION THEN W_PROTECTION ELSE RW_PROTECTION

(* A protection that has just been set is reported as it was set. *)
THEOREM ProtectionIsReported == Spec => ReportsWhatWasSet
<1>1. ASSUME IInv, NEW f \in Frames, NEW stale \in StaleBytes
      PROVE  Reported(f, stale)
  <2> DEFINE mode == BufferByte(f.data, 1, stale)
             mask == BufferByte(f.data, 2, stale)
  <2>1. SUFFICES ASSUME BootSetRWProt(f, stale), NEW s \in Sectors
                 PROVE  ProtectionOf(optcr', s) =
                          IF s \notin SectorsOfMask(mask) THEN NO_PROTECTION
                          ELSE IF mode = WRITE_PROTECTION THEN W_PROTECTION ELSE RW_PROTECTION
    BY DEF Reported
  <2>2. currentState = "FLASH_AVAILABLE"
    BY <1>1, <2>1 DEF BootSetRWProt, Accepts, Listening, IInv, DriverFree
  <2>3. optcr' = OptcrAfterSet(mode, mask)
    BY <2>1, <2>2 DEF BootSetRWProt
  <2>4. SectorsOfMask(mask) \subseteq Sectors
    BY MaskNamesSectors
  <2> HIDE DEF mode, mask
  <2>5. QED
    BY <2>3, <2>4 DEF ProtectionOf, ProtectedBy, OptcrAfterSet
<1>2. IInv => \A f \in Frames, stale \in StaleBytes : Reported(f, stale)
  BY <1>1
<1>3. Spec => [][\A f \in Frames, stale \in StaleBytes : Reported(f, stale)]_vars
  BY <1>2, Inductive, PTL
<1>4. QED
  BY <1>3 DEF ReportsWhatWasSet, Reported
-----------------------------------------------------------------------------
(* The refinement of FlashSpec. *)
RestOf(dest, data, i) == Flash!ProgramTask(dest + i, SubSeq(data, i + 1, Len(data)))

LEMMA TaskWhen ==
  /\ op \in {"Receive", "MassErase"} => Task = Flash!None
  /\ op = "Program" => Task = RestOf(progAddress, block, idx)
  /\ op \in {"EraseCommand", "EraseForWrite"} => Task = Flash!EraseTask(toErase)
  /\ op' \in {"Receive", "MassErase"} => Task' = Flash!None
  /\ op' = "Program" => Task' = RestOf(progAddress', block', idx')
  /\ op' \in {"EraseCommand", "EraseForWrite"} => Task' = Flash!EraseTask(toErase')
BY DEF Task, RestOf, Flash!None, Flash!EraseTask, Flash!ProgramTask

(* FlashSpec has the layout of the device. *)
LEMMA SameLayout ==
  /\ Flash!Sectors = Sectors /\ Flash!Address = Address
  /\ \A s : Flash!CellsOf(s) = CellsOf(s)
  /\ \A S : Flash!CellsOfAll(S) = CellsOfAll(S)
  /\ \A m, cells : Flash!EraseCells(m, cells) = EraseCells(m, cells)
  /\ \A a, b : Flash!ProgramCell(a, b) = ProgramCell(a, b)
<1>1. Flash!Sectors = Sectors /\ Flash!Address = Address
  BY DEF Flash!Sectors, Sectors, Flash!Address, Address, Flash!FLASH_END, FLASH_END
<1>2. \A s : Flash!CellsOf(s) = CellsOf(s)
  BY DEF Flash!CellsOf, CellsOf
<1>3. \A S : Flash!CellsOfAll(S) = CellsOfAll(S)
  BY DEF Flash!CellsOfAll, CellsOfAll, Flash!CellsOf, CellsOf
<1>4. \A m, cells : Flash!EraseCells(m, cells) = EraseCells(m, cells)
  BY DEF Flash!EraseCells, EraseCells, Flash!Erased, Erased
<1>5. \A a, b : Flash!ProgramCell(a, b) = ProgramCell(a, b)
  BY DEF Flash!ProgramCell, ProgramCell
<1>6. QED
  BY <1>1, <1>2, <1>3, <1>4, <1>5

FlashStep == Flash!Next \/ UNCHANGED <<mem, WRPERR, optcr, Task>>

LEMMA FlashSteps ==
  /\ Flash!Begin \/ Flash!ProgramOne \/ Flash!MassErase \/ Flash!Done \/ Flash!SetProtection
       \/ Flash!Reset => FlashStep
  /\ \A s \in Sectors : Flash!EraseOne(s) => FlashStep
<1>1. Flash!Next => FlashStep
  BY DEF FlashStep
<1>2. /\ Flash!Begin \/ Flash!ProgramOne \/ Flash!MassErase \/ Flash!Done \/ Flash!SetProtection
           \/ Flash!Reset => Flash!Next
      /\ \A s \in Sectors : Flash!EraseOne(s) => Flash!Next
  BY SameLayout DEF Flash!Next
<1>3. QED
  BY <1>1, <1>2

(* Whoever only replies leaves the flash and its task alone. *)
LEMMA ReplyRefines ==
  ASSUME UNCHANGED <<transfer, driver, flash>>
  PROVE  FlashStep
<1>1. Task' = Task
  BY DEF Task, transfer, driver
<1>2. QED
  BY <1>1 DEF FlashStep, flash

LEMMA SetRWProtRefines ==
  ASSUME TypeOK, NEW f \in Frames, NEW stale \in StaleBytes, BootSetRWProt(f, stale)
  PROVE  FlashStep
<1>1. /\ op = "Receive" /\ op' = "Receive" /\ UNCHANGED <<mem, WRPERR>>
  BY DEF BootSetRWProt, Accepts, Listening, driver
<1>2. optcr' \in [SPRMOD : BOOLEAN, nWRP : SUBSET Sectors]
  BY TypeSetRWProt DEF TypeOK, Optcr
<1>3. Flash!SetProtection
  BY <1>1, <1>2, TaskWhen, SameLayout DEF Flash!SetProtection
<1>4. QED
  BY <1>3, FlashSteps

LEMMA MassEraseRefines ==
  ASSUME TypeOK, IInv, NEW f \in Frames, NEW stale \in StaleBytes, MassErase(f, stale)
  PROVE  FlashStep
<1>1. op = "Receive" /\ op' \in {"Receive", "MassErase"} /\ UNCHANGED flash
  BY DEF MassErase, Accepts, Listening
<1>2. Task' = Task
  BY <1>1, TaskWhen
<1>3. QED
  BY <1>1, <1>2 DEF FlashStep, flash

LEMMA AllErasedRefines ==
  ASSUME AllErased
  PROVE  FlashStep
<1>1. op = "MassErase" /\ op' \in {"Receive", "MassErase"} /\ optcr' = optcr
  BY DEF AllErased, ErasingAll
<1>2. IF LiveProtection(optcr) # {}
      THEN WRPERR' = TRUE /\ UNCHANGED mem
      ELSE mem' = EraseCells(mem, Address) /\ UNCHANGED WRPERR
  BY DEF AllErased, ErasingAll, WriteProtected
<1>3. Flash!MassErase
  BY <1>1, <1>2, TaskWhen, SameLayout DEF Flash!MassErase
<1>4. QED
  BY <1>3, FlashSteps

(* A handler that begins to erase. *)
LEMMA EraseBegins ==
  ASSUME op = "Receive", op' \in {"EraseCommand", "EraseForWrite"}, toErase' \in SUBSET Sectors,
         UNCHANGED flash
  PROVE  FlashStep
<1>1. Task = Flash!None /\ Task' = Flash!EraseTask(toErase')
  BY TaskWhen
<1>2. Flash!Begin
  BY <1>1, SameLayout DEF Flash!Begin, flash
<1>3. QED
  BY <1>2, FlashSteps

LEMMA FlashEraseRefines ==
  ASSUME TypeOK, IInv, NEW f \in Frames, NEW stale \in StaleBytes, NEW status \in TransmitStatus,
         BootFlashErase(f, stale, status)
  PROVE  FlashStep
<1>1. op = "Receive" /\ currentState = "FLASH_AVAILABLE" /\ UNCHANGED flash
  BY DEF BootFlashErase, Accepts, Listening, IInv, DriverFree
<1>2. op' = "EraseCommand"
  BY <1>1 DEF BootFlashErase
<1>3. toErase' \in SUBSET Sectors
  BY TypeFlashErase DEF TypeOK
<1>4. QED
  BY <1>1, <1>2, <1>3, EraseBegins

LEMMA GetBinSizeRefines ==
  ASSUME TypeOK, IInv, NEW f \in Frames, NEW stale \in StaleBytes, GetBinSize(f, stale)
  PROVE  FlashStep
<1>1. op = "Receive" /\ currentState = "FLASH_AVAILABLE" /\ UNCHANGED flash
  BY DEF GetBinSize, Accepts, Listening, IInv, DriverFree
<1>2. op' = "EraseForWrite"
  BY <1>1 DEF GetBinSize
<1>3. toErase' \in SUBSET Sectors
  BY TypeGetBinSize DEF TypeOK
<1>4. QED
  BY <1>1, <1>2, <1>3, EraseBegins

LEMMA WriteBlockRefines ==
  ASSUME TypeOK, IInv, NEW f \in Frames, WriteBlock(f)
  PROVE  FlashStep
<1>1. op = "Receive" /\ currentState = "FLASH_AVAILABLE" /\ UNCHANGED flash
  BY DEF WriteBlock, Accepts, Listening, IInv, DriverFree
<1>2. op' = "Program"
  BY <1>1 DEF WriteBlock
<1>3. Task = Flash!None /\ Task' = RestOf(progAddress', block', idx')
  BY <1>1, <1>2, TaskWhen
<1>4. Task'.kind = "Program" /\ Task' = Flash!ProgramTask(Task'.dest, Task'.data)
  BY <1>3 DEF RestOf, Flash!ProgramTask
<1>5. Flash!Begin
  BY <1>1, <1>3, <1>4, Zenon DEF Flash!Begin, flash
<1>6. QED
  BY <1>5, FlashSteps

LEMMA SectorEraseRefines ==
  ASSUME TypeOK, IInv, SectorErase
  PROVE  FlashStep
<1> DEFINE s == NextToErase
<1>1. /\ op \in {"EraseCommand", "EraseForWrite"} /\ op' = op /\ optcr' = optcr
      /\ toErase # {} /\ toErase \in SUBSET Sectors /\ toErase' = toErase \ {s}
      /\ IF s \in LiveProtection(optcr)
         THEN WRPERR' = TRUE /\ UNCHANGED mem
         ELSE mem' = EraseCells(mem, CellsOf(s)) /\ UNCHANGED WRPERR
  BY DEF SectorErase, Erasing, LeftToErase, WriteProtected, TypeOK
<1>2. s \in toErase /\ s \in Sectors
  BY <1>1, NextToEraseType
<1> HIDE DEF s
<1>3. Task = Flash!EraseTask(toErase) /\ Task' = Flash!EraseTask(toErase')
  BY <1>1, TaskWhen
<1>4. Flash!EraseOne(s)
  BY <1>1, <1>2, <1>3, SameLayout DEF Flash!EraseOne, Flash!EraseTask
<1>5. QED
  BY <1>2, <1>4, FlashSteps

LEMMA EraseDoneRefines ==
  ASSUME SectorsErased \/ \E status \in TransmitStatus : EraseCommandDone(status)
  PROVE  FlashStep
<1>1. /\ op \in {"EraseCommand", "EraseForWrite"} /\ op' = "Receive" /\ toErase = {}
      /\ UNCHANGED <<mem, WRPERR, optcr>>
  BY DEF SectorsErased, EraseCommandDone, Erasing, flash
<1>2. Task = Flash!EraseTask({}) /\ Task' = Flash!None
  BY <1>1, TaskWhen
<1>3. Flash!Done
  BY <1>1, <1>2 DEF Flash!Done, Flash!EraseTask
<1>4. QED
  BY <1>3, FlashSteps

LEMMA WriteFlashRefines ==
  ASSUME TypeOK, WriteFlash
  PROVE  FlashStep
<1> DEFINE dest == progAddress + idx
<1>1. /\ op = "Program" /\ op' = "Program" /\ idx \in Nat /\ progAddress \in Nat
      /\ block \in Seq(Byte) /\ idx \in 0 .. Len(block) /\ idx < Len(block)
      /\ UNCHANGED <<progAddress, block, optcr>>
  BY DEF WriteFlash, TypeOK, transfer
<1>2. CASE dest \notin Address
  <2>1. UNCHANGED <<idx, mem, WRPERR>>
    BY <1>2 DEF WriteFlash
  <2>2. Task' = Task
    BY <1>1, <2>1, TaskWhen
  <2>3. QED
    BY <1>1, <2>1, <2>2 DEF FlashStep
<1>3. CASE dest \in Address
  <2>1. /\ idx' = idx + 1
        /\ IF dest \in CellsOfAll(LiveProtection(optcr))
           THEN WRPERR' = TRUE /\ UNCHANGED mem
           ELSE /\ mem' = [mem EXCEPT ![dest] = ProgramCell(@, block[idx + 1])]
                /\ UNCHANGED WRPERR
    BY <1>3 DEF WriteFlash, WriteProtected
  <2>2. /\ SubSeq(block, idx + 1, Len(block)) # <<>>
        /\ Head(SubSeq(block, idx + 1, Len(block))) = block[idx + 1]
        /\ Tail(SubSeq(block, idx + 1, Len(block))) = SubSeq(block, idx + 2, Len(block))
    BY <1>1, RestOfData
  <2>3. progAddress + (idx + 1) = dest + 1 /\ (idx + 1) + 1 = idx + 2
    BY <1>1
  <2> HIDE DEF dest
  <2>4. /\ Task.kind = "Program" /\ Task.dest = dest
        /\ Task.data = SubSeq(block, idx + 1, Len(block))
    BY <1>1, TaskWhen DEF RestOf, Flash!ProgramTask, dest
  <2>5. Task' = Flash!ProgramTask(dest + 1, SubSeq(block, idx + 2, Len(block)))
    BY <1>1, <2>1, <2>3, TaskWhen DEF RestOf
  <2>6. Task' = Flash!ProgramTask(Task.dest + 1, Tail(Task.data))
    BY <2>2, <2>4, <2>5
  <2>7. Flash!ProgramOne
    BY <1>1, <1>3, <2>1, <2>2, <2>4, <2>6, SameLayout DEF Flash!ProgramOne
  <2>8. QED
    BY <2>7, FlashSteps
<1>4. QED
  BY <1>2, <1>3

LEMMA BlockWrittenRefines ==
  ASSUME TypeOK, BlockWritten
  PROVE  FlashStep
<1>1. /\ op = "Program" /\ op' = "Receive" /\ block \in Seq(Byte) /\ idx \in 0 .. Len(block)
      /\ idx = Len(block) /\ UNCHANGED <<mem, WRPERR, optcr>>
  BY DEF BlockWritten, TypeOK, flash
<1>2. SubSeq(block, idx + 1, Len(block)) = <<>>
  BY <1>1, RestOfData
<1>3. Task.kind = "Program" /\ Task.data = <<>> /\ Task' = Flash!None
  BY <1>1, <1>2, TaskWhen DEF RestOf, Flash!ProgramTask
<1>4. Flash!Done
  BY <1>1, <1>3, Zenon DEF Flash!Done
<1>5. QED
  BY <1>4, FlashSteps

LEMMA ResetRefines ==
  ASSUME TypeOK, NEW gone \in SUBSET HalfErased, Reset(gone)
  PROVE  FlashStep
<1>1. /\ mem' = EraseCells(mem, gone) /\ op' = "Receive" /\ WRPERR' = FALSE /\ optcr' = OptcrAtReset
      /\ mem \in [Address -> Byte] /\ toErase \in SUBSET Sectors
  BY DEF Reset, TypeOK
<1>2. Task' = Flash!None
  BY <1>1, TaskWhen
<1>3. CASE gone = {}
  <2>1. mem' = mem
    BY <1>1, <1>3 DEF EraseCells
  <2>2. Flash!Reset
    BY <1>1, <1>2, <2>1 DEF Flash!Reset
  <2>3. QED
    BY <2>2, FlashSteps
<1>4. CASE op = "MassErase" /\ gone # {}
  <2>1. LiveProtection(optcr) = {} /\ gone \in SUBSET Address
    BY <1>4 DEF HalfErased, ErasingAll, Erasing, WriteProtected
  <2>2. Flash!Reset
    BY <1>1, <1>2, <1>4, <2>1, TaskWhen, SameLayout DEF Flash!Reset
  <2>3. QED
    BY <2>2, FlashSteps
<1>5. CASE op # "MassErase" /\ gone # {}
  <2>1. /\ op \in {"EraseCommand", "EraseForWrite"} /\ toErase # {}
        /\ NextToErase \notin LiveProtection(optcr) /\ gone \in SUBSET CellsOf(NextToErase)
    BY <1>5 DEF HalfErased, ErasingAll, Erasing, WriteProtected
  <2>2. NextToErase \in toErase
    BY <1>1, <2>1, NextToEraseType
  <2>3. Task = Flash!EraseTask(toErase)
    BY <2>1, TaskWhen
  <2>4. Flash!Reset
    BY <1>1, <1>2, <2>1, <2>2, <2>3, SameLayout DEF Flash!Reset, Flash!EraseTask
  <2>5. QED
    BY <2>4, FlashSteps
<1>6. QED
  BY <1>3, <1>4, <1>5

LEMMA NextRefines ==
  ASSUME TypeOK, IInv, [Next]_vars
  PROVE  FlashStep
<1>1. ASSUME NEW f \in Frames, Receive(f)
      PROVE  FlashStep
  <2>1. CASE \/ WrongCRC(f)
             \/ CommandNotFound(f)
             \/ \E status \in TransmitStatus : BootGetVersion(f, status) \/ BootGetMCUID(f, status)
             \/ BootFlashVerify(f)
             \/ BootReadFlashProtStatus(f)
             \/ BootGetRWProt(f)
             \/ BootJumpToApplication(f)
    <3>1. UNCHANGED <<transfer, driver, flash>>
      BY <2>1 DEF WrongCRC, CommandNotFound, BootGetVersion, BootGetMCUID, BootFlashVerify,
         BootReadFlashProtStatus, BootGetRWProt, BootJumpToApplication, vars
    <3>2. QED
      BY <3>1, ReplyRefines
  <2>2. CASE \E stale \in StaleBytes : BootSetRWProt(f, stale)
    BY <2>2, SetRWProtRefines
  <2>3. CASE \E stale \in StaleBytes : MassErase(f, stale)
    BY <2>3, MassEraseRefines
  <2>4. CASE \E stale \in StaleBytes, status \in TransmitStatus : BootFlashErase(f, stale, status)
    BY <2>4, FlashEraseRefines
  <2>5. CASE \E stale \in StaleBytes : GetBinSize(f, stale)
    BY <2>5, GetBinSizeRefines
  <2>6. CASE WriteBlock(f)
    BY <2>6, WriteBlockRefines
  <2>7. QED
    BY <1>1, <2>1, <2>2, <2>3, <2>4, <2>5, <2>6 DEF Receive
<1>2. CASE Continue
  BY <1>2, AllErasedRefines, SectorEraseRefines, EraseDoneRefines, WriteFlashRefines, BlockWrittenRefines DEF Continue
<1>3. CASE \E gone \in SUBSET HalfErased : Reset(gone)
  BY <1>3, ResetRefines
<1>4. CASE ButtonPressed \/ BootTimeout \/ HostReads \/ UNCHANGED vars
  <2>1. UNCHANGED <<transfer, driver, flash>>
    BY <1>4 DEF ButtonPressed, BootTimeout, HostReads, vars
  <2>2. QED
    BY <2>1, ReplyRefines
<1>5. QED
  BY <1>1, <1>2, <1>3, <1>4 DEF Next

(* Whatever the host sends and whenever the board is reset, the handlers use
   the flash as FlashSpec allows: one task at a time, and no change of a cell,
   of the error flag or of the protection that is not a step of it.  Together
   with DriverImplementsFlashSpec, the steps per sector and per byte of this
   module stand for the register sequences of the driver. *)
THEOREM FlashIsUsedAsSpecified == Spec => FlashAsSpecified
<1>1. Init => Flash!Init
  <2>1. ASSUME Init PROVE op = "Receive" /\ mem = INITIAL_FLASH /\ WRPERR = FALSE /\ optcr = OptcrAtReset
    BY <2>1 DEF Init
  <2>2. ASSUME Init PROVE Task = Flash!None
    BY <2>1, <2>2, TaskWhen
  <2>3. QED
    BY <2>1, <2>2 DEF Flash!Init
<1>2. (TypeOK /\ IInv) /\ [Next]_vars => [Flash!Next]_Flash!vars
  BY NextRefines DEF FlashStep, Flash!vars
<1>3. QED
  BY <1>1, <1>2, Inductive, PTL DEF Spec, FlashAsSpecified, Flash!Spec
=============================================================================
