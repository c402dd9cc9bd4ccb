---------------------------- MODULE BootProtocol ----------------------------
(***************************************************************************)
(* The vocabulary the bootloader and the host programmer share: command    *)
(* codes, frame types, response and status bytes, and the shape of a       *)
(* command frame and of a reply.  The numbers are those of Commands.h,     *)
(* general_types.h and STM32_Programmer_V1.py.                             *)
(***************************************************************************)
EXTENDS Naturals, Sequences

POSITIVE_RESP == 170      \* 0xAA
NEGATIVE_RESP == 255      \* 0xFF
ALL_SECTORS   == 255      \* the erase mask that means mass erase

CMD_CODE_BOOT_GET_VERSION            == 16
CMD_CODE_BOOT_GET_MCUID              == 32
CMD_CODE_BOOT_FLASH_ERASE            == 48
CMD_CODE_BOOT_FLASH_WRITE            == 64
CMD_CODE_BOOT_FLASH_VERIFY           == 80
CMD_CODE_BOOT_READ_FLASH_PROT_STATUS == 96
CMD_CODE_BOOT_GET_FLASH_RW_PROT      == 112
CMD_CODE_BOOT_JUMP_TO_APP            == 128
CMD_CODE_BOOT_SET_FLASH_RW_PROT      == 144

serviceTable ==
  { CMD_CODE_BOOT_GET_VERSION, CMD_CODE_BOOT_GET_MCUID, CMD_CODE_BOOT_FLASH_ERASE,
    CMD_CODE_BOOT_FLASH_WRITE, CMD_CODE_BOOT_FLASH_VERIFY,
    CMD_CODE_BOOT_READ_FLASH_PROT_STATUS, CMD_CODE_BOOT_GET_FLASH_RW_PROT,
    CMD_CODE_BOOT_JUMP_TO_APP, CMD_CODE_BOOT_SET_FLASH_RW_PROT }

LAST_FRAME   == 0
CONSEC_FRAME == 1

NUMBER_CONTROL_BYTES == 3

\* OperationStatus_t
ST_OK         == 0
ST_BUSY       == 2
TIMEOUT       == 3
ST_WRONG_CRC  == 4
CMD_NOT_FOUND == 5

\* Flash_ProtLevel_t and Flash_ProtMode_t
W_PROTECTION     == 15    \* 0x0F
RW_PROTECTION    == 31    \* 0x1F
NO_PROTECTION    == 255   \* 0xFF
WRITE_PROTECTION == 0     \* any other mode byte sets SPRMOD

(***************************************************************************)
(* A command frame as it reaches the device: the frame type, the command   *)
(* code, the data bytes (their number is the third header byte), and       *)
(* whether the four CRC bytes that follow are those the CRC unit computes. *)
(***************************************************************************)
Frame(frameType, cmd, data, crcOk) ==
  [frameType |-> frameType, cmd |-> cmd, data |-> data, crcOk |-> crcOk]

FrameSet(bytes) ==
  [frameType : bytes, cmd : bytes, data : Seq(bytes), crcOk : BOOLEAN]

(***************************************************************************)
(* A positive reply: command code, 0xAA, number of data bytes, data.       *)
(***************************************************************************)
PositiveReply(cmd, data) == <<cmd, POSITIVE_RESP, Len(data)>> \o data

(***************************************************************************)
(* BootControl follows a handler that does not return ST_OK by one byte,   *)
(* the status, whatever the handler has sent before.                       *)
(***************************************************************************)
StatusByte(status) == IF status = ST_OK THEN <<>> ELSE <<status>>
=============================================================================
