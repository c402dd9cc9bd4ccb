------------------------------ MODULE CrcUnit ------------------------------
(***************************************************************************)
(* The checksum of a frame, as the CRC unit of the board and the script    *)
(* compute it.  A number is the set of its bits that are 1: 6 is {1, 2}.   *)
(* A word has W bits (32 in the code), a byte B of them (8), so a checksum *)
(* travels as W \div B bytes, the lowest first.                            *)
(***************************************************************************)
EXTENDS Integers, Sequences

CONSTANTS
  W, B,    (* bits of a word and of a byte                                  *)
  POLY     (* 0x04C11DB7, an odd number                                     *)

ASSUME CrcAssumption ==
  /\ B \in Nat \ {0} /\ W \in Nat \ {0} /\ W % B = 0
  /\ POLY \subseteq 0 .. W - 1 /\ 0 \in POLY

Byte == SUBSET (0 .. B - 1)

CRC_SIZE == W \div B
AfterReset == 0 .. W - 1

Xor(a, b) == (a \ b) \cup (b \ a)
Shifted(word) == {bit + 1 : bit \in word}
Cut(word) == word \cap 0 .. W - 1
TopBit(crc) == W - 1 \in crc

(* The data register after a word is written to it. *)
ShiftedBit(crc) == IF TopBit(crc) THEN Xor(Cut(Shifted(crc)), POLY) ELSE Cut(Shifted(crc))

WriteCRC_DR(crc, word) ==
  LET register[n \in 0 .. W] == IF n = 0 THEN Xor(crc, word) ELSE ShiftedBit(register[n - 1])
  IN  register[W]

(* CRC_ComputeWithAccumulate goes on from what the register holds,
   CRC_Compute starts afresh. *)
CRC_ComputeWithAccumulate(crc, src) ==
  LET register[n \in 0 .. Len(src)] == IF n = 0 THEN crc ELSE WriteCRC_DR(register[n - 1], src[n])
  IN  register[Len(src)]

CRC_Compute(src) == CRC_ComputeWithAccumulate(AfterReset, src)

(* ComputeCRC of ControlStructure.cpp: the three bytes of the header one by
   one, then the data. *)
ComputeCRC(header, data) ==
  LET frameType == CRC_Compute(<<header[1]>>)
      cmdCode == CRC_ComputeWithAccumulate(frameType, <<header[2]>>)
      dataLength == CRC_ComputeWithAccumulate(cmdCode, <<header[3]>>)
  IN  CRC_ComputeWithAccumulate(dataLength, data)

(* ReadCRC puts the bytes of a word together. *)
ReadCRC(crcBuffer) == {bit \in 0 .. W - 1 : bit % B \in crcBuffer[1 + (bit \div B)]}

-----------------------------------------------------------------------------
(* The script's integers have no width: it never cuts the checksum to 32
   bits, only its four lowest bytes are sent. *)
HostBit(crc) == IF TopBit(crc) THEN Xor(Shifted(crc), POLY) ELSE Shifted(crc)

(* A mutant: the script shifts as often as a byte has bits. *)
HostByteOfBits(crc, data) ==
  LET shift[n \in 0 .. B] == IF n = 0 THEN Xor(crc, data) ELSE HostBit(shift[n - 1])
  IN  shift[B]

HostByte(crc, data) ==
  LET shift[n \in 0 .. W] == IF n = 0 THEN Xor(crc, data) ELSE HostBit(shift[n - 1])
  IN  shift[W]

get_crc(buff) ==
  LET crc[n \in 0 .. Len(buff)] == IF n = 0 THEN AfterReset ELSE HostByte(crc[n - 1], buff[n])
  IN  crc[Len(buff)]

word_to_byte(word, index) == {bit \in 0 .. B - 1 : bit + B * (index - 1) \in word}

apply_4byte_crc(bytes) ==
  bytes \o [index \in 1 .. CRC_SIZE |-> word_to_byte(get_crc(bytes), index)]
=============================================================================
