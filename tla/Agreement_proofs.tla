-------------------------- MODULE Agreement_proofs --------------------------
(***************************************************************************)
(* What the host script reports is true: between two blocks host and       *)
(* device are at the same place of the image, and an image reported as     *)
(* programmed is in the flash.  Over a line that damages frames, with a    *)
(* board that is reset at any time, any number of times each, as long as   *)
(* the user is patient and the flash refuses nothing.                      *)
(*                                                                         *)
(* Neither property says what the host may still have to read.  The        *)
(* invariant does: it follows the one frame that is under way, the handler *)
(* that works on it, and the bytes it has answered with, and it says that  *)
(* a conversation that has gone wrong leaves the host no bytes it could    *)
(* take for a positive reply.                                              *)
(***************************************************************************)
EXTENDS Session_proofs

(* Nothing on the line and no handler at work. *)
Idle == phase # "Control" \/ op = "Receive"
Rest == line = <<>> /\ Idle

(* Bytes the host does not take for a positive reply, whatever is sent after
   them; and those, or none. *)
Bad(s)  == s # <<>> /\ (Len(s) >= 2 => s[2] # POSITIVE_RESP)
Junk(s) == s = <<>> \/ Bad(s)

(* Bytes that begin with a positive reply of d data bytes. *)
Reply(s, d) == Len(s) >= 3 + d /\ s[2] = POSITIVE_RESP /\ s[3] = d
Drop(s, n)  == SubSeq(s, n + 1, Len(s))

(* The first n bytes of the image are in the flash. *)
InFlash(n) == refused \/ ImageIn(mem, SubSeq(file, 1, n))

AnnouncedForImage == sectorsToBeErased = GetSectorsForFlash(Len(file))

(* The bytes s are all the host gets before it sends or gives up. *)
Dead(s) == Junk(s) /\ Rest

(* The device takes the next frame for the block at n; a device that would
   take it for a size has been reset, and its banner is before the reply. *)
AtPlace(s, n) ==
  phase = "Control" =>
    IF state = "Write_FLASH_Sectors"
    THEN progAddress = SECTOR2_ADDRESS + n /\ AnnouncedForImage
    ELSE s # <<>>

(* The device has been given the first n bytes and waits for the next block. *)
Ready(s, n) == Dead(s) /\ InFlash(n) /\ (n < Len(file) => AtPlace(s, n))

(* A handler at work. *)
Busy(o) == line = <<>> /\ phase = "Control" /\ op = o

ErasingImage == Busy("EraseForWrite") /\ AnnouncedForImage

(* The one frame on the line, perhaps damaged. *)
OnTheLine(f) == line = <<f>> \/ line = <<[f EXCEPT !.crcOk = FALSE]>>

(* While the host waits for the second reply to a size: the device has given
   up, erases, or has answered.  Before the first reply the frame may be under
   way too, or be taken for a block of an image that was given up earlier. *)
Second(s) ==
  \/ Dead(s)
  \/ s = <<>> /\ ErasingImage
  \/ Reply(s, 1) /\ Ready(Drop(s, 4), 0)

First(s) ==
  \/ Dead(s) \/ Bad(s)
  \/ s = <<>> /\ Idle /\ OnTheLine(SizeFrame(file))
  \/ s = <<>> /\ Busy("Program")
  \/ Reply(s, 1) /\ Second(Drop(s, 4))
  \/ Reply(s, 0) /\ Dead(Drop(s, 3))

Programming(n) ==
  /\ Busy("Program") /\ AnnouncedForImage
  /\ block = BlockFrame(file, n).data /\ blockType = BlockFrame(file, n).frameType
  /\ progAddress = SECTOR2_ADDRESS + n

(* While the host waits for the reply to the block at n. *)
OfBlock(s, n) ==
  \/ Dead(s) \/ Bad(s)
  \/ s = <<>> /\ Idle /\ OnTheLine(BlockFrame(file, n)) /\ AtPlace(s, n) /\ InFlash(n)
  \/ s = <<>> /\ Programming(n) /\ InFlash(n)
  \/ Reply(s, 0) /\ Ready(Drop(s, 3), sent)

(* A step of the session that is not one of the host. *)
EnvStep ==
  /\ DeviceStep \/ DeviceStarts \/ FrameLost \/ FrameOverrun \/ CorruptFrame \/ BoardReset
  /\ refused' = (refused \/ WRPERR')

(* A reset device starts afresh, and a refusal is remembered. *)
Ctl ==
  /\ WRPERR => refused
  /\ phase = "Main" => state = "Get_BIN_Size" /\ op = "Receive"

Base == SInv /\ IInv /\ Ctl
-----------------------------------------------------------------------------
(***************************************************************************)
(* Sequences of bytes.                                                     *)
(***************************************************************************)
LEMMA Appended ==
  ASSUME NEW s \in Seq(Byte), NEW w \in Seq(Byte)
  PROVE  /\ s \o w \in Seq(Byte)
         /\ Len(s \o w) = Len(s) + Len(w)
         /\ \A i \in 1 .. Len(s) : (s \o w)[i] = s[i]
         /\ s = <<>> => s \o w = w
         /\ s # <<>> => s \o w # <<>>
         /\ (Len(s) = 1 /\ w # <<>>) => (s \o w)[2] = w[1]
OBVIOUS

LEMMA DropType ==
  ASSUME NEW s \in Seq(Byte), NEW k \in 0 .. Len(s)
  PROVE  Drop(s, k) \in Seq(Byte) /\ Len(Drop(s, k)) = Len(s) - k
BY DEF Drop

LEMMA DropAppended ==
  ASSUME NEW s \in Seq(Byte), NEW w \in Seq(Byte), NEW k \in 0 .. Len(s)
  PROVE  Drop(s \o w, k) = Drop(s, k) \o w
<1>1. s \o w \in Seq(Byte) /\ Len(s \o w) = Len(s) + Len(w)
  OBVIOUS
<1>2. Drop(s \o w, k) \in Seq(Byte) /\ Len(Drop(s \o w, k)) = Len(s) + Len(w) - k
  <2> DEFINE t == s \o w
  <2>1. t \in Seq(Byte) /\ Len(t) = Len(s) + Len(w)
    BY <1>1
  <2> HIDE DEF t
  <2>2. k \in 0 .. Len(t)
    BY <2>1
  <2>3. Drop(t, k) \in Seq(Byte) /\ Len(Drop(t, k)) = Len(t) - k
    BY <2>1, <2>2, DropType
  <2>4. QED
    BY <2>1, <2>3 DEF t
<1>3. Drop(s, k) \in Seq(Byte) /\ Len(Drop(s, k)) = Len(s) - k
  BY DropType
<1>4. Drop(s, k) \o w \in Seq(Byte) /\ Len(Drop(s, k) \o w) = Len(s) + Len(w) - k
  BY <1>3
<1>5. ASSUME NEW i \in 1 .. Len(s) + Len(w) - k
      PROVE  Drop(s \o w, k)[i] = (Drop(s, k) \o w)[i]
  <2>1. Drop(s \o w, k)[i] = (s \o w)[k + i]
    BY <1>1 DEF Drop
  <2>2. CASE i <= Len(s) - k
    <3>1. Drop(s, k)[i] = s[k + i] /\ (s \o w)[k + i] = s[k + i]
      BY <2>2 DEF Drop
    <3>2. (Drop(s, k) \o w)[i] = Drop(s, k)[i]
      BY <1>3, <2>2
    <3>3. QED
      BY <2>1, <3>1, <3>2
  <2>3. CASE i > Len(s) - k
    <3>1. (s \o w)[k + i] = w[k + i - Len(s)]
      BY <2>3
    <3>2. (Drop(s, k) \o w)[i] = w[i - (Len(s) - k)]
      BY <1>3, <2>3
    <3>3. QED
      BY <2>1, <3>1, <3>2
  <2>4. i \in Nat /\ Len(s) - k \in Nat
    OBVIOUS
  <2>5. i <= Len(s) - k \/ i > Len(s) - k
    BY <2>4
  <2>6. QED
    BY <2>2, <2>3, <2>5
<1>6. QED
  BY <1>2, <1>4, <1>5, SeqEqual, Zenon

LEMMA DropTwice ==
  ASSUME NEW s \in Seq(Byte), Len(s) >= 4
  PROVE  Len(Drop(s, 3)) >= 1 /\ Drop(Drop(s, 3), 1) = Drop(s, 4)
<1>1. 3 \in 0 .. Len(s) /\ 4 \in 0 .. Len(s)
  OBVIOUS
<1>2. PICK t \in Seq(Byte) : t = Drop(s, 3)
  BY <1>1, DropType
<1>3. Len(t) = Len(s) - 3 /\ 1 \in 0 .. Len(t)
  BY <1>1, <1>2, DropType
<1>4. Drop(t, 1) \in Seq(Byte) /\ Len(Drop(t, 1)) = Len(s) - 4
  BY <1>3, DropType
<1>5. Drop(s, 4) \in Seq(Byte) /\ Len(Drop(s, 4)) = Len(s) - 4
  BY <1>1, DropType
<1>6. ASSUME NEW i \in 1 .. Len(s) - 4
      PROVE  Drop(t, 1)[i] = Drop(s, 4)[i]
  <2>1. Drop(t, 1)[i] = t[i + 1]
    BY <1>3 DEF Drop
  <2>2. t[i + 1] = s[i + 4]
    BY <1>2 DEF Drop
  <2>3. Drop(s, 4)[i] = s[i + 4]
    BY DEF Drop
  <2>4. QED
    BY <2>1, <2>2, <2>3
<1>7. Drop(t, 1) = Drop(s, 4)
  BY <1>4, <1>5, <1>6, SeqEqual, Zenon
<1>8. QED
  BY <1>2, <1>3, <1>7

LEMMA BadAppended ==
  ASSUME NEW s \in Seq(Byte), NEW w \in Seq(Byte), Bad(s),
         w # <<>> => w[1] # POSITIVE_RESP
  PROVE  Bad(s \o w)
<1>1. CASE w = <<>>
  BY <1>1 DEF Bad
<1>2. CASE w # <<>> /\ Len(s) = 1
  BY <1>2, Appended DEF Bad
<1>3. CASE Len(s) >= 2
  BY <1>3, Appended DEF Bad
<1>4. QED
  BY <1>1, <1>2, <1>3 DEF Bad

LEMMA JunkAppended ==
  ASSUME NEW s \in Seq(Byte), NEW w \in Seq(Byte), Junk(s),
         \A i \in 1 .. Len(w) : w[i] # POSITIVE_RESP
  PROVE  Junk(s \o w)
<1>1. CASE s = <<>>
  <2>1. s \o w = w
    BY <1>1
  <2>2. Junk(w)
    BY DEF Junk, Bad
  <2>3. QED
    BY <2>1, <2>2
<1>2. CASE Bad(s)
  <2>1. w # <<>> => 1 \in 1 .. Len(w)
    OBVIOUS
  <2>2. QED
    BY <1>2, <2>1, BadAppended DEF Junk
<1>3. QED
  BY <1>1, <1>2 DEF Junk

LEMMA ReplyAppended ==
  ASSUME NEW s \in Seq(Byte), NEW w \in Seq(Byte), NEW d \in Nat, Reply(s, d)
  PROVE  Reply(s \o w, d)
BY DEF Reply

LEMMA Cancel ==
  ASSUME NEW s \in Seq(Byte), NEW v \in Seq(Byte), NEW w \in Seq(Byte), s \o v = s \o w
  PROVE  v = w
<1>1. Len(v) = Len(w)
  <2>1. Len(s \o v) = Len(s) + Len(v) /\ Len(s \o w) = Len(s) + Len(w)
    BY Appended
  <2>2. QED
    BY <2>1
<1>2. ASSUME NEW i \in 1 .. Len(v) PROVE v[i] = w[i]
  <2>1. (s \o v)[Len(s) + i] = v[i]
    OBVIOUS
  <2>2. (s \o w)[Len(s) + i] = w[i]
    BY <1>1
  <2>3. QED
    BY <2>1, <2>2
<1>3. QED
  BY <1>1, <1>2, SeqEqual

(* The first byte of anything the device sends is not 0xAA, so it never makes
   of an unread byte a positive reply. *)
Sends(w) == w \in Seq(Byte) /\ (w # <<>> => w[1] # POSITIVE_RESP) /\ tx' = tx \o w

LEMMA ReplySent ==
  ASSUME NEW cmd \in Byte, cmd # POSITIVE_RESP, NEW data \in Seq(Byte), Len(data) \in Byte,
         NEW status \in TransmitStatus \cup {ST_BUSY},
         \/ Transmit(PositiveReply(cmd, data))
         \/ Transmit(PositiveReply(cmd, data) \o StatusByte(status))
  PROVE  \E w : Sends(w)
<1>1. PositiveReply(cmd, data) \in Seq(Byte) /\ StatusByte(status) \in Seq(Byte)
  BY ReplyType, StatusByteType, CodesAreBytes
<1>2. PositiveReply(cmd, data) # <<>> /\ PositiveReply(cmd, data)[1] = cmd
  BY DEF PositiveReply
<1>3. /\ PositiveReply(cmd, data) \o StatusByte(status) \in Seq(Byte)
      /\ (PositiveReply(cmd, data) \o StatusByte(status))[1] = cmd
  <2> HIDE DEF PositiveReply, StatusByte
  <2>1. QED
    BY <1>1, <1>2
<1>4. QED
  BY <1>1, <1>2, <1>3 DEF Sends, Transmit

LEMMA StatusSent ==
  ASSUME NEW status \in {ST_WRONG_CRC, CMD_NOT_FOUND, ST_BUSY}, Transmit(StatusByte(status))
  PROVE  Sends(<<status>>)
BY DEF Sends, Transmit, StatusByte, ST_OK, ST_WRONG_CRC, CMD_NOT_FOUND, ST_BUSY, POSITIVE_RESP, Byte

LEMMA NothingSent ==
  ASSUME tx \in Seq(Byte), tx' = tx
  PROVE  Sends(<<>>)
BY DEF Sends

LEMMA FirstBytes ==
  /\ serviceTable \subseteq Byte
  /\ \A cmd \in serviceTable : cmd # POSITIVE_RESP
BY DEF serviceTable, POSITIVE_RESP, Byte, CMD_CODE_BOOT_GET_VERSION, CMD_CODE_BOOT_GET_MCUID,
       CMD_CODE_BOOT_FLASH_ERASE, CMD_CODE_BOOT_FLASH_WRITE, CMD_CODE_BOOT_FLASH_VERIFY,
       CMD_CODE_BOOT_READ_FLASH_PROT_STATUS, CMD_CODE_BOOT_GET_FLASH_RW_PROT,
       CMD_CODE_BOOT_JUMP_TO_APP, CMD_CODE_BOOT_SET_FLASH_RW_PROT

LEMMA CodesInTable ==
  /\ CMD_CODE_BOOT_FLASH_ERASE \in serviceTable
  /\ CMD_CODE_BOOT_FLASH_WRITE \in serviceTable
  /\ CMD_CODE_BOOT_GET_FLASH_RW_PROT \in serviceTable
BY DEF serviceTable

LEMMA BannersSent ==
  ASSUME tx \in Seq(Byte), NEW w \in {BootBanner, AppBanner}, Transmit(w)
  PROVE  Sends(w) /\ \A i \in 1 .. Len(w) : w[i] # POSITIVE_RESP
<1>1. w \in Seq(Byte) /\ \A i \in 1 .. Len(w) : w[i] < 128
  BY BannerAssumption, DeviceAssumption
<1>2. \A i \in 1 .. Len(w) : w[i] # POSITIVE_RESP
  BY <1>1 DEF POSITIVE_RESP
<1>3. w # <<>> => 1 \in 1 .. Len(w)
  BY <1>1
<1>4. QED
  BY <1>1, <1>2, <1>3 DEF Sends, Transmit

LEMMA EraseReplySent ==
  ASSUME NEW requested, NEW response \in Byte, NEW status \in TransmitStatus,
         Transmit(EraseReply(requested, response) \o StatusByte(status))
  PROVE  \E w : Sends(w)
<1> DEFINE answers == [i \in 1 .. FLASH_NUMBER_OF_SECTORS |->
                         IF i - 1 \in requested THEN response ELSE 0]
<1>1. FLASH_NUMBER_OF_SECTORS \in Nat /\ FLASH_NUMBER_OF_SECTORS \in Byte
  BY LayoutAssumption DEF Byte
<1>2. \A i \in 1 .. FLASH_NUMBER_OF_SECTORS : answers[i] \in Byte
  BY DEF Byte
<1>3. answers \in Seq(Byte) /\ Len(answers) = FLASH_NUMBER_OF_SECTORS
  <2> HIDE DEF answers
  <2>1. answers \in [1 .. FLASH_NUMBER_OF_SECTORS -> Byte]
    BY <1>2 DEF answers
  <2>2. QED
    BY <1>1, <2>1
<1>4. Transmit(PositiveReply(CMD_CODE_BOOT_FLASH_ERASE, answers) \o StatusByte(status))
  BY DEF EraseReply
<1> HIDE DEF answers
<1>5. QED
  BY <1>1, <1>3, <1>4, ReplySent, FirstBytes, CodesInTable

LEMMA RWProtSent ==
  ASSUME NEW o,
         \/ Transmit(RWProtReply(o))
         \/ Transmit(GetFailure(ST_BUSY))
         \/ Transmit(SetFailure(ST_BUSY))
         \/ Transmit(PositiveReply(CMD_CODE_BOOT_GET_FLASH_RW_PROT, <<>>))
  PROVE  \E w : Sends(w)
<1>1. CASE Transmit(RWProtReply(o))
  <2> DEFINE levels == [i \in 1 .. FLASH_NUMBER_OF_SECTORS |-> ProtectionOf(o, i - 1)]
  <2>1. FLASH_NUMBER_OF_SECTORS \in Nat
    BY LayoutAssumption
  <2>2. levels \in Seq(Byte)
    <3>1. \A i \in 1 .. FLASH_NUMBER_OF_SECTORS : ProtectionOf(o, i - 1) \in Byte
      BY CodesAreBytes DEF ProtectionOf
    <3>2. levels \in [1 .. FLASH_NUMBER_OF_SECTORS -> Byte]
      BY <3>1
    <3>3. QED
      BY <2>1, <3>2
  <2>3. RWProtReply(o)[1] = CMD_CODE_BOOT_GET_FLASH_RW_PROT
    <3> HIDE DEF levels
    <3>1. \A a, b, c : (<<a, b, c>> \o levels)[1] = a
      BY <2>2
    <3>2. QED
      BY <3>1 DEF RWProtReply, levels
  <2>4. RWProtReply(o) \in Seq(Byte)
    BY RWProtReplyType
  <2>5. QED
    BY <1>1, <2>3, <2>4, FirstBytes, CodesInTable DEF Sends, Transmit
<1>2. ASSUME NEW reply \in {GetFailure(ST_BUSY), SetFailure(ST_BUSY)}, Transmit(reply)
      PROVE  \E w : Sends(w)
  <2>1. reply[1] = CMD_CODE_BOOT_GET_FLASH_RW_PROT
    BY DEF GetFailure, SetFailure, StatusByte
  <2>2. QED
    BY <1>2, <2>1, RWProtFailureType, FirstBytes, CodesInTable DEF Sends, Transmit
<1>3. CASE Transmit(PositiveReply(CMD_CODE_BOOT_GET_FLASH_RW_PROT, <<>>))
  <2>1. <<>> \in Seq(Byte) /\ Len(<<>>) \in Byte
    BY DEF Byte
  <2>2. QED
    BY <1>3, <2>1, ReplySent, FirstBytes, CodesInTable
<1>4. QED
  BY <1>1, <1>2, <1>3

LEMMA SectorsAckSent ==
  ASSUME NEW S \in SUBSET Sectors,
         \/ Transmit(SectorsAck(S))
         \/ Transmit(SectorsAck(S) \o StatusByte(ST_BUSY))
  PROVE  \E w : Sends(w)
<1>1. <<MaskOfSectors(S)>> \in Seq(Byte) /\ Len(<<MaskOfSectors(S)>>) \in Byte
  BY MaskType DEF Byte
<1>2. QED
  BY <1>1, ReplySent, FirstBytes, CodesInTable DEF SectorsAck

LEMMA BlockAckSent ==
  ASSUME Transmit(BlockAck)
  PROVE  \E w : Sends(w)
<1>1. <<>> \in Seq(Byte) /\ Len(<<>>) \in Byte
  BY DEF Byte
<1>2. QED
  BY <1>1, ReplySent, FirstBytes, CodesInTable DEF BlockAck

LEMMA ReceiveSends ==
  ASSUME SInv, NEW f \in Frames, Receive(f)
  PROVE  \E w : Sends(w)
<1>1. tx \in Seq(Byte) /\ sectorsToBeErased \in SUBSET Sectors
  BY DEF SInv, TypeOK
<1>2. CASE WrongCRC(f) \/ CommandNotFound(f)
  BY <1>2, StatusSent DEF WrongCRC, CommandNotFound
<1>3. ASSUME NEW status \in TransmitStatus, BootGetVersion(f, status) \/ BootGetMCUID(f, status)
      PROVE  \E w : Sends(w)
  <2>1. f.cmd \in serviceTable
    BY <1>3 DEF BootGetVersion, BootGetMCUID, Accepts, serviceTable
  <2>2. QED
    BY <1>3, <2>1, ReplySent, FirstBytes, DeviceAssumption DEF BootGetVersion, BootGetMCUID
<1>4. ASSUME NEW stale \in StaleBytes, MassErase(f, stale)
      PROVE  \E w : Sends(w)
  <2>1. tx' = tx \/ Transmit(StatusByte(ST_BUSY))
    BY <1>4 DEF MassErase
  <2>2. QED
    BY <1>1, <2>1, NothingSent, StatusSent
<1>5. ASSUME NEW stale \in StaleBytes, NEW status \in TransmitStatus,
             BootFlashErase(f, stale, status)
      PROVE  \E w : Sends(w)
  <2>1. \/ tx' = tx
        \/ \E requested : Transmit(EraseReply(requested, NEGATIVE_RESP) \o StatusByte(status))
    BY <1>5 DEF BootFlashErase
  <2>2. QED
    BY <1>1, <2>1, NothingSent, EraseReplySent, CodesAreBytes
<1>6. ASSUME NEW stale \in StaleBytes, GetBinSize(f, stale)
      PROVE  \E w : Sends(w)
  <2>1. PICK S : S = sectorsToBeErased'
    OBVIOUS
  <2>2. S \in SUBSET Sectors
    BY <1>6, <2>1, SectorsForFlashType DEF GetBinSize
  <2>3. Transmit(SectorsAck(S)) \/ Transmit(SectorsAck(S) \o StatusByte(ST_BUSY))
    BY <1>6, <2>1 DEF GetBinSize
  <2>4. QED
    BY <2>2, <2>3, SectorsAckSent
<1>7. CASE WriteBlock(f)
  <2>1. tx' = tx \/ Transmit(StatusByte(ST_BUSY))
    BY <1>7 DEF WriteBlock
  <2>2. QED
    BY <1>1, <2>1, NothingSent, StatusSent
<1>8. CASE BootFlashVerify(f)
  BY <1>1, <1>8, NothingSent DEF BootFlashVerify, vars
<1>9. CASE BootReadFlashProtStatus(f)
  <2>1. f.cmd \in serviceTable
    BY <1>9 DEF BootReadFlashProtStatus, Accepts, serviceTable
  <2>2. <<OPTION_BYTES.RDP>> \in Seq(Byte) /\ Len(<<OPTION_BYTES.RDP>>) \in Byte
    BY DeviceAssumption DEF Byte
  <2>3. QED
    BY <1>9, <2>1, <2>2, ReplySent, FirstBytes DEF BootReadFlashProtStatus
<1>10. CASE BootGetRWProt(f)
  <2>1. Transmit(RWProtReply(optcr)) \/ Transmit(GetFailure(ST_BUSY))
    BY <1>10 DEF BootGetRWProt
  <2>2. PICK o : o = optcr
    OBVIOUS
  <2>3. Transmit(RWProtReply(o)) \/ Transmit(GetFailure(ST_BUSY))
    BY <2>1, <2>2
  <2>4. QED
    BY <2>3, RWProtSent
<1>11. ASSUME NEW stale \in StaleBytes, BootSetRWProt(f, stale)
       PROVE  \E w : Sends(w)
  BY <1>11, RWProtSent DEF BootSetRWProt
<1>12. CASE BootJumpToApplication(f)
  <2>1. f.cmd \in serviceTable
    BY <1>12 DEF BootJumpToApplication, Accepts, serviceTable
  <2>2. <<>> \in Seq(Byte) /\ Len(<<>>) \in Byte
    BY DEF Byte
  <2>3. QED
    BY <1>12, <2>1, <2>2, ReplySent, FirstBytes DEF BootJumpToApplication
<1>13. QED
  BY <1>2, <1>3, <1>4, <1>5, <1>6, <1>7, <1>8, <1>9, <1>10, <1>11, <1>12 DEF Receive

LEMMA ContinueSends ==
  ASSUME SInv, Continue
  PROVE  \E w : Sends(w)
<1>1. tx \in Seq(Byte) /\ sectorsToBeErased \in SUBSET Sectors
  BY DEF SInv, TypeOK
<1>2. CASE SectorErase \/ WriteFlash
  BY <1>1, <1>2, NothingSent DEF SectorErase, WriteFlash
<1>3. ASSUME NEW status \in TransmitStatus, EraseCommandDone(status)
      PROVE  \E w : Sends(w)
  <2>1. PICK requested : requested = sectors
    OBVIOUS
  <2>2. Transmit(EraseReply(requested, POSITIVE_RESP) \o StatusByte(status))
    BY <1>3, <2>1 DEF EraseCommandDone
  <2>3. QED
    BY <2>2, EraseReplySent, CodesAreBytes
<1>4. CASE SectorsErased
  <2>1. PICK S : S = sectorsToBeErased
    OBVIOUS
  <2>2. Transmit(SectorsAck(S)) /\ S \in SUBSET Sectors
    BY <1>1, <1>4, <2>1 DEF SectorsErased
  <2>3. QED
    BY <2>2, SectorsAckSent
<1>5. CASE BlockWritten
  BY <1>5, BlockAckSent DEF BlockWritten
<1>6. CASE AllErased
  BY <1>1, <1>6, NothingSent DEF AllErased
<1>7. QED
  BY <1>2, <1>3, <1>4, <1>5, <1>6 DEF Continue

(* A step of the session without the host. *)
LEMMA EnvSends ==
  ASSUME SInv, EnvStep
  PROVE  \E w : Sends(w)
<1>1. tx \in Seq(Byte) /\ line \in Seq(Frames)
  BY DEF SInv, TypeOK, LineOK
<1>2. CASE DeviceReceives
  <2>1. Head(line) \in Frames
    BY <1>1, <1>2 DEF DeviceReceives
  <2>2. PICK f \in Frames : f = Head(line)
    BY <2>1
  <2>3. QED
    BY <1>2, <2>2, ReceiveSends DEF DeviceReceives
<1>3. CASE DeviceContinues
  BY <1>3, ContinueSends DEF DeviceContinues
<1>4. CASE SkewedNack
  BY <1>4, StatusSent DEF SkewedNack, WrongCRC
<1>5. CASE DeviceStarts
  BY <1>1, <1>5, BannersSent DEF DeviceStarts, ButtonPressed, BootTimeout
<1>6. CASE SkewedEnd \/ FrameLost \/ FrameOverrun \/ CorruptFrame
  BY <1>1, <1>6, NothingSent DEF SkewedEnd, FrameLost, FrameOverrun, CorruptFrame, vars
<1>7. CASE BoardReset
  BY <1>1, <1>7, NothingSent DEF BoardReset, Reset
<1>8. QED
  BY <1>2, <1>3, <1>4, <1>5, <1>6, <1>7 DEF EnvStep, DeviceStep

LEMMA EnvKeepsHost ==
  ASSUME EnvStep
  PROVE  UNCHANGED <<hpc, waitFor, command, file, sent, positive, toFollow>>
BY DEF EnvStep, DeviceStep, DeviceReceives, DeviceContinues, SkewedNack, SkewedEnd, DeviceStarts,
       FrameLost, FrameOverrun, CorruptFrame, BoardReset, hostVars, hostSide, script

LEMMA RefusedStays ==
  ASSUME SInv', EnvStep \/ HostStep, refused' = (refused \/ WRPERR')
  PROVE  (refused => refused') /\ (WRPERR' => refused')
OBVIOUS

LEMMA InFlashStays ==
  ASSUME NEW n, InFlash(n), refused => refused', UNCHANGED <<mem, file>>
  PROVE  InFlash(n)'
BY Zenon DEF InFlash, ImageIn

(* With nothing on the line and no handler at work only main and the reset
   button do something. *)
LEMMA RestOnly ==
  ASSUME EnvStep, Rest
  PROVE  DeviceStarts \/ BoardReset
<1>1. ~ DeviceContinues
  BY DEF DeviceContinues, Continue, SectorErase, EraseCommandDone, SectorsErased, WriteFlash,
         BlockWritten, Erasing, AllErased, ErasingAll, Rest, Idle
<1>2. QED
  BY <1>1 DEF EnvStep, DeviceStep, DeviceReceives, SkewedNack, SkewedEnd, FrameLost,
              FrameOverrun, CorruptFrame, Rest

LEMMA NothingHalfErased ==
  ASSUME TypeOK, ~ Erasing, ~ ErasingAll, NEW gone \in SUBSET HalfErased
  PROVE  EraseCells(mem, gone) = mem
<1>1. gone = {}
  BY DEF HalfErased
<1>2. mem \in [Address -> Byte]
  BY DEF TypeOK
<1>3. QED
  BY <1>1, <1>2 DEF EraseCells

LEMMA RestStep ==
  ASSUME Base, EnvStep, Rest, NEW w \in Seq(Byte), tx' = tx \o w
  PROVE  /\ Rest' /\ mem' = mem /\ (refused => refused') /\ UNCHANGED <<file, sent>>
         /\ \A i \in 1 .. Len(w) : w[i] # POSITIVE_RESP
         /\ phase' = "Control" =>
              \/ phase = "Control" /\ UNCHANGED <<state, progAddress, sectorsToBeErased>>
              \/ state' = "Get_BIN_Size" /\ w # <<>>
<1>1. tx \in Seq(Byte) /\ TypeOK
  BY DEF Base, SInv, TypeOK
<1>2. UNCHANGED <<file, sent>>
  BY EnvKeepsHost
<1>3. refused => refused'
  BY DEF EnvStep
<1>4. CASE ButtonPressed /\ DeviceStarts
  <2>1. Transmit(BootBanner) /\ BootBanner \in Seq(Byte)
    BY <1>4, DeviceAssumption DEF ButtonPressed
  <2>2. w = BootBanner
    BY <1>1, <2>1, Cancel DEF Transmit
  <2>3. \A i \in 1 .. Len(w) : w[i] # POSITIVE_RESP
    BY <1>1, <2>1, <2>2, BannersSent
  <2>4. line' = line /\ op' = op /\ mem' = mem
    BY <1>4 DEF DeviceStarts, ButtonPressed, driver, flash, hostVars
  <2>5. state' = "Get_BIN_Size"
    BY <1>4 DEF ButtonPressed, transfer, Base, Ctl
  <2>6. op = "Receive"
    BY <1>4 DEF ButtonPressed, Base, Ctl
  <2>7. QED
    BY <1>2, <1>3, <2>2, <2>3, <2>4, <2>5, <2>6, BannerAssumption DEF Rest, Idle
<1>5. CASE BootTimeout /\ DeviceStarts
  <2>1. Transmit(AppBanner) /\ AppBanner \in Seq(Byte)
    BY <1>5, DeviceAssumption DEF BootTimeout
  <2>2. w = AppBanner
    BY <1>1, <2>1, Cancel DEF Transmit
  <2>3. \A i \in 1 .. Len(w) : w[i] # POSITIVE_RESP
    BY <1>1, <2>1, <2>2, BannersSent
  <2>4. line' = line /\ mem' = mem /\ phase' = "App"
    BY <1>5 DEF DeviceStarts, BootTimeout, flash, hostVars
  <2>5. QED
    BY <1>2, <1>3, <2>2, <2>3, <2>4 DEF Rest, Idle
<1>6. CASE BoardReset
  <2>1. PICK gone \in SUBSET HalfErased : Reset(gone)
    BY <1>6 DEF BoardReset
  <2>2. ~ Erasing /\ ~ ErasingAll
    BY DEF Rest, Idle, Erasing, ErasingAll
  <2>3. mem' = mem
    BY <1>1, <2>1, <2>2, NothingHalfErased DEF Reset
  <2>4. tx' = tx /\ phase' \in {"Main", "Halted"} /\ op' = "Receive"
    BY <2>1 DEF Reset
  <2>5. w = <<>>
    <3>1. tx \o w = tx \o <<>> /\ <<>> \in Seq(Byte)
      BY <1>1, <2>4
    <3>2. QED
      BY <1>1, <3>1, Cancel
  <2>6. line' = line
    BY <1>6 DEF BoardReset, hostVars
  <2>7. QED
    BY <1>2, <1>3, <2>3, <2>4, <2>5, <2>6 DEF Rest, Idle
<1>7. QED
  BY <1>4, <1>5, <1>6, RestOnly DEF DeviceStarts

LEMMA CtlStep ==
  ASSUME Base, [SessionNext]_allVars
  PROVE  Ctl'
<1>1. WRPERR' => refused'
  BY DEF SessionNext, allVars, sessionVars, vars, flash, Base, Ctl
<1>2. [Next]_vars
  BY DeviceInStep DEF Base
<1>3. ASSUME phase' = "Main"
      PROVE  state' = "Get_BIN_Size" /\ op' = "Receive"
  <2>1. CASE \E gone \in SUBSET HalfErased : Reset(gone)
    BY <2>1 DEF Reset
  <2>2. CASE phase = "Main" /\ UNCHANGED <<state, op>>
    BY <2>2 DEF Base, Ctl
  <2>3. CASE ButtonPressed \/ BootTimeout
    BY <1>3, <2>3 DEF ButtonPressed, BootTimeout
  <2>4. CASE \E f \in Frames : Receive(f)
    <3>1. phase' \in {"Control", "App", "Halted"}
      BY <2>4 DEF Receive, WrongCRC, CommandNotFound, BootGetVersion, BootGetMCUID, MassErase,
                  BootFlashErase, GetBinSize, WriteBlock, BootFlashVerify,
                  BootReadFlashProtStatus, BootGetRWProt, BootSetRWProt, BootJumpToApplication,
                  Accepts, Listening, vars
    <3>2. QED
      BY <1>3, <3>1
  <2>5. CASE Continue
    <3>1. phase' \in {"Control", "Halted"}
      BY <2>5 DEF Continue, SectorErase, EraseCommandDone, SectorsErased, WriteFlash,
                  BlockWritten, Erasing, AllErased, ErasingAll
    <3>2. QED
      BY <1>3, <3>1
  <2>6. CASE HostReads \/ UNCHANGED vars
    BY <1>3, <2>2, <2>6 DEF HostReads, vars, transfer, driver
  <2>7. QED
    BY <1>2, <2>1, <2>3, <2>4, <2>5, <2>6 DEF Next
<1>4. QED
  BY <1>1, <1>3 DEF Ctl

(***************************************************************************)
(* What the device, the line and the reset button do to a stage of the     *)
(* conversation.  s stands for the bytes from some place of tx on, w for   *)
(* those the step adds.                                                    *)
(***************************************************************************)
LEMMA DeadStep ==
  ASSUME Base, EnvStep, NEW w \in Seq(Byte), tx' = tx \o w, NEW s \in Seq(Byte), Dead(s)
  PROVE  Dead(s \o w)'
BY RestStep, JunkAppended DEF Dead

LEMMA ReadyStep ==
  ASSUME Base, EnvStep, NEW w \in Seq(Byte), tx' = tx \o w, NEW s \in Seq(Byte),
         NEW n \in Nat, Ready(s, n)
  PROVE  Ready(s \o w, n)'
<1>1. Rest /\ Junk(s) /\ InFlash(n)
  BY DEF Ready, Dead
<1>2. Dead(s \o w)'
  BY DeadStep DEF Ready
<1>3. InFlash(n)'
  BY <1>1, RestStep, InFlashStays
<1>4. ASSUME n < Len(file)', (phase = "Control")'
      PROVE  AtPlace(s \o w, n)'
  <2>1. AtPlace(s, n) /\ UNCHANGED file
    BY <1>1, <1>4, RestStep DEF Ready
  <2>2. CASE phase = "Control" /\ UNCHANGED <<state, progAddress, sectorsToBeErased>>
    <3>1. s # <<>> => s \o w # <<>>
      BY Appended
    <3>2. QED
      BY <1>4, <2>1, <2>2, <3>1 DEF AtPlace, AnnouncedForImage
  <2>3. CASE state' = "Get_BIN_Size" /\ w # <<>>
    <3>1. s \o w # <<>>
      BY <2>3
    <3>2. QED
      BY <2>3, <3>1 DEF AtPlace
  <2>4. QED
    BY <1>1, <1>4, <2>2, <2>3, RestStep
<1>5. QED
  BY <1>2, <1>3, <1>4 DEF Ready, AtPlace

LEMMA BusyOnly ==
  ASSUME EnvStep, line = <<>>, phase = "Control", op # "Receive"
  PROVE  DeviceContinues \/ BoardReset
BY DEF EnvStep, DeviceStep, DeviceReceives, SkewedNack, SkewedEnd, FrameLost, FrameOverrun,
       CorruptFrame, DeviceStarts, ButtonPressed, BootTimeout

LEMMA ResetMidway ==
  ASSUME Base, BoardReset, line = <<>>, NEW w \in Seq(Byte), tx' = tx \o w
  PROVE  w = <<>> /\ Dead(<<>>)'
<1>1. tx' = tx /\ phase' \in {"Main", "Halted"} /\ line' = <<>>
  BY DEF BoardReset, Reset, hostVars
<1>2. tx \in Seq(Byte) /\ tx \o w = tx \o <<>> /\ <<>> \in Seq(Byte)
  BY <1>1 DEF Base, SInv, TypeOK
<1>3. w = <<>>
  BY <1>2, Cancel
<1>4. QED
  BY <1>1, <1>3 DEF Dead, Junk, Rest, Idle

LEMMA QuietContinue ==
  ASSUME Base, tx' = tx, NEW w \in Seq(Byte), tx' = tx \o w
  PROVE  w = <<>>
<1>1. tx \in Seq(Byte) /\ tx \o w = tx \o <<>> /\ <<>> \in Seq(Byte)
  BY DEF Base, SInv, TypeOK
<1>2. QED
  BY <1>1, Cancel

LEMMA NothingInFlash ==
  ASSUME file \in Seq(0 .. 255)
  PROVE  InFlash(0)
<1>1. Len(SubSeq(file, 1, 0)) = 0
  OBVIOUS
<1>2. QED
  BY <1>1 DEF InFlash, ImageIn

LEMMA FileType ==
  ASSUME SInv
  PROVE  file \in Seq(0 .. 255) /\ sent \in 0 .. Len(file)
<1>1. Files \subseteq Seq(0 .. 255) /\ <<>> \in Seq(0 .. 255)
  BY ProgrammerAssumption
<1>2. QED
  BY <1>1 DEF SInv, LineOK

LEMMA ThreeAndOne ==
  ASSUME NEW a, NEW b, NEW c, NEW d
  PROVE  <<a, b, c>> \o <<d>> = <<a, b, c, d>>
<1> DEFINE S == {a, b, c, d}
           s == <<a, b, c>> \o <<d>>
           t == <<a, b, c, d>>
<1>1. <<a, b, c>> \in Seq(S) /\ <<d>> \in Seq(S) /\ t \in Seq(S) /\ Len(t) = 4
  OBVIOUS
<1>2. s \in Seq(S) /\ Len(s) = 4
  BY <1>1
<1>3. s[1] = a /\ s[2] = b /\ s[3] = c /\ s[4] = d
  BY <1>1
<1>4. \A i \in 1 .. 4 : s[i] = t[i]
  BY <1>3
<1> HIDE DEF s, t, S
<1>5. QED
  BY <1>1, <1>2, <1>4, SeqEqual DEF s, t

LEMMA ErasingStep ==
  ASSUME Base, EnvStep, NEW w \in Seq(Byte), tx' = tx \o w, ErasingImage
  PROVE  Second(w)'
<1>1. line = <<>> /\ phase = "Control" /\ op = "EraseForWrite" /\ AnnouncedForImage
  BY DEF ErasingImage, Busy
<1>2. file' = file
  BY EnvKeepsHost
<1>3. CASE BoardReset
  BY <1>1, <1>3, ResetMidway DEF Second
<1>4. CASE DeviceContinues /\ SectorErase
  <2>1. tx' = tx /\ line' = <<>> /\ op' = op /\ phase' \in {"Control", "Halted"}
        /\ sectorsToBeErased' = sectorsToBeErased
    BY <1>1, <1>4 DEF DeviceContinues, SectorErase, hostVars, transfer
  <2>2. w = <<>>
    BY <2>1, QuietContinue
  <2>3. QED
    BY <1>1, <1>2, <2>1, <2>2 DEF Second, Dead, Junk, Rest, Idle, ErasingImage, Busy,
                                  AnnouncedForImage
<1>5. CASE DeviceContinues /\ SectorsErased
  <2>1. /\ Transmit(SectorsAck(sectorsToBeErased)) /\ line' = <<>>
        /\ state' = "Write_FLASH_Sectors" /\ op' = "Receive"
        /\ UNCHANGED <<progAddress, sectorsToBeErased>>
    BY <1>1, <1>5 DEF DeviceContinues, SectorsErased, hostVars
  <2>2. PICK mask : mask = MaskOfSectors(sectorsToBeErased)
    OBVIOUS
  <2>3. mask \in Byte /\ tx \in Seq(Byte)
    BY <2>2, MaskType DEF Base, SInv, TypeOK
  <2>4. w = <<CMD_CODE_BOOT_FLASH_WRITE, POSITIVE_RESP, 1, mask>>
    <3> DEFINE ack == <<CMD_CODE_BOOT_FLASH_WRITE, POSITIVE_RESP, 1, mask>>
    <3>1. SectorsAck(sectorsToBeErased) = ack
      <4>1. Len(<<mask>>) = 1
        OBVIOUS
      <4>2. QED
        BY <2>2, <4>1, ThreeAndOne DEF SectorsAck, PositiveReply
    <3>2. ack \in Seq(Byte)
      BY <2>3, FirstBytes, CodesInTable, CodesAreBytes DEF Byte
    <3> HIDE DEF ack
    <3>3. tx \o w = tx \o ack
      BY <2>1, <3>1 DEF Transmit
    <3>4. w = ack
      BY <2>3, <3>2, <3>3, Cancel
    <3>5. QED
      BY <3>4 DEF ack
  <2>5. Reply(w, 1) /\ Drop(w, 4) = <<>>
    BY <2>4 DEF Reply, Drop
  <2>6. progAddress = SECTOR2_ADDRESS /\ SECTOR2_ADDRESS \in Nat
    BY <1>1, ApplicationArea DEF Base, IInv, Bookkeeping, ResetToDefault
  <2>7. InFlash(0)'
    <3>1. Len(SubSeq(file', 1, 0)) = 0
      BY <1>2, FileType DEF Base
    <3>2. QED
      BY <3>1 DEF InFlash, ImageIn
  <2>8. Dead(<<>>)'
    BY <2>1 DEF Dead, Junk, Rest, Idle
  <2>9. AtPlace(<<>>, 0)'
    BY <1>1, <1>2, <2>1, <2>6 DEF AtPlace, AnnouncedForImage
  <2>10. Ready(<<>>, 0)'
    BY <2>7, <2>8, <2>9, Zenon DEF Ready
  <2>11. QED
    BY <2>5, <2>10, Zenon DEF Second
<1>6. DeviceContinues => SectorErase \/ SectorsErased
  BY <1>1 DEF DeviceContinues, Continue, EraseCommandDone, WriteFlash, BlockWritten,
         AllErased, ErasingAll
<1>7. QED
  BY <1>1, <1>3, <1>4, <1>5, <1>6, BusyOnly

LEMMA SecondStep ==
  ASSUME Base, EnvStep, NEW w \in Seq(Byte), tx' = tx \o w, NEW s \in Seq(Byte), Second(s)
  PROVE  Second(s \o w)'
<1>1. CASE Dead(s)
  BY <1>1, DeadStep DEF Second
<1>2. CASE s = <<>> /\ ErasingImage
  <2>1. s \o w = w
    BY <1>2
  <2>2. QED
    BY <1>2, <2>1, ErasingStep
<1>3. CASE Reply(s, 1) /\ Ready(Drop(s, 4), 0)
  <2>1. Reply(s \o w, 1)
    BY <1>3, ReplyAppended
  <2>2. Drop(s, 4) \in Seq(Byte) /\ Drop(s \o w, 4) = Drop(s, 4) \o w
    <3>1. 4 \in 0 .. Len(s)
      BY <1>3 DEF Reply
    <3>2. QED
      BY <3>1, DropType, DropAppended
  <2>3. Ready(Drop(s, 4) \o w, 0)'
    BY <1>3, <2>2, ReadyStep
  <2>4. QED
    BY <2>1, <2>2, <2>3, Zenon DEF Second
<1>4. QED
  BY <1>1, <1>2, <1>3 DEF Second

(***************************************************************************)
(* A frame on its way to a device that listens, or does not listen yet.    *)
(***************************************************************************)
LEMMA DamagedFrame ==
  ASSUME NEW f \in Frames
  PROVE  /\ [f EXCEPT !.crcOk = FALSE] \in Frames
         /\ [f EXCEPT !.crcOk = FALSE].crcOk = FALSE
         /\ [[f EXCEPT !.crcOk = FALSE] EXCEPT !.crcOk = FALSE] = [f EXCEPT !.crcOk = FALSE]
<1>1. f \in FrameSet(Byte)
  BY DeviceAssumption
<1>2. QED
  BY <1>1, SessionAssumption DEF FrameSet

LEMMA OneFrame ==
  ASSUME NEW f \in Frames, OnTheLine(f)
  PROVE  /\ line # <<>> /\ Tail(line) = <<>>
         /\ Head(line) \in {f, [f EXCEPT !.crcOk = FALSE]}
         /\ <<[Head(line) EXCEPT !.crcOk = FALSE]>> \o Tail(line) = <<[f EXCEPT !.crcOk = FALSE]>>
<1> DEFINE g == [f EXCEPT !.crcOk = FALSE]
<1>1. g \in Frames /\ [g EXCEPT !.crcOk = FALSE] = g
  BY DamagedFrame
<1>2. line = <<f>> \/ line = <<g>>
  BY DEF OnTheLine
<1>3. Tail(line) = <<>> /\ line # <<>> /\ (Head(line) = f \/ Head(line) = g)
  <2> HIDE DEF g
  <2>1. \A x : Head(<<x>>) = x /\ <<x>> # <<>>
    OBVIOUS
  <2>2. ASSUME NEW x PROVE Tail(<<x>>) = <<>>
    <3>1. Tail(<<x>>) \in Seq({x}) /\ Len(Tail(<<x>>)) = 0
      OBVIOUS
    <3>2. QED
      BY <3>1
  <2>3. QED
    BY <1>2, <2>1, <2>2
<1>4. [Head(line) EXCEPT !.crcOk = FALSE] = g
  BY <1>1, <1>3
<1>5. <<g>> \o <<>> = <<g>>
  <2> HIDE DEF g
  <2>1. <<g>> \in Seq(Frames)
    BY <1>1
  <2>2. QED
    BY <2>1
<1>6. QED
  BY <1>3, <1>4, <1>5

(* What can happen to it when the device does not receive it. *)
LEMMA FrameStep ==
  ASSUME Base, EnvStep, ~ DeviceReceives, NEW f \in Frames, tx = <<>>, Idle, OnTheLine(f)
  PROVE  \/ Bad(tx')
         \/ Dead(tx)'
         \/ /\ tx' = <<>> /\ Idle' /\ OnTheLine(f)'
            /\ mem' = mem /\ (refused => refused')
            /\ phase' = "Control" =>
                 phase = "Control" /\ UNCHANGED <<state, progAddress, sectorsToBeErased>>
<1>1. line # <<>> /\ Tail(line) = <<>>
      /\ <<[Head(line) EXCEPT !.crcOk = FALSE]>> \o Tail(line) = <<[f EXCEPT !.crcOk = FALSE]>>
  BY OneFrame
<1>2. refused => refused'
  BY DEF EnvStep
<1>3. CASE SkewedNack
  <2>1. Transmit(StatusByte(ST_WRONG_CRC))
    BY <1>3 DEF SkewedNack, WrongCRC
  <2>2. tx' = <<ST_WRONG_CRC>>
    BY <2>1 DEF Transmit, StatusByte, ST_WRONG_CRC, ST_OK
  <2>3. QED
    BY <2>2 DEF Bad
<1>4. CASE SkewedEnd \/ FrameLost
  <2>1. tx' = <<>> /\ line' = <<>> /\ UNCHANGED <<phase, op>>
    BY <1>1, <1>4 DEF SkewedEnd, FrameLost, Delivered, vars, driver
  <2>2. QED
    BY <2>1 DEF Dead, Junk, Rest, Idle
<1>5. ~ FrameOverrun
  BY DEF FrameOverrun, Idle
<1>6. CASE CorruptFrame
  <2>1. UNCHANGED <<tx, phase, op, mem, state, progAddress, sectorsToBeErased>>
    BY <1>6 DEF CorruptFrame, vars, transfer, driver, flash
  <2>2. line' \in {line, <<[f EXCEPT !.crcOk = FALSE]>>}
    BY <1>1, <1>6 DEF CorruptFrame
  <2>3. QED
    BY <1>2, <2>1, <2>2 DEF OnTheLine, Idle
<1>7. CASE DeviceStarts
  <2>1. line' = line /\ mem' = mem
    BY <1>7 DEF DeviceStarts, ButtonPressed, BootTimeout, hostVars, flash
  <2>2. PICK w \in {BootBanner, AppBanner} :
          Transmit(w) /\ (w = BootBanner \/ phase' = "App")
    BY <1>7 DEF DeviceStarts, ButtonPressed, BootTimeout
  <2>3. w \in Seq(Byte) /\ tx' = w
    BY <2>2, DeviceAssumption DEF Transmit
  <2>4. CASE w = <<>>
    <3>1. phase' = "App"
      BY <2>2, <2>4, BannerAssumption
    <3>2. QED
      BY <1>2, <2>1, <2>3, <2>4, <3>1 DEF OnTheLine, Idle
  <2>5. CASE w # <<>>
    <3>1. \A i \in 1 .. Len(w) : w[i] # POSITIVE_RESP
      BY <2>2, BannersSent DEF Base, SInv, TypeOK
    <3>2. Len(w) >= 2 => 2 \in 1 .. Len(w)
      BY <2>3
    <3>3. QED
      BY <2>3, <2>5, <3>1, <3>2 DEF Bad
  <2>6. QED
    BY <2>4, <2>5
<1>8. CASE BoardReset
  <2>1. PICK gone \in SUBSET HalfErased : Reset(gone)
    BY <1>8 DEF BoardReset
  <2>2. ~ Erasing /\ ~ ErasingAll
    BY DEF Idle, Erasing, ErasingAll
  <2>3. mem' = mem
    BY <2>1, <2>2, NothingHalfErased DEF Reset, Base, SInv
  <2>4. tx' = tx /\ phase' \in {"Main", "Halted"} /\ line' = line
    BY <1>8, <2>1 DEF BoardReset, Reset, hostVars
  <2>5. QED
    BY <1>2, <2>3, <2>4 DEF OnTheLine, Idle
<1>9. ~ DeviceContinues
  BY DEF DeviceContinues, Continue, SectorErase, EraseCommandDone, SectorsErased, WriteFlash,
         BlockWritten, Erasing, AllErased, ErasingAll, Idle
<1>10. QED
  BY <1>3, <1>4, <1>5, <1>6, <1>7, <1>8, <1>9 DEF EnvStep, DeviceStep

(* A frame of the image, when the device does receive it. *)
LEMMA ImageFrameReceived ==
  ASSUME Base, DeviceReceives, NEW f \in Frames, f.cmd = CMD_CODE_BOOT_FLASH_WRITE, f.crcOk,
         tx = <<>>, OnTheLine(f)
  PROVE  \/ Bad(tx')
         \/ \E stale \in StaleBytes : GetBinSize(f, stale) /\ line' = <<>>
         \/ WriteBlock(f) /\ line' = <<>>
<1>1. Tail(line) = <<>> /\ Head(line) \in {f, [f EXCEPT !.crcOk = FALSE]}
  BY OneFrame
<1>2. line' = <<>>
  BY <1>1 DEF DeviceReceives, Delivered
<1>3. CASE Head(line) = f
  <2>1. Receive(f)
    BY <1>3 DEF DeviceReceives
  <2>2. f.cmd \in serviceTable
    BY CodesInTable
  <2>3. (\E stale \in StaleBytes : GetBinSize(f, stale)) \/ WriteBlock(f)
    BY <2>1, <2>2 DEF Receive, WrongCRC, CommandNotFound, BootGetVersion, BootGetMCUID, MassErase,
            BootFlashErase, BootFlashVerify, BootReadFlashProtStatus, BootGetRWProt,
            BootSetRWProt, BootJumpToApplication, Accepts,
            CMD_CODE_BOOT_GET_VERSION, CMD_CODE_BOOT_GET_MCUID,
            CMD_CODE_BOOT_FLASH_ERASE, CMD_CODE_BOOT_FLASH_WRITE, CMD_CODE_BOOT_FLASH_VERIFY,
            CMD_CODE_BOOT_READ_FLASH_PROT_STATUS, CMD_CODE_BOOT_GET_FLASH_RW_PROT,
            CMD_CODE_BOOT_JUMP_TO_APP, CMD_CODE_BOOT_SET_FLASH_RW_PROT
  <2>4. QED
    BY <1>2, <2>3
<1>4. CASE Head(line) = [f EXCEPT !.crcOk = FALSE]
  <2> DEFINE g == [f EXCEPT !.crcOk = FALSE]
  <2>1. Receive(g) /\ g.crcOk = FALSE
    BY <1>4, DamagedFrame DEF DeviceReceives
  <2> HIDE DEF g
  <2>2. WrongCRC(g)
    BY <2>1 DEF Receive, CommandNotFound, BootGetVersion, BootGetMCUID, MassErase,
            BootFlashErase, GetBinSize, WriteBlock, BootFlashVerify, BootReadFlashProtStatus,
            BootGetRWProt, BootSetRWProt, BootJumpToApplication, Accepts
  <2>3. Transmit(StatusByte(ST_WRONG_CRC))
    BY <2>2 DEF WrongCRC
  <2>4. tx' = <<ST_WRONG_CRC>>
    BY <2>3 DEF Transmit, StatusByte, ST_WRONG_CRC, ST_OK
  <2>5. QED
    BY <2>4 DEF Bad
<1>5. QED
  BY <1>1, <1>3, <1>4

(* The size the device reads is the size the script wrote. *)
LEMMA SizeArrives ==
  ASSUME NEW f \in Files, NEW stale
  PROVE  binSizeOf(SizeFrame(f).data, stale) = Len(f)
<1> DEFINE n == Len(f)
           data == SizeFrame(f).data
<1>1. n \in Nat
  BY ProgrammerAssumption
<1>2. /\ Len(data) = 4
      /\ data[1] = n % 256 /\ data[2] = (n \div 256) % 256
      /\ data[3] = (n \div 65536) % 256 /\ data[4] = n \div 16777216
  BY DEF SizeFrame, Frame
<1>3. binSizeOf(data, stale) = data[1] + 256 * data[2] + 65536 * data[3] + 16777216 * data[4]
  <2> HIDE DEF data
  <2>1. QED
    BY <1>2 DEF binSizeOf, BufferByte
<1> HIDE DEF n, data
<1>4. n = 256 * (n \div 256) + (n % 256)
  BY <1>1
<1>5. n \div 256 = 256 * (n \div 65536) + ((n \div 256) % 256)
  BY <1>1
<1>6. n \div 65536 = 256 * (n \div 16777216) + ((n \div 65536) % 256)
  BY <1>1
<1>7. /\ n \div 256 \in Nat /\ n \div 65536 \in Nat /\ n \div 16777216 \in Nat
      /\ n % 256 \in Nat /\ (n \div 256) % 256 \in Nat /\ (n \div 65536) % 256 \in Nat
  BY <1>1
<1>8. n = (n % 256) + 256 * ((n \div 256) % 256) + 65536 * ((n \div 65536) % 256)
            + 16777216 * (n \div 16777216)
  BY <1>1, <1>4, <1>5, <1>6, <1>7
<1>9. QED
  BY <1>2, <1>3, <1>8 DEF n, data

LEMMA SizeFrameIs ==
  ASSUME NEW f \in Files
  PROVE  /\ SizeFrame(f) \in Frames /\ SizeFrame(f).cmd = CMD_CODE_BOOT_FLASH_WRITE
         /\ SizeFrame(f).crcOk
BY SessionAssumption DEF SizeFrame, Frame

LEMMA SizeReceived ==
  ASSUME Base, EnvStep, DeviceReceives, file \in Files, tx = <<>>, OnTheLine(SizeFrame(file))
  PROVE  First(tx)'
<1>1. /\ SizeFrame(file) \in Frames /\ SizeFrame(file).cmd = CMD_CODE_BOOT_FLASH_WRITE
      /\ SizeFrame(file).crcOk
  BY SizeFrameIs
<1>2. PICK f \in Frames : f = SizeFrame(file)
  BY <1>1
<1>3. file' = file
  BY EnvKeepsHost
<1>4. CASE Bad(tx')
  BY <1>4 DEF First
<1>5. ASSUME NEW stale \in StaleBytes, GetBinSize(f, stale), line' = <<>>
      PROVE  First(tx)'
  <2>1. phase = "Control" /\ op = "Receive" /\ currentState = "FLASH_AVAILABLE"
    BY <1>5 DEF GetBinSize, Accepts, Listening, Base, IInv, DriverFree
  <2>2. PICK S : S = sectorsToBeErased'
    OBVIOUS
  <2>3. S = GetSectorsForFlash(Len(file)) /\ S \in SUBSET Sectors
    BY <1>2, <1>5, <2>2, SizeArrives, SectorsForFlashType DEF GetBinSize
  <2>4. phase' = "Control" /\ op' = "EraseForWrite" /\ Transmit(SectorsAck(S))
    BY <1>5, <2>1, <2>2 DEF GetBinSize
  <2>5. PICK mask : mask = MaskOfSectors(S)
    OBVIOUS
  <2>6. tx' = <<CMD_CODE_BOOT_FLASH_WRITE, POSITIVE_RESP, 1, mask>>
    <3>1. Len(<<mask>>) = 1
      OBVIOUS
    <3>2. SectorsAck(S) = <<CMD_CODE_BOOT_FLASH_WRITE, POSITIVE_RESP, 1, mask>>
      BY <2>5, <3>1, ThreeAndOne DEF SectorsAck, PositiveReply
    <3>3. QED
      BY <2>4, <3>2 DEF Transmit
  <2>7. Reply(tx', 1) /\ Drop(tx', 4) = <<>>
    BY <2>6 DEF Reply, Drop
  <2>8. ErasingImage'
    BY <1>3, <1>5, <2>2, <2>3, <2>4 DEF ErasingImage, Busy, AnnouncedForImage
  <2>9. QED
    BY <2>7, <2>8 DEF First, Second
<1>6. ASSUME WriteBlock(f), line' = <<>>
      PROVE  First(tx)'
  <2>1. phase = "Control" /\ op = "Receive" /\ currentState = "FLASH_AVAILABLE"
    BY <1>6 DEF WriteBlock, Accepts, Listening, Base, IInv, DriverFree
  <2>2. tx' = <<>> /\ phase' = "Control" /\ op' = "Program"
    BY <1>6, <2>1 DEF WriteBlock
  <2>3. QED
    BY <1>6, <2>2 DEF First, Busy
<1>7. QED
  BY <1>1, <1>2, <1>4, <1>5, <1>6, ImageFrameReceived

LEMMA Acknowledges ==
  ASSUME BlockWritten, tx = <<>>
  PROVE  Reply(tx', 0) /\ Drop(tx', 3) = <<>>
<1>1. Len(<<>>) = 0
  OBVIOUS
<1>2. \A a, b : <<a, b, 0>> \o <<>> = <<a, b, 0>>
  <2> SUFFICES ASSUME NEW a, NEW b PROVE <<a, b, 0>> \o <<>> = <<a, b, 0>>
    OBVIOUS
  <2>1. <<a, b, 0>> \in Seq({a, b, 0})
    OBVIOUS
  <2>2. QED
    BY <2>1
<1>3. BlockAck = <<CMD_CODE_BOOT_FLASH_WRITE, POSITIVE_RESP, 0>>
  BY <1>1, <1>2 DEF BlockAck, PositiveReply
<1>4. tx' = <<CMD_CODE_BOOT_FLASH_WRITE, POSITIVE_RESP, 0>>
  BY <1>3 DEF BlockWritten, Transmit
<1>5. QED
  BY <1>4 DEF Reply, Drop

(* A device that takes the size for a block of an earlier image. *)
LEMMA SizeAsBlockStep ==
  ASSUME Base, EnvStep, tx = <<>>, Busy("Program")
  PROVE  First(tx)'
<1>1. line = <<>> /\ phase = "Control" /\ op = "Program"
  BY DEF Busy
<1>2. CASE BoardReset
  <2>1. tx' = <<>> /\ line' = <<>> /\ op' = "Receive"
    BY <1>1, <1>2 DEF BoardReset, Reset, hostVars
  <2>2. QED
    BY <2>1 DEF First, Dead, Junk, Rest, Idle
<1>3. CASE DeviceContinues /\ WriteFlash
  <2>1. tx' = <<>> /\ line' = <<>> /\ op' = op /\ phase' \in {"Control", "Halted"}
    BY <1>1, <1>3 DEF DeviceContinues, WriteFlash, hostVars
  <2>2. QED
    BY <1>1, <2>1 DEF First, Dead, Junk, Rest, Idle, Busy
<1>4. CASE DeviceContinues /\ BlockWritten
  <2>1. line' = <<>> /\ op' = "Receive"
    BY <1>1, <1>4 DEF DeviceContinues, BlockWritten, hostVars
  <2>2. Dead(Drop(tx, 3))'
    BY <1>4, <2>1, Acknowledges DEF Dead, Junk, Rest, Idle
  <2>3. QED
    BY <1>4, <2>2, Acknowledges DEF First
<1>5. DeviceContinues => WriteFlash \/ BlockWritten
  BY <1>1 DEF DeviceContinues, Continue, SectorErase, EraseCommandDone, SectorsErased, Erasing,
         AllErased, ErasingAll
<1>6. QED
  BY <1>1, <1>2, <1>3, <1>4, <1>5, BusyOnly

LEMMA FirstStep ==
  ASSUME Base, EnvStep, file \in Files, First(tx)
  PROVE  First(tx)'
<1>1. PICK w : Sends(w)
  BY EnvSends DEF Base
<1>2. w \in Seq(Byte) /\ tx \in Seq(Byte) /\ tx' = tx \o w /\ (w # <<>> => w[1] # POSITIVE_RESP)
  BY <1>1 DEF Sends, Base, SInv, TypeOK
<1>3. PICK s \in Seq(Byte) : s = tx
  BY <1>2
<1>4. CASE Dead(tx)
  <2>1. Dead(s \o w)'
    BY <1>2, <1>3, <1>4, DeadStep
  <2>2. QED
    BY <1>2, <1>3, <2>1 DEF First, Dead
<1>5. CASE Bad(tx)
  <2>1. Bad(s \o w)
    BY <1>2, <1>3, <1>5, BadAppended
  <2>2. QED
    BY <1>2, <1>3, <2>1 DEF First
<1>6. CASE tx = <<>> /\ Idle /\ OnTheLine(SizeFrame(file))
  <2>1. CASE DeviceReceives
    BY <1>6, <2>1, SizeReceived
  <2>2. CASE ~ DeviceReceives
    <3>1. PICK f \in Frames : f = SizeFrame(file)
      BY SizeFrameIs
    <3>2. \/ Bad(tx')
          \/ Dead(tx)'
          \/ tx' = <<>> /\ Idle' /\ OnTheLine(f)'
      BY <1>6, <2>2, <3>1, FrameStep
    <3>3. file' = file
      BY EnvKeepsHost
    <3>4. OnTheLine(f)' => OnTheLine(SizeFrame(file))'
      BY <3>1, <3>3 DEF OnTheLine
    <3>5. QED
      BY <3>2, <3>4 DEF First
  <2>3. QED
    BY <2>1, <2>2
<1>7. CASE tx = <<>> /\ Busy("Program")
  BY <1>7, SizeAsBlockStep
<1>8. CASE Reply(tx, 1) /\ Second(Drop(tx, 4))
  <2>1. 4 \in 0 .. Len(s) /\ Reply(s, 1)
    BY <1>3, <1>8 DEF Reply
  <2>2. PICK t \in Seq(Byte) : t = Drop(tx, 4)
    BY <1>3, <2>1, DropType
  <2>3. Drop(s \o w, 4) = t \o w
    BY <1>2, <1>3, <2>1, <2>2, DropAppended
  <2>4. Second(t \o w)'
    BY <1>2, <1>8, <2>2, SecondStep
  <2>5. Reply(s \o w, 1)
    BY <1>2, <2>1, ReplyAppended
  <2>6. Reply(tx', 1) /\ Drop(tx', 4) = t \o w
    BY <1>2, <1>3, <2>3, <2>5
  <2>7. QED
    BY <2>4, <2>6 DEF First
<1>9. CASE Reply(tx, 0) /\ Dead(Drop(tx, 3))
  <2>1. 3 \in 0 .. Len(s) /\ Reply(s, 0)
    BY <1>3, <1>9 DEF Reply
  <2>2. PICK t \in Seq(Byte) : t = Drop(tx, 3)
    BY <1>3, <2>1, DropType
  <2>3. Drop(s \o w, 3) = t \o w
    BY <1>2, <1>3, <2>1, <2>2, DropAppended
  <2>4. Dead(t \o w)'
    BY <1>2, <1>9, <2>2, DeadStep
  <2>5. Reply(s \o w, 0)
    BY <1>2, <2>1, ReplyAppended
  <2>6. Reply(tx', 0) /\ Drop(tx', 3) = t \o w
    BY <1>2, <1>3, <2>3, <2>5
  <2>7. QED
    BY <2>4, <2>6 DEF First
<1>10. QED
  BY <1>4, <1>5, <1>6, <1>7, <1>8, <1>9 DEF First

LEMMA Prefix ==
  ASSUME NEW f \in Seq(0 .. 255), NEW k \in 0 .. Len(f), NEW m
  PROVE  ImageIn(m, SubSeq(f, 1, k)) <=> \A i \in 1 .. k : m[SECTOR2_ADDRESS + i - 1] = f[i]
<1>1. /\ Len(SubSeq(f, 1, k)) = k
      /\ \A i \in 1 .. k : SubSeq(f, 1, k)[i] = f[i]
  OBVIOUS
<1>2. QED
  BY <1>1 DEF ImageIn

LEMMA BlockFrameIs ==
  ASSUME NEW f \in Files, NEW n \in 0 .. Len(f) - 1
  PROVE  LET b == BlockFrame(f, n) IN
         /\ b \in Frames /\ b.cmd = CMD_CODE_BOOT_FLASH_WRITE /\ b.crcOk
         /\ Len(b.data) \in 0 .. Len(f) - n
         /\ \A i \in 1 .. Len(b.data) : b.data[i] = f[n + i]
         /\ b.frameType = LAST_FRAME => n + Len(b.data) = Len(f)
<1> DEFINE remaining == Len(f) - n
           full == remaining >= PROG_BLOCK_MAX_SIZE
           length == IF full THEN PROG_BLOCK_MAX_SIZE ELSE remaining
           data == SubSeq(f, n + 1, n + length)
<1>1. f \in Seq(0 .. 255) /\ remaining \in Nat
  BY ProgrammerAssumption
<1>2. length \in 0 .. remaining
  BY <1>1, ProgrammerAssumption
<1>3. Len(data) = length /\ \A i \in 1 .. length : data[i] = f[n + i]
  <2> HIDE DEF length
  <2>1. QED
    BY <1>1, <1>2
<1>4. /\ BlockFrame(f, n).data = data /\ BlockFrame(f, n).cmd = CMD_CODE_BOOT_FLASH_WRITE
      /\ BlockFrame(f, n).crcOk
      /\ BlockFrame(f, n).frameType = IF full THEN CONSEC_FRAME ELSE LAST_FRAME
  BY DEF BlockFrame, Frame
<1>5. BlockFrame(f, n).frameType = LAST_FRAME => length = remaining
  BY <1>4 DEF LAST_FRAME, CONSEC_FRAME
<1>6. BlockFrame(f, n) \in Frames
  BY SessionAssumption
<1> HIDE DEF data, length
<1>7. QED
  BY <1>1, <1>2, <1>3, <1>4, <1>5, <1>6

LEMMA BlockInFlash ==
  ASSUME Base, file \in Files, NEW n \in 0 .. Len(file) - 1, Programming(n), InFlash(n),
         n + Len(block) = sent, idx = Len(block), ~ refused
  PROVE  ImageIn(mem, SubSeq(file, 1, sent))
<1>1. /\ Busy("Program") /\ AnnouncedForImage /\ progAddress = SECTOR2_ADDRESS + n
      /\ Len(block) \in 0 .. Len(file) - n /\ \A i \in 1 .. Len(block) : block[i] = file[n + i]
  BY BlockFrameIs DEF Programming
<1>2. /\ ~ WRPERR /\ file \in Seq(0 .. 255) /\ Len(file) \in Nat /\ sent \in 0 .. Len(file)
      /\ SECTOR2_ADDRESS \in Nat /\ FLASH_END \in Nat /\ Len(block) \in Nat
  BY <1>1, FileType, ApplicationArea DEF Base, Ctl
<1>3. n \in 0 .. Len(file) /\ n \in Nat
  BY <1>2
<1>4. \A i \in 1 .. n : mem[SECTOR2_ADDRESS + i - 1] = file[i]
  BY <1>2, <1>3, Prefix DEF InFlash
<1>5. \A i \in 1 .. Len(block) :
        progAddress + i - 1 \in CellsOfAll(sectorsToBeErased) =>
          mem[progAddress + i - 1] = block[i]
  BY <1>1, <1>2 DEF Base, IInv, BlockAsSent, Busy
<1>6. progAddress + Len(block) <= FLASH_END
  BY <1>2 DEF Base, IInv, PointerInApplication
<1>7. ASSUME NEW i \in n + 1 .. sent
      PROVE  mem[SECTOR2_ADDRESS + i - 1] = file[i]
  <2> DEFINE j == i - n
             a == SECTOR2_ADDRESS + i - 1
  <2>1. i \in Nat /\ j \in 1 .. Len(block) /\ n + j = i /\ progAddress + j - 1 = a
    <3>1. i \in Nat /\ n < i /\ i <= sent /\ sent = n + Len(block)
      BY <1>1, <1>2, <1>3
    <3>2. j \in 1 .. Len(block) /\ n + j = i
      BY <1>2, <1>3, <3>1
    <3>3. progAddress + j - 1 = a
      BY <1>1, <1>2, <1>3, <3>1
    <3>4. QED
      BY <3>1, <3>2, <3>3
  <2>2. a \in Address /\ a >= SECTOR2_ADDRESS /\ a < SECTOR2_ADDRESS + Len(file)
    BY <1>1, <1>2, <1>3, <1>6, <2>1 DEF Address
  <2>3. a \in CellsOfAll(sectorsToBeErased)
    BY <1>1, <1>2, <2>2, ImageCells DEF AnnouncedForImage
  <2> HIDE DEF a, j
  <2>4. mem[a] = block[j] /\ block[j] = file[i]
    BY <1>1, <1>5, <2>1, <2>3
  <2>5. QED
    BY <2>4 DEF a
<1>8. \A i \in 1 .. sent : i \in 1 .. n \/ i \in n + 1 .. sent
  BY <1>2, <1>3
<1>9. \A i \in 1 .. sent : mem[SECTOR2_ADDRESS + i - 1] = file[i]
  BY <1>4, <1>7, <1>8
<1>10. QED
  BY <1>2, <1>9, Prefix

LEMMA ProgrammingStep ==
  ASSUME Base, EnvStep, file \in Files, NEW n \in 0 .. Len(file) - 1,
         n + Len(BlockFrame(file, n).data) = sent,
         tx = <<>>, Programming(n), InFlash(n)
  PROVE  OfBlock(tx, n)'
<1>1. /\ line = <<>> /\ phase = "Control" /\ op = "Program" /\ AnnouncedForImage
      /\ block = BlockFrame(file, n).data /\ blockType = BlockFrame(file, n).frameType
      /\ progAddress = SECTOR2_ADDRESS + n
  BY DEF Programming, Busy
<1>2. UNCHANGED <<file, sent>> /\ (refused => refused') /\ refused' = (refused \/ WRPERR')
  BY EnvKeepsHost DEF EnvStep
<1>3. /\ file \in Seq(0 .. 255) /\ SECTOR2_ADDRESS \in Nat /\ n \in Nat /\ n \in 0 .. Len(file)
      /\ mem \in [Address -> Byte] /\ idx \in 0 .. Len(block) /\ block \in Seq(Byte)
  BY FileType, ApplicationArea DEF Base, SInv, TypeOK
<1>4. CASE BoardReset
  <2>1. tx' = <<>> /\ line' = <<>> /\ op' = "Receive"
    BY <1>1, <1>4 DEF BoardReset, Reset, hostVars
  <2>2. QED
    BY <2>1 DEF OfBlock, Dead, Junk, Rest, Idle
<1>5. CASE DeviceContinues /\ WriteFlash
  <2>1. /\ tx' = <<>> /\ line' = <<>> /\ op' = op /\ phase' \in {"Control", "Halted"}
        /\ UNCHANGED <<progAddress, sectorsToBeErased, block, blockType>>
    BY <1>1, <1>5 DEF DeviceContinues, WriteFlash, hostVars, transfer
  <2>2. CASE phase' = "Halted"
    BY <2>1, <2>2 DEF OfBlock, Dead, Junk, Rest, Idle
  <2>3. CASE phase' = "Control"
    <3>1. Programming(n)'
      BY <1>1, <1>2, <2>1, <2>3 DEF Programming, Busy, AnnouncedForImage
    <3>2. ASSUME NEW i \in 1 .. n
          PROVE  mem'[SECTOR2_ADDRESS + i - 1] = mem[SECTOR2_ADDRESS + i - 1]
      <4> DEFINE a == SECTOR2_ADDRESS + i - 1
                 dest == progAddress + idx
      <4>1. /\ dest \in Address
            /\ \/ mem' = mem
               \/ mem' = [mem EXCEPT ![dest] = ProgramCell(@, block[idx + 1])]
        BY <1>1, <1>5, <2>3 DEF WriteFlash
      <4>2. a \in Address /\ a # dest
        <5>1. i \in Nat /\ 1 <= i /\ i <= n /\ idx \in Nat /\ FLASH_END \in Nat
          BY <1>3, ApplicationArea
        <5>2. dest = SECTOR2_ADDRESS + n + idx /\ dest < FLASH_END
          BY <1>1, <1>3, <4>1, <5>1 DEF Address
        <5>3. QED
          BY <1>3, <5>1, <5>2 DEF Address
      <4> HIDE DEF a, dest
      <4>3. mem'[a] = mem[a]
        BY <1>3, <4>1, <4>2
      <4>4. QED
        BY <4>3 DEF a
    <3>3. InFlash(n)'
      <4>1. CASE refused
        BY <1>2, <4>1 DEF InFlash
      <4>2. CASE ImageIn(mem, SubSeq(file, 1, n))
        <5>1. \A i \in 1 .. n : mem'[SECTOR2_ADDRESS + i - 1] = file[i]
          BY <1>3, <3>2, <4>2, Prefix
        <5>2. ImageIn(mem', SubSeq(file, 1, n))
          BY <1>3, <5>1, Prefix
        <5>3. QED
          BY <1>2, <5>2 DEF InFlash, ImageIn
      <4>3. QED
        BY <4>1, <4>2 DEF InFlash
    <3>4. QED
      BY <2>1, <3>1, <3>3, Zenon DEF OfBlock
  <2>4. QED
    BY <2>1, <2>2, <2>3
<1>6. CASE DeviceContinues /\ BlockWritten
  <2>1. /\ idx = Len(block) /\ EndOfBlock(blockType, Len(block)) /\ op' = "Receive"
        /\ line' = <<>> /\ mem' = mem /\ WRPERR' = WRPERR
    BY <1>1, <1>6 DEF DeviceContinues, BlockWritten, hostVars, flash
  <2>2. Len(block) \in Nat /\ n + Len(block) = sent
    BY <1>1, <1>3
  <2>3. InFlash(sent)'
    <3>1. CASE refused
      BY <1>2, <3>1 DEF InFlash
    <3>2. CASE ~ refused
      <4>1. ImageIn(mem, SubSeq(file, 1, sent))
        BY <2>1, <2>2, <3>2, BlockInFlash
      <4>2. QED
        BY <1>2, <2>1, <4>1 DEF InFlash, ImageIn
    <3>3. QED
      BY <3>1, <3>2
  <2>4. ASSUME sent < Len(file), state' = "Write_FLASH_Sectors"
        PROVE  progAddress' = SECTOR2_ADDRESS + sent /\ AnnouncedForImage'
    <3>1. blockType # LAST_FRAME
      BY <2>4, <2>1 DEF EndOfBlock
    <3>2. progAddress' = progAddress + Len(block) /\ sectorsToBeErased' = sectorsToBeErased
      BY <2>1, <3>1 DEF EndOfBlock
    <3>3. progAddress' = SECTOR2_ADDRESS + sent
      <4>1. progAddress = SECTOR2_ADDRESS + n /\ SECTOR2_ADDRESS \in Nat /\ n \in Nat
        BY <1>1, <1>3
      <4>2. progAddress' = progAddress + Len(block)
        BY <3>2
      <4>3. \A l, m \in Nat : n + l = m => SECTOR2_ADDRESS + n + l = SECTOR2_ADDRESS + m
        BY <4>1
      <4>4. sent \in Nat
        BY <2>2, <4>1
      <4>5. QED
        BY <2>2, <4>1, <4>2, <4>3, <4>4, Zenon
    <3>4. AnnouncedForImage'
      BY <1>1, <1>2, <3>2 DEF AnnouncedForImage
    <3>5. QED
      BY <3>3, <3>4
  <2>5. sent < Len(file) => state' = "Write_FLASH_Sectors"
    <3>1. SUFFICES ASSUME sent < Len(file) PROVE state' = "Write_FLASH_Sectors"
      OBVIOUS
    <3>2. blockType # LAST_FRAME
      BY <1>1, <1>3, <2>2, <3>1, BlockFrameIs
    <3>3. state' = state
      BY <2>1, <3>2 DEF EndOfBlock
    <3>4. QED
      BY <1>1, <3>3 DEF Base, IInv, Bookkeeping
  <2>6. Reply(tx', 0) /\ Drop(tx', 3) = <<>>
    BY <1>6, Acknowledges
  <2>7. Ready(<<>>, sent)'
    <3>1. Dead(<<>>)'
      BY <2>1 DEF Dead, Junk, Rest, Idle
    <3>2. (sent < Len(file) => AtPlace(<<>>, sent))'
      BY <1>2, <2>4, <2>5 DEF AtPlace
    <3>3. QED
      BY <2>3, <3>1, <3>2, Zenon DEF Ready
  <2>8. QED
    BY <2>6, <2>7 DEF OfBlock
<1>7. DeviceContinues => WriteFlash \/ BlockWritten
  BY <1>1 DEF DeviceContinues, Continue, SectorErase, EraseCommandDone, SectorsErased, Erasing,
         AllErased, ErasingAll
<1>8. QED
  BY <1>1, <1>4, <1>5, <1>6, <1>7, BusyOnly

LEMMA BlockReceived ==
  ASSUME Base, EnvStep, DeviceReceives, file \in Files, NEW n \in 0 .. Len(file) - 1,
         tx = <<>>, Idle, OnTheLine(BlockFrame(file, n)), AtPlace(<<>>, n), InFlash(n)
  PROVE  OfBlock(tx, n)'
<1>1. /\ BlockFrame(file, n) \in Frames /\ BlockFrame(file, n).cmd = CMD_CODE_BOOT_FLASH_WRITE
      /\ BlockFrame(file, n).crcOk
  BY BlockFrameIs
<1>2. PICK f \in Frames : f = BlockFrame(file, n)
  BY <1>1
<1>3. file' = file /\ (refused => refused')
  BY EnvKeepsHost DEF EnvStep
<1>4. CASE Bad(tx')
  BY <1>4 DEF OfBlock
<1>5. ASSUME NEW stale \in StaleBytes, GetBinSize(f, stale) PROVE FALSE
  BY <1>5 DEF GetBinSize, Accepts, Listening, AtPlace
<1>6. ASSUME WriteBlock(f), line' = <<>>
      PROVE  OfBlock(tx, n)'
  <2>1. phase = "Control" /\ state = "Write_FLASH_Sectors" /\ currentState = "FLASH_AVAILABLE"
    BY <1>6 DEF WriteBlock, Accepts, Listening, Base, IInv, DriverFree
  <2>2. /\ tx' = <<>> /\ phase' = "Control" /\ op' = "Program" /\ mem' = mem
        /\ block' = f.data /\ blockType' = f.frameType
        /\ UNCHANGED <<progAddress, sectorsToBeErased>>
    BY <1>6, <2>1 DEF WriteBlock, transfer, flash
  <2>3. progAddress = SECTOR2_ADDRESS + n /\ AnnouncedForImage
    BY <2>1 DEF AtPlace
  <2>4. Programming(n)'
    BY <1>2, <1>3, <1>6, <2>2, <2>3 DEF Programming, Busy, AnnouncedForImage
  <2>5. InFlash(n)'
    BY <1>3, <2>2, InFlashStays
  <2>6. QED
    BY <2>2, <2>4, <2>5, Zenon DEF OfBlock
<1>7. QED
  BY <1>1, <1>2, <1>4, <1>5, <1>6, ImageFrameReceived

LEMMA OfBlockStep ==
  ASSUME Base, EnvStep, file \in Files, NEW n \in 0 .. Len(file) - 1,
         n + Len(BlockFrame(file, n).data) = sent, OfBlock(tx, n)
  PROVE  OfBlock(tx, n)'
<1>1. PICK w : Sends(w)
  BY EnvSends DEF Base
<1>2. w \in Seq(Byte) /\ tx \in Seq(Byte) /\ tx' = tx \o w /\ (w # <<>> => w[1] # POSITIVE_RESP)
  BY <1>1 DEF Sends, Base, SInv, TypeOK
<1>3. PICK s \in Seq(Byte) : s = tx
  BY <1>2
<1>4. UNCHANGED <<file, sent>>
  BY EnvKeepsHost
<1>5. CASE Dead(tx)
  <2>1. Dead(s \o w)'
    BY <1>2, <1>3, <1>5, DeadStep
  <2>2. QED
    BY <1>2, <1>3, <2>1 DEF OfBlock, Dead
<1>6. CASE Bad(tx)
  <2>1. Bad(s \o w)
    BY <1>2, <1>3, <1>6, BadAppended
  <2>2. QED
    BY <1>2, <1>3, <2>1 DEF OfBlock
<1>7. CASE tx = <<>> /\ Idle /\ OnTheLine(BlockFrame(file, n)) /\ AtPlace(tx, n) /\ InFlash(n)
  <2>1. AtPlace(<<>>, n)
    BY <1>7 DEF AtPlace
  <2>2. CASE DeviceReceives
    BY <1>7, <2>1, <2>2, BlockReceived
  <2>3. CASE ~ DeviceReceives
    <3>1. PICK f \in Frames : f = BlockFrame(file, n)
      BY BlockFrameIs
    <3>2. \/ Bad(tx')
          \/ Dead(tx)'
          \/ /\ tx' = <<>> /\ Idle' /\ OnTheLine(f)'
             /\ mem' = mem /\ (refused => refused')
             /\ phase' = "Control" =>
                  phase = "Control" /\ UNCHANGED <<state, progAddress, sectorsToBeErased>>
      BY <1>7, <2>3, <3>1, FrameStep
    <3>3. CASE Bad(tx') \/ Dead(tx)'
      BY <3>3 DEF OfBlock
    <3>4. CASE /\ tx' = <<>> /\ Idle' /\ OnTheLine(f)'
               /\ mem' = mem /\ (refused => refused')
               /\ phase' = "Control" =>
                    phase = "Control" /\ UNCHANGED <<state, progAddress, sectorsToBeErased>>
      <4>1. OnTheLine(BlockFrame(file, n))'
        BY <1>4, <3>1, <3>4 DEF OnTheLine
      <4>2. InFlash(n)'
        BY <1>4, <1>7, <3>4, InFlashStays DEF EnvStep
      <4>3. AtPlace(tx, n)'
        BY <1>4, <2>1, <3>4 DEF AtPlace, AnnouncedForImage
      <4>4. QED
        BY <3>4, <4>1, <4>2, <4>3, Zenon DEF OfBlock
    <3>5. QED
      BY <3>2, <3>3, <3>4
  <2>4. QED
    BY <2>2, <2>3
<1>8. CASE tx = <<>> /\ Programming(n) /\ InFlash(n)
  BY <1>8, ProgrammingStep
<1>9. CASE Reply(tx, 0) /\ Ready(Drop(tx, 3), sent)
  <2>1. 3 \in 0 .. Len(s) /\ Reply(s, 0) /\ sent \in Nat
    BY <1>3, <1>9, FileType DEF Reply, Base
  <2>2. PICK t \in Seq(Byte) : t = Drop(tx, 3)
    BY <1>3, <2>1, DropType
  <2>3. PICK k \in Nat : k = sent
    BY <2>1
  <2>4. Drop(s \o w, 3) = t \o w
    BY <1>2, <1>3, <2>1, <2>2, DropAppended
  <2>5. Ready(t \o w, k)'
    BY <1>2, <1>9, <2>2, <2>3, ReadyStep
  <2>6. Reply(s \o w, 0)
    BY <1>2, <2>1, ReplyAppended
  <2>7. Reply(tx', 0) /\ Drop(tx', 3) = t \o w
    BY <1>2, <1>3, <2>4, <2>6
  <2>8. Ready(Drop(tx, 3), sent)'
    BY <1>4, <2>3, <2>5, <2>7 
  <2>9. QED
    BY <2>7, <2>8, Zenon DEF OfBlock
<1>10. QED
  BY <1>5, <1>6, <1>7, <1>8, <1>9 DEF OfBlock

(***************************************************************************)
(* The invariant: where host and device are in the conversation about an   *)
(* image.                                                                  *)
(***************************************************************************)
InHeader ==
  /\ waitFor = "Ack1" => First(tx) /\ sent = 0
  /\ waitFor = "Ack2" => Second(tx) /\ sent = 0
  /\ waitFor = "Block" => \E n \in 0 .. Len(file) - 1 :
                             n + Len(BlockFrame(file, n).data) = sent /\ OfBlock(tx, n)

InData ==
  /\ waitFor = "Ack1" => /\ sent = 0
                         /\ \/ toFollow = 1 /\ Len(tx) >= 1 /\ Second(Drop(tx, 1))
                            \/ toFollow = 0 /\ Dead(tx)
  /\ waitFor = "Ack2" => sent = 0 /\ toFollow = 1 /\ Len(tx) >= 1 /\ Ready(Drop(tx, 1), 0)
  /\ waitFor = "Block" => toFollow = 0 /\ Ready(tx, sent)

Talk ==
  /\ file \in Files /\ command = CMD_CODE_BOOT_FLASH_WRITE
  /\ hpc # "Crashed" /\ waitFor # "Reply"
  /\ hpc = "Header" => InHeader
  /\ hpc = "Data" => InData
  /\ hpc = "NextBlock" => waitFor = "Block" /\ Ready(tx, sent)
  /\ hpc = "Prompt" => waitFor = "Block" /\ Rest /\ InFlash(Len(file))

Conversation ==
  /\ hpc = "Menu" => Dead(tx) /\ ~ positive
  /\ positive => Talk

(* A read of the host leaves the device where it is. *)
Still == UNCHANGED <<deviceState, line, file>> /\ (refused => refused')

LEMMA StillStages ==
  ASSUME Still, NEW s, NEW n
  PROVE  /\ Rest => Rest'
         /\ InFlash(n) => InFlash(n)'
         /\ Dead(s) => Dead(s)'
         /\ Ready(s, n) => Ready(s, n)'
         /\ Second(s) => Second(s)'
<1>1. /\ UNCHANGED <<phase, op, line, file, mem, state, progAddress, sectorsToBeErased>>
      /\ refused => refused'
  BY DEF Still, deviceState, transfer, driver, flash
<1>2. Rest => Rest'
  BY <1>1 DEF Rest, Idle
<1>3. ASSUME NEW k PROVE InFlash(k) => InFlash(k)'
  BY <1>1, InFlashStays
<1>4. Dead(s) => Dead(s)'
  BY <1>2 DEF Dead
<1>5. ASSUME NEW t, NEW k, Ready(t, k) PROVE Ready(t, k)'
  <2>1. Dead(t)'
    BY <1>2, <1>5 DEF Dead, Ready
  <2>2. InFlash(k)'
    BY <1>3, <1>5 DEF Ready
  <2>3. (k < Len(file) => AtPlace(t, k))'
    BY <1>1, <1>5 DEF Ready, AtPlace, AnnouncedForImage
  <2>4. QED
    BY <2>1, <2>2, <2>3, Zenon DEF Ready
<1>6. Second(s) => Second(s)'
  <2>1. CASE s = <<>> /\ ErasingImage
    BY <1>1, <2>1 DEF Second, ErasingImage, Busy, AnnouncedForImage
  <2>2. CASE Reply(s, 1) /\ Ready(Drop(s, 4), 0)
    <3>1. Ready(Drop(s, 4), 0)'
      BY <1>5, <2>2
    <3>2. QED
      BY <2>2, <3>1, Zenon DEF Second
  <2>3. CASE Dead(s)
    BY <1>4, <2>3 DEF Second
  <2>4. QED
    BY <2>1, <2>2, <2>3 DEF Second
<1>7. QED
  BY <1>2, <1>3, <1>4, <1>5, <1>6

LEMMA EnvKeepsConversation ==
  ASSUME Base, EnvStep, Conversation
  PROVE  Conversation'
<1>1. UNCHANGED <<hpc, waitFor, command, file, sent, positive, toFollow>>
  BY EnvKeepsHost
<1>2. PICK w : Sends(w)
  BY EnvSends DEF Base
<1>3. w \in Seq(Byte) /\ tx \in Seq(Byte) /\ tx' = tx \o w
  BY <1>2 DEF Sends, Base, SInv, TypeOK
<1>4. PICK s \in Seq(Byte) : s = tx
  BY <1>3
<1>5. PICK k \in Nat : k = sent
  <2>1. sent \in Nat
    BY FileType DEF Base
  <2>2. QED
    BY <2>1
<1>6. Dead(tx) => Dead(tx)'
  <2>1. Dead(s) => Dead(s \o w)'
    BY <1>3, DeadStep
  <2>2. QED
    BY <1>3, <1>4, <2>1 DEF Dead
<1>7. Ready(tx, sent) => Ready(tx, sent)'
  <2>1. Ready(s, k) => Ready(s \o w, k)'
    BY <1>3, ReadyStep
  <2>2. (s \o w = tx)' /\ (k = sent)'
    BY <1>1, <1>3, <1>4, <1>5
  <2>3. QED
    BY <1>4, <1>5, <2>1, <2>2
<1>8. Second(tx) => Second(tx)'
  <2>1. Second(s) => Second(s \o w)'
    BY <1>3, SecondStep
  <2>2. (s \o w = tx)'
    BY <1>3, <1>4
  <2>3. QED
    BY <1>4, <2>1, <2>2
<1>9. ASSUME Len(tx) >= 1
      PROVE  /\ (Len(tx) >= 1)'
             /\ Second(Drop(tx, 1)) => Second(Drop(tx, 1))'
             /\ Ready(Drop(tx, 1), 0) => Ready(Drop(tx, 1), 0)'
  <2>1. 1 \in 0 .. Len(s)
    BY <1>4, <1>9
  <2>2. PICK t \in Seq(Byte) : t = Drop(tx, 1)
    BY <1>4, <2>1, DropType
  <2>3. Drop(s \o w, 1) = t \o w
    BY <1>3, <1>4, <2>1, <2>2, DropAppended
  <2>4. (t \o w = Drop(tx, 1))'
    BY <1>3, <1>4, <2>3
  <2>5. Second(t) => Second(t \o w)'
    BY <1>3, SecondStep
  <2>6. Ready(t, 0) => Ready(t \o w, 0)'
    BY <1>3, ReadyStep
  <2>7. (Len(tx) >= 1)'
    BY <1>3, <1>9
  <2>8. QED
    BY <2>2, <2>4, <2>5, <2>6, <2>7
<1>10. ASSUME positive, Talk
       PROVE  Talk'
  <2>1. file \in Files
    BY <1>10 DEF Talk
  <2>2. ASSUME hpc = "Header" PROVE InHeader'
    <3>1. InHeader
      BY <1>10, <2>2 DEF Talk
    <3>2. CASE waitFor = "Ack1"
      BY <1>1, <2>1, <3>1, <3>2, FirstStep DEF InHeader
    <3>3. CASE waitFor = "Ack2"
      BY <1>1, <1>8, <3>1, <3>3 DEF InHeader
    <3>4. CASE waitFor = "Block"
      <4>1. PICK n \in 0 .. Len(file) - 1 :
              n + Len(BlockFrame(file, n).data) = sent /\ OfBlock(tx, n)
        BY <3>1, <3>4 DEF InHeader
      <4>2. OfBlock(tx, n)'
        BY <2>1, <4>1, OfBlockStep
      <4>3. QED
        BY <1>1, <3>4, <4>1, <4>2 DEF InHeader
    <3>5. QED
      BY <1>1, <3>2, <3>3, <3>4 DEF InHeader
  <2>3. ASSUME hpc = "Data" PROVE InData'
    <3>1. InData
      BY <1>10, <2>3 DEF Talk
    <3>2. CASE waitFor = "Ack1"
      BY <1>1, <1>6, <1>9, <3>1, <3>2 DEF InData
    <3>3. CASE waitFor = "Ack2"
      BY <1>1, <1>9, <3>1, <3>3 DEF InData
    <3>4. CASE waitFor = "Block"
      BY <1>1, <1>7, <3>1, <3>4 DEF InData
    <3>5. QED
      BY <1>1, <3>2, <3>3, <3>4 DEF InData
  <2>4. ASSUME hpc = "Prompt" PROVE (Rest /\ InFlash(Len(file)))'
    <3>1. Rest /\ InFlash(Len(file))
      BY <1>10, <2>4 DEF Talk
    <3>2. Rest' /\ mem' = mem /\ (refused => refused')
      BY <1>3, <3>1, RestStep
    <3>3. PICK m : m = Len(file)
      OBVIOUS
    <3>4. InFlash(m)'
      BY <1>1, <3>1, <3>2, <3>3, InFlashStays
    <3>5. (m = Len(file))'
      BY <1>1, <3>3
    <3>6. QED
      BY <3>2, <3>4, <3>5
  <2>5. QED
    BY <1>1, <1>7, <1>10, <2>2, <2>3, <2>4 DEF Talk
<1>11. QED
  BY <1>1, <1>6, <1>10 DEF Conversation

LEMMA HostKeepsDevice ==
  ASSUME Base, HostStep, refused' = (refused \/ WRPERR')
  PROVE  UNCHANGED <<deviceState, corrupted, resets, skewed>> /\ (refused => refused')
BY DEF HostStep, faults

(* Only a positive reply leaves positive as it is. *)
LEMMA NegativeReply ==
  ASSUME HostTypes, NEW ret, Returned(ret), ret # 0
  PROVE  Conversation'
<1>1. hpc' # "Menu"
  BY ReturnedTypes
<1>2. positive' = FALSE
  BY DEF Returned
<1>3. QED
  BY <1>1, <1>2, Zenon DEF Conversation

LEMMA CrashEndsTalk ==
  ASSUME Crash
  PROVE  Conversation'
<1>1. hpc' = "Crashed" /\ positive' = FALSE
  BY DEF Crash
<1>2. hpc' # "Menu"
  BY <1>1
<1>3. QED
  BY <1>1, <1>2, Zenon DEF Conversation

LEMMA SendCommandStep ==
  ASSUME Conversation, SendCommand
  PROVE  Conversation'
<1>1. hpc' = "Header" /\ positive' = positive /\ hpc = "Menu"
  BY DEF SendCommand
<1>2. hpc' # "Menu" /\ ~ positive
  BY <1>1 DEF Conversation
<1>3. QED
  BY <1>1, <1>2, Zenon DEF Conversation

LEMMA SendSizeStep ==
  ASSUME Base, Conversation, SendSize, UNCHANGED deviceState
  PROVE  Conversation'
<1>1. /\ hpc = "Menu" /\ file' \in Files /\ Send(SizeFrame(file'))
      /\ command' = CMD_CODE_BOOT_FLASH_WRITE /\ hpc' = "Header" /\ waitFor' = "Ack1"
      /\ sent' = 0 /\ tx' = tx
  BY DEF SendSize
<1>2. Dead(tx) /\ UNCHANGED <<phase, op>>
  BY <1>1 DEF Conversation, deviceState, driver
<1>3. First(tx)'
  <2>1. CASE Bad(tx)
    BY <1>1, <2>1 DEF First
  <2>2. CASE tx = <<>>
    <3>1. PICK f : f = SizeFrame(file')
      OBVIOUS
    <3>2. line' = Append(<<>>, f)
      BY <1>1, <1>2, <3>1 DEF Dead, Rest, Send
    <3>3. Append(<<>>, f) = <<f>>
      OBVIOUS
    <3>4. OnTheLine(SizeFrame(file))'
      BY <3>1, <3>2, <3>3 DEF OnTheLine
    <3>5. Idle'
      BY <1>2 DEF Dead, Rest, Idle
    <3>6. QED
      BY <1>1, <2>2, <3>4, <3>5, Zenon DEF First
  <2>3. QED
    BY <1>2, <2>1, <2>2 DEF Dead, Junk
<1>4. InHeader'
  BY <1>1, <1>3 DEF InHeader
<1>5. Talk'
  BY <1>1, <1>4 DEF Talk
<1>6. QED
  BY <1>1, <1>5 DEF Conversation

LEMMA ReadHeaderStep ==
  ASSUME Base, HostTypes, Conversation, ReadHeader, UNCHANGED deviceState,
         refused => refused'
  PROVE  Conversation'
<1>1. hpc = "Header" /\ Len(tx) >= 3 /\ tx' = Drop(tx, 3) /\ tx \in Seq(Byte)
  BY DEF ReadHeader, MIN_HEADER, Take, Drop, Base, SInv, TypeOK
<1>2. CASE tx[2] # POSITIVE_RESP
  <2>1. PICK ret \in {-1, -2} : Returned(ret)
    BY <1>2 DEF ReadHeader
  <2>2. QED
    BY <2>1, NegativeReply
<1>3. CASE tx[2] = POSITIVE_RESP /\ positive
  <2>1. /\ hpc' = "Data" /\ toFollow' = LenToFollow(tx[3])
        /\ UNCHANGED <<waitFor, command, file, sent, positive, line>>
    BY <1>3 DEF ReadHeader, script
  <2>2. Talk /\ InHeader
    BY <1>1, <1>3 DEF Conversation, Talk
  <2>3. toFollow' = tx[3]
    BY <2>1, <2>2 DEF Talk, LenToFollow, CMD_CODE_BOOT_FLASH_WRITE,
                      CMD_CODE_BOOT_SET_FLASH_RW_PROT, CMD_CODE_BOOT_JUMP_TO_APP
  <2>4. Still
    BY <2>1 DEF Still
  <2>5. ~ Junk(tx) /\ tx # <<>>
    BY <1>1, <1>3 DEF Junk, Bad
  <2>6. PICK s \in Seq(Byte) : s = tx
    BY <1>1
  <2>7. ASSUME Reply(tx, 1)
        PROVE  Len(tx') >= 1 /\ Drop(tx', 1) = Drop(tx, 4)
    <3>1. Len(tx) >= 4
      BY <2>7 DEF Reply
    <3>2. Len(Drop(s, 3)) >= 1 /\ Drop(Drop(s, 3), 1) = Drop(s, 4)
      BY <2>6, <3>1, DropTwice
    <3>3. QED
      BY <1>1, <2>6, <3>2
  <2>8. ASSUME waitFor = "Ack1" PROVE InData'
    <3>1. First(tx) /\ sent = 0
      BY <2>2, <2>8 DEF InHeader
    <3>2. CASE Reply(tx, 1) /\ Second(Drop(tx, 4))
      <4>1. PICK t : t = Drop(tx, 4)
        OBVIOUS
      <4>2. Second(t)'
        BY <2>4, <3>2, <4>1, StillStages
      <4>3. (t = Drop(tx, 1))'
        BY <2>7, <3>2, <4>1
      <4>4. Second(Drop(tx, 1))'
        BY <4>2, <4>3
      <4>5. QED
        BY <2>1, <2>3, <2>7, <2>8, <3>1, <3>2, <4>4 DEF InData, Reply
    <3>3. CASE Reply(tx, 0) /\ Dead(Drop(tx, 3))
      <4>1. PICK t : t = Drop(tx, 3)
        OBVIOUS
      <4>2. Dead(t)'
        BY <2>4, <3>3, <4>1, StillStages
      <4>3. Dead(tx)'
        BY <1>1, <4>1, <4>2
      <4>4. QED
        BY <2>1, <2>3, <2>8, <3>1, <3>3, <4>3 DEF InData, Reply
    <3>4. QED
      BY <2>5, <3>1, <3>2, <3>3 DEF First, Dead, Junk
  <2>9. ASSUME waitFor = "Ack2" PROVE InData'
    <3>1. Reply(tx, 1) /\ Ready(Drop(tx, 4), 0) /\ sent = 0
      BY <2>2, <2>5, <2>9 DEF InHeader, Second, Dead
    <3>2. PICK t : t = Drop(tx, 4)
      OBVIOUS
    <3>3. Ready(t, 0)'
      BY <2>4, <3>1, <3>2, StillStages
    <3>4. Ready(Drop(tx, 1), 0)'
      BY <2>7, <3>1, <3>2, <3>3
    <3>5. QED
      BY <2>1, <2>3, <2>7, <2>9, <3>1, <3>4 DEF InData, Reply
  <2>10. ASSUME waitFor = "Block" PROVE InData'
    <3>1. Reply(tx, 0) /\ Ready(Drop(tx, 3), sent)
      BY <2>2, <2>5, <2>10 DEF InHeader, OfBlock, Dead, Junk
    <3>2. PICK t : t = Drop(tx, 3)
      OBVIOUS
    <3>3. PICK k : k = sent
      OBVIOUS
    <3>4. Ready(t, k)'
      BY <2>4, <3>1, <3>2, <3>3, StillStages
    <3>5. Ready(tx, sent)'
      BY <1>1, <2>1, <3>2, <3>3, <3>4
    <3>6. QED
      BY <2>1, <2>3, <2>10, <3>1, <3>5 DEF InData, Reply
  <2>11. InData'
    <3>1. waitFor \in {"Ack1", "Ack2", "Block"}
      BY <2>2 DEF Talk, HostTypes
    <3>2. QED
      BY <2>8, <2>9, <2>10, <3>1
  <2>12. Talk'
    BY <2>1, <2>2, <2>11 DEF Talk
  <2>13. QED
    BY <2>1, <2>12 DEF Conversation
<1>4. CASE tx[2] = POSITIVE_RESP /\ ~ positive
  <2>1. hpc' = "Data" /\ positive' = positive
    BY <1>4 DEF ReadHeader, script
  <2>2. hpc' # "Menu"
    BY <2>1
  <2>3. QED
    BY <1>4, <2>1, <2>2, Zenon DEF Conversation
<1>5. QED
  BY <1>2, <1>3, <1>4

LEMMA HeaderTimeoutStep ==
  ASSUME Base, HostTypes, Conversation, HeaderTimeout
  PROVE  Conversation'
<1>1. Crash \/ \E ret \in {-1, -2} : Returned(ret)
  BY DEF HeaderTimeout
<1>2. QED
  BY <1>1, CrashEndsTalk, NegativeReply

LEMMA ReadDataStep ==
  ASSUME Base, HostTypes, Conversation, ReadData, UNCHANGED deviceState,
         refused => refused'
  PROVE  Conversation'
<1>1. hpc = "Data" /\ tx' = Drop(tx, toFollow) /\ tx \in Seq(Byte) /\ Processed(toFollow)
  BY DEF ReadData, Take, Drop, Base, SInv, TypeOK
<1>2. CASE Crash
  BY <1>2, CrashEndsTalk
<1>3. CASE Returned(0) /\ ~ positive
  <2>1. hpc' # "Menu"
    BY <1>3, ReturnedTypes
  <2>2. ~ positive'
    BY <1>3 DEF Returned
  <2>3. QED
    BY <2>1, <2>2, Zenon DEF Conversation
<1>4. CASE Returned(0) /\ positive
  <2>1. Talk /\ InData
    BY <1>1, <1>4 DEF Conversation, Talk
  <2>2. UNCHANGED <<command, file, sent, line>>
    BY <1>4 DEF Returned
  <2>3. Still
    BY <2>2 DEF Still
  <2>4. Drop(tx, 0) = tx
    BY <1>1 DEF Drop
  <2>5. CASE waitFor = "Ack1"
    <3>1. hpc' = "Header" /\ waitFor' = "Ack2"
      BY <1>4, <2>5 DEF Returned
    <3>2. PICK t : t = Drop(tx, toFollow)
      OBVIOUS
    <3>3. Second(t) /\ sent = 0
      BY <2>1, <2>4, <2>5, <3>2 DEF InData, Second
    <3>4. Second(t)'
      BY <2>3, <3>3, StillStages
    <3>5. Second(tx)'
      BY <1>1, <3>2, <3>4
    <3>6. InHeader'
      BY <2>2, <3>1, <3>3, <3>5 DEF InHeader
    <3>7. QED
      BY <2>1, <2>2, <3>1, <3>6 DEF Talk, Conversation
  <2>6. CASE waitFor \in {"Ack2", "Block"}
    <3>1. hpc' = "NextBlock" /\ waitFor' = "Block"
      BY <1>4, <2>6 DEF Returned
    <3>2. PICK t : t = Drop(tx, toFollow)
      OBVIOUS
    <3>3. PICK k : k = sent
      OBVIOUS
    <3>4. Ready(t, k)
      BY <2>1, <2>4, <2>6, <3>2, <3>3 DEF InData
    <3>5. Ready(t, k)'
      BY <2>3, <3>4, StillStages
    <3>6. Ready(tx, sent)'
      BY <1>1, <2>2, <3>2, <3>3, <3>5
    <3>7. QED
      BY <2>1, <2>2, <3>1, <3>6 DEF Talk, Conversation
  <2>7. QED
    BY <2>1, <2>5, <2>6 DEF Talk, HostTypes
<1>5. QED
  BY <1>1, <1>2, <1>3, <1>4 DEF Processed

LEMMA DataTimeoutStep ==
  ASSUME Base, HostTypes, Conversation, DataTimeout
  PROVE  Conversation'
<1>1. hpc = "Data" /\ Len(tx) < toFollow /\ Processed(Len(tx)) /\ Len(tx) \in Nat
  BY DEF DataTimeout, Base, SInv, TypeOK
<1>2. ~ positive
  <2>1. ASSUME positive PROVE FALSE
    <3>1. InData /\ waitFor \in {"Ack1", "Ack2", "Block"}
      BY <1>1, <2>1 DEF Conversation, Talk, HostTypes
    <3>2. QED
      BY <1>1, <3>1 DEF InData
  <2>2. QED
    BY <2>1
<1>3. CASE Crash
  BY <1>3, CrashEndsTalk
<1>4. CASE Returned(0)
  <2>1. hpc' # "Menu"
    BY <1>4, ReturnedTypes
  <2>2. ~ positive'
    BY <1>2, <1>4 DEF Returned
  <2>3. QED
    BY <2>1, <2>2, Zenon DEF Conversation
<1>5. QED
  BY <1>1, <1>3, <1>4 DEF Processed

LEMMA SendBlockStep ==
  ASSUME Base, Conversation, SendBlock, UNCHANGED deviceState, refused => refused'
  PROVE  Conversation'
<1>1. /\ hpc = "NextBlock" /\ sent < Len(file) /\ Send(BlockFrame(file, sent))
      /\ sent' = sent + Len(BlockFrame(file, sent).data) /\ hpc' = "Header"
      /\ UNCHANGED <<waitFor, command, file, positive, tx>>
  BY DEF SendBlock
<1>2. hpc' # "Menu"
  BY <1>1
<1>3. CASE ~ positive
  BY <1>1, <1>2, <1>3, Zenon DEF Conversation
<1>4. CASE positive
  <2>1. Talk /\ waitFor = "Block" /\ Ready(tx, sent) /\ file \in Files
    BY <1>1, <1>4 DEF Conversation, Talk
  <2>2. sent \in 0 .. Len(file) - 1
    BY <1>1, FileType DEF Base
  <2>3. PICK n \in 0 .. Len(file) - 1 : n = sent
    BY <2>2
  <2>4. UNCHANGED <<phase, op, mem, state, progAddress, sectorsToBeErased>>
    BY DEF deviceState, transfer, driver, flash
  <2>5. OfBlock(tx, n)'
    <3>1. CASE Bad(tx)
      BY <1>1, <3>1 DEF OfBlock
    <3>2. CASE tx = <<>>
      <4>1. PICK f : f = BlockFrame(file, n)
        OBVIOUS
      <4>2. line' = Append(<<>>, f)
        BY <1>1, <2>1, <2>3, <4>1 DEF Ready, Dead, Rest, Send
      <4>3. Append(<<>>, f) = <<f>>
        OBVIOUS
      <4>4. OnTheLine(BlockFrame(file, n))'
        BY <1>1, <4>1, <4>2, <4>3 DEF OnTheLine
      <4>5. Idle'
        BY <2>1, <2>4 DEF Ready, Dead, Rest, Idle
      <4>6. AtPlace(tx, n)'
        BY <1>1, <2>1, <2>3, <2>4 DEF Ready, AtPlace, AnnouncedForImage
      <4>7. InFlash(n)'
        BY <1>1, <2>1, <2>3, <2>4, InFlashStays DEF Ready
      <4>8. tx' = <<>>
        BY <1>1, <3>2
      <4>9. QED
        BY <4>4, <4>5, <4>6, <4>7, <4>8, Zenon DEF OfBlock
    <3>3. QED
      BY <2>1, <3>1, <3>2 DEF Ready, Dead, Junk
  <2>6. n + Len(BlockFrame(file', n).data) = sent'
    BY <1>1, <2>3
  <2>7. InHeader'
    BY <1>1, <2>1, <2>5, <2>6 DEF InHeader
  <2>8. QED
    BY <1>1, <2>1, <2>7 DEF Talk, Conversation
<1>5. QED
  BY <1>3, <1>4

LEMMA AllSentStep ==
  ASSUME Base, Conversation, AllSent, UNCHANGED deviceState, refused => refused'
  PROVE  Conversation'
<1>1. /\ hpc = "NextBlock" /\ sent = Len(file) /\ hpc' = "Prompt"
      /\ UNCHANGED <<waitFor, command, file, sent, positive, line, tx>>
  BY DEF AllSent, script
<1>2. hpc' # "Menu"
  BY <1>1
<1>3. CASE ~ positive
  BY <1>1, <1>2, <1>3, Zenon DEF Conversation
<1>4. CASE positive
  <2>1. Talk /\ waitFor = "Block" /\ Ready(tx, sent)
    BY <1>1, <1>4 DEF Conversation, Talk
  <2>2. Still
    BY <1>1 DEF Still
  <2>3. PICK k : k = Len(file)
    OBVIOUS
  <2>4. Rest' /\ InFlash(k)'
    BY <1>1, <2>1, <2>2, <2>3, StillStages DEF Ready, Dead
  <2>5. InFlash(Len(file))'
    BY <1>1, <2>3, <2>4
  <2>6. QED
    BY <1>1, <2>1, <2>4, <2>5 DEF Talk, Conversation
<1>5. QED
  BY <1>3, <1>4

(* A patient user comes back to the menu when the device is at rest. *)
LEMMA ForgetStep ==
  ASSUME PatientUser, UserIsBack, Continued \/ Restarted, UNCHANGED deviceState
  PROVE  Conversation'
<1>1. hpc' = "Menu" /\ positive' = FALSE /\ tx' = <<>> /\ line' = line
  BY DEF Continued, Restarted, Forget, Purge
<1>2. Rest
  BY DEF UserIsBack, Quiet, Rest, Idle
<1>3. UNCHANGED <<phase, op>>
  BY DEF deviceState, driver
<1>4. Dead(tx)'
  BY <1>1, <1>2, <1>3 DEF Dead, Junk, Rest, Idle
<1>5. QED
  BY <1>1, <1>4, Zenon DEF Conversation

LEMMA ConversationStep ==
  ASSUME PatientUser, Base, HostTypes, Conversation, [SessionNext]_allVars
  PROVE  Conversation'
<1>1. CASE HostStep /\ SessionNext
  <2>1. UNCHANGED deviceState /\ (refused => refused')
    BY <1>1, HostKeepsDevice DEF SessionNext
  <2>2. CASE SendCommand
    BY <2>2, SendCommandStep
  <2>3. CASE SendSize
    BY <2>1, <2>3, SendSizeStep
  <2>4. CASE ReadHeader
    BY <2>1, <2>4, ReadHeaderStep
  <2>5. CASE HeaderTimeout
    BY <2>5, HeaderTimeoutStep
  <2>6. CASE ReadData
    BY <2>1, <2>6, ReadDataStep
  <2>7. CASE DataTimeout
    BY <2>7, DataTimeoutStep
  <2>8. CASE SendBlock
    BY <2>1, <2>8, SendBlockStep
  <2>9. CASE AllSent
    BY <2>1, <2>9, AllSentStep
  <2>10. CASE UserIsBack /\ (Continued \/ Restarted)
    BY <2>1, <2>10, ForgetStep
  <2>11. QED
    BY <1>1, <2>2, <2>3, <2>4, <2>5, <2>6, <2>7, <2>8, <2>9, <2>10 DEF HostStep
<1>2. CASE ~ HostStep /\ SessionNext
  <2>1. EnvStep
    BY <1>2 DEF EnvStep, SessionNext, SessionStep
  <2>2. QED
    BY <2>1, EnvKeepsConversation
<1>3. CASE UNCHANGED allVars
  <2>1. /\ UNCHANGED <<hpc, waitFor, command, toFollow, file, sent, positive, line>>
        /\ UNCHANGED <<tx, phase, op, block, blockType, state, progAddress, sectorsToBeErased>>
        /\ UNCHANGED <<mem, refused>>
    BY <1>3 DEF allVars, sessionVars, vars, hostVars, script, transfer, driver, flash
  <2>2. Still
    BY <1>3 DEF Still, allVars, sessionVars, deviceState, vars, hostVars, script
  <2>3. /\ Rest => Rest'
        /\ Dead(tx) => Dead(tx)'
        /\ Second(tx) => Second(tx)'
        /\ Ready(tx, sent) => Ready(tx, sent)'
        /\ InFlash(Len(file)) => InFlash(Len(file))'
        /\ Dead(Drop(tx, 3)) => Dead(Drop(tx, 3))'
        /\ Second(Drop(tx, 4)) => Second(Drop(tx, 4))'
        /\ Second(Drop(tx, 1)) => Second(Drop(tx, 1))'
        /\ Ready(Drop(tx, 1), 0) => Ready(Drop(tx, 1), 0)'
        /\ Ready(Drop(tx, 3), sent) => Ready(Drop(tx, 3), sent)'
    <3>1. PICK s, k, m, s1, s3, s4 :
             s = tx /\ k = sent /\ m = Len(file) /\ s1 = Drop(tx, 1) /\ s3 = Drop(tx, 3)
               /\ s4 = Drop(tx, 4)
      OBVIOUS
    <3>2. (s = tx /\ k = sent /\ m = Len(file) /\ s1 = Drop(tx, 1) /\ s3 = Drop(tx, 3)
               /\ s4 = Drop(tx, 4))'
      BY <2>1, <3>1
    <3>3. /\ Rest => Rest'
          /\ Dead(s) => Dead(s)'
          /\ Second(s) => Second(s)'
          /\ Ready(s, k) => Ready(s, k)'
          /\ InFlash(m) => InFlash(m)'
          /\ Dead(s3) => Dead(s3)'
          /\ Second(s4) => Second(s4)'
          /\ Second(s1) => Second(s1)'
          /\ Ready(s1, 0) => Ready(s1, 0)'
          /\ Ready(s3, k) => Ready(s3, k)'
      BY <2>2, StillStages
    <3>4. QED
      BY <3>1, <3>2, <3>3
  <2>4. First(tx) => First(tx)'
    BY <2>1, <2>3 DEF First, Bad, Idle, OnTheLine, Busy, Reply
  <2>5. ASSUME NEW n, OfBlock(tx, n) PROVE OfBlock(tx, n)'
    <3>1. AtPlace(tx, n) => AtPlace(tx, n)'
      BY <2>1 DEF AtPlace, AnnouncedForImage
    <3>2. InFlash(n) => InFlash(n)'
      BY <2>2, StillStages
    <3>3. Programming(n) => Programming(n)'
      BY <2>1 DEF Programming, Busy, AnnouncedForImage
    <3>4. QED
      BY <2>1, <2>3, <2>5, <3>1, <3>2, <3>3 DEF OfBlock, Bad, Idle, OnTheLine, Reply
  <2>6. InHeader => InHeader'
    BY <2>1, <2>3, <2>4, <2>5 DEF InHeader
  <2>7. InData => InData'
    BY <2>1, <2>3 DEF InData
  <2>8. QED
    BY <2>1, <2>3, <2>6, <2>7 DEF Conversation, Talk
<1>4. QED
  BY <1>1, <1>2, <1>3

LEMMA AgreementInductive ==
  ASSUME PatientUser
  PROVE  SessionSpec => [](Base /\ Conversation)
<1>1. SessionInit => Ctl /\ Conversation
  <2> SUFFICES ASSUME SessionInit PROVE Ctl /\ Conversation
    OBVIOUS
  <2>1. /\ hpc = "Menu" /\ positive = FALSE /\ line = <<>> /\ tx = <<>> /\ phase = "Main"
        /\ op = "Receive" /\ state = "Get_BIN_Size" /\ WRPERR = FALSE
    BY DEF SessionInit, Init, InitHost
  <2>2. Dead(tx)
    BY <2>1 DEF Dead, Junk, Rest, Idle
  <2>3. QED
    BY <2>1, <2>2, Zenon DEF Ctl, Conversation
<1>2. SessionTypeOK => HostTypes
  BY Zenon DEF SessionTypeOK, HostTypeOK, HostTypes
<1>3. SInv /\ IInv /\ HostTypes /\ (Ctl /\ Conversation) /\ [SessionNext]_allVars
        => (Ctl /\ Conversation)'
  BY CtlStep, ConversationStep DEF Base
<1>4. SessionSpec => [](SInv /\ IInv /\ HostTypes)
  <2>1. SessionSpec => []IInv
    BY DeviceInSession, Inductive, PTL DEF DeviceBehaviour
  <2>2. QED
    BY <1>2, <2>1, SessionInductive, SessionTypeCorrect, PTL
<1>5. SessionSpec => [](Ctl /\ Conversation)
  BY <1>1, <1>3, <1>4, PTL DEF SessionSpec
<1>6. SInv /\ IInv /\ Ctl /\ Conversation => Base /\ Conversation
  BY DEF Base
<1>7. QED
  BY <1>4, <1>5, <1>6, PTL

(* Between two blocks a device that has not been reset since the size programs
   the next one where the host sends it from, and what was sent is in the flash
   unless it refused something: for every flash, image, menu and number of
   faults, if the user is patient. *)
THEOREM HostAndDeviceAgree ==
  ASSUME PatientUser
  PROVE  SessionSpec => []InAgreement
<1>1. Base /\ Conversation => InAgreement
  <2> SUFFICES ASSUME Base, Conversation, hpc = "NextBlock", positive
               PROVE  /\ refused \/ ImageIn(mem, SubSeq(file, 1, sent))
                      /\ sent < Len(file) /\ phase = "Control" /\ state = "Write_FLASH_Sectors" =>
                           progAddress = SECTOR2_ADDRESS + sent
    BY DEF InAgreement
  <2>1. Ready(tx, sent)
    BY DEF Conversation, Talk
  <2>2. QED
    BY <2>1 DEF Ready, InFlash, AtPlace
<1>2. QED
  BY <1>1, AgreementInductive, PTL

(* An image the script reports as "successfully programmed" is in the flash,
   unless the flash has refused something. *)
THEOREM ClaimsAreTrue ==
  ASSUME PatientUser
  PROVE  SessionSpec => []ClaimedImageIsInFlash
<1>1. Base /\ Conversation => ClaimedImageIsInFlash
  <2> SUFFICES ASSUME Base, Conversation, Claimed, ~ refused
               PROVE  ImageIn(mem, file)
    BY DEF ClaimedImageIsInFlash
  <2>1. InFlash(Len(file))
    BY DEF Claimed, Conversation, Talk
  <2>2. file \in Seq(0 .. 255) /\ SubSeq(file, 1, Len(file)) = file
    BY FileType DEF Base
  <2>3. QED
    BY <2>1, <2>2 DEF InFlash
<1>2. QED
  BY <1>1, AgreementInductive, PTL
=============================================================================
