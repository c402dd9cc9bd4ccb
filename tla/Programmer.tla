----------------------------- MODULE Programmer -----------------------------
(***************************************************************************)
(* The host script STM32_Programmer_V1.py: its menu, the frames each       *)
(* command sends, read_bootloader_reply with its 10 s time-out, and the    *)
(* conversation of BL_MEM_WRITE.  The script is sequential; its input is   *)
(* what the user chooses and the bytes of tx, its output the frames of     *)
(* line.  Composed with the device in Session.                             *)
(***************************************************************************)
EXTENDS SerialLine, Integers

CONSTANTS
  MenuFrames,           (* the frames of the one-reply commands the user    *)
                        (* may choose                                       *)
  Files,                (* the images the user may choose                   *)
  PROG_BLOCK_MAX_SIZE,  (* data bytes of a full block, 255 in the script    *)
  NUMBER_OF_TARGET_FLASH_SECTORS

VARIABLES
  hpc,         (* where the script is                                       *)
  waitFor,     (* the reply it reads: Reply, Ack1, Ack2 or Block            *)
  command,     (* the command it has sent                                   *)
  toFollow,    (* len_to_follow                                             *)
  file,        (* the image being written                                   *)
  sent,        (* bytes_so_far_sent                                         *)
  positive,    (* have all replies to this BL_MEM_WRITE been positive?      *)
  line         (* frames on their way to the device                         *)

script    == <<waitFor, command, file, sent, positive>>
hostVars  == <<hpc, script, toFollow, line>>

MIN_HEADER == 3

ASSUME ProgrammerAssumption ==
  /\ \A f \in MenuFrames : f.cmd \in serviceTable
  /\ Files \subseteq Seq(0 .. 255)
  /\ PROG_BLOCK_MAX_SIZE \in Nat \ {0}
  /\ NUMBER_OF_TARGET_FLASH_SECTORS \in Nat

InitHost ==
  /\ hpc = "Menu" /\ waitFor = "Reply" /\ command = 0 /\ toFollow = 0
  /\ file = <<>> /\ sent = 0 /\ positive = FALSE
  /\ line = <<>>

-----------------------------------------------------------------------------
(* Frames are sent with the CRC the script computes over them. *)
Send(f) == line' = Append(line, f)

SizeFrame(f) ==
  Frame(CONSEC_FRAME, CMD_CODE_BOOT_FLASH_WRITE,
        <<Len(f) % 256, (Len(f) \div 256) % 256, (Len(f) \div 65536) % 256,
          Len(f) \div 16777216>>, TRUE)

(* A block shorter than the maximum is the last one. *)
BlockFrame(f, start) ==
  LET remaining == Len(f) - start
      full      == remaining >= PROG_BLOCK_MAX_SIZE
      length    == IF full THEN PROG_BLOCK_MAX_SIZE ELSE remaining
  IN Frame(IF full THEN CONSEC_FRAME ELSE LAST_FRAME, CMD_CODE_BOOT_FLASH_WRITE,
           SubSeq(f, start + 1, start + length), TRUE)

(***************************************************************************)
(* The menu.                                                               *)
(***************************************************************************)
SendCommand ==
  /\ hpc = "Menu"
  /\ \E f \in MenuFrames : Send(f) /\ command' = f.cmd
  /\ hpc' = "Header" /\ waitFor' = "Reply"
  /\ UNCHANGED <<toFollow, file, sent, positive, tx>>

SendSize ==
  /\ hpc = "Menu"
  /\ file' \in Files
  /\ Send(SizeFrame(file'))
  /\ command' = CMD_CODE_BOOT_FLASH_WRITE
  /\ hpc' = "Header" /\ waitFor' = "Ack1"
  /\ sent' = 0 /\ positive' = TRUE
  /\ UNCHANGED <<toFollow, tx>>

(***************************************************************************)
(* What a command does with the value read_bootloader_reply returns.  A    *)
(* block that was not acknowledged is reported and the next one is sent.   *)
(***************************************************************************)
Returned(ret) ==
  /\ CASE waitFor = "Reply" -> hpc' = "Prompt" /\ UNCHANGED waitFor
       [] waitFor = "Ack1"  -> IF ret = 0 THEN hpc' = "Header" /\ waitFor' = "Ack2"
                                          ELSE hpc' = "Prompt" /\ UNCHANGED waitFor
       [] waitFor = "Ack2"  -> IF ret = 0 THEN hpc' = "NextBlock" /\ waitFor' = "Block"
                                          ELSE hpc' = "Prompt" /\ UNCHANGED waitFor
       [] waitFor = "Block" -> hpc' = "NextBlock" /\ UNCHANGED waitFor
  /\ positive' = (positive /\ ret = 0)
  /\ UNCHANGED <<command, file, sent, line>>

Crash ==
  /\ hpc' = "Crashed"
  /\ positive' = FALSE
  /\ UNCHANGED <<waitFor, command, file, sent, line>>

(* Two of the process_... functions read no data, whatever is announced. *)
LenToFollow(announced) ==
  IF command \in {CMD_CODE_BOOT_SET_FLASH_RW_PROT, CMD_CODE_BOOT_JUMP_TO_APP}
  THEN 0 ELSE announced

(* A mutant of ReadHeader: any reply but a negative one counts as positive. *)
ReadHeaderTrusting ==
  /\ hpc = "Header" /\ Len(tx) >= MIN_HEADER
  /\ Take(MIN_HEADER)
  /\ IF tx[2] = NEGATIVE_RESP THEN UNCHANGED toFollow /\ Returned(-1)
     ELSE hpc' = "Data" /\ toFollow' = LenToFollow(tx[3]) /\ UNCHANGED <<script, line>>

(* The second byte decides; neither 0xAA nor 0xFF is passed over in
   silence, and the first byte is not looked at. *)
ReadHeader ==
  /\ hpc = "Header" /\ Len(tx) >= MIN_HEADER
  /\ Take(MIN_HEADER)
  /\ IF tx[2] = POSITIVE_RESP
     THEN /\ hpc' = "Data" /\ toFollow' = LenToFollow(tx[3])
          /\ UNCHANGED <<script, line>>
     ELSE /\ UNCHANGED toFollow
          /\ Returned(IF tx[2] = NEGATIVE_RESP THEN -1 ELSE -2)

(* A mutant of HeaderTimeout: the port is opened without a time-out. *)
NoHeaderTimeout == FALSE

(* Fewer bytes after 10 s.  None is a time-out; with one, a_array[1] does
   not exist, with two a_array[2] may not. *)
HeaderTimeout ==
  /\ hpc = "Header" /\ Len(tx) < MIN_HEADER
  /\ Purge
  /\ UNCHANGED toFollow
  /\ \/ Len(tx) = 0 /\ Returned(-2)
     \/ Len(tx) = 1 /\ Crash
     \/ Len(tx) = 2 /\ tx[2] = POSITIVE_RESP /\ Crash
     \/ Len(tx) = 2 /\ tx[2] # POSITIVE_RESP
        /\ Returned(IF tx[2] = NEGATIVE_RESP THEN -1 ELSE -2)

(* The data bytes the process_... function of the command indexes. *)
IndexedBytes ==
  CASE command = CMD_CODE_BOOT_GET_MCUID -> 4
    [] command = CMD_CODE_BOOT_READ_FLASH_PROT_STATUS -> 1
    [] command = CMD_CODE_BOOT_GET_FLASH_RW_PROT -> NUMBER_OF_TARGET_FLASH_SECTORS
    [] OTHER -> 0

Processed(received) == IF received < IndexedBytes THEN Crash ELSE Returned(0)

ReadData ==
  /\ hpc = "Data" /\ Len(tx) >= toFollow
  /\ Take(toFollow)
  /\ toFollow' = 0
  /\ Processed(toFollow)

DataTimeout ==
  /\ hpc = "Data" /\ Len(tx) < toFollow
  /\ Purge
  /\ toFollow' = 0
  /\ Processed(Len(tx))

(***************************************************************************)
(* The loop of BL_MEM_WRITE.                                               *)
(***************************************************************************)
(* A mutant of SendBlock: every block counts as a full one. *)
SendBlockCountingFull ==
  /\ hpc = "NextBlock" /\ sent < Len(file)
  /\ Send(BlockFrame(file, sent))
  /\ sent' = sent + PROG_BLOCK_MAX_SIZE
  /\ hpc' = "Header"
  /\ UNCHANGED <<waitFor, command, toFollow, file, positive, tx>>

SendBlock ==
  /\ hpc = "NextBlock" /\ sent < Len(file)
  /\ Send(BlockFrame(file, sent))
  /\ sent' = sent + Len(BlockFrame(file, sent).data)
  /\ hpc' = "Header"
  /\ UNCHANGED <<waitFor, command, toFollow, file, positive, tx>>

AllSent ==
  /\ hpc = "NextBlock" /\ sent = Len(file)
  /\ hpc' = "Prompt"
  /\ UNCHANGED <<script, toFollow, line, tx>>

(***************************************************************************)
(* "Press any key to continue" empties the input buffer.  After a crash    *)
(* the user starts the script again, and opening the port empties it too.  *)
(***************************************************************************)
Forget ==
  /\ hpc' = "Menu" /\ waitFor' = "Reply" /\ command' = 0 /\ toFollow' = 0
  /\ file' = <<>> /\ sent' = 0 /\ positive' = FALSE
  /\ Purge
  /\ UNCHANGED line

Continued == hpc = "Prompt" /\ Forget
Restarted == hpc = "Crashed" /\ Forget

(* The host has reported every step of a BL_MEM_WRITE as done. *)
Claimed == hpc = "Prompt" /\ waitFor = "Block" /\ positive

HostTypeOK ==
  /\ hpc \in {"Menu", "Header", "Data", "NextBlock", "Prompt", "Crashed"}
  /\ waitFor \in {"Reply", "Ack1", "Ack2", "Block"}
  /\ command \in serviceTable \cup {0}
  /\ toFollow \in 0 .. 255
  /\ file \in Files \cup {<<>>} /\ sent \in 0 .. Len(file)
  /\ positive \in BOOLEAN
  /\ line \in Seq(FrameSet(0 .. 255))
=============================================================================
