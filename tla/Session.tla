------------------------------ MODULE Session ------------------------------
(***************************************************************************)
(* A programming session: the host script and the bootloader, joined by a  *)
(* serial line that can damage frames, with a board that can be reset and  *)
(* an erase that can outlast the host's time-out.                          *)
(*                                                                         *)
(* The device polls its receiver and has no buffer.  A frame that comes    *)
(* when nobody listens is lost; one that comes while a handler is at work  *)
(* leaves a single byte in the data register, and from then on the device  *)
(* cuts the bytes it gets into frames at the wrong places.                 *)
(***************************************************************************)
EXTENDS BootDevice, Programmer

CONSTANTS
  MaxCorrupt,   (* bound: frames the line damages                           *)
  MaxNacks,     (* bound: a device out of step adds a NACK while the host   *)
                (* has fewer than this many bytes to read                   *)
  MaxReset,     (* bound: resets of the board                               *)
  Gone,         (* bound: the sets of cells a reset in an erase leaves      *)
                (* erased                                                   *)
  SlowErase,    (* may an erase take longer than the host waits?            *)
  PatientUser   (* does the user press a key only when an erase is over?    *)

VARIABLES
  skewed,       (* is the device out of step with the frames?               *)
  corrupted,    (* frames damaged so far                                    *)
  resets,       (* resets so far                                            *)
  refused       (* history: has the flash refused anything?                 *)

(* The device's model is told of every frame that can reach it. *)
ASSUME SessionAssumption ==
  /\ MenuFrames \subseteq Frames
  /\ \A f \in Files : /\ SizeFrame(f) \in Frames
                       /\ \A start \in 0 .. Len(f) - 1 : BlockFrame(f, start) \in Frames
  /\ \A f \in Frames : [f EXCEPT !.crcOk = FALSE] \in Frames
  /\ Gone \subseteq SUBSET Address /\ {} \in Gone
  /\ MaxCorrupt \in Nat /\ MaxNacks \in Nat /\ MaxReset \in Nat
  /\ SlowErase \in BOOLEAN /\ PatientUser \in BOOLEAN

(* main's two banners are texts (main.cpp:26, :33): the first is not empty, and
   none of their bytes is the 0xAA of a positive reply. *)
ASSUME BannerAssumption ==
  /\ BootBanner # <<>>
  /\ \A i \in 1 .. Len(BootBanner) : BootBanner[i] < 128
  /\ \A i \in 1 .. Len(AppBanner) : AppBanner[i] < 128

faults      == <<skewed, corrupted, resets>>
deviceState == <<phase, transfer, driver, flash>>
sessionVars == <<vars, hostVars, faults>>
allVars     == <<sessionVars, refused>>

SessionInit ==
  /\ Init /\ InitHost
  /\ skewed = FALSE /\ corrupted = 0 /\ resets = 0 /\ refused = FALSE

(* The device has nothing more to say until the host or a reset makes it. *)
Quiet == line = <<>> /\ (phase # "Control" \/ op = "Receive")

(* An erase takes up to 16 s with byte parallelism, of all sectors up to 32 s;
   the host waits 10 s.
   Everything else the device does is over in a fraction of a second. *)
TimedOut == Quiet \/ (SlowErase /\ line = <<>> /\ (Erasing \/ ErasingAll))

(* A user is slower than a frame and its answer, but not than an erase. *)
UserIsBack == Quiet \/ (~ PatientUser /\ line = <<>> /\ (Erasing \/ ErasingAll))

HostStep ==
  /\ \/ SendCommand
     \/ SendSize
     \/ ReadHeader
     \/ TimedOut /\ HeaderTimeout
     \/ ReadData
     \/ TimedOut /\ DataTimeout
     \/ SendBlock
     \/ AllSent
     \/ UserIsBack /\ Continued
     \/ UserIsBack /\ Restarted
  /\ UNCHANGED <<deviceState, faults>>

hostSide == <<hpc, script, toFollow>>

Delivered == line' = Tail(line)

DeviceReceives ==
  /\ line # <<>> /\ ~ skewed
  /\ Receive(Head(line))
  /\ Delivered
  /\ UNCHANGED <<hostSide, faults>>

DeviceContinues ==
  /\ Continue
  /\ UNCHANGED <<hostVars, faults>>

(* BootControl may begin in the middle of a frame. *)
DeviceStarts ==
  /\ \/ ButtonPressed /\ skewed' \in (IF line = <<>> THEN {FALSE} ELSE BOOLEAN)
     \/ BootTimeout /\ UNCHANGED skewed
  /\ UNCHANGED <<hostVars, corrupted, resets>>

(* Nobody reads the line before BootControl and after the jump. *)
FrameLost ==
  /\ line # <<>> /\ phase # "Control"
  /\ Delivered
  /\ UNCHANGED <<vars, hostSide, faults>>

(* The handler at work leaves one byte of the frame in the data register. *)
FrameOverrun ==
  /\ line # <<>> /\ phase = "Control" /\ op # "Receive"
  /\ Delivered
  /\ skewed' = TRUE
  /\ UNCHANGED <<vars, hostSide, corrupted, resets>>

(* Out of step, the device finds wrong CRCs in what it takes for frames, or
   waits for more; at the end of a frame it may be in step again. *)
SkewedNack ==
  /\ line # <<>> /\ skewed /\ Len(tx) < MaxNacks
  /\ \E f \in Frames : WrongCRC(f)
  /\ UNCHANGED <<hostVars, faults>>

SkewedEnd ==
  /\ line # <<>> /\ skewed /\ Listening
  /\ Delivered
  /\ skewed' \in BOOLEAN
  /\ UNCHANGED <<vars, hostSide, corrupted, resets>>

(* A byte of a frame is damaged, which its CRC shows, or a byte is lost or
   the length is damaged, which puts the device out of step. *)
CorruptFrame ==
  /\ line # <<>> /\ corrupted < MaxCorrupt
  /\ corrupted' = corrupted + 1
  /\ \/ line' = <<[Head(line) EXCEPT !.crcOk = FALSE]>> \o Tail(line) /\ UNCHANGED skewed
     \/ skewed' = TRUE /\ UNCHANGED line
  /\ UNCHANGED <<vars, hostSide, resets>>

BoardReset ==
  /\ resets < MaxReset
  /\ resets' = resets + 1
  /\ \E gone \in Gone : gone \subseteq HalfErased /\ Reset(gone)
  /\ skewed' = FALSE
  /\ UNCHANGED <<hostVars, corrupted>>

DeviceStep == DeviceReceives \/ DeviceContinues \/ SkewedNack \/ SkewedEnd

SessionStep ==
  \/ HostStep
  \/ DeviceStep
  \/ DeviceStarts
  \/ FrameLost
  \/ FrameOverrun
  \/ CorruptFrame
  \/ BoardReset

(* The reset clears WRPERR, and nobody reads it before. *)
SessionNext ==
  /\ SessionStep
  /\ refused' = (refused \/ WRPERR')

SessionSpec == SessionInit /\ [][SessionNext]_allVars

(* The device's processor runs, frames arrive or are lost, and so does the
   script: it is stopped only by its menu and its prompt, where it waits for
   the user. *)
ScriptRuns ==
  HostStep /\ hpc \in {"Header", "Data", "NextBlock"}

FairSession ==
  /\ SessionSpec
  /\ WF_sessionVars(DeviceReceives \/ DeviceContinues \/ SkewedEnd)
  /\ WF_sessionVars(FrameLost)
  /\ WF_sessionVars(ScriptRuns)

-----------------------------------------------------------------------------
(***************************************************************************)
(* Properties.                                                             *)
(***************************************************************************)
ImageIn(m, image) ==
  \A i \in 1 .. Len(image) : m[SECTOR2_ADDRESS + i - 1] = image[i]

SessionTypeOK ==
  /\ TypeOK /\ HostTypeOK
  /\ skewed \in BOOLEAN
  /\ corrupted \in 0 .. MaxCorrupt /\ resets \in 0 .. MaxReset
  /\ refused \in BOOLEAN

(* When the host has reported every block of an image as "successfully
   programmed" (STM32_Programmer_V1.py:218) and the device has nothing more
   to do, the image is in the flash, if the flash has refused nothing: that
   it did, neither side finds out. *)
ClaimedImageIsInFlash == (Claimed /\ Quiet /\ ~ refused) => ImageIn(mem, file)

(* Between two blocks the host and the device are at the same place of the
   image, as long as the device is still in the transfer: a reset between two
   blocks takes it out of it, which the host finds out with its next block.
   What the host has reported is in the flash all the same, unless a reply
   was missing or negative or the flash refused something. *)
InAgreement ==
  (hpc = "NextBlock" /\ positive) =>
    /\ refused \/ ImageIn(mem, SubSeq(file, 1, sent))
    /\ sent < Len(file) /\ phase = "Control" /\ state = "Write_FLASH_Sectors" =>
         progAddress = SECTOR2_ADDRESS + sent

(* After an image has been sent the device is ready for the next one, the
   reset to default of Commands.cpp:229. *)
ClaimedTransferIsOver == Claimed => state = "Get_BIN_Size"

(* The script survives any answer of the device.  The one it gets to a damaged
   frame is what STM32_Programmer_V1.py:491 calls "CRC of last command was
   bad .. received NACK"; ControlStructure.cpp:52 sends it as one byte. *)
HostSurvives == hpc # "Crashed"

(* Every command the user gives comes to an end: the script never waits for
   ever, whatever is lost, damaged or reset. *)
CommandEnds ==
  (hpc \in {"Header", "Data", "NextBlock"}) ~> (hpc \in {"Prompt", "Crashed"})

(* A transfer begun in step with a listening device, with nothing unread and
   no sector protected, ends with the image reported and in the flash, when
   the line and the board fail no more; or it is given up because the erase
   took longer than the host waits. *)
InStep ==
  /\ hpc = "Header" /\ waitFor = "Ack1" /\ tx = <<>> /\ Len(line) = 1
  /\ phase = "Control" /\ op = "Receive" /\ state = "Get_BIN_Size" /\ ~ skewed
  /\ Head(line).crcOk /\ WriteProtected = {}
  /\ corrupted = MaxCorrupt /\ resets = MaxReset

GivenUpInErase == SlowErase /\ hpc = "Prompt" /\ waitFor = "Ack2"

TransferCompletes ==
  InStep ~> (Claimed /\ ImageIn(mem, file)) \/ GivenUpInErase

(* Seen from the device, a session is one of the hosts of BootDevice. *)
DeviceBehaviour == Spec
=============================================================================
