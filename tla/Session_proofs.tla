--------------------------- MODULE Session_proofs ---------------------------
(***************************************************************************)
(* In a session with the host script, over a line that damages frames, the *)
(* device does nothing that BootDevice does not allow; so what is proved   *)
(* of BootDevice holds in every session.                                   *)
(***************************************************************************)
EXTENDS Session, BootDevice_proofs, SequenceTheorems

(* The frames on the line are frames BootDevice knows, and the block the
   script sends next is one too. *)
LineOK ==
  /\ line \in Seq(Frames)
  /\ file \in Files \cup {<<>>}
  /\ sent \in 0 .. Len(file)
  /\ toFollow \in Nat

SInv == TypeOK /\ LineOK

-----------------------------------------------------------------------------
LEMMA TakeIsRead ==
  ASSUME tx \in Seq(Byte), NEW n \in 0 .. Len(tx), Take(n),
         UNCHANGED deviceState
  PROVE  HostReads \/ UNCHANGED vars
<1>1. CASE n = 0
  BY <1>1 DEF Take, deviceState, vars
<1>2. CASE n # 0
  BY <1>2 DEF HostReads, deviceState, Take
<1>3. QED
  BY <1>1, <1>2

LEMMA PurgeIsRead ==
  ASSUME tx \in Seq(Byte), Purge, UNCHANGED deviceState
  PROVE  HostReads \/ UNCHANGED vars
<1>1. CASE tx = <<>>
  BY <1>1 DEF Purge, deviceState, vars
<1>2. CASE tx # <<>>
  <2>1. Len(tx) \in 1 .. Len(tx)
    BY <1>2
  <2>2. SubSeq(tx, Len(tx) + 1, Len(tx)) = <<>>
    OBVIOUS
  <2>3. Take(Len(tx))
    BY <2>2 DEF Take, Purge
  <2>4. QED
    BY <2>1, <2>3 DEF HostReads, deviceState
<1>3. QED
  BY <1>1, <1>2

LEMMA ReplyByte ==
  ASSUME tx \in Seq(Byte), Len(tx) >= 3
  PROVE  tx[3] \in 0 .. 255
<1>1. \A s \in Seq(Byte) : Len(s) >= 3 => s[3] \in Byte
  <2> SUFFICES ASSUME NEW s \in Seq(Byte), Len(s) >= 3 PROVE s[3] \in Byte
    OBVIOUS
  <2>1. 3 \in 1 .. Len(s)
    OBVIOUS
  <2>2. QED
    BY <2>1, ElementOfSeq, Zenon
<1>2. tx[3] \in Byte
  BY <1>1, Zenon
<1>3. QED
  BY <1>2 DEF Byte

LEMMA HostStepIsRead ==
  ASSUME SInv, HostStep
  PROVE  HostReads \/ UNCHANGED vars
<1>1. tx \in Seq(Byte) /\ toFollow \in Nat /\ UNCHANGED deviceState
  BY DEF SInv, TypeOK, LineOK, HostStep
<1>2. CASE SendCommand \/ SendSize \/ SendBlock \/ AllSent
  BY <1>1, <1>2 DEF SendCommand, SendSize, SendBlock, AllSent, deviceState, vars
<1>3. CASE ReadHeader
  BY <1>1, <1>3, TakeIsRead DEF ReadHeader, MIN_HEADER
<1>4. CASE ReadData
  BY <1>1, <1>4, TakeIsRead DEF ReadData
<1>5. CASE HeaderTimeout \/ DataTimeout \/ Continued \/ Restarted
  BY <1>1, <1>5, PurgeIsRead DEF HeaderTimeout, DataTimeout, Continued, Restarted, Forget
<1>6. QED
  BY <1>2, <1>3, <1>4, <1>5 DEF HostStep

(* Every step of a session is a step of the device, or none of it. *)
LEMMA DeviceInStep ==
  ASSUME SInv, [SessionNext]_allVars
  PROVE  [Next]_vars
<1>1. CASE HostStep
  BY <1>1, HostStepIsRead DEF Next
<1>2. CASE DeviceReceives
  <2>1. Head(line) \in Frames
    BY <1>2 DEF DeviceReceives, SInv, LineOK
  <2>2. QED
    BY <1>2, <2>1 DEF DeviceReceives, Next
<1>3. CASE DeviceContinues
  BY <1>3 DEF DeviceContinues, Next
<1>4. CASE SkewedNack
  BY <1>4 DEF SkewedNack, Next, Receive
<1>5. CASE DeviceStarts
  BY <1>5 DEF DeviceStarts, Next
<1>6. CASE SkewedEnd \/ FrameLost \/ FrameOverrun \/ CorruptFrame
  BY <1>6 DEF SkewedEnd, FrameLost, FrameOverrun, CorruptFrame
<1>7. CASE BoardReset
  BY <1>7 DEF BoardReset, Next
<1>8. CASE UNCHANGED sessionVars
  BY <1>8 DEF sessionVars
<1>9. QED
  BY <1>1, <1>2, <1>3, <1>4, <1>5, <1>6, <1>7, <1>8 DEF SessionNext, SessionStep, DeviceStep, allVars

-----------------------------------------------------------------------------
LEMMA BlockLength ==
  ASSUME NEW f \in Seq(0 .. 255), NEW start \in 0 .. Len(f) - 1
  PROVE  Len(BlockFrame(f, start).data) \in 0 .. Len(f) - start
<1> DEFINE remaining == Len(f) - start
           length == IF remaining >= PROG_BLOCK_MAX_SIZE THEN PROG_BLOCK_MAX_SIZE ELSE remaining
<1>1. length \in 0 .. remaining
  BY ProgrammerAssumption
<1>2. Len(SubSeq(f, start + 1, start + length)) = length
  BY <1>1
<1>3. BlockFrame(f, start).data = SubSeq(f, start + 1, start + length)
  BY DEF BlockFrame, Frame
<1>4. QED
  BY <1>1, <1>2, <1>3

LEMMA AppendFrame ==
  ASSUME line \in Seq(Frames), NEW f \in Frames, Send(f)
  PROVE  line' \in Seq(Frames)
BY DEF Send

(* Neither what a command does with a reply nor a crash sends a frame. *)
LEMMA ReplySendsNothing ==
  /\ \A ret : Returned(ret) => UNCHANGED <<file, sent, line>>
  /\ Crash => UNCHANGED <<file, sent, line>>
  /\ \A received : Processed(received) => UNCHANGED <<file, sent, line>>
<1>1. \A ret : Returned(ret) => UNCHANGED <<file, sent, line>>
  BY DEF Returned
<1>2. Crash => UNCHANGED <<file, sent, line>>
  BY DEF Crash
<1>3. QED
  BY <1>1, <1>2 DEF Processed

LEMMA LineHostStep ==
  ASSUME SInv, HostStep
  PROVE  LineOK'
<1>1. /\ tx \in Seq(Byte) /\ line \in Seq(Frames) /\ toFollow \in Nat
      /\ file \in Files \cup {<<>>} /\ sent \in 0 .. Len(file)
      /\ file \in Seq(0 .. 255) /\ Files \subseteq Seq(0 .. 255)
  <2>1. Files \subseteq Seq(0 .. 255) /\ <<>> \in Seq(0 .. 255)
    BY ProgrammerAssumption
  <2>2. QED
    BY <2>1 DEF SInv, TypeOK, LineOK
<1>2. CASE SendCommand
  BY <1>1, <1>2, AppendFrame, SessionAssumption DEF SendCommand, LineOK
<1>3. CASE SendSize
  <2>1. file' \in Files /\ Send(SizeFrame(file')) /\ sent' = 0 /\ toFollow' = toFollow
    BY <1>3 DEF SendSize
  <2>2. line' \in Seq(Frames)
    BY <1>1, <2>1, AppendFrame, SessionAssumption
  <2>3. QED
    BY <1>1, <2>1, <2>2 DEF LineOK
<1>4. CASE SendBlock
  <2>1. file \in Files /\ sent \in 0 .. Len(file) - 1
    BY <1>1, <1>4 DEF SendBlock
  <2>2. line' \in Seq(Frames)
    BY <1>1, <1>4, <2>1, AppendFrame, SessionAssumption DEF SendBlock
  <2>3. sent' \in 0 .. Len(file)
    BY <1>1, <1>4, <2>1, BlockLength DEF SendBlock
  <2>4. QED
    BY <1>1, <1>4, <2>2, <2>3 DEF SendBlock, LineOK
<1>5. CASE AllSent
  BY <1>1, <1>5 DEF AllSent, script, LineOK
<1>6. CASE ReadHeader
  <2>1. tx[3] \in Nat
    <3>1. tx[3] \in 0 .. 255
      BY <1>1, <1>6, ReplyByte DEF ReadHeader, MIN_HEADER
    <3>2. QED
      BY <3>1
  <2>2. LenToFollow(tx[3]) \in Nat
    BY <2>1 DEF LenToFollow
  <2>3. toFollow' \in Nat /\ UNCHANGED <<file, sent, line>>
    BY <1>1, <1>6, <2>2 DEF ReadHeader, Returned, script
  <2>4. QED
    BY <1>1, <2>3 DEF LineOK
<1>7. CASE HeaderTimeout
  <2>1. Len(tx) \in Nat
    BY <1>1, LenProperties
  <2>2. Len(tx) < 3
    BY <1>7 DEF HeaderTimeout, MIN_HEADER
  <2>3. toFollow' = toFollow
    BY <1>7, Zenon DEF HeaderTimeout
  <2>4. Len(tx) \in {0, 1, 2}
    <3>1. \A n \in Nat : n < 3 => n \in {0, 1, 2}
      OBVIOUS
    <3>2. QED
      BY <2>1, <2>2, <3>1, Zenon
  <2>5. UNCHANGED <<file, sent, line>>
    BY <1>7, <2>4, ReplySendsNothing, Zenon DEF HeaderTimeout
  <2>6. QED
    BY <1>1, <2>3, <2>5 DEF LineOK
<1>8. CASE ReadData \/ DataTimeout
  <2>1. UNCHANGED <<file, sent, line>> /\ toFollow' = 0
    BY <1>8, ReplySendsNothing DEF ReadData, DataTimeout
  <2>2. QED
    BY <1>1, <2>1 DEF LineOK
<1>9. CASE Continued \/ Restarted
  BY <1>1, <1>9 DEF Continued, Restarted, Forget, LineOK
<1>10. QED
  BY <1>2, <1>3, <1>4, <1>5, <1>6, <1>7, <1>8, <1>9 DEF HostStep

LEMMA LineStep ==
  ASSUME SInv, [SessionNext]_allVars
  PROVE  LineOK'
<1>1. /\ line \in Seq(Frames) /\ toFollow \in Nat
      /\ file \in Files \cup {<<>>} /\ sent \in 0 .. Len(file)
  BY DEF SInv, LineOK
<1>2. CASE HostStep
  BY <1>2, LineHostStep
<1>3. CASE DeviceReceives \/ SkewedEnd \/ FrameLost \/ FrameOverrun
  <2>1. line # <<>> /\ line' = Tail(line) /\ UNCHANGED <<file, sent, toFollow>>
    BY <1>3 DEF DeviceReceives, SkewedEnd, FrameLost, FrameOverrun, Delivered, hostSide, script
  <2>2. QED
    BY <1>1, <2>1 DEF LineOK
<1>4. CASE CorruptFrame
  <2>1. UNCHANGED <<file, sent, toFollow>> /\ line # <<>>
    BY <1>4 DEF CorruptFrame, hostSide, script
  <2>2. \/ line' = line
        \/ line' = <<[Head(line) EXCEPT !.crcOk = FALSE]>> \o Tail(line)
    BY <1>4 DEF CorruptFrame
  <2>3. Head(line) \in Frames /\ Tail(line) \in Seq(Frames)
    BY <1>1, <2>1
  <2>4. <<[Head(line) EXCEPT !.crcOk = FALSE]>> \in Seq(Frames)
    BY <2>3, SessionAssumption
  <2>5. line' \in Seq(Frames)
    <3> DEFINE damaged == <<[Head(line) EXCEPT !.crcOk = FALSE]>>
               rest == Tail(line)
    <3>1. damaged \in Seq(Frames) /\ rest \in Seq(Frames)
      BY <2>3, <2>4
    <3> HIDE DEF damaged, rest
    <3>2. damaged \o rest \in Seq(Frames)
      BY <3>1
    <3>3. QED
      BY <1>1, <2>2, <3>2 DEF damaged, rest
  <2>6. QED
    BY <1>1, <2>1, <2>5 DEF LineOK
<1>5. CASE DeviceContinues \/ SkewedNack \/ DeviceStarts \/ BoardReset \/ UNCHANGED sessionVars
  <2>1. UNCHANGED <<line, file, sent, toFollow>>
    BY <1>5 DEF DeviceContinues, SkewedNack, DeviceStarts, BoardReset, sessionVars, hostVars, script
  <2>2. QED
    BY <1>1, <2>1 DEF LineOK
<1>6. QED
  BY <1>2, <1>3, <1>4, <1>5 DEF SessionNext, SessionStep, DeviceStep, allVars

LEMMA SessionInductive == SessionSpec => []SInv
<1>1. SessionInit => SInv
  <2> SUFFICES ASSUME SessionInit PROVE SInv
    OBVIOUS
  <2>1. TypeOK
    BY TypeInit DEF SessionInit
  <2>2. LineOK
    BY DEF SessionInit, InitHost, LineOK
  <2>3. QED
    BY <2>1, <2>2 DEF SInv
<1>2. SInv /\ [SessionNext]_allVars => SInv'
  <2> SUFFICES ASSUME SInv, [SessionNext]_allVars PROVE SInv'
    OBVIOUS
  <2>1. TypeOK'
    BY DeviceInStep, TypeStep DEF SInv
  <2>2. QED
    BY <2>1, LineStep DEF SInv
<1>3. QED
  BY <1>1, <1>2, PTL DEF SessionSpec

-----------------------------------------------------------------------------
(***************************************************************************)
(* The type invariant of a session.                                        *)
(***************************************************************************)
HostTypes ==
  /\ hpc \in {"Menu", "Header", "Data", "NextBlock", "Prompt", "Crashed"}
  /\ waitFor \in {"Reply", "Ack1", "Ack2", "Block"}
  /\ command \in serviceTable \cup {0}
  /\ toFollow \in 0 .. 255

FaultTypes == corrupted \in 0 .. MaxCorrupt /\ resets \in 0 .. MaxReset

TruthTypes == positive \in BOOLEAN /\ skewed \in BOOLEAN /\ refused \in BOOLEAN

LEMMA ReturnedTypes ==
  ASSUME HostTypes, NEW ret, Returned(ret)
  PROVE  /\ hpc' \in {"Header", "NextBlock", "Prompt"}
         /\ waitFor' \in {"Reply", "Ack1", "Ack2", "Block"}
         /\ command' = command
<1>1. command' = command
  BY DEF Returned
<1>2. CASE waitFor \in {"Reply", "Block"}
  BY <1>1, <1>2 DEF Returned
<1>3. CASE waitFor = "Ack1"
  BY <1>1, <1>3 DEF Returned
<1>4. CASE waitFor = "Ack2"
  BY <1>1, <1>4 DEF Returned
<1>5. QED
  BY <1>1, <1>2, <1>3, <1>4 DEF HostTypes

LEMMA ProcessedTypes ==
  ASSUME HostTypes, NEW received, Processed(received), toFollow' = 0
  PROVE  HostTypes'
<1>1. CASE Crash
  BY <1>1 DEF Crash, HostTypes
<1>2. CASE Returned(0)
  BY <1>2, ReturnedTypes DEF HostTypes
<1>3. QED
  BY <1>1, <1>2 DEF Processed

LEMMA HostTypesStep ==
  ASSUME TypeOK, HostTypes, HostStep
  PROVE  HostTypes'
<1>1. CASE SendCommand
  BY <1>1, ProgrammerAssumption DEF SendCommand, HostTypes
<1>2. CASE SendSize
  BY <1>2 DEF SendSize, HostTypes, serviceTable
<1>3. CASE ReadHeader
  <2>1. tx[3] \in 0 .. 255
    BY <1>3, ReplyByte DEF ReadHeader, MIN_HEADER, TypeOK
  <2>2. LenToFollow(tx[3]) \in 0 .. 255
    BY <2>1 DEF LenToFollow
  <2>3. CASE tx[2] = POSITIVE_RESP
    BY <1>3, <2>2, <2>3 DEF ReadHeader, script, HostTypes
  <2>4. CASE tx[2] # POSITIVE_RESP
    <3>1. PICK ret : Returned(ret)
      BY <1>3, <2>4 DEF ReadHeader
    <3>2. toFollow' = toFollow
      BY <1>3, <2>4 DEF ReadHeader
    <3>3. QED
      BY <3>1, <3>2, ReturnedTypes DEF HostTypes
  <2>5. QED
    BY <2>3, <2>4
<1>4. CASE HeaderTimeout
  <2>1. toFollow' = toFollow
    BY <1>4, Zenon DEF HeaderTimeout
  <2>2. Crash \/ \E ret : Returned(ret)
    BY <1>4, Zenon DEF HeaderTimeout
  <2>3. CASE Crash
    BY <2>1, <2>3 DEF Crash, HostTypes
  <2>4. CASE \E ret : Returned(ret)
    BY <2>1, <2>4, ReturnedTypes DEF HostTypes
  <2>5. QED
    BY <2>2, <2>3, <2>4
<1>5. CASE ReadData \/ DataTimeout
  <2>1. toFollow' = 0 /\ \E received : Processed(received)
    BY <1>5, Zenon DEF ReadData, DataTimeout
  <2>2. QED
    BY <2>1, ProcessedTypes
<1>6. CASE SendBlock
  BY <1>6 DEF SendBlock, HostTypes
<1>7. CASE AllSent
  BY <1>7 DEF AllSent, script, HostTypes
<1>8. CASE Continued \/ Restarted
  BY <1>8 DEF Continued, Restarted, Forget, HostTypes
<1>9. QED
  BY <1>1, <1>2, <1>3, <1>4, <1>5, <1>6, <1>7, <1>8 DEF HostStep

LEMMA SessionTypesStep ==
  ASSUME SInv, HostTypes, FaultTypes, [SessionNext]_allVars
  PROVE  HostTypes' /\ FaultTypes'
<1>1. CASE HostStep
  <2>1. HostTypes'
    BY <1>1, HostTypesStep DEF SInv
  <2>2. QED
    BY <1>1, <2>1 DEF HostStep, faults, FaultTypes
<1>2. CASE DeviceReceives \/ FrameLost \/ FrameOverrun \/ SkewedEnd
  <2>1. UNCHANGED <<hpc, waitFor, command, toFollow, corrupted, resets>>
    BY <1>2 DEF DeviceReceives, FrameLost, FrameOverrun, SkewedEnd, hostSide, script, faults
  <2>2. QED
    BY <2>1 DEF HostTypes, FaultTypes
<1>3. CASE CorruptFrame
  <2>1. UNCHANGED <<hpc, waitFor, command, toFollow, resets>>
    BY <1>3 DEF CorruptFrame, hostSide, script
  <2>2. corrupted' \in 0 .. MaxCorrupt
    BY <1>3, SessionAssumption DEF CorruptFrame, FaultTypes
  <2>3. QED
    BY <2>1, <2>2 DEF HostTypes, FaultTypes
<1>4. CASE DeviceContinues \/ SkewedNack \/ DeviceStarts
  <2>1. UNCHANGED <<hpc, waitFor, command, toFollow, corrupted, resets>>
    BY <1>4 DEF DeviceContinues, SkewedNack, DeviceStarts, hostVars, script, faults
  <2>2. QED
    BY <2>1 DEF HostTypes, FaultTypes
<1>5. CASE BoardReset
  <2>1. UNCHANGED <<hpc, waitFor, command, toFollow, corrupted>>
    BY <1>5 DEF BoardReset, hostVars, script
  <2>2. resets' \in 0 .. MaxReset
    BY <1>5, SessionAssumption DEF BoardReset, FaultTypes
  <2>3. QED
    BY <2>1, <2>2 DEF HostTypes, FaultTypes
<1>6. CASE UNCHANGED allVars
  BY <1>6 DEF allVars, sessionVars, hostVars, script, faults, HostTypes, FaultTypes
<1>7. QED
  BY <1>1, <1>2, <1>3, <1>4, <1>5, <1>6 DEF SessionNext, SessionStep, DeviceStep

LEMMA HostTruth ==
  ASSUME positive \in BOOLEAN, HostStep
  PROVE  positive' \in BOOLEAN
<1>1. \A ret : Returned(ret) => positive' \in BOOLEAN
  BY Zenon DEF Returned
<1>2. Crash => positive' \in BOOLEAN
  BY Zenon DEF Crash
<1>3. \A received : Processed(received) => positive' \in BOOLEAN
  BY <1>1, <1>2, Zenon DEF Processed
<1>4. CASE ReadHeader
  BY <1>1, <1>4, Zenon DEF ReadHeader, script
<1>5. CASE HeaderTimeout
  BY <1>1, <1>2, <1>5, Zenon DEF HeaderTimeout
<1>6. CASE ReadData \/ DataTimeout
  BY <1>3, <1>6, Zenon DEF ReadData, DataTimeout
<1>7. CASE SendCommand \/ SendSize \/ SendBlock \/ AllSent \/ Continued \/ Restarted
  BY <1>7, Zenon DEF SendCommand, SendSize, SendBlock, AllSent, Continued, Restarted,
                     Forget, script
<1>8. QED
  BY <1>4, <1>5, <1>6, <1>7, Zenon DEF HostStep

LEMMA TruthStep ==
  ASSUME TruthTypes, WRPERR' \in BOOLEAN, [SessionNext]_allVars
  PROVE  TruthTypes'
<1>1. refused' \in BOOLEAN
  BY Zenon DEF SessionNext, allVars, TruthTypes
<1>2. CASE HostStep
  <2>1. positive' \in BOOLEAN
    BY <1>2, HostTruth, Zenon DEF TruthTypes
  <2>2. skewed' = skewed
    BY <1>2, Zenon DEF HostStep, faults
  <2>3. QED
    BY <1>1, <2>1, <2>2, Zenon DEF TruthTypes
<1>3. CASE ~ HostStep
  <2>1. positive' = positive
    BY <1>3, Zenon DEF SessionNext, SessionStep, DeviceStep, DeviceReceives, FrameLost, FrameOverrun,
                       SkewedEnd, CorruptFrame, DeviceContinues, SkewedNack, DeviceStarts,
                       BoardReset, hostSide, hostVars, script, allVars, sessionVars
  <2>2. skewed' \in BOOLEAN
    BY <1>3, Zenon DEF SessionNext, SessionStep, DeviceStep, DeviceReceives, FrameLost, FrameOverrun,
                       SkewedEnd, CorruptFrame, DeviceContinues, SkewedNack, DeviceStarts,
                       BoardReset, faults, allVars, sessionVars, TruthTypes
  <2>3. QED
    BY <1>1, <2>1, <2>2, Zenon DEF TruthTypes
<1>4. QED
  BY <1>2, <1>3

(* Every variable of a session keeps its type, for every flash, every menu,
   every image and every number of faults. *)
THEOREM SessionTypeCorrect == SessionSpec => []SessionTypeOK
<1> DEFINE Types == HostTypes /\ FaultTypes /\ TruthTypes
<1>1. SessionInit => Types
  <2> SUFFICES ASSUME SessionInit PROVE Types
    OBVIOUS
  <2>1. HostTypes
    BY DEF SessionInit, InitHost, HostTypes
  <2>2. FaultTypes
    BY SessionAssumption DEF SessionInit, FaultTypes
  <2>3. TruthTypes
    BY Zenon DEF SessionInit, InitHost, TruthTypes
  <2>4. QED
    BY <2>1, <2>2, <2>3
<1>2. SInv /\ SInv' /\ Types /\ [SessionNext]_allVars => Types'
  <2> SUFFICES ASSUME SInv, SInv', Types, [SessionNext]_allVars PROVE Types'
    OBVIOUS
  <2>1. HostTypes' /\ FaultTypes'
    BY SessionTypesStep
  <2>2. TruthTypes'
    BY TruthStep, Zenon DEF SInv, TypeOK
  <2>3. QED
    BY <2>1, <2>2
<1>3. SInv /\ Types => SessionTypeOK
  <2>1. Frames \subseteq FrameSet(0 .. 255)
    BY DeviceAssumption DEF Byte
  <2>2. \A S : Frames \subseteq S => Seq(Frames) \subseteq Seq(S)
    OBVIOUS
  <2>3. Seq(Frames) \subseteq Seq(FrameSet(0 .. 255))
    BY <2>1, <2>2
  <2>4. QED
    BY <2>3, Zenon DEF SInv, LineOK, HostTypes, FaultTypes, TruthTypes, SessionTypeOK, HostTypeOK
<1>4. QED
  BY <1>1, <1>2, <1>3, SessionInductive, PTL DEF SessionSpec

(* A session, seen from the device, is a behaviour of BootDevice. *)
THEOREM DeviceInSession == SessionSpec => DeviceBehaviour
<1>1. SessionInit => Init
  BY DEF SessionInit
<1>2. SInv /\ [SessionNext]_allVars => [Next]_vars
  BY DeviceInStep
<1>3. QED
  BY <1>1, <1>2, SessionInductive, PTL DEF SessionSpec, DeviceBehaviour, Spec

(* So in every session the blocks of an image meet erased flash and are
   programmed as they were sent, and only an erase command that names the
   bootloader's sector changes it, whatever the line, the user and the reset
   button do. *)
THEOREM SessionKeepsDeviceSafe ==
  SessionSpec => [](AheadErased /\ BlockAsSent) /\ BootloaderSurvives
<1>1. Spec => BootloaderSurvives
  BY BootloaderIsSafe
<1>2. QED
  BY <1>1, DeviceInSession, TransferMeetsErasedFlash, BlocksAreProgrammed, PTL
     DEF DeviceBehaviour
=============================================================================
