---------------------------- MODULE UsartPolling ----------------------------
(***************************************************************************)
(* USART::Transmit and USART::Read, which poll the status register, with   *)
(* the registers they poll and the SysTick interrupt that counts time.     *)
(* The processor, the transmitter, the receiver and the clock take steps   *)
(* of their own.  Bytes are numbered: those of a message from 1, those the *)
(* host sends from the last one that came before the Read, which is 0.     *)
(***************************************************************************)
EXTENDS Delay, Sequences

CONSTANTS
  MessageSizes, (* sizes of the messages Transmit is called with            *)
  ReadSizes,    (* sizes Read is called with                                *)
  WaitTimes,    (* the waitTime of a call                                   *)
  MaxLost       (* bound: bytes lost to an overrun in one Read              *)

VARIABLES
  globalTime,                       (* SysTick::globalTime                  *)
  op,                               (* the call under way, and its loop     *)
  size, waitTime, startTime, index, retVal,       (* its locals             *)
  tdr, shift, TC,   (* transmitter: byte in DR and in the shift register    *)
  srRead,           (* has SR been read since DR was written?               *)
  wire,             (* bytes of this message that have left                 *)
  rdr,              (* receiver: the byte in DR                             *)
  coming, lost,     (* the host's next byte, and how many were lost         *)
  buffer            (* what Read has read                                   *)

locals      == <<size, waitTime, startTime>>
transmitter == <<tdr, shift, TC, wire>>
receiver    == <<rdr, coming, lost>>
vars == <<globalTime, op, locals, index, retVal, transmitter, srRead, receiver, buffer>>

ASSUME PollingAssumption ==
  /\ MessageSizes \subseteq 1 .. 255 /\ ReadSizes \subseteq 0 .. 255
  /\ WaitTimes \subseteq Time
  /\ MaxLost \in Nat

Empty == -1
(* A mutant: TXE has the wrong polarity. *)
TXEInverted == tdr # Empty

TXE  == tdr = Empty
RXNE == rdr # Empty

Init ==
  /\ globalTime \in Time
  /\ op = "Idle"
  /\ size = 0 /\ waitTime = 0 /\ startTime = 0 /\ index = 0 /\ retVal = "ST_OK"
  /\ tdr = Empty /\ shift = Empty /\ TC = TRUE /\ srRead = FALSE /\ wire = <<>>
  /\ rdr = Empty /\ coming = 1 /\ lost = 0
  /\ buffer = <<>>

(* A mutant: the index is incremented before the byte is taken. *)
WriteNextDR(byte, afterSR) ==
  /\ tdr' = byte + 1
  /\ TC' = (TC /\ ~ afterSR)
  /\ srRead' = FALSE

(* A byte written to DR clears TC only when SR has been read before. *)
WriteDR(byte, afterSR) ==
  /\ tdr' = byte
  /\ TC' = (TC /\ ~ afterSR)
  /\ srRead' = FALSE

(* The first call of all is main's banner, longer than a byte. *)
Transmit(n, wait) ==
  /\ op = "Idle" /\ (srRead \/ n > 1)
  /\ size' = n /\ waitTime' = wait /\ startTime' = globalTime
  /\ retVal' = "ST_OK"
  /\ WriteDR(1, srRead) /\ index' = 1
  /\ wire' = <<>>
  /\ op' = "Transmit"
  /\ UNCHANGED <<globalTime, shift, receiver, buffer>>

Checked == IF DELAY_EXCEEDED(startTime, globalTime, waitTime) THEN "TIMEOUT" ELSE retVal

TransmitLoop ==
  /\ op = "Transmit" /\ index < size
  /\ retVal' = Checked
  /\ IF TXE THEN WriteDR(index + 1, TRUE) /\ index' = index + 1
            ELSE srRead' = TRUE /\ UNCHANGED <<tdr, TC, index>>
  /\ UNCHANGED <<globalTime, op, locals, shift, wire, receiver, buffer>>

(* A mutant: Transmit returns on TXE, when the last byte leaves DR. *)
DrainUntilTXE ==
  /\ op = "Transmit" /\ index = size
  /\ srRead' = TRUE
  /\ IF TXE THEN op' = "Idle" /\ UNCHANGED retVal
            ELSE retVal' = Checked /\ UNCHANGED op
  /\ UNCHANGED <<globalTime, locals, index, transmitter, receiver, buffer>>

Drain ==
  /\ op = "Transmit" /\ index = size
  /\ srRead' = TRUE
  /\ IF TC THEN op' = "Idle" /\ UNCHANGED retVal
           ELSE retVal' = Checked /\ UNCHANGED op
  /\ UNCHANGED <<globalTime, locals, index, transmitter, receiver, buffer>>

Read(n, wait) ==
  /\ op = "Idle"
  /\ size' = n /\ waitTime' = wait /\ startTime' = globalTime
  /\ retVal' = "ST_OK" /\ index' = 0
  /\ buffer' = <<>>
  /\ rdr' = (IF RXNE THEN 0 ELSE Empty)
  /\ coming' = 1 /\ lost' = 0
  /\ wire' = <<>>
  /\ op' = "Read"
  /\ UNCHANGED <<globalTime, tdr, shift, TC, srRead>>

(* A mutant: RXNE is not waited for. *)
ReadLoopBlind ==
  /\ op = "Read" /\ index < size
  /\ retVal' = Checked
  /\ srRead' = TRUE
  /\ buffer' = Append(buffer, rdr) /\ index' = index + 1 /\ rdr' = Empty
  /\ UNCHANGED <<globalTime, op, locals, transmitter, coming, lost>>

ReadLoop ==
  /\ op = "Read" /\ index < size
  /\ retVal' = Checked
  /\ srRead' = TRUE
  /\ IF RXNE THEN /\ buffer' = Append(buffer, rdr)
                  /\ index' = index + 1
                  /\ rdr' = Empty
             ELSE UNCHANGED <<buffer, index, rdr>>
  /\ UNCHANGED <<globalTime, op, locals, transmitter, coming, lost>>

ReadDone ==
  /\ op = "Read" /\ index = size
  /\ op' = "Idle"
  /\ UNCHANGED <<globalTime, locals, index, retVal, transmitter, srRead, receiver, buffer>>

-----------------------------------------------------------------------------
(* The hardware. *)
Load ==
  /\ tdr # Empty /\ shift = Empty
  /\ shift' = tdr /\ tdr' = Empty
  /\ UNCHANGED <<globalTime, op, locals, index, retVal, TC, wire, srRead, receiver, buffer>>

ShiftOut ==
  /\ shift # Empty
  /\ wire' = Append(wire, shift)
  /\ shift' = Empty
  /\ TC' = (TC \/ TXE)
  /\ UNCHANGED <<globalTime, op, locals, index, retVal, tdr, srRead, receiver, buffer>>

(* Bytes come while Read waits for them, and one may come before. *)
Arrive ==
  /\ ~ RXNE /\ (op = "Read" => index < size)
  /\ rdr' = coming /\ coming' = IF op = "Read" THEN coming + 1 ELSE coming
  /\ UNCHANGED <<globalTime, op, locals, index, retVal, transmitter, srRead, lost, buffer>>

Overrun ==
  /\ RXNE /\ op = "Read" /\ lost < MaxLost
  /\ lost' = lost + 1 /\ coming' = coming + 1
  /\ UNCHANGED <<globalTime, op, locals, index, retVal, transmitter, srRead, rdr, buffer>>

Systick_Interrupt ==
  /\ globalTime' = Wrap(globalTime + 1)
  /\ UNCHANGED <<op, locals, index, retVal, transmitter, srRead, receiver, buffer>>

Step == TransmitLoop \/ Drain \/ ReadLoop \/ ReadDone

Next ==
  \/ \E n \in MessageSizes, wait \in WaitTimes : Transmit(n, wait)
  \/ \E n \in ReadSizes, wait \in WaitTimes : Read(n, wait)
  \/ Step
  \/ Load \/ ShiftOut \/ Arrive \/ Overrun
  \/ Systick_Interrupt

Spec == Init /\ [][Next]_vars

(* The processor and the transmitter run, and the host sends what is read. *)
FairSpec ==
  /\ Spec
  /\ WF_vars(Step) /\ WF_vars(Load) /\ WF_vars(ShiftOut) /\ WF_vars(Arrive)

-----------------------------------------------------------------------------
TypeOK ==
  /\ globalTime \in Time /\ startTime \in Time
  /\ op \in {"Idle", "Transmit", "Read"}
  /\ size \in 0 .. 255 /\ waitTime \in WaitTimes \cup {0} /\ index \in 0 .. size
  /\ retVal \in {"ST_OK", "TIMEOUT"}
  /\ tdr \in {Empty} \cup 1 .. size /\ shift \in {Empty} \cup 1 .. size
  /\ TC \in BOOLEAN /\ srRead \in BOOLEAN
  /\ wire \in Seq(1 .. size) /\ Len(wire) <= size
  /\ rdr \in {Empty} \cup Nat /\ coming \in Nat /\ lost \in 0 .. MaxLost
  /\ buffer \in Seq(Nat)

(* When the driver is idle nothing of a message is left in the transmitter:
   Transmit returns only when the whole message has left, each byte once and
   in order, whether it reports TIMEOUT or not.  The jump to the application
   and the next handler rely on it. *)
MessageIsOut ==
  op # "Transmit" =>
    /\ tdr = Empty /\ shift = Empty
    /\ wire # <<>> => Len(wire) = size
    /\ \A i \in 1 .. Len(wire) : wire[i] = i

(* Read takes the host's bytes in order and none twice; without an overrun
   it misses none. *)
BytesInOrder ==
  /\ \A i \in 1 .. Len(buffer) - 1 : buffer[i] < buffer[i + 1]
  /\ (lost = 0 /\ buffer # <<>>) => buffer[Len(buffer)] - buffer[1] = Len(buffer) - 1

(* TIMEOUT is found only after waitTime, as long as the wait ends before the
   clock turns over. *)
TimeoutIsLate ==
  [][(op # "Idle" /\ retVal = "ST_OK" /\ retVal' = "TIMEOUT"
        /\ startTime + waitTime <= MAX_DELAY)
       => Elapsed(startTime, globalTime) > waitTime]_vars

(* "Using MAX_DELAY for timing functions will evaluate to undefinitive
   waiting posibility" (SysTick.h:7): such a call never reports TIMEOUT. *)
MaxDelayNeverExpires == waitTime = MAX_DELAY => retVal = "ST_OK"

(* Every call returns: a Transmit by itself, a Read when the host sends. *)
CallsReturn == (op # "Idle") ~> (op = "Idle")
=============================================================================
