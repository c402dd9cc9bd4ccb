------------------------ MODULE UsartPolling_proofs ------------------------
(***************************************************************************)
(* What DELAY_EXCEEDED tells, for every width of the clock, and that a     *)
(* message has left the transmitter when Transmit returns, for messages of *)
(* any size.                                                               *)
(***************************************************************************)
EXTENDS UsartPolling, SequenceTheorems, TLAPS

-----------------------------------------------------------------------------
(* DELAY_EXCEEDED tells the truth as long as the end of the wait is a time. *)
LEMMA ExceededIsLate ==
  ASSUME NEW start \in Time, NEW now \in Time, NEW wait \in Time,
         start + wait <= MAX_DELAY, DELAY_EXCEEDED(start, now, wait)
  PROVE  Elapsed(start, now) > wait
<1>1. MAX_DELAY \in Nat
  BY MaxDelayAssumption
<1>2. CASE now > start
  BY <1>1, <1>2 DEF Time, Wrap, DELAY_EXCEEDED, Elapsed
<1>3. CASE now < start
  BY <1>1, <1>3 DEF Time, Wrap, DELAY_EXCEEDED, Elapsed
<1>4. QED
  BY <1>1, <1>2, <1>3 DEF Time, DELAY_EXCEEDED

(* With MAX_DELAY, the "undefinitive" wait of SysTick.h:7, it tells that the
   first tick is over, unless the wait began at time 0. *)
THEOREM MaxDelayIsShort ==
  ASSUME NEW start \in Time, NEW now \in Time
  PROVE  DELAY_EXCEEDED(start, now, MAX_DELAY) <=> (start # 0 /\ now > start)
<1>1. MAX_DELAY \in Nat
  BY MaxDelayAssumption
<1>2. CASE start = 0
  BY <1>1, <1>2 DEF Time, Wrap, DELAY_EXCEEDED
<1>3. CASE start # 0
  BY <1>1, <1>3 DEF Time, Wrap, DELAY_EXCEEDED
<1>4. QED
  BY <1>2, <1>3

-----------------------------------------------------------------------------
Clock ==
  /\ globalTime \in Time /\ startTime \in Time /\ waitTime \in Time

LEMMA ClockInductive == Spec => []Clock
<1>1. MAX_DELAY \in Nat /\ 0 \in Time /\ \A t \in Time : Wrap(t + 1) \in Time
  BY MaxDelayAssumption DEF Time, Wrap
<1>2. Init => Clock
  BY <1>1 DEF Init, Clock
<1>3. Clock /\ [Next]_vars => Clock'
  <2> SUFFICES ASSUME Clock, [Next]_vars PROVE Clock'
    OBVIOUS
  <2>1. CASE \E n \in MessageSizes, wait \in WaitTimes : Transmit(n, wait)
    BY <2>1, PollingAssumption DEF Transmit, Clock
  <2>2. CASE \E n \in ReadSizes, wait \in WaitTimes : Read(n, wait)
    BY <2>2, PollingAssumption DEF Read, Clock
  <2>3. CASE Step \/ Load \/ ShiftOut \/ Arrive \/ Overrun \/ UNCHANGED vars
    BY <2>3 DEF Step, TransmitLoop, Drain, ReadLoop, ReadDone, Load, ShiftOut, Arrive, Overrun,
                Clock, locals, vars
  <2>4. CASE Systick_Interrupt
    BY <1>1, <2>4 DEF Systick_Interrupt, Clock, locals
  <2>5. QED
    BY <2>1, <2>2, <2>3, <2>4 DEF Next
<1>4. QED
  BY <1>2, <1>3, PTL DEF Spec

(* Only the check of the time makes the status TIMEOUT. *)
LEMMA OnlyCheckedTimesOut ==
  ASSUME [Next]_vars, op # "Idle", retVal = "ST_OK", retVal' = "TIMEOUT"
  PROVE  DELAY_EXCEEDED(startTime, globalTime, waitTime)
<1>1. retVal' = Checked
  BY DEF Next, Transmit, Read, Step, TransmitLoop, Drain, ReadLoop, ReadDone, Load, ShiftOut,
         Arrive, Overrun, Systick_Interrupt, vars
<1>2. QED
  BY <1>1 DEF Checked

(* TIMEOUT is found only after waitTime, as long as the wait ends before the
   clock turns over. *)
THEOREM TimeoutIsNeverEarly == Spec => TimeoutIsLate
<1>1. Clock /\ [Next]_vars =>
        [(op # "Idle" /\ retVal = "ST_OK" /\ retVal' = "TIMEOUT"
            /\ startTime + waitTime <= MAX_DELAY)
           => Elapsed(startTime, globalTime) > waitTime]_vars
  BY OnlyCheckedTimesOut, ExceededIsLate DEF Clock
<1>2. QED
  BY <1>1, ClockInductive, PTL DEF Spec, TimeoutIsLate

-----------------------------------------------------------------------------
Held(byte) == IF byte = Empty THEN 0 ELSE 1

(* A message on its way: what has been written to DR is what has left, what
   is in the shift register and what is in DR, and TC tells that it is all
   out, except while its first byte is the only one written. *)
Underway ==
  op = "Transmit" =>
    /\ index \in 1 .. size
    /\ tdr \in {Empty, index} /\ shift \in {Empty, Len(wire) + 1}
    /\ index = Len(wire) + Held(shift) + Held(tdr)
    /\ \A i \in 1 .. Len(wire) : wire[i] = i
    /\ TC /\ (index > 1 \/ size = 1) => tdr = Empty /\ shift = Empty

MInv ==
  /\ wire \in Seq(Nat) /\ size \in Nat /\ TC \in BOOLEAN
  /\ op \in {"Idle", "Transmit", "Read"}
  /\ Underway /\ MessageIsOut

LEMMA MInvInit == Init => MInv
BY DEF Init, MInv, Underway, MessageIsOut

LEMMA MInvTransmit ==
  ASSUME MInv, NEW n \in MessageSizes, NEW wait, Transmit(n, wait)
  PROVE  MInv'
<1>1. n \in Nat /\ n >= 1
  BY PollingAssumption
<1>2. /\ op = "Idle" /\ tdr = Empty /\ shift = Empty /\ (srRead \/ n > 1) /\ TC \in BOOLEAN
  BY DEF MInv, MessageIsOut, Transmit
<1>3. /\ op' = "Transmit" /\ size' = n /\ index' = 1 /\ wire' = <<>>
      /\ tdr' = 1 /\ shift' = Empty /\ TC' = (TC /\ ~ srRead)
  BY <1>2 DEF Transmit, WriteDR
<1>4. TC' \in BOOLEAN /\ (TC' => n > 1)
  BY <1>2, <1>3
<1>5. QED
  BY <1>1, <1>3, <1>4 DEF MInv, Underway, MessageIsOut, Held, Empty

LEMMA MInvTransmitLoop ==
  ASSUME MInv, TransmitLoop
  PROVE  MInv'
<1>1. UNCHANGED <<op, size, wire, shift>> /\ op = "Transmit" /\ index < size
  BY DEF TransmitLoop, locals
<1>2. CASE TXE
  <2>1. tdr = Empty /\ tdr' = index + 1 /\ index' = index + 1 /\ TC' = FALSE
    BY <1>2 DEF TransmitLoop, WriteDR, TXE, MInv
  <2>2. /\ index \in 1 .. size /\ size \in Nat /\ Len(wire) \in Nat
        /\ shift \in {Empty, Len(wire) + 1}
        /\ index = Len(wire) + Held(shift) + Held(tdr)
        /\ \A i \in 1 .. Len(wire) : wire[i] = i
    BY <1>1, LenProperties DEF MInv, Underway
  <2>3. index' = Len(wire') + Held(shift') + Held(tdr')
    <3>1. index \in Nat /\ index + 1 # Empty
      BY <2>2 DEF Empty
    <3>2. Held(tdr) = 0 /\ Held(tdr') = 1 /\ Held(shift') = Held(shift) /\ Held(shift) \in Nat
      BY <1>1, <2>1, <3>1 DEF Held
    <3>3. wire' = wire
      BY <1>1
    <3>4. QED
      BY <2>1, <2>2, <3>1, <3>2, <3>3
  <2>4. index' \in 1 .. size'
    BY <1>1, <2>1, <2>2
  <2>5. Underway'
    BY <1>1, <2>1, <2>2, <2>3, <2>4 DEF Underway
  <2>6. QED
    BY <1>1, <2>1, <2>5 DEF MInv, MessageIsOut
<1>3. CASE ~ TXE
  <2>1. UNCHANGED <<tdr, TC, index>>
    BY <1>3 DEF TransmitLoop
  <2>2. QED
    BY <1>1, <2>1 DEF MInv, Underway, MessageIsOut, Held
<1>4. QED
  BY <1>2, <1>3

LEMMA MInvDrain ==
  ASSUME MInv, Drain
  PROVE  MInv'
<1>1. UNCHANGED <<size, index, tdr, shift, TC, wire>> /\ op = "Transmit" /\ index = size
  BY DEF Drain, locals, transmitter
<1>2. CASE TC
  <2>1. op' = "Idle"
    BY <1>2 DEF Drain
  <2>2. tdr = Empty /\ shift = Empty /\ Len(wire) = size
    <3>1. index \in 1 .. size /\ index = Len(wire) + Held(shift) + Held(tdr)
          /\ size \in Nat /\ Len(wire) \in Nat
      BY <1>1, LenProperties DEF MInv, Underway
    <3>2. index > 1 \/ size = 1
      BY <1>1, <3>1
    <3>3. tdr = Empty /\ shift = Empty
      BY <1>1, <1>2, <3>2 DEF MInv, Underway
    <3>4. QED
      BY <1>1, <3>1, <3>3 DEF Held
  <2>3. QED
    BY <1>1, <2>1, <2>2 DEF MInv, Underway, MessageIsOut
<1>3. CASE ~ TC
  <2>1. op' = op
    BY <1>3 DEF Drain
  <2>2. QED
    BY <1>1, <2>1 DEF MInv, Underway, MessageIsOut, Held
<1>4. QED
  BY <1>2, <1>3

LEMMA MInvHardware ==
  ASSUME MInv, Load \/ ShiftOut
  PROVE  MInv'
<1>1. UNCHANGED <<op, size, index>>
  BY DEF Load, ShiftOut, locals
<1>2. op = "Transmit"
  BY DEF Load, ShiftOut, MInv, MessageIsOut
<1>3. CASE Load
  BY <1>1, <1>2, <1>3 DEF Load, MInv, Underway, MessageIsOut, Held, Empty
<1>4. CASE ShiftOut
  <2>1. /\ shift = Len(wire) + 1 /\ wire' = Append(wire, shift) /\ shift' = Empty
        /\ tdr' = tdr /\ TC' = (TC \/ TXE)
    BY <1>2, <1>4 DEF ShiftOut, MInv, Underway
  <2>2. /\ wire' \in Seq(Nat) /\ Len(wire') = Len(wire) + 1
        /\ \A i \in 1 .. Len(wire') : wire'[i] = i
    BY <1>2, <2>1 DEF MInv, Underway
  <2>3. index = Len(wire') + Held(shift') + Held(tdr')
    <3>1. Len(wire) \in Nat /\ Len(wire') = Len(wire) + 1
      BY <2>2, LenProperties DEF MInv
    <3>2. Held(shift) = 1 /\ Held(shift') = 0 /\ Held(tdr') = Held(tdr) /\ Held(tdr) \in Nat
      BY <2>1, <3>1 DEF Held, Empty
    <3>3. index = Len(wire) + Held(shift) + Held(tdr)
      BY <1>2 DEF MInv, Underway
    <3>4. QED
      BY <3>1, <3>2, <3>3
  <2>4. TC' /\ (index > 1 \/ size = 1) => tdr' = Empty /\ shift' = Empty
    BY <1>2, <1>4, <2>1 DEF MInv, Underway, ShiftOut, TXE
  <2>5. QED
    BY <1>1, <1>2, <2>1, <2>2, <2>3, <2>4 DEF MInv, Underway, MessageIsOut, Held
<1>5. QED
  BY <1>3, <1>4

LEMMA MInvNext ==
  ASSUME MInv, [Next]_vars
  PROVE  MInv'
<1>1. CASE \E n \in ReadSizes, wait \in WaitTimes : Read(n, wait)
  <2>1. UNCHANGED <<tdr, shift, TC>> /\ op = "Idle" /\ op' = "Read" /\ wire' = <<>> /\ size' \in Nat
    BY <1>1, PollingAssumption DEF Read
  <2>2. QED
    BY <2>1 DEF MInv, Underway, MessageIsOut
<1>2. CASE ReadLoop \/ ReadDone \/ Arrive \/ Overrun \/ Systick_Interrupt \/ UNCHANGED vars
  <2>1. UNCHANGED <<size, tdr, shift, TC, wire>> /\ (op' = op \/ (op = "Read" /\ op' = "Idle"))
    BY <1>2 DEF ReadLoop, ReadDone, Arrive, Overrun, Systick_Interrupt, vars, locals, transmitter
  <2>2. op = "Transmit" => index' = index
    BY <1>2 DEF ReadLoop, ReadDone, Arrive, Overrun, Systick_Interrupt, vars
  <2>3. QED
    BY <2>1, <2>2 DEF MInv, Underway, MessageIsOut, Held
<1>3. QED
  BY <1>1, <1>2, MInvTransmit, MInvTransmitLoop, MInvDrain, MInvHardware DEF Next, Step

(* When the driver is idle the whole message has left, in order. *)
THEOREM MessageHasLeft == Spec => []MessageIsOut
<1>1. MInv => MessageIsOut
  BY DEF MInv
<1>2. MInv /\ [Next]_vars => MInv'
  BY MInvNext
<1>3. QED
  BY <1>1, <1>2, MInvInit, PTL DEF Spec

-----------------------------------------------------------------------------
(* Types.  That the bytes of a message are no more than its size follows from
   what MInv knows of a message on its way. *)
PInv == TypeOK /\ MInv

LEMMA TypeTransmit ==
  ASSUME PInv, NEW n \in MessageSizes, NEW wait \in WaitTimes, Transmit(n, wait)
  PROVE  TypeOK'
<1>1. n \in 1 .. 255
  BY PollingAssumption
<1>2. shift = Empty /\ wire' = <<>> /\ TC \in BOOLEAN /\ srRead \in BOOLEAN
  BY DEF PInv, MInv, MessageIsOut, Transmit, TypeOK
<1>3. TC' \in BOOLEAN /\ srRead' \in BOOLEAN
  BY <1>2, Zenon DEF Transmit, WriteDR
<1>4. QED
  BY <1>1, <1>2, <1>3 DEF PInv, TypeOK, Transmit, WriteDR, receiver

LEMMA TypeTransmitLoop ==
  ASSUME PInv, TransmitLoop
  PROVE  TypeOK'
<1>1. /\ UNCHANGED <<globalTime, op, size, waitTime, startTime, shift, wire, rdr, coming, lost, buffer>>
      /\ index < size /\ retVal' = Checked
  BY DEF TransmitLoop, locals, receiver
<1>2. retVal' \in {"ST_OK", "TIMEOUT"}
  BY <1>1 DEF Checked, PInv, TypeOK
<1>3. CASE TXE
  <2>1. tdr' = index + 1 /\ index' = index + 1 /\ TC' = (TC /\ ~ TRUE) /\ srRead' = FALSE
    BY <1>3 DEF TransmitLoop, WriteDR
  <2>2. TC' \in BOOLEAN /\ srRead' \in BOOLEAN
    BY <2>1, Zenon
  <2>3. QED
    BY <1>1, <1>2, <2>1, <2>2 DEF PInv, TypeOK
<1>4. CASE ~ TXE
  <2>1. srRead' = TRUE /\ UNCHANGED <<tdr, TC, index>>
    BY <1>4 DEF TransmitLoop
  <2>2. QED
    BY <1>1, <1>2, <2>1 DEF PInv, TypeOK
<1>5. QED
  BY <1>3, <1>4

LEMMA TypeShiftOut ==
  ASSUME PInv, ShiftOut
  PROVE  TypeOK'
<1>1. /\ UNCHANGED <<globalTime, op, size, waitTime, startTime, index, retVal, tdr, srRead, rdr,
                     coming, lost, buffer>>
      /\ shift # Empty /\ shift' = Empty /\ wire' = Append(wire, shift) /\ TC' = (TC \/ TXE)
  BY DEF ShiftOut, locals, receiver
<1>2. op = "Transmit" /\ shift \in 1 .. size /\ size \in 0 .. 255 /\ wire \in Seq(1 .. size)
  BY <1>1 DEF PInv, MInv, MessageIsOut, TypeOK
<1>3. Len(wire) + 1 <= size
  BY <1>1, <1>2 DEF PInv, MInv, Underway
<1>4. wire' \in Seq(1 .. size) /\ Len(wire') = Len(wire) + 1
  BY <1>1, <1>2
<1>5. TC' \in BOOLEAN
  BY <1>1, Zenon DEF PInv, TypeOK
<1>6. QED
  BY <1>1, <1>3, <1>4, <1>5 DEF PInv, TypeOK

LEMMA TypeNext ==
  ASSUME PInv, [Next]_vars
  PROVE  TypeOK'
<1>1. CASE \E n \in MessageSizes, wait \in WaitTimes : Transmit(n, wait)
  BY <1>1, TypeTransmit
<1>2. CASE \E n \in ReadSizes, wait \in WaitTimes : Read(n, wait)
  <2>1. PICK n \in ReadSizes, wait \in WaitTimes : Read(n, wait)
    BY <1>2
  <2>2. n \in 0 .. 255 /\ tdr = Empty /\ shift = Empty
    BY <2>1, PollingAssumption DEF Read, PInv, MInv, MessageIsOut
  <2>3. rdr' \in {Empty} \cup Nat /\ coming' \in Nat /\ lost' \in 0 .. MaxLost
    BY <2>1, PollingAssumption DEF Read
  <2>4. QED
    BY <2>1, <2>2, <2>3 DEF Read, PInv, TypeOK
<1>3. CASE TransmitLoop
  BY <1>3, TypeTransmitLoop
<1>4. CASE Drain
  <2>1. retVal' \in {"ST_OK", "TIMEOUT"} /\ op' \in {"Idle", "Transmit", "Read"}
    BY <1>4 DEF Drain, Checked, PInv, TypeOK
  <2>2. QED
    BY <1>4, <2>1 DEF Drain, PInv, TypeOK, locals, transmitter, receiver
<1>5. CASE ReadLoop
  <2>1. retVal' \in {"ST_OK", "TIMEOUT"}
    BY <1>5 DEF ReadLoop, Checked, PInv, TypeOK
  <2>2. buffer' \in Seq(Nat) /\ index' \in 0 .. size /\ rdr' \in {Empty} \cup Nat
    <3>1. /\ buffer \in Seq(Nat) /\ rdr \in {Empty} \cup Nat /\ size \in 0 .. 255
          /\ index \in 0 .. size /\ index < size
      BY <1>5 DEF ReadLoop, PInv, TypeOK
    <3>2. CASE RXNE
      <4>1. buffer' = Append(buffer, rdr) /\ index' = index + 1 /\ rdr' = Empty /\ rdr \in Nat
        BY <1>5, <3>1, <3>2 DEF ReadLoop, RXNE
      <4>2. QED
        BY <3>1, <4>1
    <3>3. CASE ~ RXNE
      BY <1>5, <3>1, <3>3 DEF ReadLoop
    <3>4. QED
      BY <3>2, <3>3
  <2>3. QED
    BY <1>5, <2>1, <2>2 DEF ReadLoop, PInv, TypeOK, locals, transmitter
<1>6. CASE ReadDone
  BY <1>6 DEF ReadDone, PInv, TypeOK, locals, transmitter, receiver
<1>7. CASE Load
  BY <1>7 DEF Load, PInv, TypeOK, locals, receiver
<1>8. CASE ShiftOut
  BY <1>8, TypeShiftOut
<1>9. CASE Arrive
  BY <1>9 DEF Arrive, PInv, TypeOK, locals, transmitter
<1>10. CASE Overrun
  BY <1>10, PollingAssumption DEF Overrun, PInv, TypeOK, locals, transmitter
<1>11. CASE Systick_Interrupt
  <2>1. globalTime' \in Time
    BY <1>11, MaxDelayAssumption DEF Systick_Interrupt, PInv, TypeOK, Time, Wrap
  <2>2. QED
    BY <1>11, <2>1 DEF Systick_Interrupt, PInv, TypeOK, locals, transmitter, receiver
<1>12. CASE UNCHANGED vars
  BY <1>12 DEF vars, PInv, TypeOK, locals, transmitter, receiver
<1>13. QED
  BY <1>1, <1>2, <1>3, <1>4, <1>5, <1>6, <1>7, <1>8, <1>9, <1>10, <1>11, <1>12 DEF Next, Step

LEMMA PInvInductive == Spec => []PInv
<1>1. Init => PInv
  <2>1. ASSUME Init PROVE TypeOK
    <3>1. globalTime \in Time /\ 0 \in Time /\ MaxLost \in Nat
      BY <2>1, PollingAssumption, MaxDelayAssumption DEF Init, Time
    <3>2. wire \in Seq(1 .. size) /\ Len(wire) = 0 /\ buffer \in Seq(Nat)
      BY <2>1 DEF Init
    <3>3. TC \in BOOLEAN /\ srRead \in BOOLEAN
      BY <2>1, Zenon DEF Init
    <3>4. /\ op = "Idle" /\ size = 0 /\ waitTime = 0 /\ startTime = 0 /\ index = 0
          /\ retVal = "ST_OK" /\ tdr = Empty /\ shift = Empty /\ rdr = Empty
          /\ coming = 1 /\ lost = 0
      BY <2>1 DEF Init
    <3>5. QED
      BY <3>1, <3>2, <3>3, <3>4 DEF TypeOK
  <2>2. QED
    BY <2>1, MInvInit DEF PInv
<1>2. PInv /\ [Next]_vars => PInv'
  BY TypeNext, MInvNext DEF PInv
<1>3. QED
  BY <1>1, <1>2, PTL DEF Spec

(* Every variable of the driver and of its hardware keeps its type. *)
THEOREM PollingTypeCorrect == Spec => []TypeOK
<1>1. PInv => TypeOK
  BY DEF PInv
<1>2. QED
  BY <1>1, PInvInductive, PTL

-----------------------------------------------------------------------------
(* A byte in DR is newer than all of the buffer, and older than the host's
   next; without an overrun each is followed by the next. *)
Newest == buffer[Len(buffer)]

Fresh ==
  op = "Read" =>
    /\ buffer # <<>> => Newest < coming
    /\ rdr # Empty => rdr < coming
    /\ rdr # Empty /\ buffer # <<>> => Newest < rdr
    /\ lost = 0 /\ rdr # Empty => rdr = coming - 1
    /\ lost = 0 /\ rdr = Empty /\ buffer # <<>> => Newest = coming - 1
    /\ lost = 0 /\ rdr # Empty /\ buffer # <<>> => Newest = rdr - 1

RInv == Fresh /\ BytesInOrder

LEMMA RInvReadLoop ==
  ASSUME TypeOK, RInv, ReadLoop
  PROVE  RInv'
<1>1. UNCHANGED <<op, coming, lost>> /\ op = "Read" /\ coming \in Nat /\ lost \in Nat
  BY PollingAssumption DEF ReadLoop, TypeOK
<1>2. CASE RXNE
  <2>1. buffer' = Append(buffer, rdr) /\ rdr' = Empty /\ rdr # Empty /\ rdr \in Nat
        /\ buffer \in Seq(Nat)
    BY <1>2 DEF ReadLoop, RXNE, TypeOK
  <2>2. /\ Len(buffer) \in Nat /\ Len(buffer') = Len(buffer) + 1 /\ buffer' # <<>>
        /\ buffer'[Len(buffer')] = rdr
        /\ \A i \in 1 .. Len(buffer) : buffer'[i] = buffer[i] /\ buffer[i] \in Nat
    BY <2>1
  <2>3. buffer # <<>> => Len(buffer) >= 1
    BY <2>1
  <2>4. Fresh'
    BY <1>1, <2>1, <2>2 DEF RInv, Fresh, Newest
  <2>5. ASSUME NEW i \in 1 .. Len(buffer') - 1 PROVE buffer'[i] < buffer'[i + 1]
    <3>1. CASE i = Len(buffer)
      <4>1. buffer # <<>>
        BY <2>1, <2>2, <3>1
      <4>2. QED
        BY <1>1, <2>1, <2>2, <3>1, <4>1 DEF RInv, Fresh, Newest
    <3>2. CASE i < Len(buffer)
      BY <2>2, <3>2 DEF RInv, BytesInOrder
    <3>3. QED
      BY <2>2, <3>1, <3>2
  <2>6. lost' = 0 /\ buffer' # <<>> => buffer'[Len(buffer')] - buffer'[1] = Len(buffer') - 1
    <3>1. CASE buffer = <<>>
      BY <2>1, <2>2, <3>1
    <3>2. CASE buffer # <<>>
      BY <1>1, <2>1, <2>2, <2>3, <3>2 DEF RInv, Fresh, Newest, BytesInOrder
    <3>3. QED
      BY <3>1, <3>2
  <2>7. QED
    BY <2>4, <2>5, <2>6 DEF RInv, BytesInOrder
<1>3. CASE ~ RXNE
  <2>1. UNCHANGED <<buffer, rdr>>
    BY <1>3 DEF ReadLoop
  <2>2. QED
    BY <1>1, <2>1 DEF RInv, Fresh, Newest, BytesInOrder
<1>4. QED
  BY <1>2, <1>3

LEMMA RInvNext ==
  ASSUME TypeOK, RInv, [Next]_vars
  PROVE  RInv'
<1>1. CASE \E n \in ReadSizes, wait \in WaitTimes : Read(n, wait)
  <2>1. op' = "Read" /\ buffer' = <<>> /\ rdr' \in {0, Empty} /\ coming' = 1
    BY <1>1 DEF Read
  <2>2. QED
    BY <2>1 DEF RInv, Fresh, BytesInOrder, Empty
<1>2. CASE ReadLoop
  BY <1>2, RInvReadLoop
<1>3. CASE Arrive
  <2>1. UNCHANGED <<op, lost, buffer>> /\ rdr = Empty /\ rdr' = coming /\ coming \in Nat
        /\ (op = "Read" => coming' = coming + 1)
    BY <1>3 DEF Arrive, RXNE, TypeOK
  <2>2. buffer \in Seq(Nat) /\ (buffer # <<>> => Newest \in Nat)
    BY DEF TypeOK, Newest
  <2>3. Newest' = Newest
    BY <2>1 DEF Newest
  <2>4. Fresh'
    <3>1. SUFFICES ASSUME op' = "Read"
                   PROVE  /\ buffer # <<>> => Newest < coming' /\ Newest < rdr'
                          /\ rdr' < coming' /\ rdr' # Empty
                          /\ lost = 0 => rdr' = coming' - 1
                          /\ lost = 0 /\ buffer # <<>> => Newest = rdr' - 1
      BY <2>1, <2>3 DEF Fresh
    <3>2. coming' = coming + 1 /\ rdr' = coming /\ coming # Empty
      BY <2>1, <3>1 DEF Empty
    <3>3. /\ buffer # <<>> => Newest < coming
          /\ lost = 0 /\ buffer # <<>> => Newest = coming - 1
      BY <2>1, <3>1 DEF RInv, Fresh
    <3>4. QED
      BY <2>1, <2>2, <3>2, <3>3
  <2>5. QED
    BY <2>1, <2>4 DEF RInv, BytesInOrder
<1>4. CASE Overrun
  <2>1. UNCHANGED <<op, rdr, buffer>> /\ rdr # Empty /\ coming' = coming + 1 /\ lost' = lost + 1
        /\ coming \in Nat /\ lost \in Nat /\ rdr \in Nat
    BY <1>4, PollingAssumption DEF Overrun, RXNE, TypeOK
  <2>2. buffer \in Seq(Nat) /\ (buffer # <<>> => Newest \in Nat)
    BY DEF TypeOK, Newest
  <2>3. QED
    BY <2>1, <2>2 DEF RInv, Fresh, Newest, BytesInOrder
<1>5. CASE \/ \E n \in MessageSizes, wait \in WaitTimes : Transmit(n, wait)
           \/ TransmitLoop \/ Drain \/ ReadDone
  <2>1. op' # "Read" /\ UNCHANGED <<lost, buffer>>
    BY <1>5 DEF Transmit, TransmitLoop, Drain, ReadDone, receiver
  <2>2. QED
    BY <2>1 DEF RInv, Fresh, BytesInOrder
<1>6. CASE Load \/ ShiftOut \/ Systick_Interrupt \/ UNCHANGED vars
  BY <1>6 DEF Load, ShiftOut, Systick_Interrupt, vars, receiver, RInv, Fresh, Newest, BytesInOrder
<1>7. QED
  BY <1>1, <1>2, <1>3, <1>4, <1>5, <1>6 DEF Next, Step

(* Read takes the host's bytes in order and none twice, and misses none
   unless the receiver has lost some. *)
THEOREM ReadIsInOrder == Spec => []BytesInOrder
<1>1. Init => RInv
  BY DEF Init, RInv, Fresh, BytesInOrder
<1>2. TypeOK /\ RInv /\ [Next]_vars => RInv'
  BY RInvNext
<1>3. RInv => BytesInOrder
  BY DEF RInv
<1>4. QED
  BY <1>1, <1>2, <1>3, PollingTypeCorrect, PTL DEF Spec

-----------------------------------------------------------------------------
(* The hops that the bytes of a call have still to make: from the loop to    *)
(* DR, to the shift register and to the line; from the line to DR and to the *)
(* buffer.                                                                   *)
Left == CASE op = "Transmit" -> 3 * (size - index) + 2 * Held(tdr) + Held(shift)
          [] op = "Read"     -> 2 * (size - index) + 1 - Held(rdr)
          [] op = "Idle"     -> 0

(* TC is clear only while the transmitter has a byte. *)
TCIsRight == ~ TC => tdr # Empty \/ shift # Empty

(* What the loop of the call waits for is under way. *)
Awaits == IF op = "Transmit" THEN tdr # Empty \/ shift # Empty
                             ELSE ~ RXNE /\ index < size

(* A step during a call ends it or moves one of its bytes on.  Any other is
   the clock's or the receiver's, or a turn of the loop that had to wait:
   the loops turn round in vain only while the transmitter has a byte to
   move or the host one to send. *)
CallRunsDown ==
  op # "Idle" =>
    \/ op' = "Idle"
    \/ op' = op /\ Left' < Left
    \/ op' = op /\ Left' = Left /\ ((Step /\ Awaits) \/ Arrive \/ Overrun \/ Systick_Interrupt)

LEMMA HeldIs == \A byte : Held(byte) \in {0, 1} /\ (Held(byte) = 0 <=> byte = Empty)
BY DEF Held

LEMMA LeftWhen ==
  ASSUME TypeOK
  PROVE  /\ op = "Transmit" => Left = 3 * (size - index) + 2 * Held(tdr) + Held(shift)
         /\ op = "Read" => Left = 2 * (size - index) + 1 - Held(rdr)
         /\ op = "Idle" => Left = 0
         /\ op \in {"Idle", "Transmit", "Read"}
         /\ size \in 0 .. 255 /\ index \in 0 .. size
BY Zenon DEF Left, TypeOK

LEMMA TCIsRightStep == TypeOK /\ TCIsRight /\ [Next]_vars => TCIsRight'
<1> SUFFICES ASSUME TypeOK, TCIsRight, [Next]_vars PROVE TCIsRight'
  OBVIOUS
<1>1. index \in Nat
  BY DEF TypeOK
<1>2. CASE \E n \in MessageSizes, wait \in WaitTimes : Transmit(n, wait)
  BY <1>2 DEF Transmit, WriteDR, TCIsRight, Empty
<1>3. CASE TransmitLoop
  BY <1>1, <1>3 DEF TransmitLoop, WriteDR, TXE, TCIsRight, Empty
<1>4. CASE Load
  BY <1>4 DEF Load, TCIsRight
<1>5. CASE ShiftOut
  BY <1>5 DEF ShiftOut, TXE, TCIsRight
<1>6. CASE UNCHANGED <<tdr, shift, TC>>
  BY <1>6 DEF TCIsRight
<1>7. CASE \/ (\E n \in ReadSizes, wait \in WaitTimes : Read(n, wait)) \/ Drain
           \/ ReadLoop \/ ReadDone \/ Arrive \/ Overrun \/ Systick_Interrupt \/ UNCHANGED vars
  BY <1>6, <1>7 DEF Read, Drain, ReadLoop, ReadDone, Arrive, Overrun, Systick_Interrupt, vars,
                    transmitter
<1>8. QED
  BY <1>2, <1>3, <1>4, <1>5, <1>7 DEF Next, Step

LEMMA RunsDownStep == PInv /\ TCIsRight /\ TypeOK' /\ [Next]_vars => CallRunsDown \/ UNCHANGED vars
<1> SUFFICES ASSUME PInv, TCIsRight, TypeOK', Next, op # "Idle" PROVE CallRunsDown
  BY DEF CallRunsDown
<1>1. /\ TypeOK /\ size \in Nat /\ index \in 0 .. size
      /\ op = "Transmit" => Left = 3 * (size - index) + 2 * Held(tdr) + Held(shift)
      /\ op = "Read" => Left = 2 * (size - index) + 1 - Held(rdr)
      /\ op = "Read" => tdr = Empty /\ shift = Empty
  BY LeftWhen DEF PInv, MInv, MessageIsOut
<1>2. /\ op' = "Transmit" => Left' = 3 * (size' - index') + 2 * Held(tdr') + Held(shift')
      /\ op' = "Read" => Left' = 2 * (size' - index') + 1 - Held(rdr')
  BY Zenon DEF Left, Held
<1>3. /\ \A n, wait : ~ Transmit(n, wait)
      /\ \A n, wait : ~ Read(n, wait)
  BY DEF Transmit, Read
<1>4. CASE TransmitLoop
  <2>1. op = "Transmit" /\ op' = op /\ size' = size /\ shift' = shift
    BY <1>4 DEF TransmitLoop, locals
  <2>2. CASE TXE
    <3>1. tdr = Empty /\ tdr' = index + 1 /\ index' = index + 1
      BY <1>4, <2>2 DEF TransmitLoop, WriteDR, TXE
    <3>2. Left' < Left
      BY <1>1, <1>2, <2>1, <3>1, HeldIs
    <3>3. QED
      BY <2>1, <3>2 DEF CallRunsDown
  <2>3. CASE ~ TXE
    <3>1. tdr' = tdr /\ index' = index /\ tdr # Empty
      BY <1>4, <2>3 DEF TransmitLoop, TXE
    <3>2. Left' = Left
      BY <1>1, <1>2, <2>1, <3>1
    <3>3. QED
      BY <1>4, <2>1, <3>1, <3>2 DEF CallRunsDown, Awaits, Step
  <2>4. QED
    BY <2>2, <2>3
<1>5. CASE Drain
  <2>1. op = "Transmit" /\ UNCHANGED <<size, index, tdr, shift>>
    BY <1>5 DEF Drain, locals, transmitter
  <2>2. CASE TC
    BY <1>5, <2>2 DEF Drain, CallRunsDown
  <2>3. CASE ~ TC
    <3>1. op' = op /\ (tdr # Empty \/ shift # Empty)
      BY <1>5, <2>3 DEF Drain, TCIsRight
    <3>2. Left' = Left
      BY <1>1, <1>2, <2>1, <3>1
    <3>3. QED
      BY <1>5, <2>1, <3>1, <3>2 DEF CallRunsDown, Awaits, Step
  <2>4. QED
    BY <2>2, <2>3
<1>6. CASE ReadLoop
  <2>1. op = "Read" /\ op' = op /\ size' = size /\ index < size
    BY <1>6 DEF ReadLoop, locals
  <2>2. CASE RXNE
    <3>1. rdr # Empty /\ rdr' = Empty /\ index' = index + 1
      BY <1>6, <2>2 DEF ReadLoop, RXNE
    <3>2. Left' < Left
      BY <1>1, <1>2, <2>1, <3>1, HeldIs
    <3>3. QED
      BY <2>1, <3>2 DEF CallRunsDown
  <2>3. CASE ~ RXNE
    <3>1. rdr' = rdr /\ index' = index
      BY <1>6, <2>3 DEF ReadLoop
    <3>2. Left' = Left
      BY <1>1, <1>2, <2>1, <3>1
    <3>3. QED
      BY <1>6, <2>1, <2>3, <3>2 DEF CallRunsDown, Awaits, Step
  <2>4. QED
    BY <2>2, <2>3
<1>7. CASE ReadDone
  BY <1>7 DEF ReadDone, CallRunsDown
<1>8. CASE Load \/ ShiftOut
  <2>1. op' = op /\ UNCHANGED <<size, index>> /\ op = "Transmit"
    BY <1>1, <1>8 DEF Load, ShiftOut, locals, PInv, MInv
  <2>2. \/ tdr # Empty /\ shift = Empty /\ shift' = tdr /\ tdr' = Empty
        \/ shift # Empty /\ shift' = Empty /\ tdr' = tdr
    BY <1>8 DEF Load, ShiftOut
  <2>3. Left' < Left
    BY <1>1, <1>2, <2>1, <2>2, HeldIs
  <2>4. QED
    BY <2>1, <2>3 DEF CallRunsDown
<1>9. CASE Arrive
  <2>1. op' = op /\ UNCHANGED <<size, index, tdr, shift>> /\ rdr = Empty
    BY <1>9 DEF Arrive, RXNE, locals, transmitter
  <2>2. CASE op = "Transmit"
    <3>1. Left' = Left
      BY <1>1, <1>2, <2>1, <2>2
    <3>2. QED
      BY <1>9, <2>1, <3>1 DEF CallRunsDown
  <2>3. CASE op = "Read"
    <3>1. rdr' # Empty
      BY <1>9 DEF Arrive, PInv, TypeOK, Empty
    <3>2. Left' < Left
      BY <1>1, <1>2, <2>1, <2>3, <3>1, HeldIs
    <3>3. QED
      BY <2>1, <3>2 DEF CallRunsDown
  <2>4. QED
    BY <1>1, <2>2, <2>3, LeftWhen
<1>10. CASE Overrun \/ Systick_Interrupt
  <2>1. UNCHANGED <<op, size, index, tdr, shift, rdr>>
    BY <1>10 DEF Overrun, Systick_Interrupt, locals, transmitter, receiver
  <2>2. Left' = Left
    BY <2>1 DEF Left, Held
  <2>3. QED
    BY <1>10, <2>1, <2>2 DEF CallRunsDown
<1>11. QED
  BY <1>3, <1>4, <1>5, <1>6, <1>7, <1>8, <1>9, <1>10 DEF Next, Step

(* The bytes of a call are at most 255, each with at most three hops to make,
   and Transmit waits for TC only while a byte is on its way. *)
THEOREM NothingAwaitedInVain == Spec => [](Left \in 0 .. 768 /\ TCIsRight)
<1>1. Init => TCIsRight
  BY DEF Init, TCIsRight
<1>2. PInv /\ TCIsRight => Left \in 0 .. 768 /\ TCIsRight
  <2> SUFFICES ASSUME PInv PROVE Left \in 0 .. 768
    OBVIOUS
  <2>1. TypeOK
    BY DEF PInv
  <2>2. size \in 0 .. 255 /\ index \in 0 .. size
    BY <2>1, LeftWhen, Zenon
  <2>3. /\ Held(tdr) \in {0, 1} /\ Held(shift) \in {0, 1} /\ Held(rdr) \in {0, 1}
    BY HeldIs
  <2>4. QED
    BY <2>1, <2>2, <2>3, LeftWhen
<1>3. PInv /\ TCIsRight /\ [Next]_vars => TCIsRight'
  BY TCIsRightStep DEF PInv
<1>4. QED
  BY <1>1, <1>2, <1>3, PInvInductive, PTL DEF Spec

(* Every byte makes its hops and none goes back, whatever the clock and the
   line do meanwhile: the part of CallsReturn that needs no fairness. *)
THEOREM CallsRunDown == Spec => [][CallRunsDown]_vars
<1>1. PInv /\ TCIsRight /\ PInv' /\ [Next]_vars => [CallRunsDown]_vars
  BY RunsDownStep DEF PInv
<1>2. Spec => [](PInv /\ TCIsRight)
  <2>1. Init => TCIsRight
    BY DEF Init, TCIsRight
  <2>2. PInv /\ TCIsRight /\ [Next]_vars => TCIsRight'
    BY TCIsRightStep DEF PInv
  <2>3. QED
    BY <2>1, <2>2, PInvInductive, PTL DEF Spec
<1>3. QED
  BY <1>1, <1>2, PTL DEF Spec
=============================================================================
