--------------------------- MODULE UsartIT_proofs ---------------------------
(***************************************************************************)
(* The interrupt-driven driver, for buffers, messages and reads of any     *)
(* size.                                                                   *)
(***************************************************************************)
EXTENDS UsartIT, SequenceTheorems, TLAPS

-----------------------------------------------------------------------------
(* Once the interrupt asks again for a source its handler does not know, no
   step of the caller, the line or the handler ends it: the call that was
   interrupted never returns. *)
THEOREM CaughtIsForGood == Spec => CaughtForGood
<1>1. ASSUME Caught, [Next]_vars PROVE Caught' /\ pc' = pc
  <2>1. ~ \E n \in MessageSizes : TransmitIT(n)
    BY <1>1, Zenon DEF Caught, TransmitIT
  <2>2. ~ \E n \in ReadSizes : ReadIT(n)
    BY <1>1, Zenon DEF Caught, ReadIT
  <2>3. ~ Caller
    BY <1>1, Zenon DEF Caught, Caller, FirstByte, NVIC_EnableInterrupt, LoadCR1, StoreCR1
  <2>4. CASE USART2_Interrupt
    <3>1. UnknownSource
      BY <1>1, <2>4, Zenon DEF Caught, USART2_Interrupt
    <3>2. pc' = pc /\ UNCHANGED <<CR1, enabled, sender, receiver>>
      BY <2>4, <3>1, Zenon DEF USART2_Interrupt, UnknownSource
    <3>3. TC' /\ "TCIE" \in CR1' /\ pending' = Line'
      BY <1>1, <2>4, <3>2, Zenon DEF Caught, USART2_Interrupt, sender
    <3>4. pending'
      BY <3>3, Zenon DEF Line
    <3>5. QED
      BY <1>1, <3>2, <3>3, <3>4, Zenon DEF Caught, Preempted, RXNE, receiver
  <2>5. CASE Load \/ ShiftOut
    <3>1. pc' = pc /\ pending' = (pending \/ Line') /\ UNCHANGED <<CR1, enabled, receiver>>
      BY <2>5, Zenon DEF Load, ShiftOut, Latch
    <3>2. TC'
      BY <1>1, <2>5, Zenon DEF Caught, Load, ShiftOut
    <3>3. QED
      BY <1>1, <3>1, <3>2, Zenon DEF Caught, Preempted, RXNE, receiver
  <2>6. CASE Arrive
    <3>1. pc' = pc /\ pending' = (pending \/ Line') /\ UNCHANGED <<CR1, enabled, sender>>
      BY <2>6, Zenon DEF Arrive, Latch
    <3>2. "RXNEIE" \notin CR1
      BY <1>1, <2>6, Zenon DEF Arrive, Caught
    <3>3. QED
      BY <1>1, <3>1, <3>2, Zenon DEF Caught, Preempted, sender
  <2>7. CASE Overrun
    BY <1>1, <2>7, Zenon DEF Caught, Preempted, RXNE, Overrun, sender
  <2>8. CASE UNCHANGED vars
    BY <1>1, <2>8, Zenon DEF Caught, Preempted, RXNE, vars, sender, receiver
  <2>9. QED
    BY <1>1, <2>1, <2>2, <2>3, <2>4, <2>5, <2>6, <2>7, <2>8, Zenon DEF Next
<1>2. QED
  BY <1>1, PTL DEF Spec, CaughtForGood

-----------------------------------------------------------------------------
Bits == {"TXEIE", "TCIE", "RXNEIE", "RE"}
Stores == {"StoreTX", "StoreRX", "StoreRE"}
Bytes == 0 .. USART_TX_BUFFER_SIZE

Places == pc \in {"Idle", "FirstByte", "EnableTX", "LoadTX", "StoreTX",
                 "EnableRX", "LoadRX", "StoreRX", "LoadRE", "StoreRE"}

(* What the caller has read of CR1 has every bit that is still set: between a
   load and its store the interrupt only clears bits. *)
ControlTypes ==
  /\ CR1 \subseteq Bits /\ loaded \subseteq CR1 \cup {"TXEIE", "RXNEIE"}
  /\ pc \in Stores => CR1 \subseteq loaded
  /\ pc \notin Stores => loaded = {}
  /\ currentState \in {"USART_AVAILABLE", "USART_BUSY"}

MessageTypes ==
  /\ idxTX \in 0 .. U8 - 1 /\ txLen \in 0 .. U8 - 1
  /\ txBuffer \in [0 .. USART_TX_BUFFER_SIZE - 1 -> Bytes]

SenderTypes ==
  /\ tdr \in {Empty} \cup Bytes /\ shift \in {Empty} \cup Bytes
  /\ wire \in Seq(Bytes)

ReadTypes ==
  /\ idxRX \in 0 .. U8 - 1 /\ rxLen \in 0 .. U8 - 1
  /\ rxBuffer \in [-1 .. U8 - 1 -> {Unset} \cup Nat]

ReceiverTypes == rdr \in {Empty} \cup Nat /\ coming \in Nat \ {0} /\ lost \in 0 .. MaxLost

CallTypes == last \in {"None", "Transmit", "Read"} /\ size \in Nat

TruthTypes == enabled \in BOOLEAN /\ pending \in BOOLEAN /\ TC \in BOOLEAN /\ alone \in BOOLEAN

LEMMA BoundsAreNumbers ==
  /\ U8 \in Nat /\ U8 > 0 /\ USART_TX_BUFFER_SIZE \in Nat /\ U8 <= USART_TX_BUFFER_SIZE
  /\ MessageSizes \subseteq Nat /\ ReadSizes \subseteq Nat /\ MaxLost \in Nat
  BY ITAssumption

LEMMA Remainder ==
  ASSUME NEW n \in Nat
  PROVE  n % U8 \in 0 .. U8 - 1 /\ (n < U8 => n % U8 = n)
  BY BoundsAreNumbers

(* Which steps can change what. *)
LEMMA WhoChanges ==
  ASSUME [Next]_vars
  PROVE  /\ \/ UNCHANGED <<pc, loaded>> \/ Caller
            \/ (\E n \in MessageSizes : TransmitIT(n)) \/ (\E n \in ReadSizes : ReadIT(n))
         /\ UNCHANGED CR1 \/ StoreCR1 \/ USART2_Interrupt
         /\ UNCHANGED tx \/ (\E n \in MessageSizes : TransmitIT(n)) \/ FirstByte \/ USART2_Interrupt
         /\ UNCHANGED rx \/ (\E n \in ReadSizes : ReadIT(n)) \/ USART2_Interrupt
         /\ \/ UNCHANGED sender
            \/ (\E n \in MessageSizes : TransmitIT(n)) \/ FirstByte \/ USART2_Interrupt \/ Load \/ ShiftOut
         /\ \/ UNCHANGED receiver
            \/ (\E n \in ReadSizes : ReadIT(n)) \/ USART2_Interrupt \/ Arrive \/ Overrun
         /\ \/ UNCHANGED history
            \/ (\E n \in MessageSizes : TransmitIT(n)) \/ (\E n \in ReadSizes : ReadIT(n))
<1>1. CASE \E n \in MessageSizes : TransmitIT(n)
  BY <1>1, Zenon DEF TransmitIT
<1>2. CASE \E n \in ReadSizes : ReadIT(n)
  BY <1>2, Zenon DEF ReadIT
<1>3. CASE FirstByte
  BY <1>3, Zenon DEF FirstByte, Caller
<1>4. CASE NVIC_EnableInterrupt \/ LoadCR1 \/ StoreCR1
  BY <1>4, Zenon DEF NVIC_EnableInterrupt, LoadCR1, StoreCR1, Caller
<1>5. CASE USART2_Interrupt
  BY <1>5, Zenon DEF USART2_Interrupt
<1>6. CASE Load \/ ShiftOut
  BY <1>6, Zenon DEF Load, ShiftOut
<1>7. CASE Arrive \/ Overrun
  BY <1>7, Zenon DEF Arrive, Overrun
<1>8. CASE UNCHANGED vars
  BY <1>8, Zenon DEF vars
<1>9. QED
  BY <1>1, <1>2, <1>3, <1>4, <1>5, <1>6, <1>7, <1>8, Zenon DEF Next, Caller

(* What the interrupt can do: send a byte, take one, end a transfer, or
   nothing. *)
LEMMA Handles ==
  ASSUME USART2_Interrupt
  PROVE  \/ /\ TXE /\ "TXEIE" \in CR1 /\ idxTX < txLen
            /\ WriteDR /\ UNCHANGED <<CR1, enabled, currentState, rx, receiver>>
         \/ /\ TXE /\ "TXEIE" \in CR1 /\ ~ (idxTX < txLen)
            /\ EndTransfer("TXEIE") /\ UNCHANGED <<tx, sender, rx, receiver>>
         \/ /\ ~ (TXE /\ "TXEIE" \in CR1) /\ RXNE /\ "RXNEIE" \in CR1
            /\ ReceivedAByte /\ UNCHANGED <<tx, sender>>
         \/ UNCHANGED <<currentState, tx, rx, CR1, enabled, sender, receiver>>
  BY Zenon DEF USART2_Interrupt, SentAByte, UnknownSource

LEMMA ControlStep ==
  ASSUME Places, ControlTypes, [Next]_vars
  PROVE  Places' /\ ControlTypes'
<1> USE DEF Places, ControlTypes, Stores, Bits
<1>1. CASE \E n \in MessageSizes : TransmitIT(n)
  <2>1. pc = "Idle" /\ pc' = "FirstByte" /\ currentState' = "USART_BUSY" /\ UNCHANGED <<loaded, CR1>>
    BY <1>1, Zenon DEF TransmitIT, Begin
  <2>2. QED
    BY <2>1
<1>2. CASE \E n \in ReadSizes : ReadIT(n)
  <2>1. pc = "Idle" /\ pc' = "EnableRX" /\ currentState' = "USART_BUSY" /\ UNCHANGED <<loaded, CR1>>
    BY <1>2, Zenon DEF ReadIT, Begin
  <2>2. QED
    BY <2>1
<1>3. CASE FirstByte
  <2>1. pc = "FirstByte" /\ pc' = "EnableTX" /\ UNCHANGED <<loaded, CR1, currentState>>
    BY <1>3, Zenon DEF FirstByte
  <2>2. QED
    BY <2>1
<1>4. CASE NVIC_EnableInterrupt
  <2>1. pc \in {"EnableTX", "EnableRX"} /\ pc' \in {"LoadTX", "LoadRX"} /\ UNCHANGED <<loaded, CR1, currentState>>
    BY <1>4, Zenon DEF NVIC_EnableInterrupt
  <2>2. QED
    BY <2>1
<1>5. CASE LoadCR1
  <2>1. loaded' = CR1 /\ UNCHANGED <<CR1, currentState>>
    BY <1>5, Zenon DEF LoadCR1
  <2>2. pc' \in Stores
    BY <1>5 DEF LoadCR1
  <2>3. QED
    BY <2>1, <2>2
<1>6. CASE StoreCR1
  <2>1. loaded' = {} /\ currentState' = currentState /\ pc' \in {"Idle", "LoadRE"}
    BY <1>6, Zenon DEF StoreCR1
  <2>2. CR1' \subseteq Bits
    BY <1>6 DEF StoreCR1
  <2>3. QED
    BY <2>1, <2>2
<1>7. CASE USART2_Interrupt
  <2>1. UNCHANGED <<pc, loaded>>
    BY <1>7, Zenon DEF USART2_Interrupt
  <2>2. CR1' \in {CR1, CR1 \ {"TXEIE"}, CR1 \ {"RXNEIE"}}
    BY <1>7, Handles, Zenon DEF EndTransfer, ReceivedAByte
  <2>3. currentState' \in {currentState, "USART_AVAILABLE"}
    BY <1>7, Handles, Zenon DEF EndTransfer, ReceivedAByte
  <2>4. QED
    BY <2>1, <2>2, <2>3
<1>8. CASE Load \/ ShiftOut \/ Arrive \/ Overrun \/ UNCHANGED vars
  <2>1. UNCHANGED <<pc, loaded, CR1, currentState>>
    BY <1>8, Zenon DEF Load, ShiftOut, Arrive, Overrun, vars
  <2>2. QED
    BY <2>1
<1>9. QED
  BY <1>1, <1>2, <1>3, <1>4, <1>5, <1>6, <1>7, <1>8, Zenon DEF Next, Caller

(* WriteDR stores a byte of the buffer and advances the index within a byte. *)
LEMMA WriteTypes ==
  ASSUME MessageTypes, WriteDR
  PROVE  /\ idxTX' = (idxTX + 1) % U8 /\ idxTX' \in 0 .. U8 - 1
         /\ tdr' = txBuffer[idxTX] /\ tdr' \in Bytes
         /\ UNCHANGED <<txBuffer, txLen, shift, wire>>
<1>1. idxTX' = (idxTX + 1) % U8 /\ tdr' = txBuffer[idxTX] /\ UNCHANGED <<txBuffer, txLen, shift, wire>>
  BY Zenon DEF WriteDR
<1>2. idxTX' \in 0 .. U8 - 1
  <2>1. idxTX + 1 \in Nat
    BY BoundsAreNumbers DEF MessageTypes
  <2>2. QED
    BY <1>1, <2>1, Remainder, Zenon
<1>3. idxTX \in 0 .. USART_TX_BUFFER_SIZE - 1
  BY BoundsAreNumbers DEF MessageTypes
<1>4. txBuffer[idxTX] \in Bytes
  BY <1>3, Zenon DEF MessageTypes
<1>5. QED
  BY <1>1, <1>2, <1>4, Zenon

LEMMA MessageStep ==
  ASSUME MessageTypes, [Next]_vars
  PROVE  MessageTypes'
<1>1. CASE \E n \in MessageSizes : TransmitIT(n)
  <2>1. PICK n \in MessageSizes : TransmitIT(n)
    BY <1>1
  <2>2. n \in Nat
    BY <2>1, BoundsAreNumbers
  <2>3. CASE n \in 1 .. USART_TX_BUFFER_SIZE
    <3>1. txBuffer' = m_memcpy(n) /\ idxTX' = 0 /\ txLen' = n % U8
      BY <2>1, <2>3, Zenon DEF TransmitIT
    <3>2. m_memcpy(n) \in [0 .. USART_TX_BUFFER_SIZE - 1 -> Bytes]
      BY <2>3, BoundsAreNumbers DEF m_memcpy, MessageTypes, Bytes
    <3>3. txLen' \in 0 .. U8 - 1
      BY <2>2, <3>1, Remainder, Zenon
    <3>4. 0 \in 0 .. U8 - 1
      BY BoundsAreNumbers
    <3>5. QED
      BY <3>1, <3>2, <3>3, <3>4, Zenon DEF MessageTypes
  <2>4. CASE n \notin 1 .. USART_TX_BUFFER_SIZE
    <3>1. UNCHANGED tx
      BY <2>1, <2>4, Zenon DEF TransmitIT
    <3>2. QED
      BY <3>1, Zenon DEF tx, MessageTypes
  <2>5. QED
    BY <2>3, <2>4
<1>2. CASE FirstByte
  <2>1. WriteDR
    BY <1>2, Zenon DEF FirstByte
  <2>2. QED
    BY <2>1, WriteTypes, Zenon DEF MessageTypes
<1>3. CASE UNCHANGED tx
  BY <1>3, Zenon DEF tx, MessageTypes
<1>4. CASE USART2_Interrupt
  <2>1. CASE WriteDR
    BY <2>1, WriteTypes, Zenon DEF MessageTypes
  <2>2. QED
    BY <1>3, <1>4, <2>1, Handles, Zenon
<1>5. QED
  BY <1>1, <1>2, <1>3, <1>4, WhoChanges, Zenon

LEMMA SenderStep ==
  ASSUME MessageTypes, SenderTypes, [Next]_vars
  PROVE  SenderTypes'
<1>1. CASE \E n \in MessageSizes : TransmitIT(n)
  <2>1. wire' = <<>> /\ UNCHANGED <<tdr, shift>>
    BY <1>1, Zenon DEF TransmitIT
  <2>2. QED
    BY <2>1 DEF SenderTypes
<1>2. CASE WriteDR
  BY <1>2, WriteTypes, Zenon DEF SenderTypes
<1>3. CASE FirstByte
  BY <1>2, <1>3, Zenon DEF FirstByte
<1>4. CASE UNCHANGED sender
  BY <1>4, Zenon DEF sender, SenderTypes
<1>5. CASE USART2_Interrupt
  BY <1>2, <1>4, <1>5, Handles, Zenon
<1>6. CASE Load
  <2>1. tdr # Empty /\ shift' = tdr /\ tdr' = Empty /\ wire' = Append(wire, tdr)
    BY <1>6, Zenon DEF Load, TXE
  <2>2. QED
    BY <2>1 DEF SenderTypes
<1>7. CASE ShiftOut
  <2>1. shift' = Empty /\ UNCHANGED <<tdr, wire>>
    BY <1>7, Zenon DEF ShiftOut
  <2>2. QED
    BY <2>1, Zenon DEF SenderTypes
<1>8. QED
  BY <1>1, <1>3, <1>4, <1>5, <1>6, <1>7, WhoChanges, Zenon

(* A byte is stored before the index that has just been advanced. *)
LEMMA ReceivedTypes ==
  ASSUME ReadTypes, ReceivedAByte
  PROVE  /\ idxRX' = (idxRX + 1) % U8 /\ idxRX' \in 0 .. U8 - 1
         /\ idxRX' - 1 \in -1 .. U8 - 1
         /\ rxBuffer' = [rxBuffer EXCEPT ![idxRX' - 1] = rdr]
         /\ rdr' = Empty /\ UNCHANGED <<rxLen, coming, lost>>
<1>1. /\ idxRX' = (idxRX + 1) % U8 /\ rxBuffer' = [rxBuffer EXCEPT ![idxRX' - 1] = rdr]
      /\ rdr' = Empty /\ UNCHANGED <<rxLen, coming, lost>>
  BY Zenon DEF ReceivedAByte
<1>2. idxRX' \in 0 .. U8 - 1
  <2>1. idxRX + 1 \in Nat
    BY BoundsAreNumbers DEF ReadTypes
  <2>2. QED
    BY <1>1, <2>1, Remainder, Zenon
<1>3. idxRX' - 1 \in -1 .. U8 - 1
  <2>1. \A k \in 0 .. U8 - 1 : k - 1 \in -1 .. U8 - 1
    BY BoundsAreNumbers
  <2>2. QED
    BY <1>2, <2>1, Zenon
<1>4. QED
  BY <1>1, <1>2, <1>3, Zenon

LEMMA ReadStep ==
  ASSUME ReadTypes, ReceiverTypes, [Next]_vars
  PROVE  ReadTypes'
<1>1. CASE \E n \in ReadSizes : ReadIT(n)
  <2>1. PICK n \in ReadSizes : ReadIT(n)
    BY <1>1
  <2>2. rxBuffer' = [i \in DOMAIN rxBuffer |-> Unset] /\ idxRX' = 0 /\ rxLen' = n % U8
    BY <2>1, Zenon DEF ReadIT
  <2>3. rxLen' \in 0 .. U8 - 1
    <3>1. n \in Nat
      BY <2>1, BoundsAreNumbers
    <3>2. QED
      BY <2>2, <3>1, Remainder, Zenon
  <2>4. QED
    BY <2>2, <2>3, BoundsAreNumbers DEF ReadTypes
<1>2. CASE UNCHANGED rx
  BY <1>2, Zenon DEF rx, ReadTypes
<1>3. CASE USART2_Interrupt
  <2>1. CASE ReceivedAByte /\ RXNE
    <3>1. rdr \in Nat
      BY <2>1 DEF RXNE, ReceiverTypes
    <3>2. rxBuffer' \in [-1 .. U8 - 1 -> {Unset} \cup Nat]
      BY <2>1, <3>1, ReceivedTypes DEF ReadTypes
    <3>3. QED
      BY <2>1, <3>2, ReceivedTypes, Zenon DEF ReadTypes
  <2>2. QED
    BY <1>2, <1>3, <2>1, Handles, Zenon DEF rx
<1>4. QED
  BY <1>1, <1>2, <1>3, WhoChanges, Zenon

LEMMA ReceiverStep ==
  ASSUME ReceiverTypes, [Next]_vars
  PROVE  ReceiverTypes'
<1> USE BoundsAreNumbers DEF ReceiverTypes
<1>1. CASE \E n \in ReadSizes : ReadIT(n)
  <2>1. rdr' \in {0, Empty} /\ coming' = 1 /\ lost' = 0
    BY <1>1, Zenon DEF ReadIT
  <2>2. QED
    BY <2>1
<1>2. CASE UNCHANGED receiver
  <2>1. UNCHANGED <<rdr, coming, lost>>
    BY <1>2, Zenon DEF receiver
  <2>2. QED
    BY <2>1
<1>3. CASE USART2_Interrupt
  <2>1. CASE ReceivedAByte
    <3>1. rdr' = Empty /\ UNCHANGED <<coming, lost>>
      BY <2>1, Zenon DEF ReceivedAByte
    <3>2. QED
      BY <3>1
  <2>2. QED
    BY <1>2, <1>3, <2>1, Handles, Zenon
<1>4. CASE Arrive
  <2>1. rdr' \in {coming, 0} /\ coming' \in {coming, coming + 1} /\ lost' = lost
    BY <1>4, Zenon DEF Arrive
  <2>2. QED
    BY <2>1
<1>5. CASE Overrun
  <2>1. lost < MaxLost /\ rdr' = rdr /\ coming' = coming + 1 /\ lost' = lost + 1
    BY <1>5, Zenon DEF Overrun
  <2>2. QED
    BY <2>1
<1>6. QED
  BY <1>1, <1>2, <1>3, <1>4, <1>5, WhoChanges, Zenon

LEMMA CallStep ==
  ASSUME CallTypes, [Next]_vars
  PROVE  CallTypes'
<1>1. CASE \E n \in MessageSizes : TransmitIT(n)
  BY <1>1, BoundsAreNumbers DEF TransmitIT, Begin, CallTypes
<1>2. CASE \E n \in ReadSizes : ReadIT(n)
  BY <1>2, BoundsAreNumbers DEF ReadIT, Begin, CallTypes
<1>3. CASE UNCHANGED history
  BY <1>3, Zenon DEF history, CallTypes
<1>4. QED
  BY <1>1, <1>2, <1>3, WhoChanges, Zenon

LEMMA TruthStep ==
  ASSUME TruthTypes, [Next]_vars
  PROVE  TruthTypes'
<1>1. CASE \E n \in MessageSizes : TransmitIT(n)
  BY <1>1, Zenon DEF TransmitIT, Begin, AtRest, TruthTypes
<1>2. CASE \E n \in ReadSizes : ReadIT(n)
  BY <1>2, Zenon DEF ReadIT, Begin, AtRest, TruthTypes, sender
<1>3. CASE FirstByte
  BY <1>3, Zenon DEF FirstByte, WriteDR, Latch, Line, TruthTypes, history
<1>4. CASE NVIC_EnableInterrupt \/ LoadCR1 \/ StoreCR1
  BY <1>4, Zenon DEF NVIC_EnableInterrupt, LoadCR1, StoreCR1, Latch, Line, TruthTypes, history, sender
<1>5. CASE USART2_Interrupt
  <2>1. pending' = Line' /\ alone' = alone
    BY <1>5, Zenon DEF USART2_Interrupt, history
  <2>2. enabled' \in {enabled, FALSE} /\ TC' \in {TC, FALSE}
    BY <1>5, Handles, Zenon DEF WriteDR, EndTransfer, ReceivedAByte, sender
  <2>3. QED
    BY <2>1, <2>2, Zenon DEF TruthTypes, Line
<1>6. CASE Load \/ ShiftOut
  BY <1>6, Zenon DEF Load, ShiftOut, Latch, Line, TruthTypes, history
<1>7. CASE Arrive \/ Overrun
  BY <1>7, Zenon DEF Arrive, Overrun, Latch, Line, TruthTypes, history, sender
<1>8. CASE UNCHANGED vars
  BY <1>8, Zenon DEF vars, sender, history, TruthTypes
<1>9. QED
  BY <1>1, <1>2, <1>3, <1>4, <1>5, <1>6, <1>7, <1>8, Zenon DEF Next, Caller

Types ==
  /\ Places /\ ControlTypes /\ MessageTypes /\ SenderTypes
  /\ ReadTypes /\ ReceiverTypes /\ CallTypes /\ TruthTypes

LEMMA TypesInductive == Spec => []Types
<1>1. Init => Types
  <2> SUFFICES ASSUME Init PROVE Types
    OBVIOUS
  <2>1. Places /\ ControlTypes
    BY DEF Init, Places, ControlTypes, Stores, Bits
  <2>2. MessageTypes /\ SenderTypes
    BY BoundsAreNumbers DEF Init, MessageTypes, SenderTypes, Bytes
  <2>3. ReadTypes /\ ReceiverTypes /\ CallTypes
    BY BoundsAreNumbers DEF Init, ReadTypes, ReceiverTypes, CallTypes
  <2>4. TruthTypes
    BY Zenon DEF Init, TruthTypes
  <2>5. QED
    BY <2>1, <2>2, <2>3, <2>4, Zenon DEF Types
<1>2. Types /\ [Next]_vars => Types'
  BY ControlStep, MessageStep, SenderStep, ReadStep, ReceiverStep, CallStep, TruthStep, Zenon DEF Types
<1>3. QED
  BY <1>1, <1>2, PTL DEF Spec

(* Every variable keeps its type, for messages and reads of any size: the
   indices stay within a byte and within the buffers. *)
THEOREM ITTypeCorrect == Spec => []TypeOK
<1>1. Types => TypeOK
  BY Zenon DEF Types, Places, ControlTypes, MessageTypes, SenderTypes, ReadTypes, ReceiverTypes, CallTypes,
     TruthTypes, Bits, Bytes, TypeOK
<1>2. QED
  BY <1>1, TypesInductive, PTL

-----------------------------------------------------------------------------
(* A byte in DR is followed by another or by the end of the transfer: the
   interrupt for it is enabled, or will be by the caller. *)
DRInv == tdr # Empty => "TXEIE" \in CR1 \/ pc \in {"EnableTX", "LoadTX", "StoreTX"}

LEMMA DRStep ==
  ASSUME Types, DRInv, [Next]_vars
  PROVE  DRInv'
<1>1. CASE \E n \in MessageSizes : TransmitIT(n)
  <2>1. pc = "Idle" /\ UNCHANGED <<tdr, CR1>>
    BY <1>1, Zenon DEF TransmitIT
  <2>2. QED
    BY <2>1 DEF DRInv
<1>2. CASE \E n \in ReadSizes : ReadIT(n)
  <2>1. pc = "Idle" /\ UNCHANGED <<tdr, CR1>>
    BY <1>2, Zenon DEF ReadIT, sender
  <2>2. QED
    BY <2>1 DEF DRInv
<1>3. CASE FirstByte
  BY <1>3 DEF FirstByte, DRInv
<1>4. CASE NVIC_EnableInterrupt
  BY <1>4 DEF NVIC_EnableInterrupt, DRInv, sender
<1>5. CASE LoadCR1
  BY <1>5 DEF LoadCR1, DRInv, sender
<1>6. CASE StoreCR1
  <2>1. "TXEIE" \in CR1 => "TXEIE" \in loaded
    <3>1. pc \in Stores
      BY <1>6, Zenon DEF StoreCR1, Stores
    <3>2. QED
      BY <3>1 DEF Types, ControlTypes
  <2>2. tdr' = tdr
    BY <1>6, Zenon DEF StoreCR1, sender
  <2>3. QED
    BY <1>6, <2>1, <2>2 DEF StoreCR1, DRInv
<1>7. CASE USART2_Interrupt
  <2>1. pc' = pc
    BY <1>7, Zenon DEF USART2_Interrupt
  <2>2. CASE "TXEIE" \in CR1 /\ UNCHANGED CR1
    BY <2>2, Zenon DEF DRInv
  <2>3. CASE TXE /\ UNCHANGED sender
    BY <2>3, Zenon DEF DRInv, TXE, sender
  <2>4. CASE ReceivedAByte /\ UNCHANGED sender
    <3>1. "TXEIE" \in CR1 => "TXEIE" \in CR1'
      BY <2>4 DEF ReceivedAByte, EndTransfer
    <3>2. QED
      BY <2>1, <2>4, <3>1, Zenon DEF DRInv, sender
  <2>5. CASE UNCHANGED <<CR1, sender>>
    BY <2>1, <2>5, Zenon DEF DRInv, sender
  <2>6. QED
    BY <1>7, <2>2, <2>3, <2>4, <2>5, Handles, Zenon
<1>8. CASE Load
  BY <1>8, Zenon DEF Load, DRInv
<1>9. CASE ShiftOut \/ Arrive \/ Overrun \/ UNCHANGED vars
  <2>1. UNCHANGED <<tdr, CR1, pc>>
    BY <1>9, Zenon DEF ShiftOut, Arrive, Overrun, vars, sender
  <2>2. QED
    BY <2>1, Zenon DEF DRInv
<1>10. QED
  BY <1>1, <1>2, <1>3, <1>4, <1>5, <1>6, <1>7, <1>8, <1>9, Zenon DEF Next, Caller

(* A transmission that has the driver to itself, and a size that fits. *)
Sending == last = "Transmit" /\ alone /\ size \in 1 .. U8 - 1

(* No reception is enabled, and the interrupt for the next byte only when the
   caller has done. *)
SendControl ==
  /\ "RXNEIE" \notin CR1 /\ "RXNEIE" \notin loaded
  /\ pc \in {"Idle", "FirstByte", "EnableTX", "LoadTX", "StoreTX"}
  /\ pc # "Idle" => "TXEIE" \notin CR1 /\ currentState = "USART_BUSY"

(* What has been taken from the buffer is on the wire or in DR. *)
SendData ==
  /\ txLen = size /\ \A i \in 0 .. size - 1 : txBuffer[i] = i + 1
  /\ pc = "FirstByte" => tdr = Empty /\ idxTX = 0
  /\ tdr # Empty => tdr = idxTX /\ idxTX = Len(wire) + 1
  /\ tdr = Empty => idxTX = Len(wire)
  /\ idxTX <= size
  /\ \A i \in 1 .. Len(wire) : wire[i] = i
  /\ currentState = "USART_AVAILABLE" => tdr = Empty /\ idxTX = size

SendInv == Sending => SendControl /\ SendData

LEMMA SendBegins ==
  ASSUME Types, DRInv, NEW n \in MessageSizes, TransmitIT(n), Sending'
  PROVE  SendControl' /\ SendData'
<1>1. /\ size' = n /\ pc = "Idle" /\ pc' = "FirstByte" /\ currentState' = "USART_BUSY"
      /\ UNCHANGED <<CR1, loaded, tdr>> /\ wire' = <<>>
  BY Zenon DEF TransmitIT, Begin
<1>2. AtRest
  BY Zenon DEF TransmitIT, Begin, Sending
<1>3. n \in 1 .. U8 - 1 /\ n \in 1 .. USART_TX_BUFFER_SIZE
  BY <1>1, BoundsAreNumbers DEF Sending
<1>4. txBuffer' = m_memcpy(n) /\ idxTX' = 0 /\ txLen' = n % U8
  BY <1>3, Zenon DEF TransmitIT
<1>5. txLen' = n
  <2>1. n \in Nat /\ n < U8
    BY <1>3, BoundsAreNumbers
  <2>2. QED
    BY <1>4, <2>1, Remainder, Zenon
<1>6. \A i \in 0 .. n - 1 : txBuffer'[i] = i + 1
  BY <1>3, <1>4, BoundsAreNumbers DEF m_memcpy, Types, MessageTypes
<1>7. SendControl'
  BY <1>1, <1>2 DEF SendControl, AtRest, Types, ControlTypes, Stores
<1>8. tdr' = Empty
  BY <1>1, <1>2 DEF DRInv, AtRest
<1>9. SendData'
  BY <1>1, <1>3, <1>4, <1>5, <1>6, <1>8 DEF SendData
<1>10. QED
  BY <1>7, <1>9

(* A step in the middle of a call or between two. *)
Goes == Caller \/ USART2_Interrupt \/ Load \/ ShiftOut \/ Arrive \/ Overrun \/ UNCHANGED vars

LEMMA SendControlStep ==
  ASSUME SendControl, Goes
  PROVE  SendControl'
<1>1. CASE FirstByte
  <2>1. pc = "FirstByte" /\ pc' = "EnableTX" /\ UNCHANGED <<CR1, loaded, currentState>>
    BY <1>1, Zenon DEF FirstByte
  <2>2. QED
    BY <2>1 DEF SendControl
<1>2. CASE NVIC_EnableInterrupt
  <2>1. /\ pc \in {"EnableTX", "EnableRX"} /\ pc' = (IF pc = "EnableTX" THEN "LoadTX" ELSE "LoadRX")
        /\ UNCHANGED <<CR1, loaded, currentState>>
    BY <1>2, Zenon DEF NVIC_EnableInterrupt
  <2>2. QED
    BY <2>1 DEF SendControl
<1>3. CASE LoadCR1
  BY <1>3 DEF LoadCR1, SendControl
<1>4. CASE StoreCR1
  BY <1>4 DEF StoreCR1, SendControl
<1>5. CASE USART2_Interrupt
  <2>1. UNCHANGED <<pc, loaded>>
    BY <1>5, Zenon DEF USART2_Interrupt
  <2>2. CASE "TXEIE" \in CR1
    <3>1. CR1' \in {CR1, CR1 \ {"TXEIE"}, CR1 \ {"RXNEIE"}}
      BY <1>5, Handles, Zenon DEF EndTransfer, ReceivedAByte
    <3>2. QED
      BY <2>1, <2>2, <3>1 DEF SendControl
  <2>3. CASE UNCHANGED <<CR1, currentState>>
    BY <2>1, <2>3 DEF SendControl
  <2>4. QED
    BY <1>5, <2>2, <2>3, Handles, Zenon DEF SendControl
<1>6. CASE Load \/ ShiftOut \/ Arrive \/ Overrun \/ UNCHANGED vars
  <2>1. UNCHANGED <<pc, loaded, CR1, currentState>>
    BY <1>6, Zenon DEF Load, ShiftOut, Arrive, Overrun, vars
  <2>2. QED
    BY <2>1, Zenon DEF SendControl
<1>7. QED
  BY <1>1, <1>2, <1>3, <1>4, <1>5, <1>6, Zenon DEF Goes, Caller

LEMMA SendDataStep ==
  ASSUME Types, Sending, SendControl, SendData, Goes
  PROVE  SendData'
<1> DEFINE Message == txLen = size /\ \A i \in 0 .. size - 1 : txBuffer[i] = i + 1
<1>1. UNCHANGED size /\ size \in 1 .. U8 - 1
  BY Zenon DEF Goes, Caller, FirstByte, NVIC_EnableInterrupt, LoadCR1, StoreCR1, USART2_Interrupt,
     Load, ShiftOut, Arrive, Overrun, vars, history, Sending
<1>2. ASSUME WriteDR, TXE, idxTX < size, pc' # "FirstByte", currentState' # "USART_AVAILABLE"
      PROVE  SendData'
  <2>1. /\ idxTX' = (idxTX + 1) % U8 /\ tdr' = txBuffer[idxTX]
        /\ UNCHANGED <<txBuffer, txLen, wire>>
    BY <1>2, WriteTypes, Zenon DEF Types
  <2>2. idxTX \in Nat /\ tdr = Empty
    BY <1>2 DEF Types, MessageTypes, TXE
  <2>3. idxTX' = idxTX + 1 /\ tdr' = idxTX + 1
    <3>1. idxTX + 1 \in Nat /\ idxTX + 1 < U8 /\ idxTX \in 0 .. size - 1
      BY <1>1, <1>2, <2>2, BoundsAreNumbers
    <3>2. (idxTX + 1) % U8 = idxTX + 1
      BY <3>1, Remainder, Zenon
    <3>3. QED
      BY <2>1, <3>1, <3>2, Zenon DEF SendData
  <2>4. idxTX = Len(wire)
    BY <2>2, Zenon DEF SendData
  <2>5. idxTX' <= size'
    BY <1>1, <1>2, <2>2, <2>3, BoundsAreNumbers
  <2>6. Message' /\ \A i \in 1 .. Len(wire') : wire'[i] = i
    BY <1>1, <2>1, Zenon DEF SendData
  <2>7. tdr' # Empty /\ tdr' = idxTX' /\ idxTX' = Len(wire') + 1
    BY <2>1, <2>2, <2>3, <2>4 DEF Empty
  <2>8. QED
    BY <1>2, <2>5, <2>6, <2>7, Zenon DEF SendData
<1>3. ASSUME UNCHANGED <<tx, tdr, wire>>, pc' = "FirstByte" => pc = "FirstByte",
             currentState' = "USART_AVAILABLE" => currentState = "USART_AVAILABLE" \/ (TXE /\ idxTX = size)
      PROVE  SendData'
  <2>1. UNCHANGED <<txBuffer, idxTX, txLen>>
    BY <1>3, Zenon DEF tx
  <2>2. QED
    BY <1>1, <1>3, <2>1, Zenon DEF SendData, TXE
<1>4. CASE FirstByte
  <2>1. pc = "FirstByte" /\ WriteDR /\ TXE /\ pc' = "EnableTX" /\ currentState' = currentState
    BY <1>4, Zenon DEF FirstByte
  <2>2. idxTX < size /\ currentState = "USART_BUSY"
    BY <1>1, <2>1, BoundsAreNumbers DEF SendData, SendControl
  <2>3. QED
    BY <1>2, <2>1, <2>2
<1>5. CASE NVIC_EnableInterrupt \/ LoadCR1 \/ StoreCR1
  <2>1. pc' # "FirstByte"
    BY <1>5 DEF NVIC_EnableInterrupt, LoadCR1, StoreCR1
  <2>2. UNCHANGED <<tx, tdr, wire, currentState>>
    BY <1>5, Zenon DEF NVIC_EnableInterrupt, LoadCR1, StoreCR1, sender
  <2>3. QED
    BY <1>3, <2>1, <2>2, Zenon
<1>6. CASE USART2_Interrupt
  <2>1. pc' = pc
    BY <1>6, Zenon DEF USART2_Interrupt
  <2>2. CASE TXE /\ "TXEIE" \in CR1 /\ idxTX < txLen /\ WriteDR /\ UNCHANGED currentState
    <3>1. pc = "Idle" /\ idxTX < size
      BY <2>2 DEF SendControl, SendData
    <3>2. currentState # "USART_AVAILABLE"
      BY <1>1, <3>1, BoundsAreNumbers DEF SendData
    <3>3. QED
      BY <1>2, <2>1, <2>2, <3>1, <3>2
  <2>3. CASE TXE /\ ~ (idxTX < txLen) /\ UNCHANGED <<tx, sender>>
    <3>1. idxTX = size
      BY <1>1, <2>3, BoundsAreNumbers DEF SendData, Types, MessageTypes
    <3>2. QED
      BY <1>3, <2>1, <2>3, <3>1, Zenon DEF sender
  <2>4. CASE UNCHANGED <<currentState, tx, sender>>
    BY <1>3, <2>1, <2>4, Zenon DEF sender
  <2>5. QED
    BY <1>6, <2>2, <2>3, <2>4, Handles, Zenon DEF SendControl
<1>7. CASE Load
  <2>1. /\ tdr # Empty /\ tdr' = Empty /\ wire' = Append(wire, tdr)
        /\ UNCHANGED <<pc, currentState, txBuffer, idxTX, txLen>>
    BY <1>7, Zenon DEF Load, TXE, tx
  <2>2. tdr = idxTX /\ idxTX = Len(wire) + 1 /\ currentState # "USART_AVAILABLE" /\ pc # "FirstByte"
    BY <2>1, Zenon DEF SendData
  <2>3. wire \in Seq(Bytes) /\ tdr \in Bytes
    BY <2>1 DEF Types, SenderTypes
  <2>4. Len(wire') = idxTX /\ \A i \in 1 .. Len(wire') : wire'[i] = i
    BY <2>1, <2>2, <2>3 DEF SendData
  <2>5. QED
    BY <1>1, <2>1, <2>2, <2>4, Zenon DEF SendData
<1>8. CASE ShiftOut \/ Arrive \/ Overrun \/ UNCHANGED vars
  <2>1. UNCHANGED <<tx, tdr, wire, pc, currentState>>
    BY <1>8, Zenon DEF ShiftOut, Arrive, Overrun, vars, sender
  <2>2. QED
    BY <1>3, <2>1, Zenon
<1>9. QED
  BY <1>4, <1>5, <1>6, <1>7, <1>8, Zenon DEF Goes, Caller

LEMMA SendInductive == Spec => [](DRInv /\ SendInv)
<1>1. Init => DRInv /\ SendInv
  BY DEF Init, DRInv, SendInv, Sending
<1>2. Types /\ DRInv /\ SendInv /\ [Next]_vars => DRInv' /\ SendInv'
  <2> SUFFICES ASSUME Types, DRInv, SendInv, [Next]_vars, Sending' PROVE DRInv' /\ SendControl' /\ SendData'
    BY DRStep, Zenon DEF SendInv
  <2>1. CASE \E n \in MessageSizes : TransmitIT(n)
    BY <2>1, SendBegins, DRStep, Zenon
  <2>2. CASE \E n \in ReadSizes : ReadIT(n)
    <3>1. last' = "Read"
      BY <2>2, Zenon DEF ReadIT, Begin
    <3>2. QED
      BY <3>1 DEF Sending
  <2>3. CASE Goes
    <3>1. UNCHANGED history
      BY <2>3, Zenon DEF Goes, Caller, FirstByte, NVIC_EnableInterrupt, LoadCR1, StoreCR1, USART2_Interrupt,
         Load, ShiftOut, Arrive, Overrun, vars
    <3>2. Sending
      BY <3>1, Zenon DEF history, Sending
    <3>3. QED
      BY <2>3, <3>2, SendControlStep, SendDataStep, DRStep, Zenon DEF SendInv
  <2>4. QED
    BY <2>1, <2>2, <2>3, Zenon DEF Next, Goes
<1>3. QED
  BY <1>1, <1>2, TypesInductive, PTL DEF Spec

(* A message that had the driver to itself, of any size that fits txLen, has
   gone out whole, each byte once and in order, when the driver is available
   again. *)
THEOREM MessagesAreWhole == Spec => []MessageIsWhole
<1>1. Types /\ SendInv => MessageIsWhole
  <2> SUFFICES ASSUME Types, SendInv, Ended("Transmit"), size \in 1 .. U8 - 1
               PROVE  wire = [i \in 1 .. size |-> i]
    BY Zenon DEF MessageIsWhole
  <2>1. SendData
    BY Zenon DEF SendInv, Sending, Ended
  <2>2. Len(wire) = size /\ \A i \in 1 .. Len(wire) : wire[i] = i
    BY <2>1, Zenon DEF SendData, Ended
  <2>3. wire \in Seq(Bytes)
    BY Zenon DEF Types, SenderTypes
  <2>4. QED
    BY <2>2, <2>3
<1>2. QED
  BY <1>1, TypesInductive, SendInductive, PTL

-----------------------------------------------------------------------------
(* A reception that has the driver to itself, and a size that fits. *)
Reading == last = "Read" /\ alone /\ size \in 1 .. U8 - 1

Preparing == {"EnableRX", "LoadRX", "StoreRX"}

(* No transmission is enabled; the receiver's interrupt is, from the caller's
   first store to the end of the reception, and after it the NVIC lets none
   through. *)
ReadControl ==
  /\ "TXEIE" \notin CR1 /\ "TXEIE" \notin loaded
  /\ pc \in Preparing \cup {"LoadRE", "StoreRE", "Idle"}
  /\ pc \in Preparing => "RXNEIE" \notin CR1 /\ currentState = "USART_BUSY"
  /\ pc \notin Preparing /\ currentState = "USART_BUSY" => "RXNEIE" \in CR1
  /\ currentState = "USART_AVAILABLE" => ~ enabled

(* The next byte the receiver will have, or has. *)
NextByte == IF RXNE THEN rdr ELSE coming

(* Bytes are in order, none missing as long as the receiver has lost none. *)
Follows(byte, next) == byte < next /\ (lost = 0 => next = byte + 1)

(* The buffer is filled up to idxRX, in order, and what comes next follows. *)
ReadData ==
  /\ rxLen = size
  /\ currentState = "USART_BUSY" => idxRX < size
  /\ currentState = "USART_AVAILABLE" => idxRX = size
  /\ \A i \in -1 .. U8 - 1 : rxBuffer[i] # Unset <=> i \in 0 .. idxRX - 1
  /\ \A i \in 1 .. idxRX - 1 : Follows(rxBuffer[i - 1], rxBuffer[i])

ReadLine ==
  currentState = "USART_BUSY" =>
    /\ RXNE => Follows(rdr, coming)
    /\ idxRX > 0 => Follows(rxBuffer[idxRX - 1], NextByte)

ReadInv == Reading => ReadControl /\ ReadData /\ ReadLine

LEMMA ReadBegins ==
  ASSUME Types, NEW n \in ReadSizes, ReadIT(n), Reading'
  PROVE  ReadControl' /\ ReadData' /\ ReadLine'
<1>1. /\ size' = n /\ pc = "Idle" /\ pc' = "EnableRX" /\ currentState' = "USART_BUSY"
      /\ UNCHANGED <<CR1, loaded>>
      /\ rxBuffer' = [i \in DOMAIN rxBuffer |-> Unset] /\ idxRX' = 0 /\ rxLen' = n % U8
      /\ rdr' \in {0, Empty} /\ coming' = 1 /\ lost' = 0
  BY Zenon DEF ReadIT, Begin
<1>2. AtRest
  BY Zenon DEF ReadIT, Begin, Reading
<1>3. n \in Nat /\ n < U8 /\ n > 0
  BY <1>1, BoundsAreNumbers DEF Reading
<1>4. rxLen' = n
  BY <1>1, <1>3, Remainder, Zenon
<1>5. ReadControl'
  BY <1>1, <1>2 DEF ReadControl, AtRest, Preparing, Types, ControlTypes, Stores
<1>6. ReadData'
  BY <1>1, <1>3, <1>4 DEF ReadData, Types, ReadTypes, Follows
<1>7. ReadLine'
  <2>1. (RXNE => Follows(rdr, coming))'
    <3>1. 0 < 1 /\ 1 = 0 + 1
      OBVIOUS
    <3>2. rdr' = Empty \/ rdr' = 0
      BY <1>1, Zenon
    <3>3. QED
      BY <1>1, <3>1, <3>2, Zenon DEF RXNE, Follows
  <2>2. ~ (idxRX' > 0)
    BY <1>1
  <2>3. QED
    BY <2>1, <2>2, Zenon DEF ReadLine
<1>8. QED
  BY <1>5, <1>6, <1>7

LEMMA ReadControlStep ==
  ASSUME Types, ReadControl, ReadData, Goes
  PROVE  ReadControl'
<1>1. CASE FirstByte
  BY <1>1 DEF FirstByte, ReadControl, Preparing
<1>2. CASE NVIC_EnableInterrupt
  <2>1. /\ pc \in {"EnableTX", "EnableRX"} /\ pc' = (IF pc = "EnableTX" THEN "LoadTX" ELSE "LoadRX")
        /\ UNCHANGED <<CR1, loaded, currentState>>
    BY <1>2, Zenon DEF NVIC_EnableInterrupt
  <2>2. QED
    BY <2>1 DEF ReadControl, Preparing
<1>3. CASE LoadCR1
  <2>1. loaded' = CR1 /\ UNCHANGED <<CR1, currentState>> /\ (enabled' <=> enabled)
    BY <1>3, Zenon DEF LoadCR1
  <2>2. (pc = "LoadRX" /\ pc' = "StoreRX") \/ (pc = "LoadRE" /\ pc' = "StoreRE")
    BY <1>3 DEF LoadCR1, ReadControl, Preparing
  <2>3. QED
    BY <2>1, <2>2 DEF ReadControl, Preparing
<1>4. CASE StoreCR1
  <2>1. loaded' = {} /\ currentState' = currentState /\ (enabled' <=> enabled)
    BY <1>4, Zenon DEF StoreCR1
  <2>2. \/ pc = "StoreRX" /\ CR1' = loaded \cup {"RXNEIE"} /\ pc' = "LoadRE"
        \/ pc = "StoreRE" /\ CR1' = loaded \cup {"RE"} /\ pc' = "Idle"
    BY <1>4 DEF StoreCR1, ReadControl, Preparing
  <2>3. pc = "StoreRE" => CR1 \subseteq loaded
    BY Zenon DEF Types, ControlTypes, Stores
  <2>4. QED
    BY <2>1, <2>2, <2>3 DEF ReadControl, Preparing
<1>5. CASE USART2_Interrupt
  <2>1. UNCHANGED <<pc, loaded>> /\ enabled
    BY <1>5, Zenon DEF USART2_Interrupt, Preempted
  <2>2. CASE "RXNEIE" \in CR1 /\ ReceivedAByte
    <3>1. \/ CR1' = CR1 /\ currentState' = currentState
          \/ CR1' = CR1 \ {"RXNEIE"} /\ ~ enabled' /\ currentState' = "USART_AVAILABLE"
      BY <2>2, Zenon DEF ReceivedAByte, EndTransfer
    <3>2. currentState = "USART_BUSY" /\ pc \notin Preparing
      BY <2>1, <2>2 DEF ReadControl, Types, ControlTypes
    <3>3. QED
      BY <2>1, <2>2, <3>1, <3>2 DEF ReadControl
  <2>3. CASE UNCHANGED <<CR1, currentState, enabled>>
    <3>1. UNCHANGED <<CR1, currentState>> /\ (enabled' <=> enabled)
      BY <2>3, Zenon
    <3>2. QED
      BY <2>1, <3>1 DEF ReadControl
  <2>4. QED
    BY <1>5, <2>2, <2>3, Handles, Zenon DEF ReadControl
<1>6. CASE Load \/ ShiftOut \/ Arrive \/ Overrun \/ UNCHANGED vars
  <2>1. UNCHANGED <<pc, loaded, CR1, currentState, enabled>>
    BY <1>6, Zenon DEF Load, ShiftOut, Arrive, Overrun, vars
  <2>2. QED
    BY <2>1, Zenon DEF ReadControl
<1>7. QED
  BY <1>1, <1>2, <1>3, <1>4, <1>5, <1>6, Zenon DEF Goes, Caller

(* A step that leaves the read's own state alone. *)
LEMMA ReadDataStays ==
  ASSUME ReadData, UNCHANGED <<rx, size, currentState, lost>>
  PROVE  ReadData'
<1>1. UNCHANGED <<rxBuffer, idxRX, rxLen, size, currentState, lost>>
  BY Zenon DEF rx
<1>2. QED
  BY <1>1, Zenon DEF ReadData, Follows

LEMMA ReadLineStays ==
  ASSUME ReadLine, UNCHANGED <<rx, receiver, currentState>>
  PROVE  ReadLine'
<1>1. UNCHANGED <<rxBuffer, idxRX, rdr, coming, lost, currentState>>
  BY Zenon DEF rx, receiver
<1>2. QED
  BY <1>1, Zenon DEF ReadLine, RXNE, NextByte, Follows

(* The interrupt takes a byte. *)
LEMMA ReadTakes ==
  ASSUME Types, Reading, ReadData, ReadLine, currentState = "USART_BUSY", RXNE,
         ReceivedAByte, UNCHANGED size
  PROVE  ReadData' /\ ReadLine'
<1>1. /\ size \in 1 .. U8 - 1 /\ rxLen = size /\ idxRX \in Nat /\ idxRX < size
      /\ rdr \in Nat /\ coming \in Nat /\ lost \in Nat
  BY BoundsAreNumbers DEF Types, ReadTypes, ReceiverTypes, RXNE, Reading, ReadData
<1>2. /\ idxRX' = (idxRX + 1) % U8
      /\ rxBuffer' = [rxBuffer EXCEPT ![idxRX' - 1] = rdr]
      /\ rdr' = Empty /\ UNCHANGED <<rxLen, coming, lost>>
  BY ReceivedTypes, Zenon DEF Types
<1>3. idxRX' = idxRX + 1
  <2>1. idxRX + 1 \in Nat /\ idxRX + 1 < U8
    BY <1>1, BoundsAreNumbers
  <2>2. QED
    BY <1>2, <2>1, Remainder, Zenon
<1>4. /\ rxBuffer'[idxRX] = rdr
      /\ \A i \in -1 .. U8 - 1 : i # idxRX => rxBuffer'[i] = rxBuffer[i]
  <2>1. idxRX' - 1 = idxRX /\ idxRX \in -1 .. U8 - 1
    BY <1>1, <1>3, BoundsAreNumbers
  <2>2. rxBuffer \in [-1 .. U8 - 1 -> {Unset} \cup Nat]
    BY Zenon DEF Types, ReadTypes
  <2>3. QED
    BY <1>2, <2>1, <2>2, Zenon
<1>5. Follows(rdr, coming)
  BY Zenon DEF ReadLine
<1>6. idxRX > 0 => Follows(rxBuffer[idxRX - 1], rdr)
  BY Zenon DEF ReadLine, NextByte
<1>7. \/ currentState' = "USART_BUSY" /\ idxRX' < size'
      \/ currentState' = "USART_AVAILABLE" /\ idxRX' = size'
  <2>1. CASE idxRX' < rxLen
    <3>1. currentState' = currentState
      BY <2>1, Zenon DEF ReceivedAByte
    <3>2. QED
      BY <1>1, <2>1, <3>1
  <2>2. CASE ~ (idxRX' < rxLen)
    <3>1. currentState' = "USART_AVAILABLE"
      BY <2>2, Zenon DEF ReceivedAByte, EndTransfer
    <3>2. idxRX' = size
      BY <1>1, <1>3, <2>2
    <3>3. QED
      BY <3>1, <3>2
  <2>3. QED
    BY <2>1, <2>2
<1>8. \A i \in -1 .. U8 - 1 : rxBuffer'[i] # Unset <=> i \in 0 .. idxRX' - 1
  <2> SUFFICES ASSUME NEW i \in -1 .. U8 - 1 PROVE rxBuffer'[i] # Unset <=> i \in 0 .. idxRX' - 1
    OBVIOUS
  <2>1. CASE i = idxRX
    BY <1>1, <1>3, <1>4, <2>1 DEF Unset
  <2>2. CASE i # idxRX
    <3>1. rxBuffer'[i] # Unset <=> i \in 0 .. idxRX - 1
      BY <1>4, <2>2, Zenon DEF ReadData
    <3>2. i \in 0 .. idxRX' - 1 <=> i \in 0 .. idxRX - 1
      BY <1>1, <1>3, <2>2, BoundsAreNumbers
    <3>3. QED
      BY <3>1, <3>2, Zenon
  <2>3. QED
    BY <2>1, <2>2
<1>9. \A i \in 1 .. idxRX' - 1 : Follows(rxBuffer'[i - 1], rxBuffer'[i])
  <2> SUFFICES ASSUME NEW i \in 1 .. idxRX' - 1 PROVE Follows(rxBuffer'[i - 1], rxBuffer'[i])
    OBVIOUS
  <2>1. /\ i \in -1 .. U8 - 1 /\ i - 1 \in -1 .. U8 - 1 /\ i - 1 # idxRX
        /\ i = idxRX \/ i \in 1 .. idxRX - 1
    BY <1>1, <1>3, BoundsAreNumbers
  <2>2. rxBuffer'[i - 1] = rxBuffer[i - 1]
    BY <1>4, <2>1, Zenon
  <2>3. CASE i = idxRX
    <3>1. idxRX > 0
      BY <1>1, <2>3
    <3>2. QED
      BY <1>4, <1>6, <2>2, <2>3, <3>1, Zenon
  <2>4. CASE i \in 1 .. idxRX - 1
    <3>1. i # idxRX
      BY <1>1, <2>4
    <3>2. QED
      BY <1>4, <2>1, <2>2, <2>4, <3>1, Zenon DEF ReadData
  <2>5. QED
    BY <2>1, <2>3, <2>4
<1>10. ReadData'
  <2>1. rxLen' = size'
    BY <1>1, <1>2
  <2>2. \A i \in 1 .. idxRX' - 1 : (Follows(rxBuffer[i - 1], rxBuffer[i]))'
    BY <1>2, <1>9, Zenon DEF Follows
  <2>3. QED
    BY <1>7, <1>8, <2>1, <2>2 DEF ReadData
<1>11. ReadLine'
  <2>1. ~ RXNE' /\ NextByte' = coming
    BY <1>2, Zenon DEF RXNE, NextByte
  <2>2. rxBuffer'[idxRX' - 1] = rdr
    <3>1. idxRX' - 1 = idxRX
      BY <1>1, <1>3
    <3>2. QED
      BY <1>4, <3>1, Zenon
  <2>3. Follows(rxBuffer[idxRX - 1], NextByte)'
    BY <1>2, <1>5, <2>1, <2>2, Zenon DEF Follows
  <2>4. QED
    BY <2>1, <2>3, Zenon DEF ReadLine
<1>12. QED
  BY <1>10, <1>11

LEMMA ReadDataStep ==
  ASSUME Types, Reading, ReadControl, ReadData, ReadLine, Goes
  PROVE  ReadData' /\ ReadLine'
<1>1. UNCHANGED size
  BY Zenon DEF Goes, Caller, FirstByte, NVIC_EnableInterrupt, LoadCR1, StoreCR1, USART2_Interrupt,
     Load, ShiftOut, Arrive, Overrun, vars, history
<1>2. CASE Caller \/ Load \/ ShiftOut \/ UNCHANGED vars
  <2>1. UNCHANGED <<rx, receiver, currentState>>
    BY <1>2, Zenon DEF Caller, FirstByte, NVIC_EnableInterrupt, LoadCR1, StoreCR1, Load, ShiftOut, vars
  <2>2. UNCHANGED lost
    BY <2>1, Zenon DEF receiver
  <2>3. QED
    BY <1>1, <2>1, <2>2, ReadDataStays, ReadLineStays, Zenon
<1>3. CASE USART2_Interrupt
  <2>1. CASE RXNE /\ ReceivedAByte
    <3>1. currentState = "USART_BUSY"
      <4>1. enabled
        BY <1>3, Zenon DEF USART2_Interrupt, Preempted
      <4>2. QED
        BY <4>1 DEF ReadControl, Types, ControlTypes
    <3>2. QED
      BY <1>1, <2>1, <3>1, ReadTakes, Zenon
  <2>2. CASE UNCHANGED <<currentState, rx, receiver>>
    BY <1>1, <2>2, ReadDataStays, ReadLineStays, Zenon DEF receiver
  <2>3. QED
    BY <1>3, <2>1, <2>2, Handles, Zenon DEF ReadControl
<1>4. CASE Arrive
  <2>1. ~ RXNE /\ UNCHANGED <<rx, currentState, lost>>
    BY <1>4, Zenon DEF Arrive
  <2>2. ReadData'
    BY <1>1, <2>1, ReadDataStays, Zenon
  <2>3. ASSUME currentState = "USART_BUSY" PROVE ReadLine'
    <3>1. Expecting
      BY <2>3 DEF Expecting, Reading, ReadControl, Preparing
    <3>2. rdr' = coming /\ coming' = coming + 1
      BY <1>4, <3>1, Zenon DEF Arrive
    <3>3. coming \in Nat
      BY DEF Types, ReceiverTypes
    <3>4. Follows(rdr, coming)'
      BY <3>2, <3>3 DEF Follows
    <3>5. NextByte' = coming /\ NextByte = coming
      BY <2>1, <3>2, <3>3 DEF NextByte, RXNE, Empty
    <3>6. (idxRX > 0 => Follows(rxBuffer[idxRX - 1], NextByte))'
      BY <2>1, <2>3, <3>5, Zenon DEF rx, ReadLine, Follows
    <3>7. QED
      BY <3>4, <3>6, Zenon DEF ReadLine
  <2>4. currentState # "USART_BUSY" => ReadLine'
    BY <2>1, Zenon DEF ReadLine
  <2>5. QED
    BY <2>2, <2>3, <2>4
<1>5. CASE Overrun
  <2>1. RXNE /\ lost' = lost + 1 /\ coming' = coming + 1 /\ UNCHANGED <<rx, currentState, rdr>>
    BY <1>5, Zenon DEF Overrun
  <2>2. lost' # 0 /\ lost \in Nat /\ coming \in Nat /\ rdr \in Nat
    BY <2>1, BoundsAreNumbers DEF Types, ReceiverTypes, RXNE
  <2>3. \A a, b : Follows(a, b) => Follows(a, b)'
    BY <2>2, Zenon DEF Follows
  <2>4. ReadData'
    BY <1>1, <2>1, <2>3, Zenon DEF ReadData, rx, Follows
  <2>5. currentState = "USART_BUSY" => Follows(rdr, coming)'
    <3>1. currentState = "USART_BUSY" => rdr < coming
      BY <2>1, Zenon DEF ReadLine, Follows
    <3>2. QED
      BY <2>1, <2>2, <3>1 DEF Follows
  <2>6. currentState = "USART_BUSY" /\ idxRX > 0 => Follows(rxBuffer[idxRX - 1], NextByte)'
    <3>1. NextByte = rdr /\ NextByte' = rdr
      BY <2>1, Zenon DEF NextByte, RXNE
    <3>2. QED
      BY <2>1, <2>2, <3>1, Zenon DEF ReadLine, Follows, rx
  <2>7. QED
    BY <2>1, <2>4, <2>5, <2>6, Zenon DEF ReadLine, rx
<1>6. QED
  BY <1>2, <1>3, <1>4, <1>5, Zenon DEF Goes

LEMMA ReadInductive == Spec => []ReadInv
<1>1. Init => ReadInv
  BY DEF Init, ReadInv, Reading
<1>2. Types /\ ReadInv /\ [Next]_vars => ReadInv'
  <2> SUFFICES ASSUME Types, ReadInv, [Next]_vars, Reading' PROVE ReadControl' /\ ReadData' /\ ReadLine'
    BY Zenon DEF ReadInv
  <2>1. CASE \E n \in ReadSizes : ReadIT(n)
    BY <2>1, ReadBegins, Zenon
  <2>2. CASE \E n \in MessageSizes : TransmitIT(n)
    <3>1. last' = "Transmit"
      BY <2>2, Zenon DEF TransmitIT, Begin
    <3>2. QED
      BY <3>1 DEF Reading
  <2>3. CASE Goes
    <3>1. UNCHANGED history
      BY <2>3, Zenon DEF Goes, Caller, FirstByte, NVIC_EnableInterrupt, LoadCR1, StoreCR1, USART2_Interrupt,
         Load, ShiftOut, Arrive, Overrun, vars
    <3>2. Reading
      BY <3>1, Zenon DEF history, Reading
    <3>3. QED
      BY <2>3, <3>2, ReadControlStep, ReadDataStep, Zenon DEF ReadInv
  <2>4. QED
    BY <2>1, <2>2, <2>3, Zenon DEF Next, Goes
<1>3. QED
  BY <1>1, <1>2, TypesInductive, PTL DEF Spec

(* When a reception that had the driver to itself is over, the buffer holds
   as many bytes as were asked for, in order, and nothing past them: for
   every size that fits rxLen and every number of bytes the receiver loses. *)
THEOREM ReadsAreWhole == Spec => []ReadIsWhole
<1>1. Types /\ ReadInv => ReadIsWhole
  <2> SUFFICES ASSUME Types, ReadInv, Ended("Read"), size \in 1 .. U8 - 1
               PROVE  /\ \A i \in DOMAIN rxBuffer : rxBuffer[i] # Unset <=> i \in 0 .. size - 1
                      /\ \A i \in 1 .. size - 1 :
                           IF lost = 0 THEN rxBuffer[i] = rxBuffer[i - 1] + 1
                                       ELSE rxBuffer[i] > rxBuffer[i - 1]
    BY Zenon DEF ReadIsWhole
  <2>1. ReadData /\ idxRX = size
    BY Zenon DEF ReadInv, Reading, Ended, ReadData
  <2>2. DOMAIN rxBuffer = -1 .. U8 - 1
    BY DEF Types, ReadTypes
  <2>3. \A i \in 1 .. size - 1 : Follows(rxBuffer[i - 1], rxBuffer[i])
    BY <2>1, Zenon DEF ReadData
  <2>4. ASSUME NEW i \in 1 .. size - 1
        PROVE  IF lost = 0 THEN rxBuffer[i] = rxBuffer[i - 1] + 1 ELSE rxBuffer[i] > rxBuffer[i - 1]
    <3>1. i \in -1 .. U8 - 1 /\ i - 1 \in -1 .. U8 - 1
      BY BoundsAreNumbers
    <3>2. rxBuffer[i] \in Int /\ rxBuffer[i - 1] \in Int
      BY <3>1 DEF Types, ReadTypes, Unset
    <3>3. QED
      BY <2>3, <3>2 DEF Follows
  <2>5. QED
    BY <2>1, <2>2, <2>4, Zenon DEF ReadData
<1>2. QED
  BY <1>1, TypesInductive, ReadInductive, PTL
=============================================================================
