------------------------------ MODULE UsartIT ------------------------------
(***************************************************************************)
(* USART::TransmitIT, USART::ReadIT and USART2_Interrupt.  The caller of   *)
(* the two functions, the interrupt, the transmitter and the receiver take *)
(* steps of their own; the interrupt preempts the caller between any two   *)
(* accesses to the registers, and runs to its end.                         *)
(*                                                                         *)
(* A caller begins a call when currentState is USART_AVAILABLE, or in the  *)
(* other direction while a transfer is under way: the USART is configured  *)
(* full duplex.  main has sent its banner before, so TE is set and TC too. *)
(***************************************************************************)
EXTENDS Nvic, Integers, Sequences

CONSTANTS
  U8,                    (* how many values an uint8_t has                  *)
  USART_TX_BUFFER_SIZE,
  MessageSizes, ReadSizes,  (* what TransmitIT and ReadIT are called with   *)
  MaxLost                (* bound: bytes lost to overruns in one ReadIT     *)

VARIABLES
  pc, loaded,            (* the caller, and the CR1 it has read             *)
  currentState,
  txBuffer, idxTX, txLen,
  rxBuffer, idxRX, rxLen,
  CR1,                   (* the bits set: TXEIE, TCIE, RXNEIE and RE        *)
  enabled, pending,      (* USART2's bits in NVIC_ISER and NVIC_ISPR        *)
  tdr, shift, TC,        (* the transmitter, as in UsartPolling             *)
  rdr, coming, lost,     (* the receiver, as in UsartPolling                *)
  last, size, alone,     (* the last call; did it have the driver to itself? *)
  wire                   (* what has gone to the shift register since       *)

tx      == <<txBuffer, idxTX, txLen>>
rx      == <<rxBuffer, idxRX, rxLen>>
sender  == <<tdr, shift, TC, wire>>
receiver == <<rdr, coming, lost>>
history == <<last, size, alone>>
vars == <<pc, loaded, currentState, tx, rx, CR1, enabled, pending, sender, receiver, history>>

ASSUME ITAssumption ==
  /\ U8 \in Nat \ {0} /\ USART_TX_BUFFER_SIZE \in Nat /\ U8 <= USART_TX_BUFFER_SIZE
  /\ MessageSizes \subseteq Nat /\ ReadSizes \subseteq Nat
  /\ MaxLost \in Nat

Empty == -1
Unset == -1
TXE  == tdr = Empty
RXNE == rdr # Empty

(* The USART asks for its interrupt. *)
Line ==
  \/ TXE /\ "TXEIE" \in CR1
  \/ TC /\ "TCIE" \in CR1
  \/ RXNE /\ "RXNEIE" \in CR1

Latch == pending' = (pending \/ Line')

Preempted == pending /\ enabled /\ USART2_Unmasked

AtRest == CR1 \cap {"TXEIE", "RXNEIE"} = {}

Init ==
  /\ pc = "Idle" /\ loaded = {}
  /\ currentState = "USART_AVAILABLE"
  /\ txBuffer = [i \in 0 .. USART_TX_BUFFER_SIZE - 1 |-> 0] /\ idxTX = 0 /\ txLen = 0
  /\ rxBuffer = [i \in -1 .. U8 - 1 |-> Unset] /\ idxRX = 0 /\ rxLen = 0
  /\ CR1 = {} /\ enabled = FALSE /\ pending = FALSE
  /\ tdr = Empty /\ shift = Empty /\ TC = TRUE /\ wire = <<>>
  /\ rdr = Empty /\ coming = 1 /\ lost = 0
  /\ last = "None" /\ size = 0 /\ alone = TRUE

-----------------------------------------------------------------------------
(* The caller. *)
Begin(call, n) ==
  /\ currentState' = "USART_BUSY"
  /\ last' = call /\ size' = n /\ alone' = AtRest

(* The bytes of a message are numbered; what follows them stays. *)
m_memcpy(n) == [i \in DOMAIN txBuffer |-> IF i < n THEN i + 1 ELSE txBuffer[i]]

(* A refused message leaves the structure alone, but not the USART: the call
   goes on and sends a byte of an earlier one. *)
TransmitIT(n) ==
  /\ pc = "Idle" /\ ~ Preempted
  /\ currentState = "USART_AVAILABLE" \/ "TXEIE" \notin CR1
  /\ Begin("Transmit", n)
  /\ IF n \in 1 .. USART_TX_BUFFER_SIZE
     THEN /\ txBuffer' = m_memcpy(n)
          /\ idxTX' = 0 /\ txLen' = n % U8
     ELSE UNCHANGED tx
  /\ wire' = <<>> /\ pc' = "FirstByte"
  /\ UNCHANGED <<loaded, rx, CR1, enabled, pending, tdr, shift, TC, receiver>>

(* A mutant: the index is wider than a byte. *)
WriteDRWide ==
  /\ tdr' = txBuffer[idxTX] /\ idxTX' = idxTX + 1
  /\ TC' = FALSE
  /\ UNCHANGED <<txBuffer, txLen, shift, wire>>

(* DR after SR was read clears TC. *)
WriteDR ==
  /\ tdr' = txBuffer[idxTX] /\ idxTX' = (idxTX + 1) % U8
  /\ TC' = FALSE
  /\ UNCHANGED <<txBuffer, txLen, shift, wire>>

FirstByte ==
  /\ pc = "FirstByte" /\ ~ Preempted
  /\ TXE /\ WriteDR
  /\ pc' = "EnableTX"
  /\ UNCHANGED <<loaded, currentState, rx, CR1, enabled, receiver, history>>
  /\ Latch

(* The guard of ReadIT asks for a size that is too large and not positive:
   it refuses nothing. *)
ReadIT(n) ==
  /\ pc = "Idle" /\ ~ Preempted
  /\ currentState = "USART_AVAILABLE" \/ "RXNEIE" \notin CR1
  /\ Begin("Read", n)
  /\ rxBuffer' = [i \in DOMAIN rxBuffer |-> Unset]
  /\ idxRX' = 0 /\ rxLen' = n % U8
  /\ rdr' = (IF RXNE THEN 0 ELSE Empty) /\ coming' = 1 /\ lost' = 0
  /\ pc' = "EnableRX"
  /\ UNCHANGED <<loaded, tx, CR1, enabled, pending, sender>>

NVIC_EnableInterrupt ==
  /\ pc \in {"EnableTX", "EnableRX"} /\ ~ Preempted
  /\ enabled' = TRUE
  /\ pc' = IF pc = "EnableTX" THEN "LoadTX" ELSE "LoadRX"
  /\ UNCHANGED <<loaded, currentState, tx, rx, CR1, pending, sender, receiver, history>>

(* CR1 |= bits is a load and a store. *)
LoadCR1 ==
  /\ pc \in {"LoadTX", "LoadRX", "LoadRE"} /\ ~ Preempted
  /\ loaded' = CR1
  /\ pc' = CASE pc = "LoadTX" -> "StoreTX" [] pc = "LoadRX" -> "StoreRX" [] OTHER -> "StoreRE"
  /\ UNCHANGED <<currentState, tx, rx, CR1, enabled, pending, sender, receiver, history>>

StoreCR1 ==
  /\ ~ Preempted
  /\ \/ pc = "StoreTX" /\ CR1' = loaded \cup {"TXEIE", "TCIE"} /\ pc' = "Idle"
     \/ pc = "StoreRX" /\ CR1' = loaded \cup {"RXNEIE"} /\ pc' = "LoadRE"
     \/ pc = "StoreRE" /\ CR1' = loaded \cup {"RE"} /\ pc' = "Idle"
  /\ loaded' = {}
  /\ UNCHANGED <<currentState, tx, rx, enabled, sender, receiver, history>>
  /\ Latch

-----------------------------------------------------------------------------
(* The interrupt.  A transfer that ends disables the interrupt of both. *)
EndTransfer(bit) ==
  /\ CR1' = CR1 \ {bit}
  /\ enabled' = FALSE
  /\ currentState' = "USART_AVAILABLE"

(* A mutant: the last byte of a message is left out. *)
SentAByteOfFewer ==
  IF idxTX + 1 < txLen
  THEN WriteDR /\ UNCHANGED <<CR1, enabled, currentState>>
  ELSE EndTransfer("TXEIE") /\ UNCHANGED <<tx, sender>>

SentAByte ==
  IF idxTX < txLen
  THEN WriteDR /\ UNCHANGED <<CR1, enabled, currentState>>
  ELSE EndTransfer("TXEIE") /\ UNCHANGED <<tx, sender>>

(* A mutant: the index is incremented after the comparison. *)
ReceivedAByteLate ==
  /\ rxBuffer' = [rxBuffer EXCEPT ![idxRX] = rdr]
  /\ idxRX' = (idxRX + 1) % U8
  /\ rdr' = Empty
  /\ IF idxRX < rxLen THEN UNCHANGED <<CR1, enabled, currentState>>
                      ELSE EndTransfer("RXNEIE")
  /\ UNCHANGED <<rxLen, coming, lost>>

ReceivedAByte ==
  /\ idxRX' = (idxRX + 1) % U8
  /\ rxBuffer' = [rxBuffer EXCEPT ![idxRX' - 1] = rdr]
  /\ rdr' = Empty
  /\ IF idxRX' < rxLen THEN UNCHANGED <<CR1, enabled, currentState>>
                       ELSE EndTransfer("RXNEIE")
  /\ UNCHANGED <<rxLen, coming, lost>>

(* A mutant: an interrupt of an unknown source is disabled. *)
DisableUnknownSource ==
  /\ enabled' = FALSE
  /\ UNCHANGED <<currentState, tx, rx, CR1, sender, receiver>>

(* The end of a transmission is enabled as an interrupt, but not checked. *)
UnknownSource == UNCHANGED <<currentState, tx, rx, CR1, enabled, sender, receiver>>

USART2_Interrupt ==
  /\ Preempted
  /\ IF TXE /\ "TXEIE" \in CR1
     THEN SentAByte /\ UNCHANGED <<rx, receiver>>
     ELSE IF RXNE /\ "RXNEIE" \in CR1
     THEN ReceivedAByte /\ UNCHANGED <<tx, sender>>
     ELSE UnknownSource
  /\ UNCHANGED <<pc, loaded, history>>
  /\ pending' = Line'

-----------------------------------------------------------------------------
(* The hardware. *)
Load ==
  /\ ~ TXE /\ shift = Empty
  /\ shift' = tdr /\ tdr' = Empty /\ wire' = Append(wire, tdr)
  /\ UNCHANGED <<pc, loaded, currentState, tx, rx, CR1, enabled, TC, receiver, history>>
  /\ Latch

ShiftOut ==
  /\ shift # Empty
  /\ shift' = Empty /\ TC' = (TC \/ TXE)
  /\ UNCHANGED <<pc, loaded, currentState, tx, rx, CR1, enabled, tdr, wire, receiver, history>>
  /\ Latch

(* The bytes of a ReadIT are numbered while nothing overlaps it. *)
Expecting ==
  /\ last = "Read" /\ alone
  /\ pc \in {"EnableRX", "LoadRX", "StoreRX"} \/ "RXNEIE" \in CR1

Arrive ==
  /\ "RE" \in CR1 /\ ~ RXNE
  /\ IF Expecting THEN rdr' = coming /\ coming' = coming + 1
                  ELSE rdr' = 0 /\ UNCHANGED coming
  /\ UNCHANGED <<pc, loaded, currentState, tx, rx, CR1, enabled, sender, lost, history>>
  /\ Latch

Overrun ==
  /\ RXNE /\ Expecting /\ lost < MaxLost
  /\ lost' = lost + 1 /\ coming' = coming + 1
  /\ UNCHANGED <<pc, loaded, currentState, tx, rx, CR1, enabled, pending, sender, rdr, history>>

Caller == FirstByte \/ NVIC_EnableInterrupt \/ LoadCR1 \/ StoreCR1

Next ==
  \/ \E n \in MessageSizes : TransmitIT(n)
  \/ \E n \in ReadSizes : ReadIT(n)
  \/ Caller
  \/ USART2_Interrupt
  \/ Load \/ ShiftOut \/ Arrive \/ Overrun

Spec == Init /\ [][Next]_vars

(* The processor runs, the line moves, and the host sends what is read. *)
FairSpec ==
  /\ Spec
  /\ WF_vars(Caller) /\ WF_vars(USART2_Interrupt)
  /\ WF_vars(Load) /\ WF_vars(ShiftOut) /\ WF_vars(Arrive)
-----------------------------------------------------------------------------
TypeOK ==
  /\ pc \in {"Idle", "FirstByte", "EnableTX", "LoadTX", "StoreTX",
             "EnableRX", "LoadRX", "StoreRX", "LoadRE", "StoreRE"}
  /\ CR1 \subseteq {"TXEIE", "TCIE", "RXNEIE", "RE"} /\ loaded \subseteq CR1 \cup {"TXEIE", "RXNEIE"}
  /\ currentState \in {"USART_AVAILABLE", "USART_BUSY"}
  /\ idxTX \in 0 .. U8 - 1 /\ txLen \in 0 .. U8 - 1
  /\ txBuffer \in [0 .. USART_TX_BUFFER_SIZE - 1 -> 0 .. USART_TX_BUFFER_SIZE]
  /\ idxRX \in 0 .. U8 - 1 /\ rxLen \in 0 .. U8 - 1
  /\ rxBuffer \in [-1 .. U8 - 1 -> {Unset} \cup Nat]
  /\ enabled \in BOOLEAN /\ pending \in BOOLEAN /\ TC \in BOOLEAN
  /\ tdr \in {Empty} \cup 0 .. USART_TX_BUFFER_SIZE /\ shift \in {Empty} \cup 0 .. USART_TX_BUFFER_SIZE
  /\ rdr \in {Empty} \cup Nat /\ coming \in Nat \ {0} /\ lost \in 0 .. MaxLost
  /\ last \in {"None", "Transmit", "Read"} /\ size \in Nat /\ alone \in BOOLEAN
  /\ wire \in Seq(0 .. USART_TX_BUFFER_SIZE)

Ended(call) == currentState = "USART_AVAILABLE" /\ last = call /\ alone

(* When a transmission that had the driver to itself is over, its message
   has gone to the shift register, each byte once and in order, as long as
   its size fits txLen. *)
MessageIsWhole ==
  Ended("Transmit") /\ size \in 1 .. U8 - 1 => wire = [i \in 1 .. size |-> i]

(* When a reception that had the driver to itself is over, the caller's
   buffer holds size bytes in the order they came, none missing unless the
   receiver lost some, and nothing is written past them, as long as the size
   fits rxLen. *)
ReadIsWhole ==
  Ended("Read") /\ size \in 1 .. U8 - 1 =>
    /\ \A i \in DOMAIN rxBuffer : rxBuffer[i] # Unset <=> i \in 0 .. size - 1
    /\ \A i \in 1 .. size - 1 :
         IF lost = 0 THEN rxBuffer[i] = rxBuffer[i - 1] + 1 ELSE rxBuffer[i] > rxBuffer[i - 1]

(* "The entire message has been received, deactivate further interrupts
   triggered by RXNEIE" (UART_Driver.cpp:356): after a reception that had the
   driver to itself no byte interrupts any more. *)
NoInterruptAfterMessage == Ended("Read") => "RXNEIE" \notin CR1

(***************************************************************************)
(* TCIE is never cleared and the handler does not look at TC: after a      *)
(* message the interrupt asks again as soon as it has returned, whenever   *)
(* it is enabled.  The processor is caught in it when nothing can come in  *)
(* that the handler takes.                                                 *)
(***************************************************************************)
Caught ==
  /\ Preempted
  /\ TC /\ "TCIE" \in CR1 /\ "TXEIE" \notin CR1
  /\ "RXNEIE" \notin CR1 \/ (~ RXNE /\ "RE" \notin CR1)

(* No step gets the processor out of it: the call that enabled the interrupt
   never returns. *)
CaughtForGood == [][Caught => Caught' /\ pc' = pc]_vars

(* Every transfer ends, unless the processor is caught: with either call, of
   any size, alone or not. *)
TransfersEnd ==
  currentState = "USART_BUSY" ~> (currentState = "USART_AVAILABLE" \/ Caught)
=============================================================================
