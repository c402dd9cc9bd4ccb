-------------------------------- MODULE Nvic --------------------------------
(***************************************************************************)
(* NVIC_Drivers.cpp: the priority NVIC_SetInterruptPriority gives to an    *)
(* interrupt, and whether BASEPRI lets it through.  The priority registers *)
(* hold one byte for each of four interrupts, of which the processor       *)
(* implements the upper four bits; they are 0 after a reset.               *)
(***************************************************************************)
EXTENDS Naturals

(* A byte of a register of four. *)
Lane(word, n) == (word \div 2^(8 * n)) % 256

Implemented(priority) == (priority \div 16) * 16

(* A mutant: the priority is shifted by bytes, as the register is laid out. *)
SetInterruptPriorityByLane(IRn, priority) == priority * 2^(8 * (IRn % 4))

(* NVIC_IPR[IRn / 4] after priority << (IRn % 4): shifted by bits. *)
SetInterruptPriority(IRn, priority) == priority * 2^(IRn % 4)

PriorityOf(IRn, word) == Implemented(Lane(word, IRn % 4))

(* BASEPRI holds back its own priority and the less urgent ones; 0 is off. *)
HeldBack(priority, basepri) ==
  Implemented(basepri) # 0 /\ priority >= Implemented(basepri)

(***************************************************************************)
(* NVIC_INIT of main.h asks for the least urgent priority for USART2 and   *)
(* for BASEPRI alike.  Only the wrong shift keeps the interrupt alive: its *)
(* byte stays 0.                                                           *)
(***************************************************************************)
USART2_INT_POS == 38

USART2_Unmasked ==
  ~ HeldBack(PriorityOf(USART2_INT_POS, SetInterruptPriority(USART2_INT_POS, 255)), 255)
=============================================================================
