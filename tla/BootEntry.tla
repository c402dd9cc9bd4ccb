----------------------------- MODULE BootEntry -----------------------------
(***************************************************************************)
(* From a reset to the application or to BootControl: Reset_Handler of the *)
(* startup code, the order in which main sets the drivers up, the window   *)
(* of BOOT_TIMEOUT ticks in which it looks at the button, the banner and   *)
(* JumpToUserApp, which the host's command reaches from BootControl too.   *)
(* The user, the SysTick interrupt and the processor take steps of their   *)
(* own, and the board may be reset at any time: RAM keeps what it holds    *)
(* then, registers do not.  In BootControl a session may rewrite sector 2, *)
(* which begins with the application's vectors, and frames are checked as  *)
(* ControlStructure.cpp does.                                              *)
(***************************************************************************)
EXTENDS CrcUnit, Nvic, FiniteSetsExt

CONSTANTS
  BOOT_TIMEOUT,
  BaudRates,     (* what USART2.Config may ask for                          *)
  Frames,        (* header and data bytes of the frames the host sends      *)
  MaxResets      (* bound: resets                                           *)

VARIABLES
  pc,            (* the function or statement that comes next               *)
  driver,        (* currentState of USART2, CRC and FLASH                   *)
  clocks,        (* peripherals whose clock is enabled                      *)
  baud_rate, BRR,     (* what was asked for, and the divider; 0 is none     *)
  SYST_CSR,      (* ENABLE and TICKINT of SysTick                           *)
  globalTime, currentTime,
  VTOR, sp,      (* whose vectors and whose stack: "Boot" or "User"; sp may *)
                 (* also be an erased word                                  *)
  early,         (* a tick was given to the application before it set up    *)
                 (* its RAM                                                 *)
  sector2,       (* the parts of the application that are in the flash      *)
  button,        (* is the button pressed?                                  *)
  held, touched, (* has it been all the time, or ever, since the reset?     *)
  asked,         (* has the host asked for the application since then?      *)
  rested,        (* no tick since the processor's last step                 *)
  verdict,       (* what came of the last frame                             *)
  resets

peripherals == <<driver, clocks, baud_rate, BRR>>
time  == <<SYST_CSR, globalTime, currentTime>>
core  == <<VTOR, sp, early>>
user  == <<button, held, touched, asked>>
vars  == <<pc, peripherals, time, core, sector2, user, rested, verdict, resets>>

(* One tick may fall between GetGlobalTime and the first look at the window:
   with a time-out of 1 the button would not be looked at. *)
ASSUME EntryAssumption ==
  /\ BOOT_TIMEOUT \in Nat \ {0, 1} /\ MaxResets \in Nat
  /\ BaudRates \subseteq Nat \ {0}
  /\ Frames \subseteq Seq(Byte)
  /\ \A f \in Frames : Len(f) >= 3 /\ MapThenSumSet(LAMBDA bit : 2^bit, f[3]) = Len(f) - 3

(* The words the vector table begins with, the initial stack pointer and the
   reset handler's address, and all the rest of the application.  It is
   programmed in this order, and a reset in an erase leaves any of it. *)
Parts == {"Stack", "Reset", "Code"}

(* RAM is not initialised by a reset: the drivers' states may be anything. *)
Leftover == [USART2 : {"BUSY", "AVAILABLE"}, CRC : {"BUSY", "AVAILABLE", "NOT_AVAILABLE"},
             FLASH : {"BUSY", "AVAILABLE"}]

NoVerdict == [intact |-> TRUE, result |-> "None"]

Init ==
  /\ pc = "init_stack" /\ driver \in Leftover /\ baud_rate = 0
  /\ clocks = {} /\ BRR = 0 /\ SYST_CSR = {} /\ VTOR = "Boot" /\ sp = "Boot" /\ early = FALSE
  /\ globalTime = 0 /\ currentTime = 0
  /\ sector2 \in SUBSET Parts
  /\ button \in BOOLEAN /\ held = button /\ touched = button /\ asked = FALSE
  /\ rested = TRUE /\ verdict = NoVerdict /\ resets = 0

(* A step of the processor. *)
Go(from, to) == pc = from /\ pc' = to /\ rested' = TRUE /\ UNCHANGED <<sector2, user, verdict, resets>>

-----------------------------------------------------------------------------
(* Reset_Handler *)
init_stack ==
  /\ Go("init_stack", "init_ram") /\ sp' = "Boot"
  /\ UNCHANGED <<peripherals, time, VTOR, early>>

(* .bss is zero, which is USART_BUSY; .data is copied from the flash. *)
init_ram ==
  /\ Go("init_ram", "call_ctors")
  /\ driver' = [USART2 |-> "BUSY", CRC |-> "NOT_AVAILABLE", FLASH |-> "AVAILABLE"]
  /\ globalTime' = 0
  /\ UNCHANGED <<clocks, baud_rate, BRR, SYST_CSR, currentTime, core>>

EnableClock(names) == clocks' = clocks \cup names

(* A mutant: the constructors are left out. *)
no_ctors ==
  /\ Go("call_ctors", "NVIC_INIT")
  /\ UNCHANGED <<peripherals, time, core>>

call_ctors ==
  /\ Go("call_ctors", "NVIC_INIT")
  /\ driver' = [driver EXCEPT !.USART2 = "AVAILABLE"]
  /\ UNCHANGED <<clocks, baud_rate, BRR, time, core>>

-----------------------------------------------------------------------------
(* main *)
NVIC_INIT ==
  /\ Go("NVIC_INIT", "FLASH_INIT")
  /\ UNCHANGED <<peripherals, time, core>>

FLASH_INIT ==
  /\ Go("FLASH_INIT", "GPIO_INIT")
  /\ driver' = [driver EXCEPT !.FLASH = "AVAILABLE"]
  /\ UNCHANGED <<clocks, baud_rate, BRR, time, core>>

(* A mutant: the port's clock is not enabled. *)
GPIO_INIT_WithoutClock ==
  /\ Go("GPIO_INIT", "USART_INIT")
  /\ UNCHANGED <<peripherals, time, core>>

GPIO_INIT ==
  /\ Go("GPIO_INIT", "USART_INIT")
  /\ EnableClock({"GPIOC"})
  /\ UNCHANGED <<driver, baud_rate, BRR, time, core>>

(* BaudrateLookUpTable: mantissa, fraction and rate; index 3 is the default. *)
BaudrateLookUpTable ==
  << <<833, 5, 1200>>, <<416, 11, 2400>>, <<104, 3, 9600>>, <<52, 1, 19200>>,
     <<26, 1, 38400>>, <<17, 6, 57600>>, <<8, 11, 115200>>, <<4, 5, 230400>>,
     <<2, 3, 460800>>, <<1, 1, 921600>> >>

EntryFor(rate) ==
  LET found == {i \in DOMAIN BaudrateLookUpTable : BaudrateLookUpTable[i][3] = rate}
  IN  IF found = {} THEN 3 ELSE CHOOSE i \in found : TRUE

(* Mutants: the mantissa is misplaced, the fraction is left out. *)
BRRMisplaced(rate) ==
  256 * BaudrateLookUpTable[EntryFor(rate)][1] + BaudrateLookUpTable[EntryFor(rate)][2]

BRRWithoutFraction(rate) == 16 * BaudrateLookUpTable[EntryFor(rate)][1]

(* ConfigBaudRate refuses a divided clock and OVER8.  Nothing writes either:
   the registers have their reset values and the refusal is not modelled. *)
BRRFor(rate) ==
  16 * BaudrateLookUpTable[EntryFor(rate)][1] + BaudrateLookUpTable[EntryFor(rate)][2]

(* Config and Init of USART2 do nothing while it is busy. *)
USART_INIT(rate) ==
  /\ Go("USART_INIT", "CRC_INIT")
  /\ IF driver.USART2 = "AVAILABLE"
     THEN baud_rate' = rate /\ BRR' = BRRFor(rate) /\ EnableClock({"USART2", "GPIOA"})
     ELSE UNCHANGED <<baud_rate, BRR, clocks>>
  /\ UNCHANGED <<driver, time, core>>

CRC_INIT ==
  /\ Go("CRC_INIT", "SetGlobalTimer")
  /\ EnableClock({"CRC"}) /\ driver' = [driver EXCEPT !.CRC = "AVAILABLE"]
  /\ UNCHANGED <<baud_rate, BRR, time, core>>

SetGlobalTimer ==
  /\ Go("SetGlobalTimer", "GetGlobalTime")
  /\ SYST_CSR' = {"TICKINT", "ENABLE"}
  /\ UNCHANGED <<peripherals, globalTime, currentTime, core>>

GetGlobalTime ==
  /\ Go("GetGlobalTime", "Window") /\ currentTime' = globalTime
  /\ UNCHANGED <<peripherals, SYST_CSR, globalTime, core>>

(* A mutant: the comparison lets one tick more pass. *)
WindowOneTickMore ==
  /\ Go("Window", IF globalTime <= currentTime + BOOT_TIMEOUT THEN "Button" ELSE "UserBanner")
  /\ UNCHANGED <<peripherals, time, core>>

Window ==
  /\ Go("Window", IF globalTime < currentTime + BOOT_TIMEOUT THEN "Button" ELSE "UserBanner")
  /\ UNCHANGED <<peripherals, time, core>>

(* A port without a clock reads as low, which is a pressed button. *)
GetUserButtonState == button \/ "GPIOC" \notin clocks

Button ==
  /\ Go("Button", IF GetUserButtonState THEN "BootBanner" ELSE "Window")
  /\ UNCHANGED <<peripherals, time, core>>

(* Transmit waits for flags that a USART without a clock never sets. *)
Banner ==
  /\ \/ Go("BootBanner", "BootControl")
     \/ Go("UserBanner", "SetVTOR")
  /\ "USART2" \in clocks
  /\ UNCHANGED <<peripherals, time, core>>

-----------------------------------------------------------------------------
(* JumpToUserApp.  The stack pointer and the entry are read from sector 2,
   whatever it holds. *)
SetVTOR ==
  /\ Go("SetVTOR", "SetStackPointer") /\ VTOR' = "User"
  /\ UNCHANGED <<peripherals, time, sp, early>>

(* A mutant: the stack stays the bootloader's. *)
KeepStackPointer ==
  /\ Go("SetStackPointer", "Jump")
  /\ UNCHANGED <<peripherals, time, core>>

SetStackPointer ==
  /\ Go("SetStackPointer", "Jump")
  /\ sp' = IF "Stack" \in sector2 THEN "User" ELSE "Erased"
  /\ UNCHANGED <<peripherals, time, VTOR, early>>

(* Where the jump ends.  An erased word leads nowhere, and the reset handler
   of an application without its code or its stack may do anything. *)
Landings ==
  IF "Reset" \notin sector2 THEN {"Fault"}
  ELSE IF "Code" \in sector2 /\ sp = "User" THEN {"App"} ELSE {"App", "Fault"}

Jump ==
  /\ \E landing \in Landings : Go("Jump", landing)
  /\ UNCHANGED <<peripherals, time, core>>

(* The application's reset handler sets up its RAM, and all else is its own
   business. *)
AppStarts ==
  /\ Go("App", "AppRuns")
  /\ UNCHANGED <<peripherals, time, core>>

-----------------------------------------------------------------------------
(* BootControl *)
Damaged(bytes, i, byte) == [bytes EXCEPT ![i] = byte]

(* One frame: header, data and checksum are read, and the checksum computed,
   unless the CRC driver is not available: it is then what the stack held. *)
ReceiveFrame(sent, received) ==
  /\ pc = "BootControl"
  /\ LET n == Len(sent) - CRC_SIZE
         receivedCRC == ReadCRC(SubSeq(received, n + 1, n + CRC_SIZE))
         computedCRC == IF "CRC" \in clocks
                        THEN ComputeCRC(SubSeq(received, 1, 3), SubSeq(received, 4, n))
                        ELSE {}
         Result(match) == IF match THEN "Accepted" ELSE "ST_WRONG_CRC"
     IN  \E match \in IF driver.CRC = "AVAILABLE" THEN {receivedCRC = computedCRC} ELSE BOOLEAN :
           verdict' = [intact |-> sent = received, result |-> Result(match)]
  /\ rested' = TRUE
  /\ UNCHANGED <<pc, peripherals, time, core, sector2, user, resets>>

(* The line damages at most one byte, and not the one that tells the length:
   Session has what follows from a frame cut at the wrong place. *)
Frame ==
  \E f \in Frames :
    LET sent == apply_4byte_crc(f)
    IN  \/ ReceiveFrame(sent, sent)
        \/ \E i \in DOMAIN sent \ {3}, byte \in Byte :
             ReceiveFrame(sent, Damaged(sent, i, byte))

(* A session erases sector 2 and programs it word by word, from its start. *)
Rewrite ==
  /\ pc = "BootControl" /\ driver.FLASH = "AVAILABLE"
  /\ \/ sector2' = {}
     \/ sector2 = {} /\ sector2' = {"Stack"}
     \/ sector2 = {"Stack"} /\ sector2' = {"Stack", "Reset"}
     \/ sector2 = {"Stack", "Reset"} /\ sector2' = Parts
  /\ rested' = TRUE
  /\ UNCHANGED <<pc, peripherals, time, core, user, verdict, resets>>

(* The host asks for the application: it is answered and started. *)
BootJumpToApplication ==
  /\ pc = "BootControl" /\ pc' = "SetVTOR"
  /\ asked' = TRUE /\ rested' = TRUE
  /\ UNCHANGED <<peripherals, time, core, sector2, button, held, touched, verdict, resets>>

-----------------------------------------------------------------------------
(* The processor makes a step between two ticks, a second apart.  Priority 0
   is never held back by BASEPRI. *)
TickEnabled == {"TICKINT", "ENABLE"} \subseteq SYST_CSR /\ ~ HeldBack(0, 255)

(* Once VTOR is switched the handler is the application's, if there is one,
   and it finds the RAM the bootloader has left: what it does is not known. *)
Systick_Interrupt ==
  /\ TickEnabled /\ rested /\ pc \notin {"AppRuns", "Fault"}
  /\ rested' = FALSE
  /\ IF VTOR = "Boot"
     THEN /\ globalTime' = IF pc = "BootControl" THEN globalTime ELSE globalTime + 1
          /\ UNCHANGED <<pc, early>>
     ELSE /\ pc' \in {pc, "Fault"} /\ early' = TRUE
          /\ UNCHANGED globalTime
  /\ UNCHANGED <<peripherals, SYST_CSR, currentTime, VTOR, sp, sector2, user, verdict, resets>>

(* The user. *)
Press ==
  /\ button' = ~ button
  /\ held' = (held /\ button') /\ touched' = (touched \/ button')
  /\ UNCHANGED <<pc, peripherals, time, core, asked, sector2, rested, verdict, resets>>

(* A reset in BootControl may come in the middle of an erase. *)
Reset ==
  /\ resets < MaxResets /\ resets' = resets + 1
  /\ pc' = "init_stack"
  /\ clocks' = {} /\ BRR' = 0 /\ SYST_CSR' = {} /\ VTOR' = "Boot" /\ sp' = "Boot" /\ early' = FALSE
  /\ sector2' \in IF pc = "BootControl" THEN SUBSET sector2 ELSE {sector2}
  /\ held' = button /\ touched' = button /\ asked' = FALSE
  /\ rested' = TRUE /\ verdict' = NoVerdict
  /\ UNCHANGED <<driver, baud_rate, globalTime, currentTime, button>>

Processor ==
  \/ init_stack \/ init_ram \/ call_ctors
  \/ NVIC_INIT \/ FLASH_INIT \/ GPIO_INIT \/ (\E rate \in BaudRates : USART_INIT(rate))
  \/ CRC_INIT \/ SetGlobalTimer \/ GetGlobalTime
  \/ Window \/ Button \/ Banner
  \/ SetVTOR \/ SetStackPointer \/ Jump

Next ==
  \/ Processor
  \/ Frame \/ Rewrite \/ BootJumpToApplication
  \/ AppStarts
  \/ Systick_Interrupt
  \/ Press
  \/ Reset

Spec == Init /\ [][Next]_vars

(* The processor runs and the clock ticks; the user does as they please. *)
FairSpec == Spec /\ WF_vars(Processor) /\ WF_vars(Systick_Interrupt)
-----------------------------------------------------------------------------
InStartup == {"init_stack", "init_ram", "call_ctors"}
InSetUp   == {"NVIC_INIT", "FLASH_INIT", "GPIO_INIT", "USART_INIT", "CRC_INIT",
              "SetGlobalTimer", "GetGlobalTime"}
InWindow  == {"Window", "Button"}
ToControl == {"BootBanner", "BootControl"}
ToUser    == {"UserBanner", "SetVTOR", "SetStackPointer", "Jump", "App", "AppRuns", "Fault"}

HalfWord == 0 .. 65535   \* what the baud rate register holds

TypeOK ==
  /\ pc \in InStartup \cup InSetUp \cup InWindow \cup ToControl \cup ToUser
  /\ driver \in Leftover
  /\ clocks \subseteq {"GPIOC", "GPIOA", "USART2", "CRC"}
  /\ baud_rate \in BaudRates \cup {0} /\ BRR \in HalfWord
  /\ SYST_CSR \subseteq {"TICKINT", "ENABLE"}
  /\ globalTime \in Nat /\ currentTime \in Nat
  /\ VTOR \in {"Boot", "User"} /\ sp \in {"Boot", "User", "Erased"} /\ early \in BOOLEAN
  /\ sector2 \subseteq Parts
  /\ button \in BOOLEAN /\ held \in BOOLEAN /\ touched \in BOOLEAN
  /\ asked \in BOOLEAN /\ rested \in BOOLEAN
  /\ verdict \in [intact : BOOLEAN, result : {"None", "Accepted", "ST_WRONG_CRC"}]
  /\ resets \in 0 .. MaxResets

(* A button held from the reset on always leads to BootControl, whatever
   sector 2 holds and whatever a fault or a half programmed application did
   before: the board can be recovered, and only the host's command leads on.
   One that is never pressed leads to the application. *)
ButtonDecides ==
  /\ pc \in ToUser => ~ held \/ asked
  /\ pc \in ToControl => touched

(* A whole application is entered as if after a reset of its own, with its
   vectors and on its stack, whether main starts it or the host does right
   after programming it.  All that can still go wrong is a tick between
   SetVTOR and the end of its reset handler: SysTick is left running, and the
   application's handler then finds RAM that is not set up. *)
WholeAppIsEntered ==
  sector2 = Parts =>
    /\ pc \in {"App", "AppRuns"} => VTOR = "User" /\ sp = "User"
    /\ pc = "Fault" => early

(* A frame is accepted exactly when it came as it was sent: the script's
   checksum, which has no width, and the board's agree, a damaged byte is
   always noticed, and the CRC driver is set up before the first frame. *)
VerdictIsRight == verdict # NoVerdict => (verdict.result = "Accepted" <=> verdict.intact)

(* When main talks the line runs within 2.5 % of the rate it was set to; a
   rate that is not in the table is served as 9600. *)
MCU_CLOCK_SPEED_HZ == 16000000
Within(rate) ==
  LET error == MCU_CLOCK_SPEED_HZ - BRR * rate
  IN  40 * error <= MCU_CLOCK_SPEED_HZ /\ 40 * error >= - MCU_CLOCK_SPEED_HZ

LineRate ==
  pc \in InWindow \cup ToControl \cup ToUser =>
    IF \E i \in DOMAIN BaudrateLookUpTable : BaudrateLookUpTable[i][3] = baud_rate
    THEN Within(baud_rate) ELSE Within(9600)

(* The user has the whole window to press the button: the clock it is measured
   with runs, the application is not started before its end unless the host
   asks for it, and it lasts at most a tick longer. *)
WindowIsOnTime ==
  /\ pc \in InWindow => TickEnabled /\ globalTime <= currentTime + BOOT_TIMEOUT + 1
  /\ pc \in ToUser => globalTime >= currentTime + BOOT_TIMEOUT \/ asked

(* After a reset main decides: no wait of its set-up or of its window is for
   something that does not come. *)
MainDecides == pc = "init_stack" ~> pc \in {"BootControl", "App", "Fault"}
=============================================================================
