-------------------------- MODULE BootEntry_proofs --------------------------
(***************************************************************************)
(* The way from a reset to the application or to BootControl, for every    *)
(* time-out of more than one tick, every baud rate and any number of       *)
(* resets.                                                                 *)
(***************************************************************************)
EXTENDS BootEntry, WellFoundedInduction, SequenceTheorems, TLAPS

-----------------------------------------------------------------------------
Divider(i) == 16 * BaudrateLookUpTable[i][1] + BaudrateLookUpTable[i][2]

Fits(n) == n \in HalfWord

(* Within, of any divider. *)
CloseTo(divider, rate) ==
  LET error == MCU_CLOCK_SPEED_HZ - divider * rate
  IN  40 * error <= MCU_CLOCK_SPEED_HZ /\ 40 * error >= - MCU_CLOCK_SPEED_HZ

RowIsClose(i) == Fits(Divider(i)) /\ CloseTo(Divider(i), BaudrateLookUpTable[i][3])

(* Every row of the look-up table gives a divider within 2.5 % of its rate,
   and one that fits the register. *)
LEMMA RowsAreClose == \A i \in DOMAIN BaudrateLookUpTable : RowIsClose(i)
<1>1. DOMAIN BaudrateLookUpTable = 1 .. 10
  BY DEF BaudrateLookUpTable
<1>2. SUFFICES ASSUME NEW i \in 1 .. 10 PROVE RowIsClose(i)
  BY <1>1
<1>3. CASE i = 1
  BY <1>3 DEF RowIsClose, Fits, HalfWord, CloseTo, Divider, BaudrateLookUpTable, MCU_CLOCK_SPEED_HZ
<1>4. CASE i = 2
  BY <1>4 DEF RowIsClose, Fits, HalfWord, CloseTo, Divider, BaudrateLookUpTable, MCU_CLOCK_SPEED_HZ
<1>5. CASE i = 3
  BY <1>5 DEF RowIsClose, Fits, HalfWord, CloseTo, Divider, BaudrateLookUpTable, MCU_CLOCK_SPEED_HZ
<1>6. CASE i = 4
  BY <1>6 DEF RowIsClose, Fits, HalfWord, CloseTo, Divider, BaudrateLookUpTable, MCU_CLOCK_SPEED_HZ
<1>7. CASE i = 5
  BY <1>7 DEF RowIsClose, Fits, HalfWord, CloseTo, Divider, BaudrateLookUpTable, MCU_CLOCK_SPEED_HZ
<1>8. CASE i = 6
  BY <1>8 DEF RowIsClose, Fits, HalfWord, CloseTo, Divider, BaudrateLookUpTable, MCU_CLOCK_SPEED_HZ
<1>9. CASE i = 7
  BY <1>9 DEF RowIsClose, Fits, HalfWord, CloseTo, Divider, BaudrateLookUpTable, MCU_CLOCK_SPEED_HZ
<1>10. CASE i = 8
  BY <1>10 DEF RowIsClose, Fits, HalfWord, CloseTo, Divider, BaudrateLookUpTable, MCU_CLOCK_SPEED_HZ
<1>11. CASE i = 9
  BY <1>11 DEF RowIsClose, Fits, HalfWord, CloseTo, Divider, BaudrateLookUpTable, MCU_CLOCK_SPEED_HZ
<1>12. CASE i = 10
  BY <1>12 DEF RowIsClose, Fits, HalfWord, CloseTo, Divider, BaudrateLookUpTable, MCU_CLOCK_SPEED_HZ
<1>13. QED
  BY <1>3, <1>4, <1>5, <1>6, <1>7, <1>8, <1>9, <1>10, <1>11, <1>12

(* The entry a rate finds is its own, or that of 9600. *)
LEMMA EntryFound ==
  ASSUME NEW rate
  PROVE  /\ EntryFor(rate) \in DOMAIN BaudrateLookUpTable
         /\ IF \E i \in DOMAIN BaudrateLookUpTable : BaudrateLookUpTable[i][3] = rate
            THEN BaudrateLookUpTable[EntryFor(rate)][3] = rate
            ELSE BaudrateLookUpTable[EntryFor(rate)][3] = 9600
<1>1. 3 \in DOMAIN BaudrateLookUpTable /\ BaudrateLookUpTable[3][3] = 9600
  BY DEF BaudrateLookUpTable
<1>2. CASE \E i \in DOMAIN BaudrateLookUpTable : BaudrateLookUpTable[i][3] = rate
  <2> DEFINE found == {i \in DOMAIN BaudrateLookUpTable : BaudrateLookUpTable[i][3] = rate}
  <2>1. found # {}
    BY <1>2
  <2>2. EntryFor(rate) = CHOOSE i \in found : TRUE
    BY <2>1 DEF EntryFor
  <2>3. EntryFor(rate) \in found
    <3> HIDE DEF found
    <3> QED
      BY <2>1, <2>2
  <2>4. QED
    BY <1>2, <2>3
<1>3. CASE ~ \E i \in DOMAIN BaudrateLookUpTable : BaudrateLookUpTable[i][3] = rate
  <2>1. EntryFor(rate) = 3
    BY <1>3 DEF EntryFor
  <2>2. QED
    BY <1>1, <1>3, <2>1
<1>4. QED
  BY <1>2, <1>3

LEMMA DividerFits == \A rate \in BaudRates : Fits(BRRFor(rate))
<1>1. SUFFICES ASSUME NEW rate \in BaudRates PROVE Fits(BRRFor(rate))
  OBVIOUS
<1>2. BRRFor(rate) = Divider(EntryFor(rate))
  BY Zenon DEF BRRFor, Divider
<1>3. EntryFor(rate) \in DOMAIN BaudrateLookUpTable
  BY EntryFound
<1>4. QED
  BY <1>2, <1>3, RowsAreClose, Zenon DEF RowIsClose

-----------------------------------------------------------------------------
Places == pc \in InStartup \cup InSetUp \cup InWindow \cup ToControl \cup ToUser

DriverTypes == driver \in Leftover /\ clocks \subseteq {"GPIOC", "GPIOA", "USART2", "CRC"}

LineTypes == baud_rate \in BaudRates \cup {0} /\ Fits(BRR)

TimeTypes == SYST_CSR \subseteq {"TICKINT", "ENABLE"} /\ globalTime \in Nat /\ currentTime \in Nat

CoreTypes == VTOR \in {"Boot", "User"} /\ sp \in {"Boot", "User", "Erased"} /\ early \in BOOLEAN

BoardTypes == sector2 \subseteq Parts /\ resets \in 0 .. MaxResets

TruthTypes ==
  /\ button \in BOOLEAN /\ held \in BOOLEAN /\ touched \in BOOLEAN
  /\ asked \in BOOLEAN /\ rested \in BOOLEAN
  /\ verdict \in [intact : BOOLEAN, result : {"None", "Accepted", "ST_WRONG_CRC"}]

LEMMA BoundsAreNumbers ==
  /\ BOOT_TIMEOUT \in Nat /\ BOOT_TIMEOUT >= 2 /\ MaxResets \in Nat
  /\ BaudRates \subseteq Nat \ {0}
<1>1. BOOT_TIMEOUT \in Nat \ {0, 1} /\ MaxResets \in Nat /\ BaudRates \subseteq Nat \ {0}
  BY EntryAssumption, Zenon
<1>2. QED
  BY <1>1

LEMMA LandingsAre == Landings \subseteq {"App", "Fault"}
BY DEF Landings

(* Which steps can change what. *)
LEMMA WhoChanges ==
  ASSUME [Next]_vars
  PROVE  /\ \/ UNCHANGED <<driver, clocks>>
            \/ init_ram \/ call_ctors \/ FLASH_INIT \/ GPIO_INIT \/ CRC_INIT \/ Reset
            \/ \E rate \in BaudRates : USART_INIT(rate)
         /\ UNCHANGED <<baud_rate, BRR>> \/ Reset \/ \E rate \in BaudRates : USART_INIT(rate)
         /\ UNCHANGED time \/ init_ram \/ SetGlobalTimer \/ GetGlobalTime \/ Systick_Interrupt \/ Reset
         /\ UNCHANGED core \/ init_stack \/ SetVTOR \/ SetStackPointer \/ Systick_Interrupt \/ Reset
         /\ UNCHANGED sector2 \/ Rewrite \/ Reset
         /\ UNCHANGED resets \/ Reset
         /\ UNCHANGED user \/ Press \/ BootJumpToApplication \/ Reset
<1>1. CASE Processor
  <2>1. UNCHANGED <<user, sector2, resets>>
    BY <1>1, Zenon DEF Processor, init_stack, init_ram, call_ctors, NVIC_INIT, FLASH_INIT, GPIO_INIT, USART_INIT,
       CRC_INIT, SetGlobalTimer, GetGlobalTime, Window, Button, Banner, SetVTOR, SetStackPointer, Jump, Go
  <2>2. \/ UNCHANGED <<driver, clocks>>
        \/ init_ram \/ call_ctors \/ FLASH_INIT \/ GPIO_INIT \/ CRC_INIT
        \/ \E rate \in BaudRates : USART_INIT(rate)
    BY <1>1, Zenon DEF Processor, init_stack, NVIC_INIT, SetGlobalTimer, GetGlobalTime, Window, Button, Banner,
       SetVTOR, SetStackPointer, Jump, peripherals
  <2>3. UNCHANGED <<baud_rate, BRR>> \/ \E rate \in BaudRates : USART_INIT(rate)
    BY <1>1, Zenon DEF Processor, init_stack, init_ram, call_ctors, NVIC_INIT, FLASH_INIT, GPIO_INIT,
       CRC_INIT, SetGlobalTimer, GetGlobalTime, Window, Button, Banner, SetVTOR, SetStackPointer, Jump, peripherals
  <2>4. UNCHANGED time \/ init_ram \/ SetGlobalTimer \/ GetGlobalTime
    BY <1>1, Zenon DEF Processor, init_stack, call_ctors, NVIC_INIT, FLASH_INIT, GPIO_INIT, USART_INIT,
       CRC_INIT, Window, Button, Banner, SetVTOR, SetStackPointer, Jump
  <2>5. UNCHANGED core \/ init_stack \/ SetVTOR \/ SetStackPointer
    BY <1>1, Zenon DEF Processor, init_ram, call_ctors, NVIC_INIT, FLASH_INIT, GPIO_INIT, USART_INIT,
       CRC_INIT, SetGlobalTimer, GetGlobalTime, Window, Button, Banner, Jump
  <2>6. QED
    BY <2>1, <2>2, <2>3, <2>4, <2>5, Zenon
<1>2. CASE Frame
  BY <1>2, Zenon DEF Frame, ReceiveFrame, peripherals
<1>3. CASE Rewrite
  BY <1>3, Zenon DEF Rewrite, peripherals
<1>4. CASE Systick_Interrupt
  BY <1>4, Zenon DEF Systick_Interrupt, peripherals
<1>5. CASE Press
  BY <1>5, Zenon DEF Press, peripherals
<1>6. CASE Reset
  BY <1>6, Zenon DEF Reset
<1>7. CASE UNCHANGED vars
  BY <1>7, Zenon DEF vars, peripherals
<1>8. CASE BootJumpToApplication
  BY <1>8, Zenon DEF BootJumpToApplication, peripherals
<1>9. CASE AppStarts
  BY <1>9, Zenon DEF AppStarts, peripherals, Go
<1>10. QED
  BY <1>1, <1>2, <1>3, <1>4, <1>5, <1>6, <1>7, <1>8, <1>9, Zenon DEF Next

LEMMA PlacesStep ==
  ASSUME Places, [Next]_vars
  PROVE  Places'
<1> USE DEF Places, InStartup, InSetUp, InWindow, ToControl, ToUser, Go
<1>1. CASE init_stack \/ init_ram \/ call_ctors
  BY <1>1 DEF init_stack, init_ram, call_ctors
<1>2. CASE NVIC_INIT \/ FLASH_INIT \/ GPIO_INIT
  BY <1>2 DEF NVIC_INIT, FLASH_INIT, GPIO_INIT
<1>3. CASE \E rate \in BaudRates : USART_INIT(rate)
  BY <1>3 DEF USART_INIT
<1>4. CASE CRC_INIT \/ SetGlobalTimer \/ GetGlobalTime
  BY <1>4 DEF CRC_INIT, SetGlobalTimer, GetGlobalTime
<1>5. CASE Window \/ Button \/ Banner
  BY <1>5 DEF Window, Button, Banner
<1>6. CASE SetVTOR \/ SetStackPointer
  BY <1>6 DEF SetVTOR, SetStackPointer
<1>7. CASE Jump \/ AppStarts \/ BootJumpToApplication
  BY <1>7, LandingsAre DEF Jump, AppStarts, BootJumpToApplication
<1>8. CASE Frame
  <2>1. pc' = pc
    BY <1>8, Zenon DEF Frame, ReceiveFrame
  <2>2. QED
    BY <2>1
<1>9. CASE Rewrite \/ Press \/ UNCHANGED vars
  <2>1. pc' = pc
    BY <1>9, Zenon DEF Rewrite, Press, vars
  <2>2. QED
    BY <2>1
<1>10. CASE Systick_Interrupt
  BY <1>10 DEF Systick_Interrupt
<1>11. CASE Reset
  BY <1>11 DEF Reset
<1>12. QED
  BY <1>1, <1>2, <1>3, <1>4, <1>5, <1>6, <1>7, <1>8, <1>9, <1>10, <1>11 DEF Next, Processor

LEMMA DriverTypesStep ==
  ASSUME DriverTypes, [Next]_vars
  PROVE  DriverTypes'
<1> USE DEF DriverTypes, Leftover, EnableClock
<1>1. CASE init_ram \/ call_ctors
  BY <1>1 DEF init_ram, call_ctors
<1>2. CASE FLASH_INIT \/ GPIO_INIT
  BY <1>2 DEF FLASH_INIT, GPIO_INIT
<1>3. CASE CRC_INIT
  BY <1>3 DEF CRC_INIT
<1>4. CASE Reset
  BY <1>4 DEF Reset
<1>5. CASE \E rate \in BaudRates : USART_INIT(rate)
  BY <1>5 DEF USART_INIT
<1>6. CASE UNCHANGED <<driver, clocks>>
  BY <1>6
<1>7. QED
  BY <1>1, <1>2, <1>3, <1>4, <1>5, <1>6, WhoChanges

LEMMA LineTypesStep ==
  ASSUME LineTypes, [Next]_vars
  PROVE  LineTypes'
<1>1. baud_rate \in BaudRates \cup {0} /\ Fits(BRR)
  BY Zenon DEF LineTypes
<1>2. ASSUME NEW rate \in BaudRates, USART_INIT(rate)
      PROVE  baud_rate' \in BaudRates \cup {0} /\ Fits(BRR')
  <2>1. baud_rate' \in {rate, baud_rate} /\ BRR' \in {BRRFor(rate), BRR}
    BY <1>2, Zenon DEF USART_INIT
  <2>2. Fits(BRRFor(rate))
    BY DividerFits, Zenon
  <2>3. QED
    BY <1>1, <2>1, <2>2, Zenon
<1>3. ASSUME Reset \/ UNCHANGED <<baud_rate, BRR>>
      PROVE  baud_rate' \in BaudRates \cup {0} /\ Fits(BRR')
  <2>1. baud_rate' = baud_rate /\ BRR' \in {0, BRR}
    BY <1>3, Zenon DEF Reset
  <2>2. Fits(0)
    BY DEF Fits, HalfWord
  <2>3. QED
    BY <1>1, <2>1, <2>2, Zenon
<1>4. baud_rate' \in BaudRates \cup {0} /\ Fits(BRR')
  BY <1>2, <1>3, WhoChanges, Zenon
<1>5. QED
  BY <1>4, Zenon DEF LineTypes

LEMMA TimeTypesStep ==
  ASSUME TimeTypes, [Next]_vars
  PROVE  TimeTypes'
<1>1. CASE init_ram \/ SetGlobalTimer \/ GetGlobalTime
  <2>1. CASE init_ram
    BY <2>1 DEF TimeTypes, init_ram
  <2>2. CASE SetGlobalTimer
    BY <2>2 DEF TimeTypes, SetGlobalTimer
  <2>3. CASE GetGlobalTime
    BY <2>3 DEF TimeTypes, GetGlobalTime
  <2>4. QED
    BY <1>1, <2>1, <2>2, <2>3
<1>2. CASE Systick_Interrupt
  BY <1>2 DEF TimeTypes, Systick_Interrupt
<1>3. CASE Reset \/ UNCHANGED time
  BY <1>3 DEF TimeTypes, Reset, time
<1>4. QED
  BY <1>1, <1>2, <1>3, WhoChanges

LEMMA CoreTypesStep ==
  ASSUME CoreTypes, [Next]_vars
  PROVE  CoreTypes'
<1>1. CASE init_stack \/ SetVTOR \/ SetStackPointer
  BY <1>1 DEF CoreTypes, init_stack, SetVTOR, SetStackPointer, Go
<1>2. CASE Reset \/ Systick_Interrupt \/ UNCHANGED core
  BY <1>2 DEF CoreTypes, Reset, Systick_Interrupt, core
<1>3. QED
  BY <1>1, <1>2, WhoChanges

LEMMA BoardTypesStep ==
  ASSUME BoardTypes, [Next]_vars
  PROVE  BoardTypes'
<1>1. sector2' \subseteq Parts
  <2>1. CASE Rewrite \/ Reset
    BY <2>1 DEF Rewrite, Reset, Parts, BoardTypes
  <2>2. CASE UNCHANGED sector2
    BY <2>2 DEF BoardTypes
  <2>3. QED
    BY <2>1, <2>2, WhoChanges
<1>2. resets' \in 0 .. MaxResets
  <2>1. CASE Reset
    BY <2>1, BoundsAreNumbers DEF Reset, BoardTypes
  <2>2. CASE UNCHANGED resets
    BY <2>2 DEF BoardTypes
  <2>3. QED
    BY <2>1, <2>2, WhoChanges
<1>3. QED
  BY <1>1, <1>2 DEF BoardTypes

LEMMA FrameReceived ==
  ASSUME NEW sent, NEW received, ReceiveFrame(sent, received)
  PROVE  /\ verdict' \in [intact : BOOLEAN, result : {"None", "Accepted", "ST_WRONG_CRC"}]
         /\ rested' = TRUE /\ UNCHANGED <<button, held, touched, asked>>
<1>1. PICK match :
        verdict' = [intact |-> sent = received, result |-> IF match THEN "Accepted" ELSE "ST_WRONG_CRC"]
  BY Zenon DEF ReceiveFrame
<1>2. (IF match THEN "Accepted" ELSE "ST_WRONG_CRC") \in {"None", "Accepted", "ST_WRONG_CRC"}
  BY Zenon
<1>3. rested' = TRUE /\ UNCHANGED <<button, held, touched, asked>>
  BY Zenon DEF ReceiveFrame, user
<1>4. QED
  BY <1>1, <1>2, <1>3, Zenon

LEMMA TruthTypesStep ==
  ASSUME TruthTypes, [Next]_vars
  PROVE  TruthTypes'
<1>1. CASE Processor
  <2>1. rested' = TRUE /\ UNCHANGED <<button, held, touched, asked, verdict>>
    BY <1>1, Zenon DEF Processor, init_stack, init_ram, call_ctors, NVIC_INIT, FLASH_INIT, GPIO_INIT, USART_INIT,
       CRC_INIT, SetGlobalTimer, GetGlobalTime, Window, Button, Banner, SetVTOR, SetStackPointer, Jump, Go, user
  <2>2. QED
    BY <2>1, Zenon DEF TruthTypes
<1>2. CASE Frame
  <2>1. PICK sent, received : ReceiveFrame(sent, received)
    BY <1>2, Zenon DEF Frame
  <2>2. QED
    BY <2>1, FrameReceived, Zenon DEF TruthTypes
<1>3. CASE Rewrite
  BY <1>3, Zenon DEF TruthTypes, Rewrite, user
<1>4. CASE Systick_Interrupt
  BY <1>4, Zenon DEF TruthTypes, Systick_Interrupt, user
<1>5. CASE Press
  BY <1>5, Zenon DEF TruthTypes, Press
<1>6. CASE Reset
  BY <1>6, Zenon DEF TruthTypes, Reset, NoVerdict
<1>7. CASE UNCHANGED vars
  BY <1>7, Zenon DEF TruthTypes, vars, user
<1>8. CASE BootJumpToApplication
  BY <1>8, Zenon DEF TruthTypes, BootJumpToApplication
<1>9. CASE AppStarts
  BY <1>9, Zenon DEF TruthTypes, AppStarts, Go, user
<1>10. QED
  BY <1>1, <1>2, <1>3, <1>4, <1>5, <1>6, <1>7, <1>8, <1>9 DEF Next

(* Every variable keeps its type, for any number of resets. *)
THEOREM EntryTypeCorrect == Spec => []TypeOK
<1> DEFINE Types == /\ Places /\ DriverTypes /\ LineTypes /\ TimeTypes /\ CoreTypes
                    /\ BoardTypes /\ TruthTypes
<1>1. Init => Types
  <2> SUFFICES ASSUME Init PROVE Types
    OBVIOUS
  <2>1. Places /\ DriverTypes
    BY DEF Init, Places, DriverTypes, Leftover, InStartup
  <2>2. LineTypes /\ TimeTypes
    BY DEF Init, LineTypes, Fits, HalfWord, TimeTypes
  <2>3. BoardTypes
    BY BoundsAreNumbers DEF Init, BoardTypes
  <2>4. CoreTypes /\ TruthTypes
    BY Zenon DEF Init, CoreTypes, TruthTypes, NoVerdict
  <2>5. QED
    BY <2>1, <2>2, <2>3, <2>4
<1>2. Types /\ [Next]_vars => Types'
  BY PlacesStep, DriverTypesStep, LineTypesStep, TimeTypesStep, CoreTypesStep, BoardTypesStep,
     TruthTypesStep
<1>3. Types => TypeOK
  BY DEF Places, DriverTypes, LineTypes, Fits, TimeTypes, CoreTypes, BoardTypes, TruthTypes, TypeOK
<1>4. QED
  BY <1>1, <1>2, <1>3, PTL DEF Spec
-----------------------------------------------------------------------------
(* Where main comes from. *)
Switched == {"SetStackPointer", "Jump", "App", "AppRuns", "Fault"}
SetUp    == {"NVIC_INIT", "FLASH_INIT", "GPIO_INIT", "USART_INIT"}
Served   == {"CRC_INIT", "SetGlobalTimer", "GetGlobalTime"} \cup InWindow \cup ToControl \cup ToUser

(* The vector table is the bootloader's until main switches. *)
VectorsInv == pc \notin Switched => VTOR = "Boot"

ComesFrom ==
  /\ pc' \in SetUp => pc \in SetUp \/ call_ctors
  /\ pc' = "USART_INIT" => pc = "USART_INIT" \/ GPIO_INIT
  /\ pc' \in Served => pc \in Served \/ \E rate \in BaudRates : USART_INIT(rate)
  /\ pc' \in ToControl => pc \in ToControl \/ Button
  /\ pc' \in ToUser => pc \in ToUser \/ Window \/ BootJumpToApplication
  /\ pc' = "Window" =>
       \/ GetGlobalTime \/ Button
       \/ pc = "Window" /\ (Systick_Interrupt \/ Press \/ UNCHANGED vars)
  /\ pc' = "Fault" => pc = "Fault" \/ Jump \/ Systick_Interrupt
  /\ pc' \notin Switched => pc \notin Switched \/ Reset

LEMMA Moves ==
  ASSUME VectorsInv, [Next]_vars
  PROVE  ComesFrom
<1> USE DEF ComesFrom, Switched, SetUp, Served, InWindow, ToControl, ToUser, Go
<1>1. CASE init_stack \/ init_ram \/ call_ctors
  BY <1>1 DEF init_stack, init_ram, call_ctors
<1>2. CASE NVIC_INIT \/ FLASH_INIT \/ GPIO_INIT
  BY <1>2 DEF NVIC_INIT, FLASH_INIT, GPIO_INIT
<1>3. CASE \E rate \in BaudRates : USART_INIT(rate)
  <2>1. pc' = "CRC_INIT"
    BY <1>3 DEF USART_INIT
  <2>2. /\ pc' \notin SetUp /\ pc' \notin ToControl /\ pc' \notin ToUser
        /\ pc' # "Window" /\ pc' # "Fault" /\ pc' # "USART_INIT"
    BY <2>1
  <2>3. pc \notin Switched
    BY <1>3 DEF USART_INIT
  <2> HIDE DEF Served, SetUp, ToControl, ToUser, Switched
  <2>4. QED
    BY <1>3, <2>2, <2>3, Zenon
<1>4. CASE CRC_INIT \/ SetGlobalTimer \/ GetGlobalTime
  <2>1. CASE CRC_INIT
    BY <2>1 DEF CRC_INIT
  <2>2. CASE SetGlobalTimer
    BY <2>2 DEF SetGlobalTimer
  <2>3. CASE GetGlobalTime
    <3>1. pc = "GetGlobalTime" /\ pc' = "Window"
      BY <2>3 DEF GetGlobalTime
    <3>2. /\ pc \in Served /\ pc \notin Switched /\ pc' \notin SetUp
          /\ pc' \notin ToControl /\ pc' \notin ToUser /\ pc' # "Fault" /\ pc' # "USART_INIT"
      BY <3>1
    <3> HIDE DEF Served, SetUp, ToControl, ToUser, Switched
    <3>3. QED
      BY <2>3, <3>2, Zenon
  <2>4. QED
    BY <1>4, <2>1, <2>2, <2>3
<1>5. CASE Window
  BY <1>5 DEF Window
<1>6. CASE Button
  <2>1. pc = "Button" /\ pc' \in {"BootBanner", "Window"}
    BY <1>6 DEF Button
  <2>2. /\ pc \in Served /\ pc \notin Switched /\ pc' \notin SetUp
        /\ pc' \notin ToUser /\ pc' # "Fault" /\ pc' # "USART_INIT"
    BY <2>1
  <2> HIDE DEF Served, SetUp, ToControl, ToUser, Switched
  <2>3. QED
    BY <1>6, <2>2, Zenon
<1>7. CASE Banner
  BY <1>7 DEF Banner
<1>8. CASE SetVTOR \/ SetStackPointer
  BY <1>8 DEF SetVTOR, SetStackPointer
<1>9. CASE Jump \/ AppStarts
  <2>1. CASE Jump
    <3>1. pc = "Jump" /\ pc' \in {"App", "Fault"}
      BY <2>1, LandingsAre DEF Jump
    <3>2. QED
      BY <2>1, <3>1
  <2>2. CASE AppStarts
    BY <2>2 DEF AppStarts
  <2>3. QED
    BY <1>9, <2>1, <2>2
<1>10. CASE Frame \/ Rewrite
  <2>1. pc = "BootControl" /\ pc' = pc
    BY <1>10, Zenon DEF Frame, ReceiveFrame, Rewrite
  <2>2. QED
    BY <2>1
<1>11. CASE Systick_Interrupt
  <2>1. pc' = pc \/ (pc \in Switched /\ pc' = "Fault")
    BY <1>11 DEF Systick_Interrupt, VectorsInv
  <2>2. QED
    BY <1>11, <2>1
<1>12. CASE Press \/ UNCHANGED vars
  <2>1. pc' = pc
    BY <1>12, Zenon DEF Press, vars
  <2>2. QED
    BY <1>12, <2>1
<1>13. CASE Reset
  <2>1. pc' = "init_stack"
    BY <1>13 DEF Reset
  <2>2. QED
    BY <1>13, <2>1
<1>14. CASE BootJumpToApplication
  <2>1. pc = "BootControl" /\ pc' = "SetVTOR"
    BY <1>14 DEF BootJumpToApplication
  <2>2. /\ pc \in Served /\ pc \notin Switched /\ pc' \notin SetUp /\ pc' \notin ToControl
        /\ pc' # "Window" /\ pc' # "Fault" /\ pc' # "USART_INIT"
    BY <2>1
  <2> HIDE DEF Served, SetUp, ToControl, ToUser, Switched
  <2>3. QED
    BY <1>14, <2>2, Zenon
<1>15. QED
  BY <1>1, <1>2, <1>3, <1>4, <1>5, <1>6, <1>7, <1>8, <1>9, <1>10, <1>11, <1>12, <1>13, <1>14, Zenon
  DEF Next, Processor

LEMMA VectorsStep ==
  ASSUME ComesFrom, VectorsInv, [Next]_vars
  PROVE  VectorsInv'
<1>1. CASE Reset
  BY <1>1 DEF Reset, VectorsInv
<1>2. CASE SetVTOR
  BY <1>2 DEF SetVTOR, Go, VectorsInv, Switched
<1>3. CASE init_stack \/ SetStackPointer \/ Systick_Interrupt \/ UNCHANGED core
  <2>1. VTOR' = VTOR
    BY <1>3, Zenon DEF init_stack, SetStackPointer, Systick_Interrupt, core
  <2>2. CASE ~ Reset
    BY <2>1, <2>2 DEF VectorsInv, ComesFrom
  <2>3. QED
    BY <1>1, <2>2
<1>4. QED
  BY <1>1, <1>2, <1>3, WhoChanges, Zenon

-----------------------------------------------------------------------------
(* The line.  Once USART2 has been constructed it is available when main
   configures it, and it stays as configured. *)
LineInv ==
  /\ pc \in SetUp => driver.USART2 = "AVAILABLE"
  /\ pc \in Served => BRR = BRRFor(baud_rate)

LEMMA LineStep ==
  ASSUME ComesFrom, DriverTypes, LineInv, [Next]_vars
  PROVE  LineInv'
<1>1. ASSUME pc' \in SetUp PROVE driver'.USART2 = "AVAILABLE"
  <2>1. CASE call_ctors
    BY <2>1 DEF call_ctors, DriverTypes, Leftover
  <2>2. CASE pc \in SetUp
    <3>1. CASE init_ram \/ Reset
      BY <1>1, <3>1 DEF init_ram, Reset, Go, SetUp
    <3>2. CASE FLASH_INIT \/ GPIO_INIT \/ CRC_INIT
      BY <2>2, <3>2 DEF FLASH_INIT, GPIO_INIT, CRC_INIT, DriverTypes, Leftover, LineInv
    <3>3. CASE UNCHANGED <<driver, clocks>> \/ \E rate \in BaudRates : USART_INIT(rate)
      <4>1. driver' = driver
        BY <3>3, Zenon DEF USART_INIT
      <4>2. QED
        BY <2>2, <4>1 DEF LineInv
    <3>4. QED
      BY <2>1, <3>1, <3>2, <3>3, WhoChanges, Zenon
  <2>3. QED
    BY <1>1, <2>1, <2>2 DEF ComesFrom
<1>2. ASSUME pc' \in Served PROVE BRR' = BRRFor(baud_rate')
  <2>1. CASE \E rate \in BaudRates : USART_INIT(rate)
    <3>1. pc \in SetUp
      BY <2>1 DEF USART_INIT, Go, SetUp
    <3>2. QED
      BY <2>1, <3>1, Zenon DEF USART_INIT, LineInv
  <2>2. CASE Reset
    BY <1>2, <2>2 DEF Reset, Served, InWindow, ToControl, ToUser
  <2>3. CASE UNCHANGED <<baud_rate, BRR>> /\ pc \in Served
    BY <2>3, Zenon DEF LineInv
  <2>4. QED
    BY <1>2, <2>1, <2>2, <2>3, WhoChanges, Zenon DEF ComesFrom
<1>3. QED
  BY <1>1, <1>2, Zenon DEF LineInv

LEMMA LineHolds ==
  ASSUME LineInv
  PROVE  LineRate
<1> DEFINE Listed == \E i \in DOMAIN BaudrateLookUpTable : BaudrateLookUpTable[i][3] = baud_rate
           Right == IF Listed THEN Within(baud_rate) ELSE Within(9600)
<1>1. ASSUME pc \in Served PROVE Right
  <2>1. BRR = Divider(EntryFor(baud_rate))
    BY <1>1, Zenon DEF LineInv, BRRFor, Divider
  <2>2. EntryFor(baud_rate) \in DOMAIN BaudrateLookUpTable
    BY EntryFound
  <2>3. CloseTo(BRR, BaudrateLookUpTable[EntryFor(baud_rate)][3])
    BY <2>1, <2>2, RowsAreClose, Zenon DEF RowIsClose
  <2>4. \A rate : CloseTo(BRR, rate) => Within(rate)
    BY Zenon DEF CloseTo, Within
  <2>5. QED
    BY <2>3, <2>4, EntryFound
<1>2. pc \in InWindow \cup ToControl \cup ToUser => pc \in Served
  BY DEF Served
<1>3. QED
  BY <1>1, <1>2 DEF LineRate

-----------------------------------------------------------------------------
(* The button.  The port has its clock when the window begins, and the first
   look at it comes within a tick. *)
ButtonInv ==
  /\ held => button
  /\ button => touched

PortInv == pc \in Served \cup {"USART_INIT"} => "GPIOC" \in clocks

WindowInv ==
  pc = "Window" /\ held =>
    globalTime <= currentTime + 1 /\ (rested => globalTime <= currentTime)

LEMMA ButtonStep ==
  ASSUME ButtonInv, [Next]_vars
  PROVE  /\ ButtonInv'
         /\ ((held' => held) /\ (touched => touched') /\ (asked => asked')) \/ Reset
<1>1. CASE Press \/ BootJumpToApplication
  <2>1. CASE Press
    BY <2>1, Zenon DEF Press, ButtonInv
  <2>2. CASE BootJumpToApplication
    BY <2>2, Zenon DEF BootJumpToApplication, ButtonInv
  <2>3. QED
    BY <1>1, <2>1, <2>2
<1>2. CASE Reset
  BY <1>2, Zenon DEF Reset, ButtonInv
<1>3. CASE UNCHANGED user
  BY <1>3, Zenon DEF user, ButtonInv
<1>4. QED
  BY <1>1, <1>2, <1>3, WhoChanges, Zenon

LEMMA PortStep ==
  ASSUME ComesFrom, PortInv, [Next]_vars
  PROVE  PortInv'
<1>1. CASE Reset \/ init_ram \/ call_ctors \/ FLASH_INIT
  BY <1>1 DEF Reset, init_ram, call_ctors, FLASH_INIT, Go, PortInv, Served, InWindow, ToControl, ToUser
<1>2. CASE GPIO_INIT
  BY <1>2 DEF GPIO_INIT, EnableClock, PortInv
<1>3. CASE CRC_INIT \/ \E rate \in BaudRates : USART_INIT(rate)
  <2>1. pc \in Served \cup {"USART_INIT"}
    BY <1>3 DEF CRC_INIT, USART_INIT, Go, Served
  <2>2. clocks \subseteq clocks'
    BY <1>3 DEF CRC_INIT, USART_INIT, EnableClock
  <2>3. QED
    BY <2>1, <2>2 DEF PortInv
<1>4. CASE UNCHANGED <<driver, clocks>> /\ ~ GPIO_INIT
  <2>1. pc' \in Served => pc \in Served \cup {"USART_INIT"}
    BY DEF ComesFrom, USART_INIT, Go
  <2>2. pc' = "USART_INIT" => pc = "USART_INIT"
    BY <1>4 DEF ComesFrom
  <2>3. QED
    BY <1>4, <2>1, <2>2 DEF PortInv
<1>5. QED
  BY <1>1, <1>2, <1>3, <1>4, WhoChanges, Zenon

LEMMA WindowStep ==
  ASSUME ComesFrom, TimeTypes, ButtonInv, PortInv, WindowInv, [Next]_vars
  PROVE  WindowInv'
<1>1. SUFFICES ASSUME pc' = "Window", held'
               PROVE  (globalTime <= currentTime + 1 /\ (rested => globalTime <= currentTime))'
  BY Zenon DEF WindowInv
<1>2. ~ Reset
  BY <1>1 DEF Reset
<1>3. held
  BY <1>1, <1>2, ButtonStep, Zenon
<1>4. CASE GetGlobalTime
  BY <1>4 DEF GetGlobalTime, TimeTypes
<1>5. CASE Button
  <2>1. "GPIOC" \in clocks
    BY <1>5 DEF Button, Go, PortInv, Served, InWindow
  <2>2. GetUserButtonState
    BY <1>3, <2>1, Zenon DEF ButtonInv, GetUserButtonState
  <2>3. pc' = "BootBanner"
    BY <1>5, <2>2, Zenon DEF Button, Go
  <2>4. QED
    BY <1>1, <2>3
<1>6. CASE pc = "Window" /\ Systick_Interrupt
  <2>1. /\ globalTime' \in {globalTime, globalTime + 1} /\ currentTime' = currentTime
        /\ rested /\ ~ rested'
    BY <1>6, Zenon DEF Systick_Interrupt
  <2>2. globalTime <= currentTime
    BY <1>3, <1>6, <2>1, Zenon DEF WindowInv
  <2>3. QED
    BY <2>1, <2>2 DEF TimeTypes
<1>7. CASE pc = "Window" /\ (Press \/ UNCHANGED vars)
  <2>1. UNCHANGED <<globalTime, currentTime, rested>>
    BY <1>7, Zenon DEF Press, vars, time
  <2>2. QED
    BY <1>3, <1>7, <2>1, Zenon DEF WindowInv
<1>8. QED
  BY <1>1, <1>4, <1>5, <1>6, <1>7, Zenon DEF ComesFrom

LEMMA DecisionStep ==
  ASSUME ComesFrom, TimeTypes, ButtonInv, PortInv, WindowInv, ButtonDecides, [Next]_vars
  PROVE  ButtonDecides'
<1>1. ASSUME pc' \in ToUser, held', ~ asked' PROVE FALSE
  <2>1. ~ Reset
    BY <1>1 DEF Reset, ToUser
  <2>2. held
    BY <1>1, <2>1, ButtonStep, Zenon
  <2>3. pc \in ToUser \/ Window
    BY <1>1, Zenon DEF ComesFrom, BootJumpToApplication
  <2>4. CASE Window
    <3>1. ~ (globalTime < currentTime + BOOT_TIMEOUT) /\ pc = "Window"
      BY <1>1, <2>4 DEF Window, Go, ToUser
    <3>2. globalTime <= currentTime + 1
      BY <2>2, <3>1, Zenon DEF WindowInv
    <3>3. QED
      BY <3>1, <3>2, BoundsAreNumbers DEF TimeTypes
  <2>5. ~ asked
    BY <1>1, <2>1, ButtonStep, Zenon
  <2>6. QED
    BY <2>2, <2>3, <2>4, <2>5, Zenon DEF ButtonDecides
<1>2. ASSUME pc' \in ToControl PROVE touched'
  <2>1. ~ Reset
    BY <1>2 DEF Reset, ToControl
  <2>2. touched
    <3>1. CASE pc \in ToControl
      BY <3>1, Zenon DEF ButtonDecides
    <3>2. CASE Button
      <4>1. "GPIOC" \in clocks
        BY <3>2 DEF Button, Go, PortInv, Served, InWindow
      <4>2. GetUserButtonState
        BY <1>2, <3>2 DEF Button, Go, ToControl
      <4>3. QED
        BY <4>1, <4>2, Zenon DEF GetUserButtonState, ButtonInv
    <3>3. QED
      BY <1>2, <3>1, <3>2, Zenon DEF ComesFrom
  <2>3. QED
    BY <2>1, <2>2, ButtonStep, Zenon
<1>3. QED
  BY <1>1, <1>2, Zenon DEF ButtonDecides

-----------------------------------------------------------------------------
(* The jump.  What the processor runs with after each of its steps, and why
   the last of them cannot fault with a whole application in the flash. *)
HandOverInv ==
  /\ pc \in {"SetStackPointer", "Jump", "App", "AppRuns"} => VTOR = "User"
  /\ pc \in {"Jump", "App", "AppRuns"} => sp = IF "Stack" \in sector2 THEN "User" ELSE "Erased"
  /\ pc = "Fault" /\ sector2 = Parts => early

LEMMA WholeLanding ==
  ASSUME sector2 = Parts, sp = "User"
  PROVE  Landings = {"App"}
BY DEF Parts, Landings

LEMMA Elsewhere ==
  ASSUME pc' \notin Switched
  PROVE  HandOverInv'
BY DEF Switched, HandOverInv

LEMMA HandOverStep ==
  ASSUME HandOverInv, [Next]_vars
  PROVE  HandOverInv'
<1>1. CASE init_stack \/ init_ram \/ call_ctors \/ NVIC_INIT \/ FLASH_INIT \/ GPIO_INIT
  BY <1>1, Elsewhere DEF init_stack, init_ram, call_ctors, NVIC_INIT, FLASH_INIT, GPIO_INIT, Go, Switched
<1>2. CASE \E rate \in BaudRates : USART_INIT(rate)
  BY <1>2, Elsewhere DEF USART_INIT, Go, Switched
<1>3. CASE CRC_INIT \/ SetGlobalTimer \/ GetGlobalTime
  BY <1>3, Elsewhere DEF CRC_INIT, SetGlobalTimer, GetGlobalTime, Go, Switched
<1>4. CASE Window \/ Button \/ Banner
  BY <1>4, Elsewhere DEF Window, Button, Banner, Go, Switched
<1>5. CASE SetVTOR
  <2>1. pc' = "SetStackPointer" /\ VTOR' = "User"
    BY <1>5, Zenon DEF SetVTOR, Go
  <2>2. QED
    BY <2>1 DEF HandOverInv
<1>6. CASE SetStackPointer
  <2>1. /\ pc = "SetStackPointer" /\ pc' = "Jump" /\ VTOR' = VTOR /\ sector2' = sector2
        /\ sp' = IF "Stack" \in sector2 THEN "User" ELSE "Erased"
    BY <1>6, Zenon DEF SetStackPointer, Go
  <2>2. QED
    BY <2>1 DEF HandOverInv
<1>7. CASE Jump
  <2>1. pc = "Jump" /\ pc' \in Landings /\ UNCHANGED <<VTOR, sp, sector2>>
    BY <1>7, Zenon DEF Jump, Go, core
  <2>2. pc' \in {"App", "Fault"}
    BY <2>1, LandingsAre
  <2>3. VTOR' = "User" /\ sp' = IF "Stack" \in sector2' THEN "User" ELSE "Erased"
    BY <2>1 DEF HandOverInv
  <2>4. ASSUME pc' = "Fault", sector2' = Parts PROVE FALSE
    <3>1. sector2 = Parts /\ sp = "User"
      BY <2>1, <2>3, <2>4 DEF Parts
    <3>2. QED
      BY <2>1, <2>4, <3>1, WholeLanding
  <2>5. QED
    BY <2>2, <2>3, <2>4, Zenon DEF HandOverInv
<1>8. CASE AppStarts
  <2>1. pc = "App" /\ pc' = "AppRuns" /\ UNCHANGED <<VTOR, sp, sector2>>
    BY <1>8, Zenon DEF AppStarts, Go, core
  <2>2. QED
    BY <2>1 DEF HandOverInv
<1>9. CASE Frame \/ Rewrite \/ BootJumpToApplication
  <2>1. pc' \in {"BootControl", "SetVTOR"}
    <3>1. (pc = "BootControl" /\ pc' = pc) \/ pc' = "SetVTOR"
      BY <1>9, Zenon DEF Frame, ReceiveFrame, Rewrite, BootJumpToApplication
    <3>2. QED
      BY <3>1
  <2>2. QED
    BY <2>1, Elsewhere DEF Switched
<1>10. CASE Systick_Interrupt
  <2>1. pc # "Fault" /\ UNCHANGED <<VTOR, sp, sector2>>
    BY <1>10, Zenon DEF Systick_Interrupt
  <2>2. pc' = pc \/ (pc' = "Fault" /\ early')
    BY <1>10 DEF Systick_Interrupt
  <2>3. CASE pc' = pc
    BY <2>1, <2>3 DEF HandOverInv
  <2>4. CASE pc' = "Fault" /\ early'
    BY <2>4 DEF HandOverInv
  <2>5. QED
    BY <2>2, <2>3, <2>4
<1>11. CASE Press \/ UNCHANGED vars
  <2>1. UNCHANGED <<pc, VTOR, sp, early, sector2>>
    BY <1>11, Zenon DEF Press, vars, core
  <2>2. QED
    BY <2>1 DEF HandOverInv
<1>12. CASE Reset
  BY <1>12, Elsewhere DEF Reset, Switched
<1>13. QED
  BY <1>1, <1>2, <1>3, <1>4, <1>5, <1>6, <1>7, <1>8, <1>9, <1>10, <1>11, <1>12, Zenon
  DEF Next, Processor

LEMMA HandOverHolds ==
  ASSUME HandOverInv
  PROVE  WholeAppIsEntered
BY DEF HandOverInv, WholeAppIsEntered, Parts

-----------------------------------------------------------------------------
(* The checksum.  First induction and recursion over numbers. *)
(* From the library's theorem that every set of numbers has a smallest. *)
Less == OpToRel(<, Nat)

LEMMA Smallest ==
  ASSUME NEW T \in SUBSET Nat, T # {}
  PROVE  \E x \in T : \A y \in T : x <= y
<1>1. \A x, y \in Nat : <<x, y>> \in Less <=> x < y
  BY DEF Less, OpToRel
<1>2. IsWellFoundedOn(Less, Nat)
  BY NatLessThanWellFounded DEF Less
<1>3. \E x \in T : \A y \in T : ~ (<<y, x>> \in Less)
  BY <1>2, WFMin
<1>4. \A x, y \in T : ~ (<<y, x>> \in Less) => x <= y
  <2> SUFFICES ASSUME NEW x \in T, NEW y \in T, ~ (<<y, x>> \in Less) PROVE x <= y
    OBVIOUS
  <2>1. x \in Nat /\ y \in Nat
    OBVIOUS
  <2>2. ~ (y < x)
    BY <1>1, <2>1, Zenon
  <2>3. QED
    BY <2>1, <2>2
<1>5. QED
  BY <1>3, <1>4, Zenon

LEMMA Induction ==
  ASSUME NEW S \in SUBSET Nat, 0 \in S, \A n \in S : n + 1 \in S
  PROVE  S = Nat
<1>1. SUFFICES ASSUME Nat \ S # {} PROVE FALSE
  OBVIOUS
<1>2. PICK x \in Nat \ S : \A y \in Nat \ S : x <= y
  BY <1>1, Smallest
<1>3. x # 0 /\ x - 1 \in Nat /\ x - 1 \in S
  BY <1>2
<1>4. QED
  BY <1>2, <1>3

(* A set of numbers that contains 0 and, with each n below N, n + 1. *)
LEMMA InductionUpTo ==
  ASSUME NEW N \in Nat, NEW S, 0 \in S, \A n \in 0 .. N - 1 : n \in S => n + 1 \in S
  PROVE  0 .. N \subseteq S
<1> DEFINE T == {n \in Nat : n <= N => n \in S}
<1>1. 0 \in T /\ \A n \in T : n + 1 \in T
  OBVIOUS
<1>2. T = Nat
  <2> HIDE DEF T
  <2>1. T \in SUBSET Nat
    BY DEF T
  <2>2. QED
    BY <1>1, <2>1, Induction
<1>3. QED
  BY <1>2

(* A computation of N steps, F telling what each does. *)
Computes(N, start, F, r) == r[0] = start /\ \A n \in 1 .. N : r[n] = F[<<n, r[n - 1]>>]

LEMMA Recursion ==
  ASSUME NEW N \in Nat, NEW V, NEW start \in V, NEW F \in [(1 .. N) \X V -> V]
  PROVE  \E r \in [0 .. N -> V] : Computes(N, start, F, r)
<1> DEFINE Runs(k) == {r \in [0 .. k -> V] : r[0] = start /\ \A n \in 1 .. k : r[n] = F[<<n, r[n - 1]>>]}
           S == {k \in 0 .. N : Runs(k) # {}}
<1>1. 0 \in S
  <2>1. [n \in 0 .. 0 |-> start] \in Runs(0)
    OBVIOUS
  <2>2. QED
    BY <2>1
<1>2. ASSUME NEW k \in 0 .. N - 1, k \in S PROVE k + 1 \in S
  <2>1. PICK r : r \in Runs(k)
    BY <1>2
  <2> DEFINE q == [n \in 0 .. k + 1 |-> IF n <= k THEN r[n] ELSE F[<<k + 1, r[k]>>]]
  <2>2. r \in [0 .. k -> V] /\ r[0] = start /\ \A n \in 1 .. k : r[n] = F[<<n, r[n - 1]>>]
    BY <2>1
  <2>3. F[<<k + 1, r[k]>>] \in V
    <3>1. r[k] \in V
      BY <2>2
    <3>2. <<k + 1, r[k]>> \in (1 .. N) \X V
      BY <3>1
    <3>3. QED
      BY <3>2, Zenon
  <2>4. q \in [0 .. k + 1 -> V]
    BY <2>2, <2>3
  <2>5. q[0] = start
    BY <2>2
  <2>6. ASSUME NEW n \in 1 .. k + 1 PROVE q[n] = F[<<n, q[n - 1]>>]
    <3>1. q[n - 1] = r[n - 1]
      OBVIOUS
    <3>2. CASE n <= k
      <4>1. q[n] = r[n] /\ n \in 1 .. k
        BY <3>2
      <4>2. r[n] = F[<<n, r[n - 1]>>]
        BY <4>1, <2>2, Zenon
      <4> HIDE DEF q
      <4>3. QED
        BY <3>1, <4>1, <4>2, Zenon
    <3>3. CASE n = k + 1
      <4>1. q[k + 1] = F[<<k + 1, r[k]>>]
        <5>1. k + 1 \in 0 .. k + 1 /\ ~ (k + 1 <= k)
          OBVIOUS
        <5>2. QED
          BY <5>1, Zenon
      <4>2. n - 1 = k
        BY <3>3
      <4> HIDE DEF q
      <4>3. q[n - 1] = r[k]
        BY <3>1, <4>2, Zenon
      <4>4. QED
        BY <3>3, <4>1, <4>3, Zenon
    <3>4. QED
      BY <3>2, <3>3
  <2>7. q \in Runs(k + 1)
    <3> HIDE DEF q
    <3> QED
      BY <2>4, <2>5, <2>6
  <2>8. k + 1 \in 0 .. N
    OBVIOUS
  <2> HIDE DEF Runs
  <2>9. QED
    BY <2>7, <2>8
<1>3. N \in S
  <2> HIDE DEF S
  <2>1. 0 .. N \subseteq S
    BY <1>1, <1>2, InductionUpTo
  <2>2. QED
    BY <2>1
<1>4. PICK r : r \in Runs(N)
  BY <1>3
<1>5. QED
  BY <1>4 DEF Computes

LEMMA RunHasType ==
  ASSUME NEW N \in Nat, NEW V, NEW r, r[0] \in V, \A n \in 1 .. N : r[n - 1] \in V => r[n] \in V
  PROVE  \A n \in 0 .. N : r[n] \in V
<1> DEFINE S == {n \in 0 .. N : r[n] \in V}
<1>1. 0 \in S
  OBVIOUS
<1>2. ASSUME NEW n \in 0 .. N - 1, n \in S PROVE n + 1 \in S
  <2>1. n + 1 \in 1 .. N /\ n + 1 \in 0 .. N /\ (n + 1) - 1 = n
    OBVIOUS
  <2>2. QED
    BY <1>2, <2>1
<1> HIDE DEF S
<1>3. 0 .. N \subseteq S
  BY <1>1, <1>2, InductionUpTo
<1>4. QED
  BY <1>3 DEF S

-----------------------------------------------------------------------------
LEMMA Sizes ==
  /\ B \in Nat \ {0} /\ W \in Nat \ {0} /\ W - 1 \in Nat
  /\ POLY \subseteq 0 .. W - 1 /\ 0 \in POLY
  BY CrcAssumption

Bits == SUBSET Nat
Register == SUBSET (0 .. W - 1)

LEMMA HostBitIsBits ==
  ASSUME NEW c \in Bits
  PROVE  HostBit(c) \in Bits
<1>1. \A n \in Shifted(c) : n \in Nat
  BY DEF Shifted, Bits
<1>2. \A n \in Xor(Shifted(c), POLY) : n \in Nat
  <2>1. \A n \in POLY : n \in Nat
    BY Sizes
  <2>2. QED
    BY <1>1, <2>1, Zenon DEF Xor
<1>3. QED
  BY <1>1, <1>2 DEF HostBit, Bits

(* The recursive functions of the module have values. *)
LEMMA SeqLen == \A src \in Seq(Byte) : Len(src) \in Nat
  OBVIOUS

LEMMA BytesAre ==
  ASSUME NEW src \in Seq(Byte), NEW n \in 1 .. Len(src)
  PROVE  src[n] \in Byte
  OBVIOUS

LEMMA ByteIsBits ==
  /\ \A b \in Byte : b \in Bits /\ b \in Register
  /\ \A r \in Register : r \in Bits
<1>1. B <= W
  BY CrcAssumption
<1>2. QED
  BY <1>1, Sizes DEF Byte, Bits, Register

LEMMA XorIsRegister ==
  ASSUME NEW a \in Register, NEW b \in Byte
  PROVE  Xor(a, b) \in Register
<1>1. b \in Register
  BY ByteIsBits
<1>2. QED
  BY <1>1, Zenon DEF Xor, Register

LEMMA ShiftedBitIsRegister ==
  ASSUME NEW c \in Register
  PROVE  ShiftedBit(c) \in Register
<1>1. POLY \subseteq 0 .. W - 1
  BY Sizes
<1>2. QED
  BY <1>1, Zenon DEF ShiftedBit, Register, Cut, Xor

LEMMA HostByteRuns ==
  ASSUME NEW crc \in Bits, NEW data \in Bits
  PROVE  \E r \in [0 .. W -> Bits] :
           /\ r[0] = Xor(crc, data) /\ \A n \in 1 .. W : r[n] = HostBit(r[n - 1])
           /\ HostByte(crc, data) = r[W]
<1> DEFINE F == [p \in (1 .. W) \X Bits |-> HostBit(p[2])]
           Is(r) == r = [n \in 0 .. W |-> IF n = 0 THEN Xor(crc, data) ELSE HostBit(r[n - 1])]
<1>1. \A c \in Bits : HostBit(c) \in Bits
  BY HostBitIsBits
<1>2. Xor(crc, data) \in Bits
  BY DEF Xor, Bits
<1>3. F \in [(1 .. W) \X Bits -> Bits]
  BY <1>1
<1>4. PICK r \in [0 .. W -> Bits] : Computes(W, Xor(crc, data), F, r)
  <2>1. W \in Nat
    BY Sizes
  <2> HIDE DEF F
  <2>2. QED
    BY <1>2, <1>3, <2>1, Recursion
<1>5. Is(r)
  <2>1. ASSUME NEW n \in 1 .. W PROVE r[n] = HostBit(r[n - 1])
    <3>1. r[n] = F[<<n, r[n - 1]>>]
      BY <1>4 DEF Computes
    <3>2. n - 1 \in 0 .. W
      BY Sizes
    <3>3. r[n - 1] \in Bits
      BY <3>2
    <3>4. QED
      BY <3>1, <3>3
  <2>2. r[0] = Xor(crc, data)
    BY <1>4, Zenon DEF Computes
  <2>3. \A n \in 0 .. W : n # 0 => n \in 1 .. W
    BY Sizes
  <2>4. \A n \in 0 .. W : r[n] = IF n = 0 THEN Xor(crc, data) ELSE HostBit(r[n - 1])
    BY <2>1, <2>2, <2>3, Zenon
  <2>5. QED
    BY <2>4, Zenon
<1> DEFINE s == CHOOSE t : Is(t)
<1>6. Is(s)
  BY <1>5, Zenon
<1>7. HostByte(crc, data) = s[W]
  BY DEF HostByte
<1>8. s[0] = Xor(crc, data) /\ \A n \in 1 .. W : s[n] = HostBit(s[n - 1])
  <2> HIDE DEF s
  <2>1. \A n \in 0 .. W : s[n] = IF n = 0 THEN Xor(crc, data) ELSE HostBit(s[n - 1])
    BY <1>6, Zenon
  <2>2. 0 \in 0 .. W /\ \A n \in 1 .. W : n # 0 /\ n \in 0 .. W
    BY Sizes
  <2>3. QED
    BY <2>1, <2>2, Zenon
<1>9. s \in [0 .. W -> Bits]
  <2> HIDE DEF s
  <2>1. \A n \in 0 .. W : s[n] \in Bits
    BY <1>1, <1>2, <1>8, RunHasType, Sizes
  <2>2. QED
    BY <1>6, <2>1
<1>10. QED
  <2> HIDE DEF s
  <2> QED
    BY <1>7, <1>8, <1>9

LEMMA WriteRuns ==
  ASSUME NEW crc \in Register, NEW word \in Byte
  PROVE  \E r \in [0 .. W -> Register] :
           /\ r[0] = Xor(crc, word) /\ \A n \in 1 .. W : r[n] = ShiftedBit(r[n - 1])
           /\ WriteCRC_DR(crc, word) = r[W]
<1> DEFINE F == [p \in (1 .. W) \X Register |-> ShiftedBit(p[2])]
           Is(r) == r = [n \in 0 .. W |-> IF n = 0 THEN Xor(crc, word) ELSE ShiftedBit(r[n - 1])]
<1>1. \A c \in Register : ShiftedBit(c) \in Register
  BY ShiftedBitIsRegister
<1>2. Xor(crc, word) \in Register
  BY XorIsRegister
<1>3. F \in [(1 .. W) \X Register -> Register]
  BY <1>1
<1>4. PICK r \in [0 .. W -> Register] : Computes(W, Xor(crc, word), F, r)
  <2>1. W \in Nat
    BY Sizes
  <2> HIDE DEF F
  <2>2. QED
    BY <1>2, <1>3, <2>1, Recursion
<1>5. Is(r)
  <2>1. ASSUME NEW n \in 1 .. W PROVE r[n] = ShiftedBit(r[n - 1])
    <3>1. r[n] = F[<<n, r[n - 1]>>]
      BY <1>4 DEF Computes
    <3>2. n - 1 \in 0 .. W
      BY Sizes
    <3>3. r[n - 1] \in Register
      BY <3>2
    <3>4. QED
      BY <3>1, <3>3
  <2>2. r[0] = Xor(crc, word)
    BY <1>4, Zenon DEF Computes
  <2>3. \A n \in 0 .. W : n # 0 => n \in 1 .. W
    BY Sizes
  <2>4. \A n \in 0 .. W : r[n] = IF n = 0 THEN Xor(crc, word) ELSE ShiftedBit(r[n - 1])
    BY <2>1, <2>2, <2>3, Zenon
  <2>5. QED
    BY <2>4, Zenon
<1> DEFINE s == CHOOSE t : Is(t)
<1>6. Is(s)
  BY <1>5, Zenon
<1>7. WriteCRC_DR(crc, word) = s[W]
  BY DEF WriteCRC_DR
<1>8. s[0] = Xor(crc, word) /\ \A n \in 1 .. W : s[n] = ShiftedBit(s[n - 1])
  <2> HIDE DEF s
  <2>1. \A n \in 0 .. W : s[n] = IF n = 0 THEN Xor(crc, word) ELSE ShiftedBit(s[n - 1])
    BY <1>6, Zenon
  <2>2. 0 \in 0 .. W /\ \A n \in 1 .. W : n # 0 /\ n \in 0 .. W
    BY Sizes
  <2>3. QED
    BY <2>1, <2>2, Zenon
<1>9. s \in [0 .. W -> Register]
  <2> HIDE DEF s
  <2>1. \A n \in 0 .. W : s[n] \in Register
    BY <1>1, <1>2, <1>8, RunHasType, Sizes
  <2>2. QED
    BY <1>6, <2>1
<1>10. QED
  <2> HIDE DEF s
  <2> QED
    BY <1>7, <1>8, <1>9

LEMMA WriteIsRegister ==
  ASSUME NEW c \in Register, NEW b \in Byte
  PROVE  WriteCRC_DR(c, b) \in Register
<1>1. PICK r \in [0 .. W -> Register] : WriteCRC_DR(c, b) = r[W]
  BY WriteRuns
<1>2. QED
  BY <1>1, Sizes

LEMMA HostByteIsBits ==
  ASSUME NEW c \in Bits, NEW b \in Byte
  PROVE  HostByte(c, b) \in Bits
<1>1. b \in Bits
  BY ByteIsBits
<1>2. PICK r \in [0 .. W -> Bits] : HostByte(c, b) = r[W]
  BY <1>1, HostByteRuns
<1>3. QED
  BY <1>2, Sizes

LEMMA AccumulateRuns ==
  ASSUME NEW crc \in Register, NEW src \in Seq(Byte)
  PROVE  \E r \in [0 .. Len(src) -> Register] :
           /\ r[0] = crc /\ \A n \in 1 .. Len(src) : r[n] = WriteCRC_DR(r[n - 1], src[n])
           /\ CRC_ComputeWithAccumulate(crc, src) = r[Len(src)]
<1> DEFINE F == [p \in (1 .. Len(src)) \X Register |-> WriteCRC_DR(p[2], src[p[1]])]
           Is(r) == r = [n \in 0 .. Len(src) |-> IF n = 0 THEN crc ELSE WriteCRC_DR(r[n - 1], src[n])]
<1>1. \A c \in Register : \A n \in 1 .. Len(src) : WriteCRC_DR(c, src[n]) \in Register
  BY WriteIsRegister
<1>2. crc \in Register
  OBVIOUS
<1>3. F \in [(1 .. Len(src)) \X Register -> Register]
  BY <1>1
<1>4. PICK r \in [0 .. Len(src) -> Register] : Computes(Len(src), crc, F, r)
  <2>1. Len(src) \in Nat
    BY SeqLen
  <2> HIDE DEF F
  <2>2. QED
    BY <1>2, <1>3, <2>1, Recursion
<1>5. Is(r)
  <2>1. ASSUME NEW n \in 1 .. Len(src) PROVE r[n] = WriteCRC_DR(r[n - 1], src[n])
    <3>1. r[n] = F[<<n, r[n - 1]>>]
      BY <1>4 DEF Computes
    <3>2. n - 1 \in 0 .. Len(src)
      BY SeqLen
    <3>3. r[n - 1] \in Register
      BY <3>2
    <3>4. QED
      BY <3>1, <3>3
  <2>2. r[0] = crc
    BY <1>4, Zenon DEF Computes
  <2>3. \A n \in 0 .. Len(src) : n # 0 => n \in 1 .. Len(src)
    BY SeqLen
  <2>4. \A n \in 0 .. Len(src) : r[n] = IF n = 0 THEN crc ELSE WriteCRC_DR(r[n - 1], src[n])
    BY <2>1, <2>2, <2>3, Zenon
  <2>5. QED
    BY <2>4, Zenon
<1> DEFINE s == CHOOSE t : Is(t)
<1>6. Is(s)
  BY <1>5, Zenon
<1>7. CRC_ComputeWithAccumulate(crc, src) = s[Len(src)]
  BY DEF CRC_ComputeWithAccumulate
<1>8. s[0] = crc /\ \A n \in 1 .. Len(src) : s[n] = WriteCRC_DR(s[n - 1], src[n])
  <2> HIDE DEF s
  <2>1. \A n \in 0 .. Len(src) : s[n] = IF n = 0 THEN crc ELSE WriteCRC_DR(s[n - 1], src[n])
    BY <1>6, Zenon
  <2>2. 0 \in 0 .. Len(src) /\ \A n \in 1 .. Len(src) : n # 0 /\ n \in 0 .. Len(src)
    BY SeqLen
  <2>3. QED
    BY <2>1, <2>2, Zenon
<1>9. s \in [0 .. Len(src) -> Register]
  <2> HIDE DEF s
  <2>1. \A n \in 0 .. Len(src) : s[n] \in Register
    BY <1>1, <1>2, <1>8, RunHasType, SeqLen
  <2>2. QED
    BY <1>6, <2>1
<1>10. QED
  <2> HIDE DEF s
  <2> QED
    BY <1>7, <1>8, <1>9

LEMMA get_crcRuns ==
  ASSUME NEW buff \in Seq(Byte)
  PROVE  \E r \in [0 .. Len(buff) -> Bits] :
           /\ r[0] = AfterReset /\ \A n \in 1 .. Len(buff) : r[n] = HostByte(r[n - 1], buff[n])
           /\ get_crc(buff) = r[Len(buff)]
<1> DEFINE F == [p \in (1 .. Len(buff)) \X Bits |-> HostByte(p[2], buff[p[1]])]
           Is(r) == r = [n \in 0 .. Len(buff) |-> IF n = 0 THEN AfterReset ELSE HostByte(r[n - 1], buff[n])]
<1>1. \A c \in Bits : \A n \in 1 .. Len(buff) : HostByte(c, buff[n]) \in Bits
  BY HostByteIsBits
<1>2. AfterReset \in Bits
  BY Sizes DEF AfterReset, Bits
<1>3. F \in [(1 .. Len(buff)) \X Bits -> Bits]
  BY <1>1
<1>4. PICK r \in [0 .. Len(buff) -> Bits] : Computes(Len(buff), AfterReset, F, r)
  <2>1. Len(buff) \in Nat
    BY SeqLen
  <2> HIDE DEF F
  <2>2. QED
    BY <1>2, <1>3, <2>1, Recursion
<1>5. Is(r)
  <2>1. ASSUME NEW n \in 1 .. Len(buff) PROVE r[n] = HostByte(r[n - 1], buff[n])
    <3>1. r[n] = F[<<n, r[n - 1]>>]
      BY <1>4 DEF Computes
    <3>2. n - 1 \in 0 .. Len(buff)
      BY SeqLen
    <3>3. r[n - 1] \in Bits
      BY <3>2
    <3>4. QED
      BY <3>1, <3>3
  <2>2. r[0] = AfterReset
    BY <1>4, Zenon DEF Computes
  <2>3. \A n \in 0 .. Len(buff) : n # 0 => n \in 1 .. Len(buff)
    BY SeqLen
  <2>4. \A n \in 0 .. Len(buff) : r[n] = IF n = 0 THEN AfterReset ELSE HostByte(r[n - 1], buff[n])
    BY <2>1, <2>2, <2>3, Zenon
  <2>5. QED
    BY <2>4, Zenon
<1> DEFINE s == CHOOSE t : Is(t)
<1>6. Is(s)
  BY <1>5, Zenon
<1>7. get_crc(buff) = s[Len(buff)]
  BY DEF get_crc
<1>8. s[0] = AfterReset /\ \A n \in 1 .. Len(buff) : s[n] = HostByte(s[n - 1], buff[n])
  <2> HIDE DEF s
  <2>1. \A n \in 0 .. Len(buff) : s[n] = IF n = 0 THEN AfterReset ELSE HostByte(s[n - 1], buff[n])
    BY <1>6, Zenon
  <2>2. 0 \in 0 .. Len(buff) /\ \A n \in 1 .. Len(buff) : n # 0 /\ n \in 0 .. Len(buff)
    BY SeqLen
  <2>3. QED
    BY <2>1, <2>2, Zenon
<1>9. s \in [0 .. Len(buff) -> Bits]
  <2> HIDE DEF s
  <2>1. \A n \in 0 .. Len(buff) : s[n] \in Bits
    BY <1>1, <1>2, <1>8, RunHasType, SeqLen
  <2>2. QED
    BY <1>6, <2>1
<1>10. QED
  <2> HIDE DEF s
  <2> QED
    BY <1>7, <1>8, <1>9

-----------------------------------------------------------------------------
(* The board's word is the script's, cut to its width. *)
LEMMA CutOfXor ==
  ASSUME NEW a, NEW b \in Register
  PROVE  Cut(Xor(a, b)) = Xor(Cut(a), b)
  BY Zenon DEF Cut, Xor, Register

LEMMA CutOfShifted ==
  ASSUME NEW c \in Bits
  PROVE  Cut(Shifted(Cut(c))) = Cut(Shifted(c))
<1>1. ASSUME NEW bit \in Cut(Shifted(c)) PROVE bit \in Shifted(Cut(c))
  <2>1. PICK low \in c : bit = low + 1 /\ bit \in 0 .. W - 1
    BY <1>1 DEF Cut, Shifted
  <2>2. low \in Cut(c)
    BY <2>1, Sizes DEF Cut, Bits
  <2>3. QED
    BY <2>1, <2>2 DEF Shifted
<1>2. Shifted(Cut(c)) \subseteq Shifted(c)
  BY Zenon DEF Shifted, Cut
<1>3. QED
  BY <1>1, <1>2, Zenon DEF Cut

LEMMA CutOfHostBit ==
  ASSUME NEW c \in Bits
  PROVE  Cut(HostBit(c)) = ShiftedBit(Cut(c))
<1>1. TopBit(c) <=> TopBit(Cut(c))
  BY Sizes DEF TopBit, Cut
<1>2. POLY \in Register
  BY Sizes DEF Register
<1>3. Cut(Xor(Shifted(c), POLY)) = Xor(Cut(Shifted(c)), POLY)
  BY <1>2, CutOfXor
<1>4. QED
  BY <1>1, <1>3, CutOfShifted, Zenon DEF HostBit, ShiftedBit

LEMMA CutOfHostByte ==
  ASSUME NEW c \in Bits, NEW b \in Byte
  PROVE  Cut(HostByte(c, b)) = WriteCRC_DR(Cut(c), b)
<1>1. b \in Bits /\ b \in Register /\ Cut(c) \in Register
  BY ByteIsBits DEF Cut, Register
<1>2. PICK h \in [0 .. W -> Bits] :
        /\ h[0] = Xor(c, b) /\ \A n \in 1 .. W : h[n] = HostBit(h[n - 1])
        /\ HostByte(c, b) = h[W]
  BY <1>1, HostByteRuns
<1>3. PICK r \in [0 .. W -> Register] :
        /\ r[0] = Xor(Cut(c), b) /\ \A n \in 1 .. W : r[n] = ShiftedBit(r[n - 1])
        /\ WriteCRC_DR(Cut(c), b) = r[W]
  BY <1>1, WriteRuns
<1> DEFINE S == {n \in 0 .. W : Cut(h[n]) = r[n]}
<1>4. 0 \in S
  BY <1>1, <1>2, <1>3, CutOfXor, Sizes
<1>5. ASSUME NEW n \in 0 .. W - 1, n \in S PROVE n + 1 \in S
  <2>1. n + 1 \in 1 .. W /\ (n + 1) - 1 = n /\ n \in 0 .. W
    BY Sizes
  <2>2. h[n + 1] = HostBit(h[n]) /\ r[n + 1] = ShiftedBit(r[n]) /\ h[n] \in Bits
    BY <1>2, <1>3, <2>1
  <2>3. Cut(h[n + 1]) = ShiftedBit(Cut(h[n]))
    BY <2>2, CutOfHostBit
  <2>4. QED
    BY <1>5, <2>1, <2>2, <2>3
<1>6. W \in S
  <2> HIDE DEF S
  <2>1. 0 .. W \subseteq S
    BY <1>4, <1>5, InductionUpTo, Sizes
  <2>2. QED
    BY <2>1, Sizes
<1>7. QED
  BY <1>2, <1>3, <1>6

-----------------------------------------------------------------------------
(* Nothing is lost in the register: POLY is odd. *)
LEMMA XorCancels ==
  ASSUME NEW a, NEW b, NEW c, Xor(a, c) = Xor(b, c)
  PROVE  a = b
  BY Zenon DEF Xor

LEMMA XorCancelsLeft ==
  ASSUME NEW a, NEW b, NEW c, Xor(c, a) = Xor(c, b)
  PROVE  a = b
  BY Zenon DEF Xor

LEMMA ShiftedBitInjective ==
  ASSUME NEW c \in Register, NEW d \in Register, ShiftedBit(c) = ShiftedBit(d)
  PROVE  c = d
<1>1. ASSUME NEW e \in Register PROVE 0 \in ShiftedBit(e) <=> TopBit(e)
  <2>1. 0 \notin Cut(Shifted(e))
    BY DEF Cut, Shifted, Register
  <2>2. QED
    BY <2>1, Sizes, Zenon DEF ShiftedBit, Xor
<1>2. TopBit(c) <=> TopBit(d)
  BY <1>1
<1>3. Cut(Shifted(c)) = Cut(Shifted(d))
  BY <1>2, XorCancels, Zenon DEF ShiftedBit
<1>4. ASSUME NEW e \in Register, NEW bit \in 0 .. W - 1
      PROVE  bit \in e <=> IF bit = W - 1 THEN TopBit(e) ELSE bit + 1 \in Cut(Shifted(e))
  <2>1. CASE bit = W - 1
    BY <2>1 DEF TopBit
  <2>2. CASE bit # W - 1
    <3>1. bit + 1 \in 0 .. W - 1
      BY <2>2, Sizes
    <3>2. bit + 1 \in Shifted(e) <=> bit \in e
      BY DEF Shifted, Register
    <3>3. QED
      BY <2>2, <3>1, <3>2 DEF Cut
  <2>3. QED
    BY <2>1, <2>2
<1>5. \A bit \in 0 .. W - 1 : bit \in c <=> bit \in d
  BY <1>2, <1>3, <1>4
<1>6. QED
  BY <1>5 DEF Register

LEMMA WriteInjective ==
  ASSUME NEW c \in Register, NEW d \in Register, NEW a \in Byte, NEW b \in Byte,
         WriteCRC_DR(c, a) = WriteCRC_DR(d, b)
  PROVE  Xor(c, a) = Xor(d, b)
<1>1. PICK r \in [0 .. W -> Register] :
        /\ r[0] = Xor(c, a) /\ \A n \in 1 .. W : r[n] = ShiftedBit(r[n - 1])
        /\ WriteCRC_DR(c, a) = r[W]
  BY WriteRuns
<1>2. PICK s \in [0 .. W -> Register] :
        /\ s[0] = Xor(d, b) /\ \A n \in 1 .. W : s[n] = ShiftedBit(s[n - 1])
        /\ WriteCRC_DR(d, b) = s[W]
  BY WriteRuns
<1> DEFINE S == {k \in 0 .. W : r[W - k] = s[W - k]}
<1>3. 0 \in S
  <2>1. W - 0 = W /\ 0 \in 0 .. W
    BY Sizes
  <2>2. r[W] = s[W]
    BY <1>1, <1>2
  <2>3. QED
    BY <2>1, <2>2
<1>4. ASSUME NEW k \in 0 .. W - 1, k \in S PROVE k + 1 \in S
  <2>1. W - k \in 1 .. W /\ (W - k) - 1 = W - (k + 1) /\ W - (k + 1) \in 0 .. W /\ k + 1 \in 0 .. W
    BY Sizes
  <2>2. r[W - k] = ShiftedBit(r[W - (k + 1)]) /\ s[W - k] = ShiftedBit(s[W - (k + 1)])
    BY <1>1, <1>2, <2>1
  <2>3. r[W - (k + 1)] \in Register /\ s[W - (k + 1)] \in Register
    BY <2>1
  <2>4. r[W - (k + 1)] = s[W - (k + 1)]
    BY <1>4, <2>2, <2>3, ShiftedBitInjective
  <2>5. QED
    BY <2>1, <2>4
<1>5. W \in S
  <2> HIDE DEF S
  <2>1. 0 .. W \subseteq S
    BY <1>3, <1>4, InductionUpTo, Sizes
  <2>2. QED
    BY <2>1, Sizes
<1>6. QED
  BY <1>1, <1>2, <1>5, Sizes

-----------------------------------------------------------------------------
(* The four calls of ComputeCRC compute one checksum. *)
LEMMA AccumulateOne ==
  ASSUME NEW c \in Register, NEW b \in Byte
  PROVE  CRC_ComputeWithAccumulate(c, <<b>>) = WriteCRC_DR(c, b)
<1>1. <<b>> \in Seq(Byte) /\ Len(<<b>>) = 1 /\ <<b>>[1] = b /\ 1 \in 1 .. 1 /\ 1 - 1 = 0
  OBVIOUS
<1>2. PICK r \in [0 .. Len(<<b>>) -> Register] :
        /\ r[0] = c /\ \A n \in 1 .. Len(<<b>>) : r[n] = WriteCRC_DR(r[n - 1], <<b>>[n])
        /\ CRC_ComputeWithAccumulate(c, <<b>>) = r[Len(<<b>>)]
  BY <1>1, AccumulateRuns
<1>3. r[1] = WriteCRC_DR(r[0], b)
  BY <1>1, <1>2
<1>4. QED
  BY <1>1, <1>2, <1>3

LEMMA AfterResetIsRegister == AfterReset \in Register /\ Cut(AfterReset) = AfterReset
  BY DEF AfterReset, Register, Cut

(* What the register holds from byte to byte. *)
UnitRun(f, t) ==
  /\ t \in [0 .. Len(f) -> Register]
  /\ t[0] = AfterReset /\ \A n \in 1 .. Len(f) : t[n] = WriteCRC_DR(t[n - 1], f[n])
  /\ CRC_Compute(f) = t[Len(f)]

LEMMA UnitRuns ==
  ASSUME NEW f \in Seq(Byte)
  PROVE  \E t : UnitRun(f, t)
<1>1. PICK r \in [0 .. Len(f) -> Register] :
        /\ r[0] = AfterReset /\ \A n \in 1 .. Len(f) : r[n] = WriteCRC_DR(r[n - 1], f[n])
        /\ CRC_ComputeWithAccumulate(AfterReset, f) = r[Len(f)]
  BY AccumulateRuns, AfterResetIsRegister
<1>2. QED
  BY <1>1, Zenon DEF UnitRun, CRC_Compute

LEMMA ComputeCRCIsWhole ==
  ASSUME NEW f \in Seq(Byte), Len(f) >= 3
  PROVE  ComputeCRC(SubSeq(f, 1, 3), SubSeq(f, 4, Len(f))) = CRC_Compute(f)
<1> DEFINE data == SubSeq(f, 4, Len(f))
           header == SubSeq(f, 1, 3)
<1>1. /\ header[1] = f[1] /\ header[2] = f[2] /\ header[3] = f[3]
      /\ f[1] \in Byte /\ f[2] \in Byte /\ f[3] \in Byte
  OBVIOUS
<1>2. /\ data \in Seq(Byte) /\ Len(data) = Len(f) - 3
      /\ \A k \in 1 .. Len(f) - 3 : data[k] = f[k + 3]
  <2>1. \A k \in 4 .. Len(f) : f[k] \in Byte
    BY SeqLen
  <2>2. 4 \in Int /\ Len(f) \in Int
    BY SeqLen
  <2>3. /\ data \in Seq(Byte) /\ Len(data) = IF 4 <= Len(f) THEN Len(f) - 4 + 1 ELSE 0
        /\ \A k \in 1 .. Len(f) - 4 + 1 : data[k] = f[4 + k - 1]
    BY <2>1, <2>2, SubSeqProperties
  <2> HIDE DEF data
  <2>4. \A k \in 1 .. Len(f) - 3 : k \in 1 .. Len(f) - 4 + 1 /\ 4 + k - 1 = k + 3
    BY SeqLen
  <2>5. Len(data) = Len(f) - 3
    <3>1. \A L \in Nat : L >= 3 => (IF 4 <= L THEN L - 4 + 1 ELSE 0) = L - 3
      OBVIOUS
    <3>2. QED
      BY <2>3, <3>1, SeqLen
  <2>6. QED
    BY <2>3, <2>4, <2>5
<1>3. PICK t : UnitRun(f, t)
  BY UnitRuns
<1>4. /\ t \in [0 .. Len(f) -> Register] /\ t[0] = AfterReset
      /\ t[1] = WriteCRC_DR(t[0], f[1]) /\ t[2] = WriteCRC_DR(t[1], f[2]) /\ t[3] = WriteCRC_DR(t[2], f[3])
      /\ t[0] \in Register /\ t[1] \in Register /\ t[2] \in Register /\ t[3] \in Register
  <2>1. 1 \in 1 .. Len(f) /\ 2 \in 1 .. Len(f) /\ 3 \in 1 .. Len(f) /\ 1 - 1 = 0 /\ 2 - 1 = 1 /\ 3 - 1 = 2
    BY SeqLen
  <2>2. {0, 1, 2, 3} \subseteq 0 .. Len(f)
    BY SeqLen
  <2>3. QED
    BY <1>3, <2>1, <2>2 DEF UnitRun
<1> HIDE DEF data, header
<1>5. ComputeCRC(header, data) = CRC_ComputeWithAccumulate(t[3], data)
  <2>1. /\ CRC_ComputeWithAccumulate(t[0], <<f[1]>>) = t[1]
        /\ CRC_ComputeWithAccumulate(t[1], <<f[2]>>) = t[2]
        /\ CRC_ComputeWithAccumulate(t[2], <<f[3]>>) = t[3]
    BY <1>1, <1>4, AccumulateOne
  <2>2. CRC_Compute(<<header[1]>>) = t[1]
    BY <1>1, <1>4, <2>1, Zenon DEF CRC_Compute
  <2>3. QED
    BY <1>1, <2>1, <2>2, Zenon DEF ComputeCRC
<1>6. PICK r \in [0 .. Len(data) -> Register] :
        /\ r[0] = t[3] /\ \A n \in 1 .. Len(data) : r[n] = WriteCRC_DR(r[n - 1], data[n])
        /\ CRC_ComputeWithAccumulate(t[3], data) = r[Len(data)]
  BY <1>2, <1>4, AccumulateRuns
<1> DEFINE N == Len(f) - 3
           S == {k \in 0 .. N : r[k] = t[k + 3]}
<1>7. N \in Nat /\ Len(data) = N
  BY <1>2, SeqLen
<1>8. 0 \in S
  BY <1>6, <1>7
<1>9. ASSUME NEW k \in 0 .. N - 1, k \in S PROVE k + 1 \in S
  <2>1. k + 1 \in 1 .. N /\ (k + 1) - 1 = k /\ k + 1 \in 0 .. N /\ (k + 1) + 3 \in 1 .. Len(f)
        /\ ((k + 1) + 3) - 1 = k + 3
    BY <1>7, SeqLen
  <2>2. r[k + 1] = WriteCRC_DR(r[k], f[(k + 1) + 3])
    BY <1>2, <1>6, <1>7, <2>1
  <2>3. t[(k + 1) + 3] = WriteCRC_DR(t[k + 3], f[(k + 1) + 3])
    BY <1>3, <2>1 DEF UnitRun
  <2>4. QED
    BY <1>9, <2>1, <2>2, <2>3
<1>10. N \in S
  <2> HIDE DEF S, N
  <2>1. 0 .. N \subseteq S
    BY <1>7, <1>8, <1>9, InductionUpTo
  <2>2. QED
    BY <1>7, <2>1
<1>11. r[N] = t[Len(f)]
  BY <1>7, <1>10, SeqLen
<1>12. QED
  BY <1>3, <1>5, <1>6, <1>7, <1>11 DEF UnitRun, data, header

-----------------------------------------------------------------------------
(* The script's checksum, cut to a word, is the board's: for every frame, and
   words and bytes of any size. *)
THEOREM ChecksumsAgree ==
  ASSUME NEW f \in Seq(Byte)
  PROVE  get_crc(f) \in Bits /\ Cut(get_crc(f)) = CRC_Compute(f)
<1>1. PICK t : UnitRun(f, t)
  BY UnitRuns
<1>2. PICK h \in [0 .. Len(f) -> Bits] :
        /\ h[0] = AfterReset /\ \A n \in 1 .. Len(f) : h[n] = HostByte(h[n - 1], f[n])
        /\ get_crc(f) = h[Len(f)]
  BY get_crcRuns
<1> DEFINE N == Len(f)
           S == {k \in 0 .. N : Cut(h[k]) = t[k]}
<1>3. N \in Nat
  BY SeqLen
<1>4. 0 \in S
  BY <1>1, <1>2, <1>3, AfterResetIsRegister DEF UnitRun
<1>5. ASSUME NEW k \in 0 .. N - 1, k \in S PROVE k + 1 \in S
  <2>1. k + 1 \in 1 .. N /\ (k + 1) - 1 = k /\ k + 1 \in 0 .. N
    BY <1>3
  <2>2. h[k + 1] = HostByte(h[k], f[k + 1]) /\ h[k] \in Bits /\ f[k + 1] \in Byte
    BY <1>2, <2>1, BytesAre
  <2>3. t[k + 1] = WriteCRC_DR(t[k], f[k + 1])
    BY <1>1, <2>1 DEF UnitRun
  <2>4. Cut(h[k + 1]) = WriteCRC_DR(Cut(h[k]), f[k + 1])
    BY <2>2, CutOfHostByte
  <2>5. QED
    BY <1>5, <2>1, <2>3, <2>4
<1>6. N \in S
  <2> HIDE DEF S, N
  <2>1. 0 .. N \subseteq S
    BY <1>3, <1>4, <1>5, InductionUpTo
  <2>2. QED
    BY <1>3, <2>1
<1>7. QED
  BY <1>1, <1>2, <1>3, <1>6 DEF UnitRun

(* One damaged byte always changes the checksum: the polynomial is odd, so
   that nothing the register holds is ever lost. *)
THEOREM DamageIsNoticed ==
  ASSUME NEW f \in Seq(Byte), NEW i \in 1 .. Len(f), NEW b \in Byte, b # f[i]
  PROVE  CRC_Compute([f EXCEPT ![i] = b]) # CRC_Compute(f)
<1> DEFINE g == [f EXCEPT ![i] = b]
           N == Len(f)
<1>1. /\ g \in Seq(Byte) /\ Len(g) = N /\ g[i] = b
      /\ \A n \in 1 .. N : n # i => g[n] = f[n]
  OBVIOUS
<1> HIDE DEF g
<1>2. PICK t : UnitRun(f, t)
  BY UnitRuns
<1>3. PICK u : UnitRun(g, u)
  BY <1>1, UnitRuns
<1>4. /\ t \in [0 .. N -> Register] /\ u \in [0 .. N -> Register] /\ t[0] = u[0]
      /\ \A n \in 1 .. N : t[n] = WriteCRC_DR(t[n - 1], f[n])
      /\ \A n \in 1 .. N : u[n] = WriteCRC_DR(u[n - 1], g[n])
      /\ CRC_Compute(f) = t[N] /\ CRC_Compute(g) = u[N]
  BY <1>1, <1>2, <1>3 DEF UnitRun
<1>5. N \in Nat /\ i \in 1 .. N /\ i - 1 \in Nat /\ N - i \in Nat
  BY SeqLen
<1> HIDE DEF N
<1>6. t[i - 1] = u[i - 1]
  <2> DEFINE S == {k \in 0 .. i - 1 : t[k] = u[k]}
  <2>1. 0 \in S
    BY <1>4, <1>5
  <2>2. ASSUME NEW k \in 0 .. (i - 1) - 1, k \in S PROVE k + 1 \in S
    <3>1. k + 1 \in 1 .. N /\ (k + 1) - 1 = k /\ k + 1 \in 0 .. i - 1 /\ k + 1 # i
      BY <1>5
    <3>2. t[k + 1] = WriteCRC_DR(t[k], f[k + 1]) /\ u[k + 1] = WriteCRC_DR(u[k], f[k + 1])
      BY <1>1, <1>4, <3>1
    <3>3. QED
      BY <2>2, <3>1, <3>2
  <2> HIDE DEF S
  <2>3. 0 .. i - 1 \subseteq S
    BY <1>5, <2>1, <2>2, InductionUpTo
  <2>4. QED
    BY <1>5, <2>3 DEF S
<1>7. t[i] # u[i]
  <2>1. t[i] = WriteCRC_DR(t[i - 1], f[i]) /\ u[i] = WriteCRC_DR(t[i - 1], b)
    BY <1>1, <1>4, <1>5, <1>6
  <2>2. t[i - 1] \in Register /\ f[i] \in Byte
    BY <1>4, <1>5, BytesAre DEF N
  <2>3. QED
    BY <2>1, <2>2, WriteInjective, XorCancelsLeft
<1>8. ASSUME t[N] = u[N] PROVE FALSE
  <2> DEFINE S == {k \in 0 .. N - i : t[N - k] = u[N - k]}
  <2>1. 0 \in S
    <3>1. N - 0 = N /\ 0 \in 0 .. N - i
      BY <1>5
    <3>2. QED
      BY <1>8, <3>1
  <2>2. ASSUME NEW k \in 0 .. (N - i) - 1, k \in S PROVE k + 1 \in S
    <3>1. /\ N - k \in 1 .. N /\ (N - k) - 1 = N - (k + 1) /\ N - (k + 1) \in 0 .. N
          /\ k + 1 \in 0 .. N - i /\ N - k # i
      BY <1>5
    <3>2. /\ t[N - k] = WriteCRC_DR(t[N - (k + 1)], f[N - k])
          /\ u[N - k] = WriteCRC_DR(u[N - (k + 1)], f[N - k])
      BY <1>1, <1>4, <3>1
    <3>3. /\ t[N - (k + 1)] \in Register /\ u[N - (k + 1)] \in Register /\ f[N - k] \in Byte
      BY <1>4, <3>1, BytesAre DEF N
    <3>4. Xor(t[N - (k + 1)], f[N - k]) = Xor(u[N - (k + 1)], f[N - k])
      BY <2>2, <3>2, <3>3, WriteInjective
    <3>5. QED
      BY <3>1, <3>4, XorCancels
  <2> HIDE DEF S
  <2>3. 0 .. N - i \subseteq S
    BY <1>5, <2>1, <2>2, InductionUpTo
  <2>4. N - i \in S /\ N - (N - i) = i
    BY <1>5, <2>3
  <2>5. QED
    BY <1>7, <2>4 DEF S
<1>9. QED
  BY <1>4, <1>8 DEF g

-----------------------------------------------------------------------------
(* The bytes of a word. *)
LEMMA Quotient ==
  ASSUME NEW n \in Nat, NEW d \in Nat \ {0}
  PROVE  n \div d \in Nat /\ n % d \in 0 .. d - 1 /\ n = d * (n \div d) + (n % d)
  OBVIOUS

LEMMA QuotientIs ==
  ASSUME NEW d \in Nat \ {0}, NEW q \in Nat, NEW m \in 0 .. d - 1
  PROVE  (d * q + m) \div d = q /\ (d * q + m) % d = m
  OBVIOUS

LEMMA WordIsBytes == CRC_SIZE \in Nat /\ W = B * CRC_SIZE
  BY CrcAssumption, Quotient DEF CRC_SIZE

LEMMA BelowProduct ==
  ASSUME NEW d \in Nat \ {0}, NEW q \in Nat, NEW n \in Nat, NEW m \in Nat, d * q + m < d * n
  PROVE  q < n
<1>1. SUFFICES ASSUME n <= q PROVE FALSE
  OBVIOUS
<1>2. PICK k \in Nat : q = n + k
  <2>1. q - n \in Nat /\ q = n + (q - n)
    BY <1>1
  <2>2. QED
    BY <2>1
<1>3. d * q = d * n + d * k /\ d * k \in Nat /\ d * n \in Nat
  BY <1>2
<1>4. QED
  BY <1>3

LEMMA WhereBitIs ==
  ASSUME NEW bit \in 0 .. W - 1
  PROVE  /\ 1 + (bit \div B) \in 1 .. CRC_SIZE /\ bit % B \in 0 .. B - 1
         /\ (bit % B) + B * ((1 + (bit \div B)) - 1) = bit
<1>1. /\ bit \div B \in Nat /\ bit % B \in 0 .. B - 1 /\ bit % B \in Nat
      /\ bit = B * (bit \div B) + (bit % B)
  <2>1. bit \in Nat /\ B \in Nat \ {0}
    BY Sizes
  <2>2. /\ bit \div B \in Nat /\ bit % B \in 0 .. B - 1
        /\ bit = B * (bit \div B) + (bit % B)
    BY <2>1, Quotient, Zenon
  <2>3. QED
    BY <2>1, <2>2
<1>2. B * (bit \div B) + (bit % B) < B * CRC_SIZE
  BY <1>1, WordIsBytes, Sizes
<1>3. bit \div B < CRC_SIZE
  BY <1>1, <1>2, BelowProduct, WordIsBytes, Sizes
<1>4. (1 + (bit \div B)) - 1 = bit \div B
  BY <1>1
<1>5. 1 + (bit \div B) \in 1 .. CRC_SIZE
  BY <1>1, <1>3, WordIsBytes
<1>6. (bit % B) + B * (bit \div B) = bit
  <2>1. B * (bit \div B) \in Nat
    BY <1>1, Sizes
  <2>2. QED
    BY <1>1, <2>1
<1>7. QED
  BY <1>1, <1>4, <1>5, <1>6

LEMMA BitThere ==
  ASSUME NEW index \in 1 .. CRC_SIZE, NEW m \in 0 .. B - 1
  PROVE  \E bit \in 0 .. W - 1 : bit % B = m /\ 1 + (bit \div B) = index
<1> DEFINE q == index - 1
           bit == B * q + m
<1>1. q \in Nat /\ q + 1 <= CRC_SIZE /\ m \in Nat /\ CRC_SIZE - (q + 1) \in Nat
  BY WordIsBytes
<1>2. bit \div B = q /\ bit % B = m
  <2> HIDE DEF q
  <2> QED
    BY <1>1, QuotientIs, Sizes
<1>3. B * q \in Nat /\ bit \in Nat
  <2> HIDE DEF q
  <2> QED
    BY <1>1, Sizes
<1>4. B * q + B <= W
  <2> HIDE DEF q
  <2>1. PICK k \in Nat : CRC_SIZE = q + 1 + k
    <3>1. CRC_SIZE = q + 1 + (CRC_SIZE - (q + 1))
      BY <1>1, WordIsBytes
    <3>2. QED
      BY <1>1, <3>1
  <2>2. B * CRC_SIZE = B * q + B + B * k /\ B * k \in Nat
    BY <1>1, <2>1, Sizes
  <2>3. QED
    BY <1>3, <2>2, WordIsBytes, Sizes
<1>5. bit \in 0 .. W - 1
  <2> HIDE DEF q
  <2> QED
    BY <1>3, <1>4, Sizes
<1>6. 1 + (bit \div B) = index
  BY <1>2, WordIsBytes
<1>7. QED
  BY <1>2, <1>5, <1>6

(* ReadCRC gets back what word_to_byte took apart, cut to the width of a word. *)
LEMMA ReadCRCOfBytes ==
  ASSUME NEW c \in Bits, NEW buffer, \A index \in 1 .. CRC_SIZE : buffer[index] = word_to_byte(c, index)
  PROVE  ReadCRC(buffer) = Cut(c)
<1>1. ASSUME NEW bit \in 0 .. W - 1
      PROVE  bit % B \in buffer[1 + (bit \div B)] <=> bit \in c
  <2>1. /\ 1 + (bit \div B) \in 1 .. CRC_SIZE /\ bit % B \in 0 .. B - 1
        /\ (bit % B) + B * ((1 + (bit \div B)) - 1) = bit
    BY WhereBitIs
  <2>2. buffer[1 + (bit \div B)] = word_to_byte(c, 1 + (bit \div B))
    BY <2>1
  <2>3. QED
    BY <2>1, <2>2, Zenon DEF word_to_byte
<1>2. QED
  BY <1>1, Zenon DEF ReadCRC, Cut

(* One byte of the buffer damaged is another word. *)
LEMMA ReadCRCTellsBytes ==
  ASSUME NEW buffer, NEW damaged, NEW index \in 1 .. CRC_SIZE,
         buffer[index] \in Byte, damaged[index] \in Byte, ReadCRC(buffer) = ReadCRC(damaged)
  PROVE  buffer[index] = damaged[index]
<1>1. ASSUME NEW m \in 0 .. B - 1 PROVE m \in buffer[index] <=> m \in damaged[index]
  <2>1. PICK bit \in 0 .. W - 1 : bit % B = m /\ 1 + (bit \div B) = index
    BY BitThere
  <2>2. \A b : bit \in ReadCRC(b) <=> m \in b[index]
    BY <2>1, Zenon DEF ReadCRC
  <2>3. QED
    BY <2>2, Zenon
<1>2. QED
  BY <1>1, Zenon DEF Byte

-----------------------------------------------------------------------------
(* A frame, and what the line makes of it. *)
Checksum(f) == [index \in 1 .. CRC_SIZE |-> word_to_byte(get_crc(f), index)]

Computed(received, n) == ComputeCRC(SubSeq(received, 1, 3), SubSeq(received, 4, n))
Received(received, n) == ReadCRC(SubSeq(received, n + 1, n + CRC_SIZE))

LEMMA SentIs ==
  ASSUME NEW f \in Seq(Byte)
  PROVE  /\ apply_4byte_crc(f) \in Seq(Byte) /\ Len(apply_4byte_crc(f)) = Len(f) + CRC_SIZE
         /\ \A n \in 1 .. Len(f) : apply_4byte_crc(f)[n] = f[n]
         /\ \A k \in 1 .. CRC_SIZE : apply_4byte_crc(f)[Len(f) + k] = word_to_byte(get_crc(f), k)
<1> DEFINE c == Checksum(f)
<1>1. \A k \in 1 .. CRC_SIZE : word_to_byte(get_crc(f), k) \in Byte
  BY Zenon DEF word_to_byte, Byte
<1>2. c \in Seq(Byte) /\ Len(c) = CRC_SIZE /\ \A k \in 1 .. CRC_SIZE : c[k] = word_to_byte(get_crc(f), k)
  <2>1. CRC_SIZE \in Nat
    BY WordIsBytes
  <2>2. QED
    BY <1>1, <2>1 DEF Checksum
<1>3. apply_4byte_crc(f) = f \o c
  BY Zenon DEF apply_4byte_crc, Checksum
<1> HIDE DEF c
<1>4. f \o c \in Seq(Byte) /\ Len(f \o c) = Len(f) + Len(c)
  BY <1>2
<1>5. \A n \in 1 .. Len(f) : (f \o c)[n] = f[n]
  BY <1>2, SeqLen
<1>6. \A k \in 1 .. CRC_SIZE : (f \o c)[Len(f) + k] = c[k]
  <2>1. Len(c) \in Nat /\ Len(f) \in Nat /\ CRC_SIZE \in Nat
    BY <1>2, SeqLen, WordIsBytes
  <2>2. ASSUME NEW k \in 1 .. CRC_SIZE PROVE (f \o c)[Len(f) + k] = c[k]
    <3>1. Len(f) + k \in 1 .. Len(f) + Len(c) /\ ~ (Len(f) + k <= Len(f)) /\ (Len(f) + k) - Len(f) = k
      BY <1>2, <2>1
    <3>2. QED
      BY <1>2, <3>1
  <2>3. QED
    BY <2>2
<1>7. QED
  BY <1>2, <1>3, <1>4, <1>5, <1>6, Zenon

(* What the board makes of the bytes that come depends on this. *)
LEMMA ReceivedParts ==
  ASSUME NEW f \in Seq(Byte), NEW r \in Seq(Byte), Len(f) >= 3, Len(r) = Len(f) + CRC_SIZE,
         \A n \in 1 .. Len(f) : r[n] = f[n]
  PROVE  /\ Computed(r, Len(f)) = CRC_Compute(f)
         /\ \A k \in 1 .. CRC_SIZE : SubSeq(r, Len(f) + 1, Len(f) + CRC_SIZE)[k] = r[Len(f) + k]
<1>1. Len(f) \in Nat /\ CRC_SIZE \in Nat
  BY SeqLen, WordIsBytes
<1>2. SubSeq(r, 1, 3) = SubSeq(f, 1, 3)
  BY <1>1
<1>3. SubSeq(r, 4, Len(f)) = SubSeq(f, 4, Len(f))
  BY <1>1
<1>4. Computed(r, Len(f)) = CRC_Compute(f)
  BY <1>2, <1>3, ComputeCRCIsWhole DEF Computed
<1>5. \A k \in 1 .. CRC_SIZE : SubSeq(r, Len(f) + 1, Len(f) + CRC_SIZE)[k] = r[Len(f) + k]
  BY <1>1
<1>6. QED
  BY <1>4, <1>5

(* An undamaged frame is accepted. *)
LEMMA IntactMatches ==
  ASSUME NEW f \in Seq(Byte), Len(f) >= 3
  PROVE  Computed(apply_4byte_crc(f), Len(f)) = Received(apply_4byte_crc(f), Len(f))
<1> DEFINE r == apply_4byte_crc(f)
<1>1. /\ r \in Seq(Byte) /\ Len(r) = Len(f) + CRC_SIZE /\ \A n \in 1 .. Len(f) : r[n] = f[n]
      /\ \A k \in 1 .. CRC_SIZE : r[Len(f) + k] = word_to_byte(get_crc(f), k)
  BY SentIs
<1> HIDE DEF r
<1>2. Computed(r, Len(f)) = CRC_Compute(f)
  BY <1>1, ReceivedParts
<1>3. \A k \in 1 .. CRC_SIZE :
         SubSeq(r, Len(f) + 1, Len(f) + CRC_SIZE)[k] = word_to_byte(get_crc(f), k)
  BY <1>1, ReceivedParts
<1>4. Received(r, Len(f)) = Cut(get_crc(f))
  BY <1>3, ChecksumsAgree, ReadCRCOfBytes DEF Received
<1>5. QED
  BY <1>2, <1>4, ChecksumsAgree DEF r

(* A damaged one is not. *)
LEMMA DamagedDiffers ==
  ASSUME NEW f \in Seq(Byte), Len(f) >= 3, NEW i \in DOMAIN apply_4byte_crc(f), NEW b \in Byte,
         b # apply_4byte_crc(f)[i]
  PROVE  Computed(Damaged(apply_4byte_crc(f), i, b), Len(f)) # Received(Damaged(apply_4byte_crc(f), i, b), Len(f))
<1> DEFINE s == apply_4byte_crc(f)
           r == Damaged(s, i, b)
           check == SubSeq(r, Len(f) + 1, Len(f) + CRC_SIZE)
<1>1. /\ s \in Seq(Byte) /\ Len(s) = Len(f) + CRC_SIZE /\ \A n \in 1 .. Len(f) : s[n] = f[n]
      /\ \A k \in 1 .. CRC_SIZE : s[Len(f) + k] = word_to_byte(get_crc(f), k)
      /\ i \in 1 .. Len(f) + CRC_SIZE /\ Len(f) \in Nat /\ CRC_SIZE \in Nat
  BY SentIs, SeqLen, WordIsBytes
<1>2. b # s[i]
  OBVIOUS
<1> HIDE DEF s
<1>3. /\ r \in Seq(Byte) /\ Len(r) = Len(f) + CRC_SIZE /\ r[i] = b
      /\ \A n \in 1 .. Len(f) + CRC_SIZE : n # i => r[n] = s[n]
  BY <1>1 DEF Damaged
<1> HIDE DEF r, check
<1>4. CASE i \in 1 .. Len(f)
  <2> DEFINE g == [f EXCEPT ![i] = b]
  <2>1. g \in Seq(Byte) /\ Len(g) = Len(f)
    BY <1>4
  <2>2. \A n \in 1 .. Len(g) : r[n] = g[n]
    BY <1>1, <1>3, <1>4
  <2>3. CRC_Compute(g) # CRC_Compute(f)
    BY <1>1, <1>2, <1>4, DamageIsNoticed
  <2> HIDE DEF g
  <2>4. Computed(r, Len(f)) = CRC_Compute(g) /\ \A k \in 1 .. CRC_SIZE : check[k] = r[Len(f) + k]
    BY <1>3, <2>1, <2>2, ReceivedParts DEF check
  <2>5. \A k \in 1 .. CRC_SIZE : check[k] = word_to_byte(get_crc(f), k)
    BY <1>1, <1>3, <1>4, <2>4
  <2>6. Received(r, Len(f)) = Cut(get_crc(f))
    BY <2>5, ChecksumsAgree, ReadCRCOfBytes DEF Received, check
  <2>7. QED
    BY <2>3, <2>4, <2>6, ChecksumsAgree DEF r, s
<1>5. CASE i \notin 1 .. Len(f)
  <2>1. PICK k \in 1 .. CRC_SIZE : i = Len(f) + k
    <3>1. i - Len(f) \in 1 .. CRC_SIZE /\ i = Len(f) + (i - Len(f))
      BY <1>1, <1>5
    <3>2. QED
      BY <3>1
  <2>2. \A n \in 1 .. Len(f) : r[n] = f[n]
    BY <1>1, <1>3, <1>5
  <2>3. Computed(r, Len(f)) = CRC_Compute(f) /\ \A j \in 1 .. CRC_SIZE : check[j] = r[Len(f) + j]
    BY <1>3, <2>2, ReceivedParts DEF check
  <2>4. check[k] = b /\ b # Checksum(f)[k] /\ Checksum(f)[k] \in Byte
    <3>1. check[k] = b
      BY <1>3, <2>1, <2>3
    <3>2. Checksum(f)[k] = s[i]
      BY <1>1, <2>1 DEF Checksum
    <3>3. s[i] \in Byte
      BY <1>1
    <3>4. QED
      BY <1>2, <3>1, <3>2, <3>3
  <2>5. ReadCRC(Checksum(f)) = Cut(get_crc(f))
    <3>1. \A j \in 1 .. CRC_SIZE : Checksum(f)[j] = word_to_byte(get_crc(f), j)
      BY DEF Checksum
    <3>2. QED
      BY <3>1, ChecksumsAgree, ReadCRCOfBytes
  <2>6. ReadCRC(check) # ReadCRC(Checksum(f))
    BY <2>4, ReadCRCTellsBytes
  <2>7. QED
    BY <2>3, <2>5, <2>6, ChecksumsAgree DEF Received, check, r, s
<1>6. QED
  BY <1>4, <1>5

-----------------------------------------------------------------------------
(* The CRC driver is set up before the window, and stays so. *)
UnitReady == {"SetGlobalTimer", "GetGlobalTime"} \cup InWindow \cup ToControl

UnitInv == pc \in UnitReady => driver.CRC = "AVAILABLE" /\ "CRC" \in clocks

LEMMA UnitStep ==
  ASSUME VectorsInv, DriverTypes, UnitInv, [Next]_vars
  PROVE  UnitInv'
<1> USE DEF UnitReady, InWindow, ToControl
<1>1. SUFFICES ASSUME pc' \in UnitReady PROVE driver'.CRC = "AVAILABLE" /\ "CRC" \in clocks'
  BY DEF UnitInv
<1>2. CASE pc \in UnitReady /\ UNCHANGED peripherals
  BY <1>2 DEF UnitInv, peripherals
<1>3. CASE init_stack \/ init_ram \/ call_ctors \/ NVIC_INIT
  BY <1>1, <1>3 DEF init_stack, init_ram, call_ctors, NVIC_INIT, Go
<1>4. CASE FLASH_INIT \/ GPIO_INIT \/ \E rate \in BaudRates : USART_INIT(rate)
  <2>1. pc' \in {"GPIO_INIT", "USART_INIT", "CRC_INIT"}
    BY <1>4 DEF FLASH_INIT, GPIO_INIT, USART_INIT, Go
  <2>2. QED
    BY <1>1, <2>1
<1>5. CASE CRC_INIT
  BY <1>5 DEF CRC_INIT, EnableClock, DriverTypes, Leftover
<1>6. CASE SetGlobalTimer \/ GetGlobalTime \/ Window \/ Button
  BY <1>2, <1>6 DEF SetGlobalTimer, GetGlobalTime, Window, Button, Go
<1>7. CASE Banner
  BY <1>1, <1>2, <1>7 DEF Banner, Go
<1>8. CASE SetVTOR \/ SetStackPointer
  BY <1>1, <1>8 DEF SetVTOR, SetStackPointer, Go
<1>9. CASE Jump \/ AppStarts \/ BootJumpToApplication
  <2>1. pc' \in {"App", "AppRuns", "Fault", "SetVTOR"}
    BY <1>9, LandingsAre DEF Jump, AppStarts, BootJumpToApplication, Go
  <2>2. QED
    BY <1>1, <2>1
<1>10. CASE Frame \/ Rewrite
  <2>1. pc = "BootControl" /\ UNCHANGED peripherals
    BY <1>10, Zenon DEF Frame, ReceiveFrame, Rewrite
  <2>2. QED
    BY <1>2, <2>1
<1>11. CASE Systick_Interrupt
  <2>1. UNCHANGED peripherals /\ (pc' = pc \/ pc' = "Fault")
    BY <1>11 DEF Systick_Interrupt
  <2>2. QED
    BY <1>1, <1>2, <2>1
<1>12. CASE Press \/ UNCHANGED vars
  <2>1. pc' = pc /\ UNCHANGED peripherals
    BY <1>12, Zenon DEF Press, vars
  <2>2. QED
    BY <1>1, <1>2, <2>1
<1>13. CASE Reset
  BY <1>1, <1>13 DEF Reset
<1>14. QED
  BY <1>3, <1>4, <1>5, <1>6, <1>7, <1>8, <1>9, <1>10, <1>11, <1>12, <1>13, Zenon DEF Next, Processor

(* With the driver ready a frame is accepted exactly when the two agree. *)
LEMMA VerdictIs ==
  ASSUME UnitInv, NEW sent, NEW received, ReceiveFrame(sent, received)
  PROVE  verdict' = [intact |-> sent = received,
                     result |-> IF Received(received, Len(sent) - CRC_SIZE)
                                     = Computed(received, Len(sent) - CRC_SIZE)
                                THEN "Accepted" ELSE "ST_WRONG_CRC"]
<1>1. driver.CRC = "AVAILABLE" /\ "CRC" \in clocks
  <2>1. pc = "BootControl"
    BY Zenon DEF ReceiveFrame
  <2>2. QED
    BY <2>1 DEF UnitInv, UnitReady, ToControl
<1>2. QED
  BY <1>1, Zenon DEF ReceiveFrame, Received, Computed

LEMMA FramesAre ==
  ASSUME NEW f \in Frames
  PROVE  f \in Seq(Byte) /\ Len(f) >= 3
  BY EntryAssumption, Zenon

LEMMA FrameStep ==
  ASSUME UnitInv, Frame
  PROVE  VerdictIsRight'
<1>1. PICK f \in Frames :
        LET sent == apply_4byte_crc(f)
        IN  \/ ReceiveFrame(sent, sent)
            \/ \E i \in DOMAIN sent \ {3}, byte \in Byte : ReceiveFrame(sent, Damaged(sent, i, byte))
  BY Zenon DEF Frame
<1>2. f \in Seq(Byte) /\ Len(f) >= 3
  BY FramesAre
<1> DEFINE sent == apply_4byte_crc(f)
<1>3. Len(sent) - CRC_SIZE = Len(f)
  <2>1. Len(sent) = Len(f) + CRC_SIZE /\ CRC_SIZE \in Nat /\ Len(f) \in Nat
    BY <1>2, SentIs, WordIsBytes, SeqLen
  <2>2. QED
    BY <2>1
<1>4. ASSUME ReceiveFrame(sent, sent) PROVE VerdictIsRight'
  <2>1. Received(sent, Len(sent) - CRC_SIZE) = Computed(sent, Len(sent) - CRC_SIZE)
    BY <1>2, <1>3, IntactMatches
  <2>2. verdict' = [intact |-> TRUE, result |-> "Accepted"]
    BY <1>4, <2>1, VerdictIs, Zenon
  <2>3. QED
    BY <2>2 DEF VerdictIsRight
<1>5. ASSUME NEW i \in DOMAIN sent \ {3}, NEW byte \in Byte, ReceiveFrame(sent, Damaged(sent, i, byte))
      PROVE  VerdictIsRight'
  <2>1. CASE byte = sent[i]
    <3>1. sent \in Seq(Byte)
      BY <1>2, SentIs
    <3> HIDE DEF sent
    <3>2. Damaged(sent, i, byte) = sent
      BY <2>1, <3>1 DEF Damaged
    <3>3. QED
      BY <1>4, <1>5, <3>2
  <2>2. CASE byte # sent[i]
    <3>1. Damaged(sent, i, byte) # sent
      <4>1. sent \in Seq(Byte) /\ i \in DOMAIN sent
        BY <1>2, SentIs
      <4> HIDE DEF sent
      <4>2. QED
        BY <2>2, <4>1 DEF Damaged
    <3>2. Received(Damaged(sent, i, byte), Len(sent) - CRC_SIZE)
            # Computed(Damaged(sent, i, byte), Len(sent) - CRC_SIZE)
      BY <1>2, <1>3, <2>2, DamagedDiffers
    <3>3. verdict' = [intact |-> FALSE, result |-> "ST_WRONG_CRC"]
      BY <1>5, <3>1, <3>2, VerdictIs, Zenon
    <3>4. QED
      BY <3>3 DEF VerdictIsRight
  <2>3. QED
    BY <2>1, <2>2
<1>6. QED
  BY <1>1, <1>4, <1>5, Zenon

LEMMA VerdictChanges ==
  ASSUME [Next]_vars
  PROVE  Frame \/ verdict' \in {verdict, NoVerdict}
<1>1. CASE Processor
  BY <1>1 DEF Processor, init_stack, init_ram, call_ctors, NVIC_INIT, FLASH_INIT, GPIO_INIT, USART_INIT,
     CRC_INIT, SetGlobalTimer, GetGlobalTime, Window, Button, Banner, SetVTOR, SetStackPointer, Jump, Go
<1>2. CASE Rewrite
  BY <1>2 DEF Rewrite
<1>3. CASE Systick_Interrupt
  BY <1>3 DEF Systick_Interrupt
<1>4. CASE Press
  BY <1>4 DEF Press
<1>5. CASE Reset
  BY <1>5 DEF Reset
<1>6. CASE UNCHANGED vars
  BY <1>6 DEF vars
<1>7. CASE BootJumpToApplication \/ AppStarts
  BY <1>7 DEF BootJumpToApplication, AppStarts, Go
<1>8. QED
  BY <1>1, <1>2, <1>3, <1>4, <1>5, <1>6, <1>7, Zenon DEF Next

LEMMA VerdictStep ==
  ASSUME UnitInv, VerdictIsRight, [Next]_vars
  PROVE  VerdictIsRight'
<1>1. CASE verdict' \in {verdict, NoVerdict}
  BY <1>1 DEF VerdictIsRight
<1>2. QED
  BY <1>1, FrameStep, VerdictChanges

-----------------------------------------------------------------------------
EntryInv ==
  /\ VectorsInv /\ LineInv /\ ButtonInv /\ PortInv /\ WindowInv
  /\ UnitInv /\ ButtonDecides /\ HandOverInv /\ VerdictIsRight

LEMMA EntryInductive == Spec => []EntryInv
<1>1. Init => EntryInv
  <2> SUFFICES ASSUME Init PROVE EntryInv
    OBVIOUS
  <2>1. VectorsInv /\ LineInv /\ PortInv /\ HandOverInv
    BY DEF Init, VectorsInv, LineInv, PortInv, HandOverInv, SetUp, Served, InWindow, ToControl, ToUser
  <2>2. WindowInv /\ ButtonDecides
    BY DEF Init, WindowInv, ButtonDecides, ToControl, ToUser
  <2>3. ButtonInv
    BY Zenon DEF Init, ButtonInv
  <2>4. UnitInv /\ VerdictIsRight
    BY DEF Init, UnitInv, UnitReady, InWindow, ToControl, VerdictIsRight
  <2>5. QED
    BY <2>1, <2>2, <2>3, <2>4, Zenon DEF EntryInv
<1>2. TypeOK /\ EntryInv /\ [Next]_vars => EntryInv'
  <2> SUFFICES ASSUME TypeOK, EntryInv, [Next]_vars PROVE EntryInv'
    OBVIOUS
  <2>1. DriverTypes /\ TimeTypes
    BY DEF TypeOK, DriverTypes, TimeTypes
  <2>2. ComesFrom
    BY <2>1, Moves, Zenon DEF EntryInv
  <2>3. VectorsInv'
    BY <2>2, VectorsStep, Zenon DEF EntryInv
  <2>4. LineInv'
    BY <2>1, <2>2, LineStep, Zenon DEF EntryInv
  <2>5. ButtonInv'
    BY ButtonStep, Zenon DEF EntryInv
  <2>6. PortInv' /\ WindowInv'
    BY <2>1, <2>2, PortStep, WindowStep, Zenon DEF EntryInv
  <2>7. ButtonDecides'
    BY <2>1, <2>2, DecisionStep, Zenon DEF EntryInv
  <2>8. HandOverInv'
    BY HandOverStep, Zenon DEF EntryInv
  <2>9. UnitInv'
    BY <2>1, UnitStep, Zenon DEF EntryInv
  <2>10. VerdictIsRight'
    BY VerdictStep, Zenon DEF EntryInv
  <2>11. QED
    BY <2>3, <2>4, <2>5, <2>6, <2>7, <2>8, <2>9, <2>10, Zenon DEF EntryInv
<1>3. QED
  BY <1>1, <1>2, EntryTypeCorrect, PTL DEF Spec

(* A button held from the reset on leads to BootControl, one never pressed to
   the application: for every time-out of more than one tick, however often
   the board is reset and whatever sector 2 holds. *)
THEOREM ButtonIsDecisive == Spec => []ButtonDecides
<1>1. EntryInv => ButtonDecides
  BY DEF EntryInv
<1>2. QED
  BY <1>1, EntryInductive, PTL

(* A whole application is entered with its own vectors and on its own stack,
   whoever starts it and whatever the resets and rewrites before; if it ends
   in a fault, a tick came before its reset handler was done. *)
THEOREM WholeImageStarts == Spec => []WholeAppIsEntered
<1>1. EntryInv => WholeAppIsEntered
  BY HandOverHolds DEF EntryInv
<1>2. QED
  BY <1>1, EntryInductive, PTL

(* The line runs within 2.5 % of the rate main asks for, or of 9600 when the
   look-up table does not have it: for every rate. *)
THEOREM LineRunsAtRate == Spec => []LineRate
<1>1. EntryInv => LineRate
  BY LineHolds DEF EntryInv
<1>2. QED
  BY <1>1, EntryInductive, PTL

(* BootControl accepts a frame exactly when it came as it was sent: for words
   and bytes of any size, every odd polynomial and every set of frames, with
   at most one byte of a frame damaged. *)
THEOREM VerdictsAreRight == Spec => []VerdictIsRight
<1>1. EntryInv => VerdictIsRight
  BY DEF EntryInv
<1>2. QED
  BY <1>1, EntryInductive, PTL

-----------------------------------------------------------------------------
(* The time of the window.  Between two steps of the processor at most one   *)
(* tick falls, which is why rested matters; the clock runs and the USART has *)
(* its clock from where main has switched them on.                           *)
Timed == {"GetGlobalTime"} \cup InWindow \cup ToControl \cup ToUser

OnTime ==
  /\ pc = "Button" =>
       globalTime <= currentTime + BOOT_TIMEOUT /\ (rested => globalTime < currentTime + BOOT_TIMEOUT)
  /\ pc = "Window" =>
       globalTime <= currentTime + BOOT_TIMEOUT + 1 /\ (rested => globalTime <= currentTime + BOOT_TIMEOUT)
  /\ pc \in ToUser => globalTime >= currentTime + BOOT_TIMEOUT \/ asked

ClockInv == pc \in Timed => SYST_CSR = {"TICKINT", "ENABLE"}

USARTInv == pc \in Served => "USART2" \in clocks

(* How main comes to look at the button, and to where time matters. *)
LEMMA TimedFrom ==
  ASSUME VectorsInv, [Next]_vars
  PROVE  /\ pc' = "Button" => Window \/ (pc = "Button" /\ (Systick_Interrupt \/ Press \/ UNCHANGED vars))
         /\ pc' \in Timed => pc \in Timed \/ SetGlobalTimer
<1> USE DEF Timed, InWindow, ToControl, ToUser, Go
<1>1. CASE init_stack \/ init_ram \/ call_ctors
  BY <1>1 DEF init_stack, init_ram, call_ctors
<1>2. CASE NVIC_INIT \/ FLASH_INIT \/ GPIO_INIT
  BY <1>2 DEF NVIC_INIT, FLASH_INIT, GPIO_INIT
<1>3. CASE \E rate \in BaudRates : USART_INIT(rate)
  BY <1>3 DEF USART_INIT
<1>4. CASE CRC_INIT \/ GetGlobalTime \/ Banner
  BY <1>4 DEF CRC_INIT, GetGlobalTime, Banner
<1>5. CASE SetGlobalTimer
  BY <1>5 DEF SetGlobalTimer
<1>6. CASE Window
  <2>1. pc \in Timed
    BY <1>6 DEF Window
  <2> HIDE DEF Timed
  <2>2. QED
    BY <1>6, <2>1, Zenon
<1>7. CASE Button
  <2>1. pc \in Timed /\ pc' # "Button"
    BY <1>7 DEF Button
  <2> HIDE DEF Timed
  <2>2. QED
    BY <2>1, Zenon
<1>8. CASE SetVTOR \/ SetStackPointer
  BY <1>8 DEF SetVTOR, SetStackPointer
<1>9. CASE Jump \/ AppStarts \/ BootJumpToApplication
  <2>1. pc \in {"Jump", "App", "BootControl"} /\ pc' \in {"App", "AppRuns", "Fault", "SetVTOR"}
    BY <1>9, LandingsAre DEF Jump, AppStarts, BootJumpToApplication
  <2>2. QED
    BY <2>1
<1>10. CASE Frame \/ Rewrite
  <2>1. pc = "BootControl" /\ pc' = pc
    BY <1>10, Zenon DEF Frame, ReceiveFrame, Rewrite
  <2>2. QED
    BY <2>1
<1>11. CASE Systick_Interrupt
  <2>1. pc' = pc \/ (pc \in Switched /\ pc' = "Fault")
    BY <1>11 DEF Systick_Interrupt, VectorsInv, Switched
  <2>2. pc \in Switched => pc \in Timed
    BY DEF Switched
  <2> HIDE DEF Timed
  <2>3. QED
    BY <1>11, <2>1, <2>2
<1>12. CASE Press \/ UNCHANGED vars
  <2>1. pc' = pc
    BY <1>12, Zenon DEF Press, vars
  <2> HIDE DEF Timed
  <2>2. QED
    BY <1>12, <2>1, Zenon
<1>13. CASE Reset
  <2>1. pc' = "init_stack"
    BY <1>13 DEF Reset
  <2>2. QED
    BY <2>1
<1>14. QED
  BY <1>1, <1>2, <1>3, <1>4, <1>5, <1>6, <1>7, <1>8, <1>9, <1>10, <1>11, <1>12, <1>13, Zenon
  DEF Next, Processor

(* A tick is the only step that moves the time outside of main's set-up. *)
LEMMA Tick ==
  ASSUME TimeTypes, Systick_Interrupt
  PROVE  /\ rested /\ rested' = FALSE
         /\ globalTime' \in {globalTime, globalTime + 1}
         /\ currentTime' = currentTime /\ SYST_CSR' = SYST_CSR
<1>1. rested /\ rested' = FALSE /\ globalTime' \in {globalTime, globalTime + 1}
  BY Zenon DEF Systick_Interrupt
<1>2. QED
  BY <1>1, Zenon DEF Systick_Interrupt

LEMMA ClockStep ==
  ASSUME VectorsInv, TimeTypes, ClockInv, [Next]_vars
  PROVE  ClockInv'
<1>1. SUFFICES ASSUME pc' \in Timed PROVE SYST_CSR' = {"TICKINT", "ENABLE"}
  BY Zenon DEF ClockInv
<1>2. CASE SetGlobalTimer
  BY <1>2, Zenon DEF SetGlobalTimer
<1>3. CASE ~ SetGlobalTimer
  <2>1. pc \in Timed
    BY <1>1, <1>3, TimedFrom, Zenon
  <2>2. ~ init_ram /\ ~ Reset
    BY <1>1, <2>1 DEF init_ram, Reset, Go, Timed, InWindow, ToControl, ToUser
  <2>3. SYST_CSR' = SYST_CSR
    <3>1. UNCHANGED time \/ GetGlobalTime \/ Systick_Interrupt
      BY <1>3, <2>2, WhoChanges, Zenon
    <3>2. GetGlobalTime => SYST_CSR' = SYST_CSR
      BY Zenon DEF GetGlobalTime
    <3>3. UNCHANGED time => SYST_CSR' = SYST_CSR
      BY Zenon DEF time
    <3>4. QED
      BY <3>1, <3>2, <3>3, Tick, Zenon
  <2>4. QED
    BY <2>1, <2>3, Zenon DEF ClockInv
<1>4. QED
  BY <1>2, <1>3

LEMMA USARTStep ==
  ASSUME ComesFrom, LineInv, USARTInv, [Next]_vars
  PROVE  USARTInv'
<1>1. SUFFICES ASSUME pc' \in Served PROVE "USART2" \in clocks'
  BY Zenon DEF USARTInv
<1>2. CASE \E rate \in BaudRates : USART_INIT(rate)
  <2>1. pc = "USART_INIT"
    BY <1>2 DEF USART_INIT, Go
  <2>2. driver.USART2 = "AVAILABLE"
    BY <2>1 DEF LineInv, SetUp
  <2>3. QED
    BY <1>2, <2>2 DEF USART_INIT, EnableClock
<1>3. CASE ~ \E rate \in BaudRates : USART_INIT(rate)
  <2>1. pc \in Served
    BY <1>1, <1>3, Zenon DEF ComesFrom
  <2>2. "USART2" \in clocks
    BY <2>1, Zenon DEF USARTInv
  <2>3. ~ Reset /\ ~ init_ram /\ ~ call_ctors /\ ~ FLASH_INIT /\ ~ GPIO_INIT
    BY <1>1, <2>1 DEF Reset, init_ram, call_ctors, FLASH_INIT, GPIO_INIT, Go, Served, InWindow,
                      ToControl, ToUser
  <2>4. CASE CRC_INIT
    BY <2>2, <2>4 DEF CRC_INIT, EnableClock
  <2>5. CASE UNCHANGED <<driver, clocks>>
    BY <2>2, <2>5
  <2>6. QED
    BY <1>3, <2>3, <2>4, <2>5, WhoChanges, Zenon
<1>4. QED
  BY <1>2, <1>3

LEMMA OnTimeStep ==
  ASSUME VectorsInv, ComesFrom, TimeTypes, ButtonInv, OnTime, [Next]_vars
  PROVE  OnTime'
<1>1. BOOT_TIMEOUT \in Nat /\ globalTime \in Nat /\ currentTime \in Nat
  BY BoundsAreNumbers DEF TimeTypes
<1>2. ASSUME Press \/ UNCHANGED vars PROVE UNCHANGED <<pc, globalTime, currentTime, rested>>
  BY <1>2, Zenon DEF Press, vars, time
<1>3. ASSUME pc' = "Button"
      PROVE  /\ globalTime' <= currentTime' + BOOT_TIMEOUT
             /\ rested' => globalTime' < currentTime' + BOOT_TIMEOUT
  <2>1. CASE Window
    <3>1. globalTime < currentTime + BOOT_TIMEOUT
      BY <1>3, <2>1 DEF Window, Go
    <3>2. UNCHANGED <<globalTime, currentTime>>
      BY <2>1, Zenon DEF Window, time
    <3>3. QED
      BY <1>1, <3>1, <3>2
  <2>2. CASE pc = "Button" /\ Systick_Interrupt
    <3>1. globalTime < currentTime + BOOT_TIMEOUT
      BY <2>2, Tick, Zenon DEF OnTime
    <3>2. QED
      BY <1>1, <2>2, <3>1, Tick
  <2>3. CASE pc = "Button" /\ (Press \/ UNCHANGED vars)
    BY <1>2, <2>3 DEF OnTime
  <2>4. QED
    BY <1>3, <2>1, <2>2, <2>3, TimedFrom, Zenon
<1>4. ASSUME pc' = "Window"
      PROVE  /\ globalTime' <= currentTime' + BOOT_TIMEOUT + 1
             /\ rested' => globalTime' <= currentTime' + BOOT_TIMEOUT
  <2>1. CASE GetGlobalTime
    BY <1>1, <2>1 DEF GetGlobalTime
  <2>2. CASE Button
    <3>1. pc = "Button" /\ UNCHANGED <<globalTime, currentTime>>
      BY <2>2, Zenon DEF Button, Go, time
    <3>2. globalTime <= currentTime + BOOT_TIMEOUT
      BY <3>1, Zenon DEF OnTime
    <3>3. QED
      BY <1>1, <3>1, <3>2
  <2>3. CASE pc = "Window" /\ Systick_Interrupt
    <3>1. globalTime <= currentTime + BOOT_TIMEOUT
      BY <2>3, Tick, Zenon DEF OnTime
    <3>2. QED
      BY <1>1, <2>3, <3>1, Tick
  <2>4. CASE pc = "Window" /\ (Press \/ UNCHANGED vars)
    BY <1>2, <2>4 DEF OnTime
  <2>5. QED
    BY <1>4, <2>1, <2>2, <2>3, <2>4, Zenon DEF ComesFrom
<1>5. ASSUME pc' \in ToUser, ~ asked' PROVE globalTime' >= currentTime' + BOOT_TIMEOUT
  <2>1. CASE Window
    <3>1. ~ (globalTime < currentTime + BOOT_TIMEOUT)
      BY <1>5, <2>1 DEF Window, Go, ToUser
    <3>2. UNCHANGED <<globalTime, currentTime>>
      BY <2>1, Zenon DEF Window, time
    <3>3. QED
      BY <1>1, <3>1, <3>2
  <2>2. CASE pc \in ToUser
    <3>1. ~ Reset
      BY <1>5 DEF Reset, ToUser
    <3>2. globalTime >= currentTime + BOOT_TIMEOUT
      <4>1. ~ asked
        BY <1>5, <3>1, ButtonStep, Zenon
      <4>2. QED
        BY <2>2, <4>1, Zenon DEF OnTime
    <3>3. ~ init_ram /\ ~ SetGlobalTimer /\ ~ GetGlobalTime
      BY <2>2 DEF init_ram, SetGlobalTimer, GetGlobalTime, Go, ToUser
    <3>4. CASE UNCHANGED time
      <4>1. UNCHANGED <<globalTime, currentTime>>
        BY <3>4, Zenon DEF time
      <4>2. QED
        BY <3>2, <4>1
    <3>5. CASE Systick_Interrupt
      BY <1>1, <3>2, <3>5, Tick
    <3>6. QED
      BY <3>1, <3>3, <3>4, <3>5, WhoChanges, Zenon
  <2>3. QED
    BY <1>5, <2>1, <2>2, Zenon DEF ComesFrom, BootJumpToApplication
<1>6. QED
  BY <1>3, <1>4, <1>5, Zenon DEF OnTime

TimedInv == OnTime /\ ClockInv /\ USARTInv

LEMMA TimedInductive == Spec => []TimedInv
<1>1. Init => TimedInv
  BY DEF Init, TimedInv, OnTime, ClockInv, USARTInv, Timed, Served, InWindow, ToControl, ToUser
<1>2. TypeOK /\ EntryInv /\ TimedInv /\ [Next]_vars => TimedInv'
  <2> SUFFICES ASSUME TypeOK, EntryInv, TimedInv, [Next]_vars PROVE TimedInv'
    OBVIOUS
  <2>1. TimeTypes
    BY DEF TypeOK, TimeTypes
  <2>2. VectorsInv /\ LineInv /\ ButtonInv
    BY Zenon DEF EntryInv
  <2>3. ComesFrom
    BY <2>1, <2>2, Moves, Zenon
  <2>4. OnTime'
    BY <2>1, <2>2, <2>3, OnTimeStep, Zenon DEF TimedInv
  <2>5. ClockInv'
    BY <2>1, <2>2, ClockStep, Zenon DEF TimedInv
  <2>6. USARTInv'
    BY <2>2, <2>3, USARTStep, Zenon DEF TimedInv
  <2>7. QED
    BY <2>4, <2>5, <2>6, Zenon DEF TimedInv
<1>3. QED
  BY <1>1, <1>2, EntryTypeCorrect, EntryInductive, PTL DEF Spec

LEMMA TimerTicks ==
  ASSUME SYST_CSR = {"TICKINT", "ENABLE"}
  PROVE  TickEnabled
<1>1. Implemented(255) = 240
  BY DEF Implemented
<1>2. ~ HeldBack(0, 255)
  BY <1>1 DEF HeldBack
<1>3. QED
  BY <1>2 DEF TickEnabled

(* The window has BOOT_TIMEOUT ticks and at most one more, for every
   time-out, whatever RAM and sector 2 held at the reset: the application is
   not started early, and no stopped clock keeps main in the window. *)
THEOREM WindowIsKept == Spec => []WindowIsOnTime
<1>1. TypeOK /\ TimedInv => WindowIsOnTime
  <2> SUFFICES ASSUME TypeOK, TimedInv PROVE WindowIsOnTime
    OBVIOUS
  <2>1. ASSUME pc \in InWindow PROVE TickEnabled
    <3>1. pc \in Timed
      BY <2>1 DEF Timed
    <3>2. SYST_CSR = {"TICKINT", "ENABLE"}
      BY <3>1, Zenon DEF TimedInv, ClockInv
    <3>3. QED
      BY <3>2, TimerTicks
  <2>2. ASSUME pc \in InWindow PROVE globalTime <= currentTime + BOOT_TIMEOUT + 1
    <3>1. BOOT_TIMEOUT \in Nat /\ globalTime \in Nat /\ currentTime \in Nat
      BY BoundsAreNumbers DEF TypeOK
    <3>2. QED
      BY <2>2, <3>1 DEF TimedInv, OnTime, InWindow
  <2>3. pc \in ToUser => globalTime >= currentTime + BOOT_TIMEOUT \/ asked
    BY Zenon DEF TimedInv, OnTime
  <2>4. QED
    BY <2>1, <2>2, <2>3, Zenon DEF WindowIsOnTime
<1>2. QED
  BY <1>1, EntryTypeCorrect, TimedInductive, PTL

(* Neither banner waits for a USART without a clock: the driver was available
   when main configured it, because the constructors ran before. *)
THEOREM BannersGoOut == Spec => [](pc \in {"BootBanner", "UserBanner"} => "USART2" \in clocks)
<1>1. TimedInv => (pc \in {"BootBanner", "UserBanner"} => "USART2" \in clocks)
  BY DEF TimedInv, USARTInv, Served, ToControl, ToUser
<1>2. QED
  BY <1>1, TimedInductive, PTL
=============================================================================
