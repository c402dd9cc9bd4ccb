------------------------- MODULE FlashDriver_proofs -------------------------
(***************************************************************************)
(* The control register of the flash is locked between calls and untouched *)
(* while the flash works.  The first invariant, InStep, says what the      *)
(* register holds at each place of the driver, and that the flash works    *)
(* only while the driver waits for it.  The second, JobInv, says that what *)
(* the flash does is what the loop has asked for last; with it a program   *)
(* call without an error flag has programmed its data, and the driver      *)
(* implements FlashSpec.                                                   *)
(***************************************************************************)
EXTENDS FlashDriver, FlashLayout_proofs, SequenceTheorems, TLAPS

Places == {"Idle", "Unlock", "Select", "Loop", "Wait", "Lock"}
Kinds  == {"MassErase", "SectorErase", "Program"}

Register == [PG : BOOLEAN, SER : BOOLEAN, MER : BOOLEAN, SNB : Sectors, LOCK : BOOLEAN]

Unlocked == [Locked EXCEPT !.LOCK = FALSE]

(* The register with the operation of the call selected. *)
Selected(number) ==
  [PG |-> kind = "Program", SER |-> kind = "SectorErase", MER |-> kind = "MassErase",
   SNB |-> number, LOCK |-> FALSE]

InStep ==
  /\ pc \in Places /\ kind \in Kinds /\ BSY \in BOOLEAN
  /\ pc \in {"Idle", "Unlock"} => CR = Locked
  /\ pc \in {"Select", "Lock"} => CR = Unlocked
  /\ pc \in {"Loop", "Wait"} =>
       \E number \in Sectors : CR = Selected(number) /\ (kind # "SectorErase" => number = 0)
  /\ BSY => pc = "Wait"
  /\ currentState = IF pc = "Idle" THEN "FLASH_AVAILABLE" ELSE "FLASH_BUSY"

-----------------------------------------------------------------------------
LEMMA NoSectorIsZero == 0 \in Sectors
BY LayoutAssumption DEF Sectors

LEMMA SelectIsSelected ==
  ASSUME kind \in Kinds, CR = Unlocked
  PROVE  Select(TRUE) = Selected(0)
<1>1. CASE kind = "MassErase"
  BY <1>1 DEF Select, Selected, Unlocked, Locked
<1>2. CASE kind = "SectorErase"
  BY <1>2 DEF Select, Selected, Unlocked, Locked
<1>3. CASE kind = "Program"
  BY <1>3 DEF Select, Selected, Unlocked, Locked
<1>4. QED
  BY <1>1, <1>2, <1>3 DEF Kinds

LEMMA SameRegister ==
  ASSUME NEW r \in Register, NEW s \in Register,
         r.PG = s.PG, r.SER = s.SER, r.MER = s.MER, r.SNB = s.SNB, r.LOCK = s.LOCK
  PROVE  r = s
BY DEF Register

LEMMA DeselectIsUnlocked ==
  ASSUME kind \in Kinds, NEW number \in Sectors, CR = Selected(number),
         kind # "SectorErase" => number = 0
  PROVE  Select(FALSE) = Unlocked
<1>1. /\ Unlocked \in Register /\ Unlocked.PG = FALSE /\ Unlocked.SER = FALSE
      /\ Unlocked.MER = FALSE /\ Unlocked.SNB = 0 /\ Unlocked.LOCK = FALSE
  BY NoSectorIsZero DEF Unlocked, Locked, Register
<1>2. /\ CR \in Register /\ CR.PG = (kind = "Program") /\ CR.SER = (kind = "SectorErase")
      /\ CR.MER = (kind = "MassErase") /\ CR.SNB = number /\ CR.LOCK = FALSE
  BY DEF Selected, Register
<1>3. /\ Select(FALSE) \in Register /\ Select(FALSE).PG = FALSE /\ Select(FALSE).SER = FALSE
      /\ Select(FALSE).MER = FALSE /\ Select(FALSE).SNB = 0 /\ Select(FALSE).LOCK = FALSE
  <2>1. CASE kind = "MassErase"
    BY <1>2, <2>1 DEF Select, Register
  <2>2. CASE kind = "SectorErase"
    BY <1>2, <2>2, NoSectorIsZero DEF Select, Register
  <2>3. CASE kind = "Program"
    BY <1>2, <2>3 DEF Select, Register
  <2>4. QED
    BY <2>1, <2>2, <2>3 DEF Kinds
<1>4. QED
  BY <1>1, <1>3, SameRegister

LEMMA StartSetsBusy ==
  /\ \A cr : Start(cr) => BSY' \in {BSY, TRUE}
  /\ \A dest, byte : Store(dest, byte) => BSY' \in {BSY, TRUE}
<1>1. \A j, S : StartJob(j, S) => BSY' \in {BSY, TRUE}
  BY DEF StartJob
<1>2. Ignored => BSY' = BSY
  BY DEF Ignored
<1>3. \A cr : Start(cr) => BSY' \in {BSY, TRUE}
  BY <1>1, <1>2, Zenon DEF Start
<1>4. \A dest, byte : Store(dest, byte) => BSY' \in {BSY, TRUE}
  BY <1>1, <1>2, Zenon DEF Store
<1>5. QED
  BY <1>3, <1>4

LEMMA InStepInit == Init => InStep
BY DEF Init, InitDriver, InStep, Places, Kinds

LEMMA InStepEnter ==
  ASSUME InStep, NEW k \in Kinds, NEW m, NEW w, Enter(k, m, w)
  PROVE  InStep'
<1>1. pc = "Idle" /\ CR = Locked /\ ~ BSY /\ CR' = CR /\ BSY' = BSY
  BY DEF InStep, Enter, hardware
<1>2. \/ pc' = "Idle" /\ kind' = kind /\ currentState' = currentState
      \/ pc' = "Unlock" /\ kind' = k /\ currentState' = "FLASH_BUSY"
  BY <1>1 DEF Enter, call
<1>3. QED
  BY <1>1, <1>2 DEF InStep, Places

LEMMA InStepStart ==
  ASSUME InStep, StartOperation
  PROVE  InStep'
<1>1. /\ pc = "Loop" /\ pc' = "Wait" /\ kind' = kind /\ currentState' = currentState
      /\ kind \in Kinds /\ BSY \in BOOLEAN
  BY DEF StartOperation, InStep, call, status
<1>2. PICK number \in Sectors : CR = Selected(number) /\ (kind # "SectorErase" => number = 0)
  BY <1>1 DEF InStep
<1>3. BSY' \in BOOLEAN
  BY <1>1, StartSetsBusy, Zenon DEF StartOperation, StartMassErase, StartSectorErase, StoreUnit
<1>4. \E n \in Sectors : CR' = Selected(n) /\ (kind # "SectorErase" => n = 0)
  <2>1. CASE kind = "SectorErase"
    <3>1. PICK s \in Sectors : WriteCR([CR EXCEPT !.SNB = s])
      BY <2>1 DEF StartOperation, StartSectorErase, SectorsOfMask
    <3>2. CR' = Selected(s)
      BY <1>2, <3>1 DEF WriteCR, Selected
    <3>3. QED
      BY <2>1, <3>2
  <2>2. CASE kind # "SectorErase"
    BY <1>2, <2>2 DEF StartOperation, StartMassErase, StoreUnit
  <2>3. QED
    BY <2>1, <2>2
<1>5. QED
  BY <1>1, <1>3, <1>4 DEF InStep, Places, Selected

LEMMA InStepDriver ==
  ASSUME InStep, Driver
  PROVE  InStep'
<1>1. CASE UnlockControlRegister
  BY <1>1 DEF InStep, UnlockControlRegister, GetOPStatus, Places, call, status, Locked, Unlocked
<1>2. CASE SelectOperation
  <2>1. CR' = Selected(0)
    BY <1>2, SelectIsSelected DEF InStep, SelectOperation, WriteCR, Unlocked, Locked
  <2>2. QED
    BY <1>2, <2>1, NoSectorIsZero DEF InStep, SelectOperation, Places, call, status, Selected
<1>3. CASE StartOperation
  BY <1>3, InStepStart
<1>4. CASE Wait
  BY <1>4 DEF InStep, Wait, GetOPStatus, Places, call, status, hardware, Selected
<1>5. CASE DeselectOperation
  <2>1. PICK number \in Sectors : CR = Selected(number) /\ (kind # "SectorErase" => number = 0)
    BY <1>5 DEF InStep, DeselectOperation
  <2>2. CR' = Unlocked
    BY <1>5, <2>1, DeselectIsUnlocked DEF InStep, DeselectOperation, WriteCR, Selected
  <2>3. QED
    BY <1>5, <2>2 DEF InStep, DeselectOperation, Places, call, status
<1>6. CASE LockControlRegister
  BY <1>6 DEF InStep, LockControlRegister, GetOPStatus, Places, Kinds, Locked, Unlocked
<1>7. QED
  BY <1>1, <1>2, <1>3, <1>4, <1>5, <1>6 DEF Driver

LEMMA InStepNext ==
  ASSUME InStep, [Next]_vars
  PROVE  InStep'
<1>1. CASE MassErase
  BY <1>1, InStepEnter DEF MassErase, Kinds
<1>2. CASE \E m \in Masks : SectorErase(m)
  BY <1>2, InStepEnter DEF SectorErase, Kinds
<1>3. CASE \E w \in Writes : WriteFlash(w)
  BY <1>3, InStepEnter DEF WriteFlash, Kinds
<1>4. CASE Driver
  BY <1>4, InStepDriver
<1>5. CASE \/ \E mode \in {"WRITE_PROTECTION", "PROPRIETARY_PROTECTION"} : SetFlashProtectionMode(mode)
           \/ \E m \in Masks : SetSectorRWProtection(m)
           \/ \E p \in Parallelisms : Config(p)
           \/ UNCHANGED vars
  <2>1. UNCHANGED <<pc, kind, CR, BSY, currentState>>
    BY <1>5 DEF SetFlashProtectionMode, SetSectorRWProtection, Config, vars, call, status, hardware
  <2>2. QED
    BY <2>1 DEF InStep, Selected
<1>6. CASE Finish
  <2>1. UNCHANGED <<pc, kind, CR, currentState>> /\ BSY' = FALSE
    BY <1>6 DEF Finish, call, status
  <2>2. QED
    BY <2>1 DEF InStep, Selected
<1>7. CASE \E gone \in SUBSET HalfErased : Reset(gone)
  BY <1>7 DEF Reset, InStep, Places, Kinds
<1>8. QED
  BY <1>1, <1>2, <1>3, <1>4, <1>5, <1>6, <1>7 DEF Next

-----------------------------------------------------------------------------
(* Between calls the register is locked with nothing selected, the flash is
   at rest and the driver is free. *)
THEOREM RegisterIsLocked == Spec => []ClosedWhenIdle
<1>1. InStep => ClosedWhenIdle
  BY DEF InStep, ClosedWhenIdle
<1>2. InStep /\ [Next]_vars => InStep'
  BY InStepNext
<1>3. QED
  BY <1>1, <1>2, InStepInit, PTL DEF Spec

(* The register does not change while the flash works. *)
THEOREM RegisterIsLeftAlone == Spec => HandsOffWhileBusy
<1>1. InStep /\ [Next]_vars => [BSY /\ BSY' => CR' = CR]_vars
  <2> SUFFICES ASSUME InStep, Next, BSY, BSY' PROVE CR' = CR
    BY DEF vars
  <2>1. pc = "Wait" /\ GetOPStatus # "FLASH_OP_FREE"
    BY DEF InStep, GetOPStatus
  <2>2. ~ MassErase /\ ~ (\E m \in Masks : SectorErase(m)) /\ ~ (\E w \in Writes : WriteFlash(w))
    BY <2>1 DEF MassErase, SectorErase, WriteFlash, Enter
  <2>3. ~ Driver
    BY <2>1 DEF Driver, UnlockControlRegister, SelectOperation, StartOperation, Wait,
                DeselectOperation, LockControlRegister
  <2>4. ~ Finish /\ ~ (\E gone \in SUBSET HalfErased : Reset(gone))
    BY DEF Finish, Reset
  <2>5. QED
    BY <2>1, <2>2, <2>3, <2>4 DEF Next, SetFlashProtectionMode, SetSectorRWProtection, Config
<1>2. InStep /\ [Next]_vars => InStep'
  BY InStepNext
<1>3. QED
  BY <1>1, <1>2, InStepInit, PTL DEF Spec, HandsOffWhileBusy

-----------------------------------------------------------------------------
(* What the flash is doing is what the loop asked for with its last step, and
   is not protected; the loop has not gone past its end. *)
ByteJob(i) == [cells |-> {write.dest + i - 1}, data |-> write.data[i], how |-> "Program"]
SectorJob(s) == [cells |-> CellsOf(s), data |-> Erased, how |-> "Erase"]
MassJob == [cells |-> Address, data |-> Erased, how |-> "Erase"]

ProtectedCell(a) == \E s \in Protected(optcr) : a \in CellsOf(s)

Working ==
  /\ kind = "MassErase" => job = MassJob /\ Protected(optcr) = {} /\ idx = 1
  /\ kind = "SectorErase" =>
       idx >= 1 /\ idx - 1 \in SectorsOfMask(mask) \ Protected(optcr) /\ job = SectorJob(idx - 1)
  /\ kind = "Program" =>
       idx >= 1 /\ paralellism = PSIZE /\ job = ByteJob(idx) /\ ~ ProtectedCell(write.dest + idx - 1)

JobInv ==
  /\ BSY => Working
  /\ pc = "Idle" => kind = "SectorErase"
  /\ pc \in {"Unlock", "Select"} => idx = 0
  /\ pc = "Lock" => AllStarted
  /\ kind = "MassErase" => idx \in 0 .. 1
  /\ kind = "Program" => idx \in 0 .. Units /\ WholeUnits(write)

(* A program call without an error flag has stored bytes, if it has stored
   anything, and the flash has taken those it has finished. *)
Taken(a, n) ==
  LET i == a - write.dest + 1
  IN  mem[a] = IF i \in 1 .. n THEN ProgramCell(before[a], write.data[i]) ELSE before[a]

CleanInv ==
  pc # "Idle" /\ kind = "Program" /\ ~ WRPERR /\ ~ PGPERR =>
    /\ idx > 0 => paralellism = PSIZE
    /\ \A a \in Address : Taken(a, Started)

TypeInv == TypeOK /\ job.data \in Byte

-----------------------------------------------------------------------------
(* Types. *)
LEMMA WriteBounds ==
  ASSUME NEW w \in Writes \cup {NoWrite}
  PROVE  /\ w.dest \in Nat /\ Len(w.data) \in Nat /\ w.data \in Seq(Byte)
         /\ \A i \in 1 .. Len(w.data) : w.dest + i - 1 \in Address /\ w.data[i] \in Byte
<1>1. w.dest \in Nat /\ w.data \in Seq(Byte) /\ w.dest + Len(w.data) <= FLASH_END
  <2>1. CASE w \in Writes
    BY <2>1, DriverAssumption DEF Address
  <2>2. CASE w = NoWrite
    BY <2>2, ApplicationArea DEF NoWrite
  <2>3. QED
    BY <2>1, <2>2
<1>2. Len(w.data) \in Nat /\ \A i \in 1 .. Len(w.data) : w.data[i] \in Byte
  BY <1>1
<1>3. QED
  BY <1>1, <1>2, ApplicationArea DEF Address

LEMMA UnitSizes == \A p \in {"X8", "X16", "X32", "X64"} : Unit[p] \in {1, 2, 4, 8}
BY DEF Unit

LEMMA WholeDivision ==
  ASSUME NEW n \in Nat, NEW d \in {1, 2, 4, 8}
  PROVE  /\ n \div d \in Nat /\ n \div d <= n
         /\ d = 1 => n \div d = n
         /\ n \div d = 0 /\ n % d = 0 => n = 0
<1>1. CASE d = 1
  BY <1>1
<1>2. CASE d = 2
  BY <1>2
<1>3. CASE d = 4
  BY <1>3
<1>4. CASE d = 8
  BY <1>4
<1>5. QED
  BY <1>1, <1>2, <1>3, <1>4

LEMMA UnitsFit ==
  ASSUME TypeOK
  PROVE  /\ Units \in Nat /\ Units <= Len(write.data)
         /\ paralellism = PSIZE => Units = Len(write.data)
         /\ Units = 0 /\ WholeUnits(write) => Len(write.data) = 0
<1>1. Len(write.data) \in Nat
  BY WriteBounds DEF TypeOK
<1>2. Unit[paralellism] \in {1, 2, 4, 8} /\ (paralellism = PSIZE => Unit[paralellism] = 1)
  BY UnitSizes, DriverAssumption DEF TypeOK, PSIZE, Unit
<1>3. QED
  BY <1>1, <1>2, WholeDivision DEF Units, WholeUnits

LEMMA NoJobType == NoJob.cells \subseteq Address /\ NoJob.data \in Byte
BY DEF NoJob, Erased, Byte

LEMMA BlankType == Blank \in [Address -> Byte]
BY DEF Blank, Erased, Byte

LEMMA TypeInit == Init => TypeInv
<1>1. ASSUME Init PROVE TypeInv
  <2>1. job.cells \subseteq Address /\ job.data \in Byte
    BY <1>1, NoJobType DEF Init, InitDriver
  <2>2. CR \in [PG : BOOLEAN, SER : BOOLEAN, MER : BOOLEAN, SNB : Sectors, LOCK : BOOLEAN]
    BY <1>1, NoSectorIsZero DEF Init, InitDriver, Locked
  <2>3. QED
    BY <1>1, <2>1, <2>2, DriverAssumption, BlankType DEF Init, InitDriver, TypeInv, TypeOK
<1>2. QED
  BY <1>1

LEMMA TypeEnter ==
  ASSUME TypeInv, NEW k \in Kinds, NEW m \in Masks \cup {0}, NEW w \in Writes \cup {NoWrite},
         Enter(k, m, w)
  PROVE  TypeInv'
BY BlankType DEF TypeInv, TypeOK, Enter, Kinds, call, hardware, flags

LEMMA TypeSelect ==
  ASSUME TypeOK, NEW on \in BOOLEAN
  PROVE  Select(on) \in Register
<1>1. CR \in Register
  BY DEF TypeOK, Register
<1>2. kind \in Kinds
  BY DEF TypeOK, Kinds
<1>3. CASE kind = "MassErase"
  BY <1>1, <1>3 DEF Select, Register
<1>4. CASE kind = "SectorErase"
  BY <1>1, <1>4, NoSectorIsZero DEF Select, Register
<1>5. CASE kind = "Program"
  BY <1>1, <1>5 DEF Select, Register
<1>6. QED
  BY <1>2, <1>3, <1>4, <1>5 DEF Kinds

HardwareType == /\ BSY \in BOOLEAN /\ WRPERR \in BOOLEAN /\ PGPERR \in BOOLEAN
                /\ job.cells \subseteq Address /\ job.data \in Byte

LEMMA TypeStartJob ==
  ASSUME HardwareType, NEW j, j.cells \subseteq Address, j.data \in Byte, NEW S, StartJob(j, S)
  PROVE  HardwareType'
<1>1. CASE S \cap Protected(optcr) # {}
  BY <1>1 DEF StartJob, HardwareType
<1>2. CASE S \cap Protected(optcr) = {}
  BY <1>2 DEF StartJob, HardwareType, flags
<1>3. QED
  BY <1>1, <1>2

LEMMA TypeStart ==
  ASSUME HardwareType, NEW cr \in Register, Start(cr)
  PROVE  HardwareType'
<1>1. Ignored => HardwareType'
  BY DEF Ignored, HardwareType, flags
<1>2. Erased \in Byte /\ CellsOf(cr.SNB) \subseteq Address
  BY CellsInFlash DEF Register, Byte, Erased
<1>3. CASE cr.LOCK \/ cr.PG \/ cr.SER = cr.MER
  BY <1>1, <1>3, Zenon DEF Start
<1>4. CASE ~ (cr.LOCK \/ cr.PG \/ cr.SER = cr.MER) /\ cr.MER
  <2>1. StartJob([cells |-> Address, data |-> Erased, how |-> "Erase"], Sectors)
    BY <1>4, Zenon DEF Start
  <2>2. QED
    BY <1>2, <2>1, TypeStartJob
<1>5. CASE ~ (cr.LOCK \/ cr.PG \/ cr.SER = cr.MER) /\ ~ cr.MER
  <2>1. StartJob([cells |-> CellsOf(cr.SNB), data |-> Erased, how |-> "Erase"], {cr.SNB})
    BY <1>5, Zenon DEF Start
  <2>2. QED
    BY <1>2, <2>1, TypeStartJob
<1>6. QED
  BY <1>3, <1>4, <1>5

LEMMA TypeStore ==
  ASSUME HardwareType, NEW dest \in Address, NEW byte \in Byte, Store(dest, byte)
  PROVE  HardwareType'
<1>1. CASE CR.LOCK \/ CR.SER \/ CR.MER \/ ~ CR.PG
  BY <1>1 DEF Store, Ignored, HardwareType, flags
<1>2. CASE ~ (CR.LOCK \/ CR.SER \/ CR.MER \/ ~ CR.PG) /\ paralellism # PSIZE
  BY <1>2 DEF Store, HardwareType
<1>3. CASE ~ (CR.LOCK \/ CR.SER \/ CR.MER \/ ~ CR.PG) /\ paralellism = PSIZE
  <2>1. StartJob([cells |-> {dest}, data |-> byte, how |-> "Program"],
                 {s \in Sectors : dest \in CellsOf(s)})
    BY <1>3, Zenon DEF Store
  <2>2. QED
    BY <2>1, TypeStartJob
<1>4. QED
  BY <1>1, <1>2, <1>3

LEMMA TypeStartOperation ==
  ASSUME TypeInv, StartOperation
  PROVE  TypeInv'
<1>1. UNCHANGED <<call, status, mem, optcr>> /\ pc' = "Wait" /\ HardwareType /\ CR \in Register
  BY DEF StartOperation, TypeInv, TypeOK, HardwareType, Register
<1>2. CASE kind = "MassErase" /\ StartMassErase
  BY <1>1, <1>2, TypeStart DEF StartMassErase, TypeInv, TypeOK, HardwareType, call, status, Register
<1>3. CASE kind = "SectorErase" /\ StartSectorErase
  <2>1. PICK s \in Sectors : idx' = s + 1 /\ WriteCR([CR EXCEPT !.SNB = s]) /\ Start(CR')
    BY <1>3 DEF StartSectorErase, SectorsOfMask
  <2>2. CR' \in Register
    BY <1>1, <2>1 DEF WriteCR, Register
  <2>3. idx' \in Nat
    BY <2>1, SectorNumbers
  <2>4. HardwareType'
    BY <1>1, <2>1, <2>2, TypeStart
  <2>5. QED
    BY <1>1, <2>2, <2>3, <2>4 DEF TypeInv, TypeOK, HardwareType, call, status, Register
<1>4. CASE kind = "Program" /\ StoreUnit
  <2>1. idx \in Nat /\ idx < Units /\ idx' = idx + 1 /\ UNCHANGED CR
    BY <1>4 DEF StoreUnit, TypeInv, TypeOK
  <2>2. write.dest + idx \in Address /\ write.data[idx + 1] \in Byte
    <3>1. idx + 1 \in 1 .. Len(write.data) /\ write.dest \in Nat
      BY <2>1, UnitsFit, WriteBounds DEF TypeInv, TypeOK
    <3>2. write.dest + (idx + 1) - 1 \in Address /\ write.data[idx + 1] \in Byte
      BY <3>1, WriteBounds DEF TypeInv, TypeOK
    <3>3. QED
      BY <2>1, <3>1, <3>2
  <2>3. HardwareType'
    BY <1>1, <1>4, <2>2, TypeStore DEF StoreUnit
  <2>4. QED
    BY <1>1, <2>1, <2>3 DEF TypeInv, TypeOK, HardwareType, call, status, Register
<1>5. QED
  BY <1>2, <1>3, <1>4 DEF StartOperation

LEMMA TypeNext ==
  ASSUME TypeInv, [Next]_vars
  PROVE  TypeInv'
<1>1. CASE MassErase
  BY <1>1, TypeEnter DEF MassErase, Kinds
<1>2. CASE \E m \in Masks : SectorErase(m)
  BY <1>2, TypeEnter DEF SectorErase, Kinds
<1>3. CASE \E w \in Writes : WriteFlash(w)
  BY <1>3, TypeEnter DEF WriteFlash, Kinds
<1>4. CASE \E p \in Parallelisms : Config(p)
  BY <1>4 DEF Config, TypeInv, TypeOK, call, hardware, flags
<1>5. CASE UnlockControlRegister
  BY <1>5 DEF UnlockControlRegister, TypeInv, TypeOK, call, status, flags
<1>6. CASE SelectOperation \/ DeselectOperation
  <2>1. CR' \in Register
    BY <1>6, TypeSelect DEF SelectOperation, DeselectOperation, WriteCR, TypeInv, TypeOK, Register
  <2>2. UNCHANGED <<call, idx, status, BSY, flags, job, mem, optcr>> /\ pc' \in {"Loop", "Lock"}
    BY <1>6 DEF SelectOperation, DeselectOperation
  <2>3. QED
    BY <2>1, <2>2 DEF TypeInv, TypeOK, call, status, flags, Register
<1>7. CASE StartOperation
  BY <1>7, TypeStartOperation
<1>8. CASE Wait
  BY <1>8 DEF Wait, TypeInv, TypeOK, call, status, hardware, flags
<1>9. CASE LockControlRegister
  BY <1>9, BlankType DEF LockControlRegister, TypeInv, TypeOK, flags
<1>10. CASE \E mode \in {"WRITE_PROTECTION", "PROPRIETARY_PROTECTION"} : SetFlashProtectionMode(mode)
  <2>1. optcr' \in [SPRMOD : BOOLEAN, nWRP : SUBSET Sectors]
    BY <1>10 DEF SetFlashProtectionMode, TypeInv, TypeOK
  <2>2. QED
    BY <1>10, <2>1 DEF SetFlashProtectionMode, TypeInv, TypeOK, call, hardware, flags
<1>11. CASE \E m \in Masks : SetSectorRWProtection(m)
  <2>1. optcr' \in [SPRMOD : BOOLEAN, nWRP : SUBSET Sectors]
    BY <1>11 DEF SetSectorRWProtection, NWRPAfter, SectorsOfMask, TypeInv, TypeOK
  <2>2. QED
    BY <1>11, <2>1 DEF SetSectorRWProtection, TypeInv, TypeOK, call, hardware, flags
<1>12. CASE Finish
  <2>1. mem' \in [Address -> Byte]
    BY <1>12, EraseCellsType, BitAndAssumption DEF Finish, ProgramCell, TypeInv, TypeOK
  <2>2. job'.cells \subseteq Address /\ job'.data \in Byte
    BY <1>12, NoJobType DEF Finish
  <2>3. /\ BSY' = FALSE /\ pc' = pc /\ kind' = kind /\ mask' = mask /\ write' = write /\ idx' = idx
        /\ retVal' = retVal /\ currentState' = currentState /\ paralellism' = paralellism
        /\ CR' = CR /\ WRPERR' = WRPERR /\ PGPERR' = PGPERR /\ optcr' = optcr
        /\ before' = before
    BY <1>12 DEF Finish, call, status, flags
  <2>4. BSY' \in BOOLEAN /\ WRPERR' \in BOOLEAN /\ PGPERR' \in BOOLEAN
    BY <2>3, Zenon DEF TypeInv, TypeOK
  <2>5. /\ pc' \in Places /\ kind' \in Kinds /\ idx' \in Nat
    BY <2>3 DEF TypeInv, TypeOK, Places, Kinds
  <2>6. mask' \in Masks \cup {0} /\ write' \in Writes \cup {NoWrite}
    BY <2>3 DEF TypeInv, TypeOK
  <2>7. /\ retVal' \in {"ST_OK", "ST_NOK", "ST_BUSY"} /\ paralellism' \in Parallelisms \cup {"X8"}
        /\ currentState' \in {"FLASH_AVAILABLE", "FLASH_BUSY"}
    BY <2>3 DEF TypeInv, TypeOK
  <2>8. /\ CR' \in Register /\ optcr' \in [SPRMOD : BOOLEAN, nWRP : SUBSET Sectors]
        /\ before' \in [Address -> Byte]
    BY <2>3 DEF TypeInv, TypeOK, Register
  <2>9. QED
    BY <2>1, <2>2, <2>4, <2>5, <2>6, <2>7, <2>8 DEF TypeInv, TypeOK, Places, Kinds, Register
<1>13. CASE \E gone \in SUBSET HalfErased : Reset(gone)
  <2>1. mem' \in [Address -> Byte]
    BY <1>13, EraseCellsType DEF Reset, TypeInv, TypeOK
  <2>2. job'.cells \subseteq Address /\ job'.data \in Byte
    BY <1>13, NoJobType DEF Reset
  <2>3. CR' \in [PG : BOOLEAN, SER : BOOLEAN, MER : BOOLEAN, SNB : Sectors, LOCK : BOOLEAN]
    BY <1>13, NoSectorIsZero DEF Reset, Locked
  <2>4. /\ pc' = "Idle" /\ kind' = "SectorErase" /\ mask' = 0 /\ write' = NoWrite /\ idx' = 0
        /\ retVal' = "ST_OK" /\ currentState' = "FLASH_AVAILABLE" /\ paralellism' = "X8"
        /\ BSY' = FALSE /\ WRPERR' = FALSE /\ PGPERR' = FALSE /\ optcr' = OptcrAtReset
        /\ before' = Blank
    BY <1>13 DEF Reset
  <2>5. QED
    BY <2>1, <2>2, <2>3, <2>4, DriverAssumption, BlankType DEF TypeInv, TypeOK
<1>14. CASE UNCHANGED vars
  BY <1>14 DEF vars, TypeInv, TypeOK, call, status, hardware, flags
<1>15. QED
  BY <1>1, <1>2, <1>3, <1>4, <1>5, <1>6, <1>7, <1>8, <1>9, <1>10, <1>11, <1>12, <1>13, <1>14
     DEF Next, Driver

(* Every variable of the driver keeps its type. *)
THEOREM DriverTypeCorrect == Spec => []TypeOK
<1>1. TypeInv => TypeOK
  BY DEF TypeInv
<1>2. TypeInv /\ [Next]_vars => TypeInv'
  BY TypeNext
<1>3. QED
  BY <1>1, <1>2, TypeInit, PTL DEF Spec

-----------------------------------------------------------------------------
(* What a start asks of the flash, with the register as InStep has it. *)
LEMMA StartsItsJob ==
  ASSUME TypeInv, InStep, StartOperation
  PROVE  /\ pc = "Loop" /\ pc' = "Wait" /\ ~ BSY
         /\ UNCHANGED <<call, status, mem, optcr>>
         /\ kind = "MassErase" => idx = 0 /\ idx' = 1 /\ StartJob(MassJob, Sectors)
         /\ kind = "SectorErase" =>
              \E s \in SectorsOfMask(mask) :
                /\ s >= idx /\ \A t \in SectorsOfMask(mask) : t >= idx => s <= t
                /\ idx' = s + 1 /\ StartJob(SectorJob(s), {s})
         /\ kind = "Program" /\ paralellism = PSIZE =>
              /\ idx < Units /\ idx' = idx + 1
              /\ StartJob(ByteJob(idx + 1), {s \in Sectors : write.dest + idx \in CellsOf(s)})
         /\ kind = "Program" /\ paralellism # PSIZE =>
              /\ idx < Units /\ idx' = idx + 1
              /\ PGPERR' = TRUE /\ UNCHANGED <<BSY, job, WRPERR>>
<1>1. pc = "Loop" /\ pc' = "Wait" /\ ~ BSY /\ UNCHANGED <<call, status, mem, optcr>>
  BY DEF InStep, StartOperation
<1>2. PICK number \in Sectors : CR = Selected(number) /\ (kind # "SectorErase" => number = 0)
  BY <1>1 DEF InStep
<1>3. /\ CR.PG = (kind = "Program") /\ CR.SER = (kind = "SectorErase")
      /\ CR.MER = (kind = "MassErase") /\ CR.LOCK = FALSE
  BY <1>2 DEF Selected
<1>4. ASSUME kind = "MassErase"
      PROVE  idx = 0 /\ idx' = 1 /\ StartJob(MassJob, Sectors)
  <2>1. idx = 0 /\ idx' = 1 /\ Start(CR)
    BY <1>4 DEF StartOperation, StartMassErase
  <2>2. ~ (CR.LOCK \/ CR.PG \/ CR.SER = CR.MER) /\ CR.MER
    BY <1>3, <1>4
  <2>3. QED
    BY <2>1, <2>2, Zenon DEF Start, MassJob
<1>5. ASSUME kind = "SectorErase"
      PROVE  \E s \in SectorsOfMask(mask) :
               /\ s >= idx /\ \A t \in SectorsOfMask(mask) : t >= idx => s <= t
               /\ idx' = s + 1 /\ StartJob(SectorJob(s), {s})
  <2>1. PICK s \in SectorsOfMask(mask) :
          /\ s >= idx /\ \A t \in SectorsOfMask(mask) : t >= idx => s <= t
          /\ idx' = s + 1 /\ WriteCR([CR EXCEPT !.SNB = s]) /\ Start(CR')
    BY <1>5 DEF StartOperation, StartSectorErase
  <2>2. CR' = Selected(s)
    BY <1>2, <2>1 DEF WriteCR, Selected
  <2>3. ~ (CR'.LOCK \/ CR'.PG \/ CR'.SER = CR'.MER) /\ ~ CR'.MER /\ CR'.SNB = s
    BY <1>5, <2>2 DEF Selected
  <2>4. StartJob(SectorJob(s), {s})
    BY <2>1, <2>3, Zenon DEF Start, SectorJob
  <2>5. QED
    BY <2>1, <2>4
<1>6. ASSUME kind = "Program"
      PROVE  idx < Units /\ idx' = idx + 1 /\ Store(write.dest + idx, write.data[idx + 1])
  BY <1>6 DEF StartOperation, StoreUnit
<1>7. ASSUME kind = "Program" PROVE ~ (CR.LOCK \/ CR.SER \/ CR.MER \/ ~ CR.PG)
  BY <1>3, <1>7
<1>8. ASSUME kind = "Program", paralellism = PSIZE
      PROVE  StartJob(ByteJob(idx + 1), {s \in Sectors : write.dest + idx \in CellsOf(s)})
  <2>1. write.dest + idx \in Nat /\ write.dest + (idx + 1) - 1 = write.dest + idx
    BY WriteBounds DEF TypeInv, TypeOK
  <2>2. StartJob([cells |-> {write.dest + idx}, data |-> write.data[idx + 1], how |-> "Program"],
                 {s \in Sectors : write.dest + idx \in CellsOf(s)})
    BY <1>6, <1>7, <1>8, Zenon DEF Store
  <2>3. QED
    BY <2>1, <2>2, Zenon DEF ByteJob
<1>9. ASSUME kind = "Program", paralellism # PSIZE
      PROVE  PGPERR' = TRUE /\ UNCHANGED <<BSY, job, WRPERR>>
  BY <1>6, <1>7, <1>9, Zenon DEF Store
<1>10. QED
  BY <1>1, <1>4, <1>5, <1>6, <1>8, <1>9

LEMMA ProtectedSectors == TypeOK => Protected(optcr) \subseteq Sectors
BY DEF TypeOK, Protected

(* A started job is under way, or was refused with WRPERR. *)
LEMMA StartedJob ==
  ASSUME NEW j, NEW S, StartJob(j, S)
  PROVE  \/ S \cap Protected(optcr) # {} /\ WRPERR' = TRUE /\ UNCHANGED <<BSY, job, PGPERR>>
         \/ S \cap Protected(optcr) = {} /\ BSY' = TRUE /\ job' = j /\ UNCHANGED <<WRPERR, PGPERR>>
BY DEF StartJob, flags

JInv == TypeInv /\ InStep /\ JobInv

LEMMA JobInvInit == Init => JobInv
BY DEF Init, InitDriver, JobInv

LEMMA JobInvStart ==
  ASSUME JInv, StartOperation
  PROVE  JobInv'
<1>1. /\ pc' = "Wait" /\ ~ BSY /\ kind \in Kinds /\ kind' = kind /\ mask' = mask /\ write' = write
      /\ optcr' = optcr /\ paralellism' = paralellism
  BY StartsItsJob DEF JInv, InStep, call, status
<1>2. CASE kind = "MassErase"
  <2>1. idx' = 1 /\ StartJob(MassJob, Sectors)
    BY <1>2, StartsItsJob DEF JInv
  <2>2. BSY' => job' = MassJob /\ Protected(optcr) = {}
    BY <1>1, <2>1, StartedJob, ProtectedSectors DEF JInv, TypeInv
  <2>3. QED
    BY <1>1, <1>2, <2>1, <2>2 DEF JobInv, Working, MassJob, Protected
<1>3. CASE kind = "SectorErase"
  <2>1. PICK s \in SectorsOfMask(mask) : idx' = s + 1 /\ StartJob(SectorJob(s), {s})
    BY <1>3, StartsItsJob DEF JInv
  <2>2. BSY' => job' = SectorJob(s) /\ s \notin Protected(optcr)
    BY <1>1, <2>1, StartedJob
  <2>3. s \in Nat /\ idx' - 1 = s /\ idx' >= 1
    BY <2>1, SectorNumbers DEF SectorsOfMask
  <2>4. QED
    BY <1>1, <1>3, <2>2, <2>3 DEF JobInv, Working, SectorJob, Protected
<1>4. CASE kind = "Program"
  <2>1. /\ idx < Units /\ idx' = idx + 1 /\ idx \in 0 .. Units /\ WholeUnits(write)
        /\ idx \in Nat /\ Units \in Nat /\ write.dest \in Nat
    BY <1>4, StartsItsJob, UnitsFit, WriteBounds DEF JInv, JobInv, TypeInv, TypeOK
  <2>2. Units' = Units /\ WholeUnits(write)'
    BY <1>1, <2>1 DEF Units, WholeUnits
  <2>3. BSY' => paralellism = PSIZE /\ job' = ByteJob(idx') /\ ~ ProtectedCell(write.dest + idx)
    <3>1. CASE paralellism # PSIZE
      BY <1>1, <1>4, <3>1, StartsItsJob DEF JInv
    <3>2. CASE paralellism = PSIZE
      <4>1. StartJob(ByteJob(idx + 1), {s \in Sectors : write.dest + idx \in CellsOf(s)})
        BY <1>4, <3>2, StartsItsJob DEF JInv
      <4>2. BSY' => /\ job' = ByteJob(idx + 1)
                    /\ {s \in Sectors : write.dest + idx \in CellsOf(s)} \cap Protected(optcr) = {}
        BY <1>1, <4>1, StartedJob
      <4>3. QED
        BY <2>1, <3>2, <4>2, ProtectedSectors DEF ProtectedCell, JInv, TypeInv
    <3>3. QED
      BY <3>1, <3>2
  <2>4. BSY' => Working'
    <3>1. SUFFICES ASSUME BSY' PROVE Working'
      OBVIOUS
    <3>2. paralellism' = PSIZE /\ job' = ByteJob(idx') /\ ~ ProtectedCell(write.dest + idx)
      BY <1>1, <2>3, <3>1
    <3>3. idx' >= 1 /\ write'.dest + idx' - 1 = write.dest + idx
      BY <1>1, <2>1
    <3>4. QED
      BY <1>1, <1>4, <3>2, <3>3 DEF Working, ByteJob, ProtectedCell, Protected
  <2>5. idx' \in 0 .. Units'
    BY <2>1, <2>2
  <2>6. QED
    BY <1>1, <1>4, <2>2, <2>4, <2>5 DEF JobInv
<1>5. QED
  BY <1>1, <1>2, <1>3, <1>4 DEF Kinds

LEMMA JobInvEnter ==
  ASSUME JInv, NEW k \in Kinds, NEW m, NEW w \in Writes \cup {NoWrite}, Enter(k, m, w)
  PROVE  JobInv'
<1>1. /\ pc = "Idle" /\ ~ BSY /\ BSY' = BSY /\ paralellism' = paralellism
      /\ kind = "SectorErase"
  BY DEF JInv, InStep, JobInv, Enter, hardware
<1>2. CASE Free /\ WholeUnits(w)
  <2>1. pc' = "Unlock" /\ kind' = k /\ write' = w /\ idx' = 0
    BY <1>2 DEF Enter
  <2>2. Units' \in Nat
    BY <1>1, <2>1, WriteBounds, UnitSizes, WholeDivision, DriverAssumption
       DEF Units, JInv, TypeInv, TypeOK
  <2>3. WholeUnits(write)'
    BY <1>1, <1>2, <2>1 DEF WholeUnits
  <2>4. QED
    BY <1>1, <2>1, <2>2, <2>3 DEF JobInv
<1>3. CASE ~ (Free /\ WholeUnits(w))
  BY <1>1, <1>3 DEF Enter, call, JobInv
<1>4. QED
  BY <1>2, <1>3

LEMMA JobInvNext ==
  ASSUME JInv, [Next]_vars
  PROVE  JobInv'
<1>1. CASE MassErase \/ (\E m \in Masks : SectorErase(m)) \/ (\E w \in Writes : WriteFlash(w))
  BY <1>1, JobInvEnter DEF MassErase, SectorErase, WriteFlash, Kinds
<1>2. CASE UnlockControlRegister \/ SelectOperation \/ Wait \/ DeselectOperation
  <2>1. /\ UNCHANGED <<kind, mask, write, idx, paralellism, BSY>> /\ ~ BSY
        /\ \/ pc = "Unlock" /\ pc' = "Select"
           \/ pc \in {"Select", "Wait"} /\ pc' = "Loop"
           \/ pc' = "Lock" /\ AllStarted
    BY <1>2 DEF UnlockControlRegister, SelectOperation, Wait, DeselectOperation, GetOPStatus,
                JInv, InStep, call, status, hardware
  <2>2. Units' = Units /\ WholeUnits(write)' = WholeUnits(write) /\ AllStarted' = AllStarted
    BY <2>1 DEF Units, WholeUnits, AllStarted
  <2>3. QED
    BY <2>1, <2>2 DEF JInv, JobInv
<1>3. CASE StartOperation
  BY <1>3, JobInvStart
<1>4. CASE LockControlRegister \/ \E gone \in SUBSET HalfErased : Reset(gone)
  <2>1. pc' = "Idle" /\ kind' = "SectorErase" /\ ~ BSY'
    BY <1>4 DEF LockControlRegister, Reset, JInv, InStep
  <2>2. QED
    BY <2>1 DEF JobInv
<1>5. CASE \/ \E mode \in {"WRITE_PROTECTION", "PROPRIETARY_PROTECTION"} : SetFlashProtectionMode(mode)
           \/ \E m \in Masks : SetSectorRWProtection(m)
           \/ \E p \in Parallelisms : Config(p)
  <2>1. pc' = "Idle" /\ kind' = "SectorErase" /\ ~ BSY'
    BY <1>5 DEF SetFlashProtectionMode, SetSectorRWProtection, Config, JInv, InStep, JobInv,
                call, hardware
  <2>2. QED
    BY <2>1 DEF JobInv
<1>6. CASE Finish
  <2>1. UNCHANGED <<pc, kind, mask, write, idx, paralellism>> /\ ~ BSY'
    BY <1>6 DEF Finish, call, status
  <2>2. Units' = Units /\ WholeUnits(write)' = WholeUnits(write) /\ AllStarted' = AllStarted
    BY <2>1 DEF Units, WholeUnits, AllStarted
  <2>3. QED
    BY <2>1, <2>2 DEF JInv, JobInv
<1>7. CASE UNCHANGED vars
  <2>1. UNCHANGED <<pc, kind, mask, write, idx, paralellism, BSY, job, optcr>>
    BY <1>7 DEF vars, call, status, hardware
  <2>2. /\ Units' = Units /\ WholeUnits(write)' = WholeUnits(write) /\ AllStarted' = AllStarted
        /\ Working' = Working
    BY <2>1 DEF Units, WholeUnits, AllStarted, Working, ByteJob, SectorJob, MassJob,
                ProtectedCell, Protected
  <2>3. QED
    BY <2>1, <2>2 DEF JInv, JobInv
<1>8. QED
  BY <1>1, <1>2, <1>3, <1>4, <1>5, <1>6, <1>7 DEF Next, Driver

LEMMA JInvInductive == Spec => []JInv
<1>1. Init => JInv
  BY TypeInit, InStepInit, JobInvInit DEF JInv
<1>2. JInv /\ [Next]_vars => JInv'
  BY TypeNext, InStepNext, JobInvNext DEF JInv
<1>3. QED
  BY <1>1, <1>2, PTL DEF Spec

-----------------------------------------------------------------------------
(* Programming. *)
LEMMA CleanInvEnter ==
  ASSUME JInv, NEW k \in Kinds, NEW m, NEW w, Enter(k, m, w)
  PROVE  CleanInv'
<1>1. SUFFICES ASSUME pc' # "Idle", kind' = "Program"
               PROVE  idx' = 0 /\ \A a \in Address : Taken(a, Started)'
  BY DEF CleanInv
<1>2. pc' = "Unlock" /\ idx' = 0 /\ before' = mem /\ mem' = mem /\ BSY' = FALSE
  BY <1>1 DEF Enter, hardware, JInv, InStep
<1>3. Started' = 0
  BY <1>2 DEF Started
<1>4. QED
  BY <1>2, <1>3 DEF Taken

LEMMA CleanInvStart ==
  ASSUME JInv, CleanInv, StartOperation
  PROVE  CleanInv'
<1>1. SUFFICES ASSUME kind' = "Program", ~ WRPERR', ~ PGPERR'
               PROVE  /\ idx' > 0 => paralellism' = PSIZE
                      /\ \A a \in Address : Taken(a, Started)'
  BY DEF CleanInv
<1>2. /\ pc = "Loop" /\ ~ BSY /\ kind = "Program" /\ write' = write /\ mem' = mem
      /\ paralellism' = paralellism /\ idx < Units /\ idx' = idx + 1 /\ before' = before
  BY <1>1, StartsItsJob DEF JInv, call, status
<1>3. paralellism = PSIZE
  BY <1>1, <1>2, StartsItsJob DEF JInv
<1>4. BSY' /\ WRPERR' = WRPERR /\ PGPERR' = PGPERR
  BY <1>1, <1>2, <1>3, StartsItsJob, StartedJob DEF JInv
<1>5. \A a \in Address : Taken(a, Started)
  BY <1>1, <1>2, <1>4 DEF CleanInv
<1>6. idx \in Nat
  BY DEF JInv, TypeInv, TypeOK
<1>7. Started' = Started
  BY <1>2, <1>4, <1>6 DEF Started
<1>8. \A a \in Address : Taken(a, Started)'
  BY <1>2, <1>5, <1>7 DEF Taken
<1>9. QED
  BY <1>2, <1>3, <1>8

LEMMA CleanInvFinish ==
  ASSUME JInv, CleanInv, Finish
  PROVE  CleanInv'
<1>1. SUFFICES ASSUME kind' = "Program", ~ WRPERR', ~ PGPERR'
               PROVE  /\ idx' > 0 => paralellism' = PSIZE
                      /\ \A a \in Address : Taken(a, Started)'
  BY DEF CleanInv
<1>2. /\ BSY /\ ~ BSY' /\ pc = "Wait"
      /\ UNCHANGED <<pc, kind, mask, write, before, idx, paralellism, WRPERR, PGPERR>>
  BY DEF Finish, JInv, InStep, call, status, flags
<1>3. idx >= 1 /\ paralellism = PSIZE /\ job = ByteJob(idx) /\ idx \in Nat
  BY <1>1, <1>2 DEF JInv, JobInv, Working, TypeInv, TypeOK
<1>4. mem' = [a \in Address |-> IF a \in {write.dest + idx - 1}
                                  THEN ProgramCell(mem[a], write.data[idx]) ELSE mem[a]]
  BY <1>3 DEF Finish, ByteJob
<1>5. Started = idx - 1 /\ Started' = idx
  BY <1>2 DEF Started
<1>6. \A a \in Address : Taken(a, idx - 1)
  BY <1>1, <1>2, <1>5 DEF CleanInv
<1>7. write.dest \in Nat
  BY WriteBounds DEF JInv, TypeInv, TypeOK
<1>8. ASSUME NEW a \in Address PROVE Taken(a, Started)'
  <2> DEFINE i == a - write.dest + 1
  <2>1. a \in Nat /\ i \in Int
    BY <1>7, ApplicationArea DEF Address
  <2>2. mem[a] = IF i \in 1 .. idx - 1 THEN ProgramCell(before[a], write.data[i]) ELSE before[a]
    BY <1>6 DEF Taken
  <2>3. CASE i = idx
    <3>1. a = write.dest + idx - 1 /\ ~ (i \in 1 .. idx - 1) /\ i \in 1 .. idx
      BY <1>3, <1>7, <2>1, <2>3
    <3>2. mem'[a] = ProgramCell(before[a], write.data[i])
      BY <1>4, <2>2, <2>3, <3>1
    <3>3. QED
      BY <1>2, <1>5, <3>1, <3>2 DEF Taken
  <2>4. CASE i # idx
    <3>1. a # write.dest + idx - 1
      BY <1>3, <1>7, <2>1, <2>4
    <3>2. (i \in 1 .. idx) <=> (i \in 1 .. idx - 1)
      BY <1>3, <2>1, <2>4
    <3>3. mem'[a] = mem[a]
      BY <1>4, <3>1
    <3>4. QED
      BY <1>2, <1>5, <2>2, <3>2, <3>3 DEF Taken
  <2>5. QED
    BY <2>3, <2>4
<1>9. QED
  BY <1>2, <1>3, <1>8

LEMMA CleanInvNext ==
  ASSUME JInv, CleanInv, [Next]_vars
  PROVE  CleanInv'
<1>1. CASE MassErase \/ (\E m \in Masks : SectorErase(m)) \/ (\E w \in Writes : WriteFlash(w))
  <2>1. \E k \in Kinds : \E m, w : Enter(k, m, w)
    BY <1>1 DEF MassErase, SectorErase, WriteFlash, Kinds
  <2>2. QED
    BY <2>1, CleanInvEnter
<1>2. CASE UnlockControlRegister \/ SelectOperation \/ Wait \/ DeselectOperation
  <2>1. /\ UNCHANGED <<kind, write, before, idx, paralellism, BSY, WRPERR, PGPERR, mem>>
        /\ pc # "Idle"
    BY <1>2 DEF UnlockControlRegister, SelectOperation, Wait, DeselectOperation,
                call, status, hardware, flags
  <2>2. QED
    BY <2>1 DEF CleanInv, Taken, Started
<1>3. CASE StartOperation
  BY <1>3, CleanInvStart
<1>4. CASE LockControlRegister \/ \E gone \in SUBSET HalfErased : Reset(gone)
  BY <1>4 DEF LockControlRegister, Reset, CleanInv
<1>5. CASE \/ \E mode \in {"WRITE_PROTECTION", "PROPRIETARY_PROTECTION"} : SetFlashProtectionMode(mode)
           \/ \E m \in Masks : SetSectorRWProtection(m)
           \/ \E p \in Parallelisms : Config(p)
  BY <1>5 DEF SetFlashProtectionMode, SetSectorRWProtection, Config, CleanInv
<1>6. CASE Finish
  BY <1>6, CleanInvFinish
<1>7. CASE UNCHANGED vars
  BY <1>7 DEF vars, call, status, hardware, flags, CleanInv, Taken, Started
<1>8. QED
  BY <1>1, <1>2, <1>3, <1>4, <1>5, <1>6, <1>7 DEF Next, Driver

(* A program call that ends without an error flag has put every byte of its
   data into its cell, if the cell was erased, and has changed no other cell;
   whatever the configured width. *)
THEOREM CleanCallHasProgrammed == Spec => []CleanMeansProgrammed
<1>1. Init => CleanInv
  BY DEF Init, InitDriver, CleanInv
<1>2. JInv /\ CleanInv /\ [Next]_vars => CleanInv'
  BY CleanInvNext
<1>3. JInv /\ CleanInv => CleanMeansProgrammed
  <2> SUFFICES ASSUME JInv, CleanInv, pc = "Lock", kind = "Program", ~ WRPERR, ~ PGPERR
               PROVE  CleanMeansProgrammed
    BY DEF CleanMeansProgrammed
  <2>1. idx = Units /\ ~ BSY /\ WholeUnits(write)
    BY DEF JInv, JobInv, InStep, AllStarted
  <2>2. /\ Len(write.data) \in Nat /\ Units \in Nat
        /\ (paralellism = PSIZE => Units = Len(write.data))
        /\ (Units = 0 => Len(write.data) = 0)
    BY <2>1, UnitsFit, WriteBounds DEF JInv, TypeInv, TypeOK
  <2>3. Started = Len(write.data)
    BY <2>1, <2>2 DEF CleanInv, Started
  <2>4. \A a \in Address : Taken(a, Len(write.data))
    BY <2>3 DEF CleanInv
  <2>5. \A i \in 1 .. Len(write.data) : ProgramCell(Erased, write.data[i]) = write.data[i]
    BY WriteBounds, BitAndAssumption DEF ProgramCell, JInv, TypeInv, TypeOK
  <2>6. QED
    BY <2>4, <2>5 DEF CleanMeansProgrammed, Taken
<1>4. QED
  BY <1>1, <1>2, <1>3, JInvInductive, PTL DEF Spec

-----------------------------------------------------------------------------
(* The refinement of FlashSpec.  What is left of the task depends on the
   place, the call, the loop's counter and whether the flash works. *)
RestOf(w, i) == Flash!ProgramTask(w.dest + i, SubSeq(w.data, i + 1, Len(w.data)))

LeftOf(m, i) == {s \in SectorsOfMask(m) : s >= i}

TaskOf(place, k, m, w, i, width) ==
  IF \/ place = "Idle"
     \/ k = "MassErase"
     \/ k = "Program" /\ width # PSIZE
  THEN Flash!None
  ELSE IF k = "SectorErase" THEN Flash!EraseTask(LeftOf(m, i)) ELSE RestOf(w, i)

LEMMA TaskIsTaskOf ==
  /\ Task = TaskOf(pc, kind, mask, write, Started, paralellism)
  /\ Task' = TaskOf(pc', kind', mask', write', Started', paralellism')
BY Zenon DEF Task, TaskOf, LeftOf, RestOf, Flash!None, Flash!EraseTask, Flash!ProgramTask

LEMMA TaskOfOthers ==
  ASSUME NEW place, NEW k, NEW m, NEW w, NEW i, NEW width,
         place = "Idle" \/ k = "MassErase" \/ (k = "Program" /\ width # PSIZE)
  PROVE  TaskOf(place, k, m, w, i, width) = Flash!None
BY Zenon DEF TaskOf

LEMMA TaskOfErase ==
  ASSUME NEW place, NEW m, NEW w, NEW i, NEW width, place # "Idle"
  PROVE  TaskOf(place, "SectorErase", m, w, i, width) = Flash!EraseTask(LeftOf(m, i))
BY DEF TaskOf

LEMMA TaskOfProgram ==
  ASSUME NEW place, NEW m, NEW w, NEW i, place # "Idle"
  PROVE  TaskOf(place, "Program", m, w, i, PSIZE) = RestOf(w, i)
BY DEF TaskOf

(* FlashSpec has the layout of the driver. *)
LEMMA SameLayout ==
  /\ Flash!Sectors = Sectors /\ Flash!Address = Address
  /\ \A s : Flash!CellsOf(s) = CellsOf(s)
  /\ \A S : Flash!CellsOfAll(S) = CellsOfAll(S)
  /\ \A m, cells : Flash!EraseCells(m, cells) = EraseCells(m, cells)
  /\ \A a, b : Flash!ProgramCell(a, b) = ProgramCell(a, b)
<1>1. Flash!Sectors = Sectors /\ Flash!Address = Address
  BY DEF Flash!Sectors, Sectors, Flash!Address, Address, Flash!FLASH_END, FLASH_END
<1>2. \A s : Flash!CellsOf(s) = CellsOf(s)
  BY DEF Flash!CellsOf, CellsOf
<1>3. \A S : Flash!CellsOfAll(S) = CellsOfAll(S)
  BY DEF Flash!CellsOfAll, CellsOfAll, Flash!CellsOf, CellsOf
<1>4. \A m, cells : Flash!EraseCells(m, cells) = EraseCells(m, cells)
  BY DEF Flash!EraseCells, EraseCells, Flash!Erased, Erased
<1>5. \A a, b : Flash!ProgramCell(a, b) = ProgramCell(a, b)
  BY DEF Flash!ProgramCell, ProgramCell
<1>6. QED
  BY <1>1, <1>2, <1>3, <1>4, <1>5

FlashStep == Flash!Next \/ UNCHANGED <<mem, WRPERR, optcr, Task>>

LEMMA FlashSteps ==
  /\ Flash!Begin \/ Flash!ProgramOne \/ Flash!MassErase \/ Flash!Done \/ Flash!SetProtection
       \/ Flash!Reset => FlashStep
  /\ \A s \in Sectors : Flash!EraseOne(s) => FlashStep
<1>1. Flash!Next => FlashStep
  BY DEF FlashStep
<1>2. /\ Flash!Begin \/ Flash!ProgramOne \/ Flash!MassErase \/ Flash!Done \/ Flash!SetProtection
           \/ Flash!Reset => Flash!Next
      /\ \A s \in Sectors : Flash!EraseOne(s) => Flash!Next
  BY SameLayout DEF Flash!Next
<1>3. QED
  BY <1>1, <1>2

LEMMA EnterRefines ==
  ASSUME JInv, NEW k \in Kinds, NEW m, NEW w \in Writes \cup {NoWrite}, Enter(k, m, w)
  PROVE  FlashStep
<1>1. pc = "Idle" /\ ~ BSY /\ BSY' = BSY /\ paralellism' = paralellism /\ UNCHANGED <<mem, WRPERR, optcr>>
  BY DEF Enter, JInv, InStep, hardware, flags
<1>2. Task = Flash!None
  BY <1>1, TaskIsTaskOf, TaskOfOthers
<1>3. CASE pc' = "Idle"
  <2>1. Task' = Flash!None
    BY <1>3, TaskIsTaskOf, TaskOfOthers
  <2>2. QED
    BY <1>1, <1>2, <2>1 DEF FlashStep
<1>4. CASE pc' # "Idle"
  <2>1. pc' = "Unlock" /\ kind' = k /\ mask' = m /\ write' = w /\ idx' = 0
    BY <1>1, <1>4 DEF Enter
  <2>2. CASE k = "MassErase" \/ (k = "Program" /\ paralellism # PSIZE)
    <3>1. Task' = Flash!None
      BY <1>1, <2>1, <2>2, TaskIsTaskOf, TaskOfOthers
    <3>2. QED
      BY <1>1, <1>2, <3>1 DEF FlashStep
  <2>3. CASE k = "SectorErase"
    <3>1. Started' = 0
      BY <1>1, <2>1 DEF Started
    <3>2. Task' = Flash!EraseTask(LeftOf(m, 0))
      BY <1>4, <2>1, <2>3, <3>1, TaskIsTaskOf, TaskOfErase
    <3>3. LeftOf(m, 0) \in SUBSET Sectors
      BY DEF LeftOf, SectorsOfMask
    <3>4. Flash!Begin
      BY <1>1, <1>2, <3>2, <3>3, SameLayout DEF Flash!Begin
    <3>5. QED
      BY <3>4, FlashSteps
  <2>4. CASE k = "Program" /\ paralellism = PSIZE
    <3>1. Started' = 0
      BY <1>1, <2>1 DEF Started
    <3>2. Task' = RestOf(w, 0)
      BY <1>1, <1>4, <2>1, <2>4, <3>1, TaskIsTaskOf, TaskOfProgram
    <3>3. Task'.kind = "Program" /\ Task' = Flash!ProgramTask(Task'.dest, Task'.data)
      BY <3>2 DEF RestOf, Flash!ProgramTask
    <3>4. Flash!Begin
      BY <1>1, <1>2, <3>3, Zenon DEF Flash!Begin
    <3>5. QED
      BY <3>4, FlashSteps
  <2>5. QED
    BY <2>2, <2>3, <2>4 DEF Kinds
<1>5. QED
  BY <1>3, <1>4

(* A sector is taken off the task. *)
LEMMA OneSectorLess ==
  ASSUME NEW m, NEW i \in Nat, NEW s \in SectorsOfMask(m), s >= i,
         \A t \in SectorsOfMask(m) : t >= i => s <= t
  PROVE  /\ LeftOf(m, s) = LeftOf(m, i)
         /\ LeftOf(m, s + 1) = LeftOf(m, i) \ {s}
         /\ s \in LeftOf(m, i)
<1>1. \A t \in SectorsOfMask(m) : t \in Nat
  BY SectorNumbers DEF SectorsOfMask
<1>2. QED
  BY <1>1 DEF LeftOf

LEMMA StartRefines ==
  ASSUME JInv, StartOperation
  PROVE  FlashStep
<1>1. /\ pc # "Idle" /\ pc' # "Idle" /\ BSY = FALSE /\ BSY' \in BOOLEAN
      /\ kind \in Kinds /\ kind' = kind /\ mask' = mask /\ write' = write
      /\ paralellism' = paralellism /\ mem' = mem /\ optcr' = optcr /\ idx \in Nat
  BY StartsItsJob, TypeNext DEF JInv, TypeInv, TypeOK, InStep, call, status, Next, Driver
<1>0. Started = idx /\ (BSY' => Started' = idx' - 1) /\ (~ BSY' => Started' = idx')
  BY <1>1 DEF Started
<1>2. CASE kind = "MassErase"
  <2>1. Task = Flash!None /\ Task' = Flash!None
    BY <1>1, <1>2, TaskIsTaskOf, TaskOfOthers
  <2>2. StartJob(MassJob, Sectors)
    BY <1>2, StartsItsJob DEF JInv
  <2>3. CASE Protected(optcr) # {}
    <3>1. WRPERR' = TRUE
      BY <2>2, <2>3, ProtectedSectors, StartedJob DEF JInv, TypeInv
    <3>2. Flash!MassErase
      BY <1>1, <2>1, <2>3, <3>1 DEF Flash!MassErase
    <3>3. QED
      BY <3>2, FlashSteps
  <2>4. CASE Protected(optcr) = {}
    <3>1. WRPERR' = WRPERR
      BY <2>2, <2>4, StartedJob
    <3>2. QED
      BY <1>1, <2>1, <3>1 DEF FlashStep
  <2>5. QED
    BY <2>3, <2>4
<1>3. CASE kind = "SectorErase"
  <2>1. PICK s \in SectorsOfMask(mask) :
          /\ s >= idx /\ \A t \in SectorsOfMask(mask) : t >= idx => s <= t
          /\ idx' = s + 1 /\ StartJob(SectorJob(s), {s})
    BY <1>3, StartsItsJob DEF JInv
  <2>2. s \in Sectors /\ s \in Nat /\ (s + 1) - 1 = s
    BY SectorNumbers DEF SectorsOfMask
  <2>3. Task = Flash!EraseTask(LeftOf(mask, idx))
    BY <1>0, <1>1, <1>3, TaskIsTaskOf, TaskOfErase
  <2>4. /\ ~ BSY' => Task' = Flash!EraseTask(LeftOf(mask, s + 1))
        /\ BSY' => Task' = Flash!EraseTask(LeftOf(mask, (s + 1) - 1))
    BY <1>0, <1>1, <1>3, <2>1, TaskIsTaskOf, TaskOfErase
  <2>5. CASE s \in Protected(optcr)
    <3>1. WRPERR' = TRUE /\ BSY' = FALSE
      BY <1>1, <2>1, <2>5, StartedJob
    <3>2. Task' = Flash!EraseTask(LeftOf(mask, idx) \ {s})
      BY <1>1, <2>1, <2>4, <3>1, OneSectorLess
    <3>3. Flash!EraseOne(s)
      BY <1>1, <2>1, <2>3, <2>5, <3>1, <3>2, OneSectorLess DEF Flash!EraseOne, Flash!EraseTask
    <3>4. QED
      BY <2>2, <3>3, FlashSteps
  <2>6. CASE s \notin Protected(optcr)
    <3>1. WRPERR' = WRPERR /\ BSY' = TRUE
      BY <2>1, <2>6, StartedJob
    <3>2. Task' = Task
      BY <1>1, <2>1, <2>2, <2>3, <2>4, <3>1, OneSectorLess
    <3>3. QED
      BY <1>1, <3>1, <3>2 DEF FlashStep
  <2>7. QED
    BY <2>5, <2>6
<1>4. CASE kind = "Program" /\ paralellism # PSIZE
  <2>1. Task = Flash!None /\ Task' = Flash!None
    BY <1>1, <1>4, TaskIsTaskOf, TaskOfOthers
  <2>2. WRPERR' = WRPERR
    BY <1>4, StartsItsJob DEF JInv
  <2>3. QED
    BY <1>1, <2>1, <2>2 DEF FlashStep
<1>5. CASE kind = "Program" /\ paralellism = PSIZE
  <2>1. /\ idx < Units /\ idx' = idx + 1
        /\ StartJob(ByteJob(idx + 1), {s \in Sectors : write.dest + idx \in CellsOf(s)})
    BY <1>5, StartsItsJob DEF JInv
  <2>2. /\ write.data \in Seq(Byte) /\ idx \in 0 .. Len(write.data) /\ idx < Len(write.data)
        /\ write.dest \in Nat /\ write.dest + (idx + 1) - 1 \in Address
    <3>1. /\ write.data \in Seq(Byte) /\ Len(write.data) \in Nat /\ write.dest \in Nat
          /\ \A i \in 1 .. Len(write.data) : write.dest + i - 1 \in Address
      BY WriteBounds DEF JInv, TypeInv, TypeOK
    <3>2. idx \in 0 .. Units /\ Units = Len(write.data)
      BY <1>5, UnitsFit DEF JInv, JobInv, TypeInv
    <3>3. idx + 1 \in 1 .. Len(write.data)
      BY <2>1, <3>1, <3>2
    <3>4. QED
      BY <2>1, <3>1, <3>2, <3>3
  <2>3. Task = RestOf(write, idx)
    BY <1>0, <1>1, <1>5, TaskIsTaskOf, TaskOfProgram
  <2>4. CASE {s \in Sectors : write.dest + idx \in CellsOf(s)} \cap Protected(optcr) # {}
    <3>1. WRPERR' = TRUE /\ BSY' = FALSE
      BY <1>1, <2>1, <2>4, StartedJob
    <3>2. Task' = RestOf(write, idx + 1)
      BY <1>0, <1>1, <1>5, <2>1, <3>1, TaskIsTaskOf, TaskOfProgram
    <3>3. /\ write.dest + (idx + 1) = (write.dest + idx) + 1 /\ (idx + 1) + 1 = idx + 2
          /\ write.dest + idx \in Address
      BY <1>1, <2>2
    <3>4. /\ SubSeq(write.data, idx + 1, Len(write.data)) # <<>>
          /\ Tail(SubSeq(write.data, idx + 1, Len(write.data))) = SubSeq(write.data, idx + 2, Len(write.data))
      BY <2>2, RestOfData
    <3>5. write.dest + idx \in CellsOfAll(Protected(optcr))
      BY <2>4 DEF CellsOfAll
    <3>6. Task' = Flash!ProgramTask(Task.dest + 1, Tail(Task.data))
      BY <2>3, <3>2, <3>3, <3>4 DEF RestOf, Flash!ProgramTask
    <3>7. Flash!ProgramOne
      BY <1>1, <2>3, <3>1, <3>3, <3>4, <3>5, <3>6, SameLayout DEF RestOf, Flash!ProgramOne, Flash!ProgramTask
    <3>8. QED
      BY <3>7, FlashSteps
  <2>5. CASE {s \in Sectors : write.dest + idx \in CellsOf(s)} \cap Protected(optcr) = {}
    <3>1. WRPERR' = WRPERR /\ BSY' = TRUE
      BY <2>1, <2>5, StartedJob
    <3>2. (idx + 1) - 1 = idx
      BY <1>1
    <3>3. Task' = Task
      BY <1>0, <1>1, <1>5, <2>1, <2>3, <3>1, <3>2, TaskIsTaskOf, TaskOfProgram
    <3>4. QED
      BY <1>1, <3>1, <3>3 DEF FlashStep
  <2>6. QED
    BY <2>4, <2>5
<1>6. QED
  BY <1>1, <1>2, <1>3, <1>4, <1>5 DEF Kinds

LEMMA FinishRefines ==
  ASSUME JInv, Finish
  PROVE  FlashStep
<1>1. /\ pc = "Wait" /\ pc' = pc /\ BSY = TRUE /\ BSY' = FALSE
      /\ kind \in Kinds /\ kind' = kind /\ mask' = mask /\ write' = write /\ idx' = idx
      /\ paralellism' = paralellism /\ optcr' = optcr /\ WRPERR' = WRPERR /\ idx \in Nat
  BY DEF Finish, JInv, InStep, TypeInv, TypeOK, call, status, flags
<1>2. Started = idx - 1 /\ Started' = idx
  BY <1>1 DEF Started
<1>3. Working
  BY <1>1 DEF JInv, JobInv
<1>4. CASE kind = "MassErase"
  <2>1. Task = Flash!None /\ Task' = Flash!None
    BY <1>1, <1>4, TaskIsTaskOf, TaskOfOthers
  <2>2. Protected(optcr) = {} /\ mem' = EraseCells(mem, Address)
    BY <1>3, <1>4 DEF Working, MassJob, Finish
  <2>3. Flash!MassErase
    BY <1>1, <2>1, <2>2, SameLayout DEF Flash!MassErase
  <2>4. QED
    BY <2>3, FlashSteps
<1>5. CASE kind = "SectorErase"
  <2>1. /\ idx - 1 \in SectorsOfMask(mask) /\ idx - 1 \notin Protected(optcr)
        /\ job = SectorJob(idx - 1)
    BY <1>3, <1>5 DEF Working
  <2>2. mem' = EraseCells(mem, CellsOf(idx - 1))
    BY <2>1 DEF SectorJob, Finish
  <2>3. /\ Task = Flash!EraseTask(LeftOf(mask, idx - 1))
        /\ Task' = Flash!EraseTask(LeftOf(mask, idx))
    BY <1>1, <1>2, <1>5, TaskIsTaskOf, TaskOfErase
  <2>4. idx - 1 \in Sectors /\ idx - 1 \in Nat /\ (idx - 1) + 1 = idx
    BY <1>1, <2>1, SectorNumbers DEF SectorsOfMask
  <2>5. /\ LeftOf(mask, idx) = LeftOf(mask, idx - 1) \ {idx - 1}
        /\ idx - 1 \in LeftOf(mask, idx - 1)
    <3>1. \A t \in SectorsOfMask(mask) : t \in Nat
      BY SectorNumbers DEF SectorsOfMask
    <3>2. QED
      BY <2>1, <2>4, <3>1 DEF LeftOf
  <2>6. Flash!EraseOne(idx - 1)
    BY <1>1, <2>1, <2>2, <2>3, <2>5, SameLayout DEF Flash!EraseOne, Flash!EraseTask
  <2>7. QED
    BY <2>4, <2>6, FlashSteps
<1>6. CASE kind = "Program"
  <2>1. /\ idx >= 1 /\ paralellism = PSIZE /\ job = ByteJob(idx)
        /\ ~ ProtectedCell(write.dest + idx - 1)
    BY <1>3, <1>6 DEF Working
  <2>2. /\ write.data \in Seq(Byte) /\ idx - 1 \in 0 .. Len(write.data) /\ idx - 1 < Len(write.data)
        /\ write.dest \in Nat /\ write.dest + idx - 1 \in Address
    <3>1. idx <= Len(write.data) /\ Len(write.data) \in Nat /\ write.data \in Seq(Byte) /\ write.dest \in Nat
      BY <1>1, <1>6, <2>1, UnitsFit, WriteBounds DEF JInv, JobInv, TypeInv, TypeOK
    <3>2. idx \in 1 .. Len(write.data)
      BY <1>1, <2>1, <3>1
    <3>3. write.dest + idx - 1 \in Address
      BY <3>2, WriteBounds DEF JInv, TypeInv, TypeOK
    <3>4. QED
      BY <1>1, <2>1, <3>1, <3>3
  <2>3. Task = RestOf(write, idx - 1) /\ Task' = RestOf(write, idx)
    BY <1>1, <1>2, <1>6, <2>1, TaskIsTaskOf, TaskOfProgram
  <2>4. /\ (idx - 1) + 1 = idx /\ (idx - 1) + 2 = idx + 1
        /\ write.dest + (idx - 1) = write.dest + idx - 1
        /\ write.dest + idx = (write.dest + (idx - 1)) + 1
    BY <1>1, <2>2
  <2>5. /\ SubSeq(write.data, idx, Len(write.data)) # <<>>
        /\ Head(SubSeq(write.data, idx, Len(write.data))) = write.data[idx]
        /\ Tail(SubSeq(write.data, idx, Len(write.data))) = SubSeq(write.data, idx + 1, Len(write.data))
    <3>1. /\ SubSeq(write.data, (idx - 1) + 1, Len(write.data)) # <<>>
          /\ Head(SubSeq(write.data, (idx - 1) + 1, Len(write.data))) = write.data[(idx - 1) + 1]
          /\ Tail(SubSeq(write.data, (idx - 1) + 1, Len(write.data)))
               = SubSeq(write.data, (idx - 1) + 2, Len(write.data))
      BY <2>2, RestOfData
    <3>2. QED
      BY <2>4, <3>1
  <2>6. /\ Task.kind = "Program" /\ Task.dest = write.dest + idx - 1
        /\ Task.data = SubSeq(write.data, idx, Len(write.data))
    BY <2>3, <2>4 DEF RestOf, Flash!ProgramTask
  <2>7. Task' = Flash!ProgramTask(Task.dest + 1, Tail(Task.data))
    BY <2>3, <2>4, <2>5, <2>6 DEF RestOf
  <2>8. write.dest + idx - 1 \notin CellsOfAll(Protected(optcr))
    BY <2>1 DEF ProtectedCell, CellsOfAll
  <2>9. mem' = [mem EXCEPT ![write.dest + idx - 1] = ProgramCell(@, write.data[idx])]
    <3>1. mem' = [a \in Address |-> IF a \in {write.dest + idx - 1}
                                      THEN ProgramCell(mem[a], write.data[idx]) ELSE mem[a]]
      BY <2>1 DEF Finish, ByteJob
    <3>2. mem \in [Address -> Byte]
      BY DEF JInv, TypeInv, TypeOK
    <3>3. QED
      BY <2>2, <3>1, <3>2
  <2>10. Flash!ProgramOne
    BY <1>1, <2>2, <2>5, <2>6, <2>7, <2>8, <2>9, SameLayout DEF Flash!ProgramOne
  <2>11. QED
    BY <2>10, FlashSteps
<1>7. QED
  BY <1>1, <1>4, <1>5, <1>6 DEF Kinds

LEMMA LockRefines ==
  ASSUME JInv, LockControlRegister
  PROVE  FlashStep
<1>1. /\ pc = "Lock" /\ pc' = "Idle" /\ BSY = FALSE /\ UNCHANGED <<mem, WRPERR, optcr>>
      /\ kind \in Kinds /\ idx \in Nat
  BY DEF LockControlRegister, JInv, InStep, TypeInv, TypeOK, flags
<1>2. Started = idx /\ Task' = Flash!None /\ AllStarted
  BY <1>1, TaskIsTaskOf, TaskOfOthers DEF Started, JInv, JobInv
<1>3. CASE kind = "MassErase" \/ (kind = "Program" /\ paralellism # PSIZE)
  <2>1. Task = Flash!None
    BY <1>3, TaskIsTaskOf, TaskOfOthers
  <2>2. QED
    BY <1>1, <1>2, <2>1 DEF FlashStep
<1>4. CASE kind = "SectorErase"
  <2>1. Task = Flash!EraseTask(LeftOf(mask, idx))
    BY <1>1, <1>2, <1>4, TaskIsTaskOf, TaskOfErase
  <2>2. LeftOf(mask, idx) = {}
    <3>1. \A s \in SectorsOfMask(mask) : s \in Nat /\ s < idx
      BY <1>2, <1>4, SectorNumbers DEF AllStarted, SectorsOfMask
    <3>2. QED
      BY <1>1, <3>1 DEF LeftOf
  <2>3. Flash!Done
    BY <1>1, <1>2, <2>1, <2>2 DEF Flash!Done, Flash!EraseTask
  <2>4. QED
    BY <2>3, FlashSteps
<1>5. CASE kind = "Program" /\ paralellism = PSIZE
  <2>1. Task = RestOf(write, idx)
    BY <1>1, <1>2, <1>5, TaskIsTaskOf, TaskOfProgram
  <2>2. idx = Len(write.data) /\ idx \in 0 .. Len(write.data) /\ write.data \in Seq(Byte)
    BY <1>1, <1>2, <1>5, UnitsFit, WriteBounds DEF AllStarted, JInv, TypeInv, TypeOK
  <2>3. SubSeq(write.data, idx + 1, Len(write.data)) = <<>>
    BY <2>2, RestOfData
  <2>4. Task.kind = "Program" /\ Task.data = <<>>
    BY <2>1, <2>3 DEF RestOf, Flash!ProgramTask
  <2>5. Flash!Done
    BY <1>1, <1>2, <2>4, Zenon DEF Flash!Done
  <2>6. QED
    BY <2>5, FlashSteps
<1>6. QED
  BY <1>1, <1>3, <1>4, <1>5 DEF Kinds

LEMMA ResetRefines ==
  ASSUME JInv, NEW gone \in SUBSET HalfErased, Reset(gone)
  PROVE  FlashStep
<1>1. /\ mem' = EraseCells(mem, gone) /\ pc' = "Idle" /\ WRPERR' = FALSE /\ optcr' = OptcrAtReset
      /\ mem \in [Address -> Byte] /\ kind \in Kinds /\ idx \in Nat
  BY DEF Reset, JInv, InStep, TypeInv, TypeOK
<1>2. Task' = Flash!None
  BY <1>1, TaskIsTaskOf, TaskOfOthers
<1>3. CASE gone = {}
  <2>1. mem' = mem
    BY <1>1, <1>3 DEF EraseCells
  <2>2. Flash!Reset
    BY <1>1, <1>2, <2>1 DEF Flash!Reset
  <2>3. QED
    BY <2>2, FlashSteps
<1>4. CASE gone # {}
  <2>1. BSY /\ job.how = "Erase" /\ gone \in SUBSET job.cells /\ Working
    BY <1>4 DEF HalfErased, JInv, JobInv
  <2>2. Started = idx - 1 /\ pc # "Idle"
    BY <2>1 DEF Started, JInv, InStep
  <2>3. kind # "Program"
    BY <2>1 DEF Working, ByteJob
  <2>4. CASE kind = "MassErase"
    <3>1. Task = Flash!None
      BY <2>4, TaskIsTaskOf, TaskOfOthers
    <3>2. Protected(optcr) = {} /\ gone \in SUBSET Address
      BY <2>1, <2>4 DEF Working, MassJob
    <3>3. Flash!Reset
      BY <1>1, <1>2, <3>1, <3>2, SameLayout DEF Flash!Reset
    <3>4. QED
      BY <3>3, FlashSteps
  <2>5. CASE kind = "SectorErase"
    <3>1. Task = Flash!EraseTask(LeftOf(mask, idx - 1))
      BY <2>2, <2>5, TaskIsTaskOf, TaskOfErase
    <3>2. idx - 1 \in SectorsOfMask(mask) \ Protected(optcr) /\ gone \in SUBSET CellsOf(idx - 1)
      BY <2>1, <2>5 DEF Working, SectorJob
    <3>3. idx - 1 \in LeftOf(mask, idx - 1) \ Protected(optcr)
      BY <1>1, <3>2 DEF LeftOf
    <3>4. Flash!Reset
      BY <1>1, <1>2, <3>1, <3>2, <3>3, SameLayout DEF Flash!Reset, Flash!EraseTask
    <3>5. QED
      BY <3>4, FlashSteps
  <2>6. QED
    BY <1>1, <2>3, <2>4, <2>5 DEF Kinds
<1>5. QED
  BY <1>3, <1>4

LEMMA NextRefines ==
  ASSUME JInv, [Next]_vars
  PROVE  FlashStep
<1>1. CASE MassErase \/ (\E m \in Masks : SectorErase(m)) \/ (\E w \in Writes : WriteFlash(w))
  BY <1>1, EnterRefines DEF MassErase, SectorErase, WriteFlash, Kinds
<1>2. CASE UnlockControlRegister \/ SelectOperation \/ Wait \/ DeselectOperation
  <2>1. /\ UNCHANGED <<kind, mask, write, idx, paralellism, BSY, mem, WRPERR, optcr>>
        /\ pc # "Idle" /\ pc' # "Idle"
    BY <1>2 DEF UnlockControlRegister, SelectOperation, Wait, DeselectOperation,
                call, status, hardware, flags
  <2>2. Started' = Started
    BY <2>1 DEF Started
  <2>3. Task' = Task
    BY <2>1, <2>2, TaskIsTaskOf DEF TaskOf
  <2>4. QED
    BY <2>1, <2>3 DEF FlashStep
<1>3. CASE StartOperation
  BY <1>3, StartRefines
<1>4. CASE LockControlRegister
  BY <1>4, LockRefines
<1>5. CASE \E gone \in SUBSET HalfErased : Reset(gone)
  BY <1>5, ResetRefines
<1>6. CASE Finish
  BY <1>6, FinishRefines
<1>7. CASE \/ \E mode \in {"WRITE_PROTECTION", "PROPRIETARY_PROTECTION"} : SetFlashProtectionMode(mode)
           \/ \E m \in Masks : SetSectorRWProtection(m)
           \/ \E p \in Parallelisms : Config(p)
  <2>1. pc = "Idle" /\ pc' = "Idle" /\ UNCHANGED <<mem, WRPERR>>
    BY <1>7 DEF SetFlashProtectionMode, SetSectorRWProtection, Config, hardware, flags
  <2>2. Task = Flash!None /\ Task' = Flash!None
    BY <2>1, TaskIsTaskOf, TaskOfOthers
  <2>3. optcr' \in [SPRMOD : BOOLEAN, nWRP : SUBSET Sectors]
    BY TypeNext DEF JInv, TypeInv, TypeOK
  <2>4. Flash!SetProtection
    BY <2>1, <2>2, <2>3, SameLayout DEF Flash!SetProtection
  <2>5. QED
    BY <2>4, FlashSteps
<1>8. CASE UNCHANGED vars
  <2>1. UNCHANGED <<pc, kind, mask, write, idx, paralellism, BSY, mem, WRPERR, optcr>>
    BY <1>8 DEF vars, call, status, hardware, flags
  <2>2. Started' = Started
    BY <2>1 DEF Started
  <2>3. Task' = Task
    BY <2>1, <2>2, TaskIsTaskOf DEF TaskOf
  <2>4. QED
    BY <2>1, <2>3 DEF FlashStep
<1>9. QED
  BY <1>1, <1>2, <1>3, <1>4, <1>5, <1>6, <1>7, <1>8 DEF Next, Driver

(* The driver on its registers, with the flash beside it, implements what the
   handlers of BootDevice use it by: one task at a time, done sector by sector
   or byte by byte. *)
THEOREM DriverImplementsFlashSpec == Spec => ImplementsFlashSpec
<1>1. Init => Flash!Init
  <2>1. ASSUME Init PROVE pc = "Idle" /\ mem = INITIAL_FLASH /\ WRPERR = FALSE /\ optcr = OptcrAtReset
    BY <2>1 DEF Init, InitDriver
  <2>2. ASSUME Init PROVE Task = Flash!None
    BY <2>1, <2>2, TaskIsTaskOf, TaskOfOthers
  <2>3. QED
    BY <2>1, <2>2 DEF Flash!Init
<1>2. JInv /\ [Next]_vars => [Flash!Next]_Flash!vars
  BY NextRefines DEF FlashStep, Flash!vars
<1>3. QED
  BY <1>1, <1>2, JInvInductive, PTL DEF Spec, ImplementsFlashSpec, Flash!Spec
-----------------------------------------------------------------------------
(* The work of a call that is not done yet.  Todo are the operations its     *)
(* loop has not started, each a turn of two steps.                           *)
Todo == CASE kind = "MassErase"   -> 1 - idx
          [] kind = "SectorErase" -> Cardinality(LeftOf(mask, idx))
          [] kind = "Program"     -> Units - idx

Work == CASE pc = "Idle"   -> 0
          [] pc = "Lock"   -> 1
          [] pc = "Loop"   -> 2 * Todo + 2
          [] pc = "Wait"   -> 2 * Todo + 3
          [] pc = "Select" -> 2 * Todo + 4
          [] pc = "Unlock" -> 2 * Todo + 5

(* During a call every step is one of the driver's, which leaves less to do,
   the end of an operation of the flash, or a reset: no other call comes in
   between, and no turn of the loop is made twice. *)
CallRunsDown ==
  pc # "Idle" =>
    \/ Driver /\ Work' < Work
    \/ Finish /\ UNCHANGED <<pc, Work>>
    \/ \E gone \in SUBSET HalfErased : Reset(gone)

LEMMA TodoWhen ==
  ASSUME JInv
  PROVE  /\ Todo \in Nat
         /\ pc # "Idle" => (AllStarted <=> Todo = 0)
<1>1. CASE kind = "MassErase"
  <2>1. Todo = 1 - idx /\ idx \in 0 .. 1
    BY <1>1 DEF Todo, JInv, JobInv
  <2>2. AllStarted <=> idx = 1
    BY <1>1 DEF AllStarted
  <2>3. QED
    BY <2>1, <2>2
<1>2. CASE kind = "SectorErase"
  <2>1. LeftOf(mask, idx) \in SUBSET Sectors
    BY DEF LeftOf, SectorsOfMask
  <2>2. Todo = Cardinality(LeftOf(mask, idx))
    BY <1>2 DEF Todo
  <2>3. Cardinality(LeftOf(mask, idx)) \in 0 .. 8
    BY <2>1, SectorsAreFew
  <2>4. AllStarted <=> LeftOf(mask, idx) = {}
    <3>1. \A s \in SectorsOfMask(mask) : s \in Nat
      BY SectorNumbers DEF SectorsOfMask
    <3>2. idx \in Nat
      BY DEF JInv, TypeInv, TypeOK
    <3>3. AllStarted <=> \A s \in SectorsOfMask(mask) : s < idx
      BY <1>2 DEF AllStarted
    <3>4. QED
      BY <3>1, <3>2, <3>3 DEF LeftOf
  <2>5. LeftOf(mask, idx) = {} <=> Cardinality(LeftOf(mask, idx)) = 0
    <3>1. ASSUME NEW s \in LeftOf(mask, idx) PROVE Cardinality(LeftOf(mask, idx)) > 0
      <4>1. Cardinality(LeftOf(mask, idx) \ {s}) < Cardinality(LeftOf(mask, idx))
        BY <2>1, SectorsAreFew
      <4>2. Cardinality(LeftOf(mask, idx) \ {s}) \in 0 .. 8
        <5>1. LeftOf(mask, idx) \ {s} \in SUBSET Sectors
          BY <2>1
        <5>2. QED
          BY <5>1, SectorsAreFew
      <4>3. QED
        BY <2>3, <4>1, <4>2
    <3>2. LeftOf(mask, idx) = {} => Cardinality(LeftOf(mask, idx)) = 0
      BY <2>1, SectorsAreFew
    <3>3. QED
      BY <3>1, <3>2
  <2>6. QED
    BY <2>2, <2>3, <2>4, <2>5
<1>3. CASE kind = "Program"
  <2>1. Todo = Units - idx /\ idx \in 0 .. Units /\ Units \in Nat
    BY <1>3, UnitsFit DEF Todo, JInv, JobInv, TypeInv
  <2>2. AllStarted <=> idx = Units
    BY <1>3 DEF AllStarted
  <2>3. QED
    BY <2>1, <2>2
<1>4. QED
  BY <1>1, <1>2, <1>3 DEF JInv, TypeInv, TypeOK

LEMMA TodoNext == JInv' => (Todo \in Nat)'
<1>1. JInv => Todo \in Nat
  BY TodoWhen
<1>2. QED
  BY <1>1, PTL

(* A turn of the loop takes one operation off. *)
LEMMA TodoStart ==
  ASSUME JInv, JInv', StartOperation
  PROVE  Todo' < Todo
<1>1. kind' = kind /\ mask' = mask /\ write' = write /\ paralellism' = paralellism
  BY StartsItsJob DEF JInv, call, status
<1>2. CASE kind = "MassErase"
  <2>1. idx = 0 /\ idx' = 1
    BY <1>2, StartsItsJob DEF JInv
  <2>2. QED
    BY <1>1, <1>2, <2>1 DEF Todo
<1>3. CASE kind = "SectorErase"
  <2>1. PICK s \in SectorsOfMask(mask) :
          s >= idx /\ (\A t \in SectorsOfMask(mask) : t >= idx => s <= t) /\ idx' = s + 1
    BY <1>3, StartsItsJob DEF JInv
  <2>2. idx \in Nat
    BY DEF JInv, TypeInv, TypeOK
  <2>3. LeftOf(mask, idx') = LeftOf(mask, idx) \ {s} /\ s \in LeftOf(mask, idx)
    BY <2>1, <2>2, OneSectorLess
  <2>4. LeftOf(mask, idx) \in SUBSET Sectors
    BY DEF LeftOf, SectorsOfMask
  <2>5. Cardinality(LeftOf(mask, idx')) < Cardinality(LeftOf(mask, idx))
    BY <2>3, <2>4, SectorsAreFew
  <2>6. Todo = Cardinality(LeftOf(mask, idx)) /\ Todo' = Cardinality(LeftOf(mask, idx'))
    BY <1>1, <1>3 DEF Todo
  <2>7. QED
    BY <2>5, <2>6, Zenon
<1>4. CASE kind = "Program"
  <2>1. idx < Units /\ idx' = idx + 1 /\ Units' = Units
    BY <1>1, <1>4, StartsItsJob DEF JInv, Units
  <2>2. idx \in Nat /\ Units \in Nat
    BY UnitsFit DEF JInv, TypeInv, TypeOK
  <2>3. QED
    BY <1>1, <1>4, <2>1, <2>2 DEF Todo
<1>5. QED
  BY <1>2, <1>3, <1>4 DEF JInv, TypeInv, TypeOK

LEMMA WorkWhen ==
  ASSUME JInv
  PROVE  /\ Todo \in Nat
         /\ pc = "Idle"   => Work = 0
         /\ pc = "Lock"   => Work = 1
         /\ pc = "Loop"   => Work = 2 * Todo + 2
         /\ pc = "Wait"   => Work = 2 * Todo + 3
         /\ pc = "Select" => Work = 2 * Todo + 4
         /\ pc = "Unlock" => Work = 2 * Todo + 5
BY TodoWhen DEF Work

LEMMA WorkStep ==
  ASSUME JInv, JInv', [Next]_vars
  PROVE  CallRunsDown \/ UNCHANGED vars
<1> SUFFICES ASSUME Next, pc # "Idle" PROVE CallRunsDown
  BY DEF CallRunsDown
<1>1. ~ MassErase /\ (\A m \in Masks : ~ SectorErase(m)) /\ (\A w \in Writes : ~ WriteFlash(w))
  BY DEF MassErase, SectorErase, WriteFlash, Enter
<1>2. /\ \A mode : ~ SetFlashProtectionMode(mode)
      /\ \A m : ~ SetSectorRWProtection(m)
      /\ \A p : ~ Config(p)
  BY DEF SetFlashProtectionMode, SetSectorRWProtection, Config
<1>3. Todo \in Nat
  BY TodoWhen
<1>4. Todo' \in Nat
  BY TodoNext, Zenon
<1>5. CASE StartOperation
  <2>1. pc = "Loop" /\ pc' = "Wait"
    BY <1>5 DEF StartOperation
  <2>2. Work = 2 * Todo + 2 /\ Work' = 2 * Todo' + 3
    BY <2>1 DEF Work
  <2>3. Work' < Work
    <3>1. Todo' < Todo
      BY <1>5, TodoStart, Zenon
    <3>2. \A m, n \in Nat : m < n => 2 * m + 3 < 2 * n + 2
      OBVIOUS
    <3>3. QED
      BY <1>3, <1>4, <2>2, <3>1, <3>2, Zenon
  <2>4. QED
    BY <1>5, <2>3, Zenon DEF CallRunsDown, Driver
<1>6. CASE UnlockControlRegister \/ SelectOperation \/ Wait \/ DeselectOperation
  <2>1. /\ UNCHANGED <<kind, mask, write, idx, paralellism>>
        /\ \/ pc = "Unlock" /\ pc' = "Select"
           \/ pc \in {"Select", "Wait"} /\ pc' = "Loop"
           \/ pc = "Loop" /\ pc' = "Lock"
    BY <1>6 DEF UnlockControlRegister, SelectOperation, Wait, DeselectOperation, call, status
  <2>2. Todo' = Todo
    BY <2>1 DEF Todo, Units
  <2>3. Work' < Work
    BY <1>3, <2>1, <2>2 DEF Work
  <2>4. QED
    BY <1>6, <2>3, Zenon DEF CallRunsDown, Driver
<1>7. CASE LockControlRegister
  <2>1. Work = 1 /\ Work' = 0
    BY <1>7 DEF LockControlRegister, Work
  <2>2. QED
    BY <1>7, <2>1 DEF CallRunsDown, Driver
<1>8. CASE Finish
  <2>1. UNCHANGED <<pc, kind, mask, write, idx, paralellism>>
    BY <1>8 DEF Finish, call, status
  <2>2. UNCHANGED <<pc, Work>>
    BY <2>1 DEF Work, Todo, Units
  <2>3. QED
    BY <1>8, <2>2 DEF CallRunsDown
<1>9. CASE \E gone \in SUBSET HalfErased : Reset(gone)
  BY <1>9, Zenon DEF CallRunsDown
<1>10. QED
  BY <1>1, <1>2, <1>5, <1>6, <1>7, <1>8, <1>9 DEF Next, Driver

(* The loop over the sectors, the units or the one mass erase ends exactly
   when nothing of it is left to do, and never overshoots: the work of a
   call is a number in every state. *)
THEOREM LoopsEndInTime == Spec => [](Work \in Nat /\ (pc # "Idle" => (AllStarted <=> Todo = 0)))
<1>1. JInv => Work \in Nat /\ (pc # "Idle" => (AllStarted <=> Todo = 0))
  <2> SUFFICES ASSUME JInv PROVE Work \in Nat /\ (pc # "Idle" => (AllStarted <=> Todo = 0))
    OBVIOUS
  <2>1. pc \in Places
    BY DEF JInv, InStep
  <2>2. Work \in Nat
    BY <2>1, WorkWhen DEF Places
  <2>3. QED
    BY <2>2, TodoWhen
<1>2. QED
  BY <1>1, JInvInductive, PTL

(* A call runs down its work whatever its arguments: this is the part of
   CallsReturn that needs no fairness. *)
THEOREM CallsRunDown == Spec => [][CallRunsDown]_vars
<1>1. JInv /\ JInv' /\ [Next]_vars => [CallRunsDown]_vars
  BY WorkStep
<1>2. QED
  BY <1>1, JInvInductive, PTL DEF Spec
=============================================================================
