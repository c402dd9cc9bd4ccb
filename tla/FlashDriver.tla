---------------------------- MODULE FlashDriver ----------------------------
(***************************************************************************)
(* Flash_Driver.cpp on the registers of the flash interface.  Its callers  *)
(* are sequential and may call any function with any argument; the flash   *)
(* ends an operation in its own time, and the board may be reset meanwhile.*)
(* The three functions that change the flash share one shape: unlock the   *)
(* control register, select the operation, start it and wait until BSY is  *)
(* clear (once per sector or byte), deselect it and lock the register.     *)
(*                                                                         *)
(* WriteFlash stores units of the configured width, but no function writes *)
(* PSIZE, so the flash takes bytes only and refuses every wider store.     *)
(* The protection functions never wait, so each is one step; OPTLOCK is    *)
(* open only inside of them.                                               *)
(***************************************************************************)
EXTENDS FlashLayout, Sequences

CONSTANTS
  INITIAL_FLASH,
  OptcrAtReset,   (* SPRMOD and nWRP as the option bytes have them          *)
  Masks,          (* the masks SectorErase and SetSectorRWProtection get    *)
  Writes,         (* what WriteFlash is called with: [dest, data]           *)
  Parallelisms,   (* what Config is called with                             *)
  Operations      (* the operations a caller uses                           *)

VARIABLES
  pc,             (* where the driver is; "Idle" between calls              *)
  kind,           (* "MassErase", "SectorErase" or "Program"                *)
  mask, write,    (* arguments of the call                                  *)
  before,         (* history: the flash when a program call began           *)
  idx,            (* the loop's counter                                     *)
  retVal, currentState, paralellism,
  CR,             (* FLASH_CR: PG, SER, MER, SNB and LOCK                   *)
  BSY, WRPERR, PGPERR,  (* flags of FLASH_SR                                *)
  job,            (* the cells the flash is erasing or programming          *)
  mem, optcr

call     == <<kind, mask, write, before>>
status   == <<retVal, currentState, paralellism>>
flags    == <<WRPERR, PGPERR>>
hardware == <<CR, BSY, flags, job, mem>>
vars     == <<pc, call, idx, status, hardware, optcr>>

ASSUME DriverAssumption ==
  /\ INITIAL_FLASH \in [Address -> Byte]
  /\ OptcrAtReset \in [SPRMOD : BOOLEAN, nWRP : SUBSET Sectors]
  /\ Masks \subseteq Byte
  /\ Writes \subseteq [dest : Address, data : Seq(Byte)]
  /\ \A w \in Writes : w.dest + Len(w.data) <= FLASH_END
  /\ Parallelisms \subseteq {"X8", "X16", "X32", "X64"}
  /\ Operations \subseteq {"MassErase", "SectorErase", "Program", "Protect"}

Locked == [PG |-> FALSE, SER |-> FALSE, MER |-> FALSE, SNB |-> 0, LOCK |-> TRUE]
NoWrite == [dest |-> 0, data |-> <<>>]

(* Bytes of a store, and those PSIZE asks for: its reset value, x8. *)
Unit == [X8 |-> 1, X16 |-> 2, X32 |-> 4, X64 |-> 8]
PSIZE == "X8"

Blank == [a \in Address |-> Erased]
NoJob == [cells |-> {}, data |-> Erased, how |-> "None"]

Protected(o) == IF o.SPRMOD THEN o.nWRP ELSE Sectors \ o.nWRP

InitDriver ==
  /\ pc = "Idle" /\ kind = "SectorErase" /\ mask = 0 /\ write = NoWrite /\ idx = 0
  /\ before = Blank
  /\ retVal = "ST_OK" /\ currentState = "FLASH_AVAILABLE" /\ paralellism = "X8"
  /\ CR = Locked /\ BSY = FALSE /\ WRPERR = FALSE /\ PGPERR = FALSE /\ job = NoJob
  /\ optcr = OptcrAtReset

Init == InitDriver /\ mem = INITIAL_FLASH

-----------------------------------------------------------------------------
GetOPStatus == IF BSY THEN "FLASH_OP_BUSY" ELSE "FLASH_OP_FREE"

Free == currentState = "FLASH_AVAILABLE" /\ GetOPStatus = "FLASH_OP_FREE"

(* A write to a locked control register has no effect. *)
WriteCR(value) == CR' = IF CR.LOCK THEN CR ELSE value

(* A mutant: SER is never cleared. *)
SelectForGood(on) ==
  CASE kind = "MassErase"   -> [CR EXCEPT !.MER = on]
    [] kind = "SectorErase" -> [CR EXCEPT !.SER = TRUE, !.SNB = 0]
    [] kind = "Program"     -> [CR EXCEPT !.PG = on]

Select(on) ==
  CASE kind = "MassErase"   -> [CR EXCEPT !.MER = on]
    [] kind = "SectorErase" -> [CR EXCEPT !.SER = on, !.SNB = 0]
    [] kind = "Program"     -> [CR EXCEPT !.PG = on]

(* The flash starts when the one operation selected is asked for, and
   refuses to touch what is write protected. *)
StartJob(j, sectors) ==
  IF sectors \cap Protected(optcr) # {}
  THEN WRPERR' = TRUE /\ UNCHANGED <<BSY, job, PGPERR>>
  ELSE BSY' = TRUE /\ job' = j /\ UNCHANGED flags

Ignored == UNCHANGED <<BSY, job, flags>>

(* STRT set in a CR of that value. *)
Start(cr) ==
  IF cr.LOCK \/ cr.PG \/ cr.SER = cr.MER
  THEN Ignored
  ELSE IF cr.MER
  THEN StartJob([cells |-> Address, data |-> Erased, how |-> "Erase"], Sectors)
  ELSE StartJob([cells |-> CellsOf(cr.SNB), data |-> Erased, how |-> "Erase"], {cr.SNB})

(* A store to the flash: one of another width than PSIZE is an error. *)
Store(dest, byte) ==
  IF CR.LOCK \/ CR.SER \/ CR.MER \/ ~ CR.PG
  THEN Ignored
  ELSE IF paralellism # PSIZE
  THEN PGPERR' = TRUE /\ UNCHANGED <<BSY, job, WRPERR>>
  ELSE StartJob([cells |-> {dest}, data |-> byte, how |-> "Program"],
                {s \in Sectors : dest \in CellsOf(s)})

-----------------------------------------------------------------------------
WholeUnits(w) == Len(w.data) % Unit[paralellism] = 0

(* MassErase, SectorErase and WriteFlash begin alike; WriteFlash refuses a
   length that is not a number of units before it unlocks anything. *)
Enter(k, m, w) ==
  /\ pc = "Idle"
  /\ IF Free /\ WholeUnits(w)
     THEN /\ currentState' = "FLASH_BUSY" /\ pc' = "Unlock"
          /\ kind' = k /\ mask' = m /\ write' = w /\ idx' = 0
          /\ before' = IF k = "Program" THEN mem ELSE Blank
          /\ UNCHANGED retVal
     ELSE /\ retVal' = IF Free THEN "ST_NOK" ELSE "ST_BUSY"
          /\ UNCHANGED <<currentState, pc, call, idx>>
  /\ UNCHANGED <<paralellism, hardware, optcr>>

MassErase == "MassErase" \in Operations /\ Enter("MassErase", 0, NoWrite)

SectorErase(m) == "SectorErase" \in Operations /\ Enter("SectorErase", m, NoWrite)

WriteFlash(w) == "Program" \in Operations /\ Enter("Program", 0, w)

(* A mutant: wrong keys. *)
UnlockWithWrongKeys ==
  /\ pc = "Unlock" /\ pc' = "Select"
  /\ UNCHANGED <<CR, call, idx, status, BSY, flags, job, mem, optcr>>

UnlockControlRegister ==
  /\ pc = "Unlock" /\ pc' = "Select"
  /\ CR' = IF GetOPStatus = "FLASH_OP_FREE" THEN [CR EXCEPT !.LOCK = FALSE] ELSE CR
  /\ UNCHANGED <<call, idx, status, BSY, flags, job, mem, optcr>>

SelectOperation ==
  /\ pc = "Select" /\ pc' = "Loop"
  /\ WriteCR(Select(TRUE))
  /\ UNCHANGED <<call, idx, status, BSY, flags, job, mem, optcr>>

StartMassErase ==
  /\ idx = 0 /\ idx' = 1
  /\ Start(CR) /\ UNCHANGED CR

StartSectorErase ==
  \E s \in SectorsOfMask(mask) :
    /\ s >= idx /\ \A t \in SectorsOfMask(mask) : t >= idx => s <= t
    /\ idx' = s + 1
    /\ WriteCR([CR EXCEPT !.SNB = s]) /\ Start(CR')

Units == Len(write.data) \div Unit[paralellism]

(* The byte counts only when units are bytes. *)
StoreUnit ==
  /\ idx < Units /\ idx' = idx + 1
  /\ Store(write.dest + idx, write.data[idx + 1]) /\ UNCHANGED CR

StartOperation ==
  /\ pc = "Loop" /\ pc' = "Wait"
  /\ \/ kind = "MassErase" /\ StartMassErase
     \/ kind = "SectorErase" /\ StartSectorErase
     \/ kind = "Program" /\ StoreUnit
  /\ UNCHANGED <<call, status, mem, optcr>>

(* A mutant: the driver does not wait. *)
NoWait ==
  /\ pc = "Wait" /\ pc' = "Loop"
  /\ UNCHANGED <<call, idx, status, hardware, optcr>>

Wait ==
  /\ pc = "Wait" /\ GetOPStatus = "FLASH_OP_FREE"
  /\ pc' = "Loop"
  /\ UNCHANGED <<call, idx, status, hardware, optcr>>

(* A mutant: the loop over the units tests for the last byte after it has moved on. *)
AllStartedButOne ==
  CASE kind = "MassErase"   -> idx = 1
    [] kind = "SectorErase" -> \A s \in SectorsOfMask(mask) : s < idx
    [] kind = "Program"     -> idx = Units - 1

AllStarted ==
  CASE kind = "MassErase"   -> idx = 1
    [] kind = "SectorErase" -> \A s \in SectorsOfMask(mask) : s < idx
    [] kind = "Program"     -> idx = Units

DeselectOperation ==
  /\ pc = "Loop" /\ AllStarted /\ pc' = "Lock"
  /\ WriteCR(Select(FALSE))
  /\ UNCHANGED <<call, idx, status, BSY, flags, job, mem, optcr>>

(* The call returns, and its locals are gone. *)
LockControlRegister ==
  /\ pc = "Lock" /\ pc' = "Idle"
  /\ CR' = IF GetOPStatus = "FLASH_OP_FREE" THEN [CR EXCEPT !.LOCK = TRUE] ELSE CR
  /\ retVal' = "ST_OK" /\ currentState' = "FLASH_AVAILABLE"
  /\ kind' = "SectorErase" /\ mask' = 0 /\ write' = NoWrite /\ idx' = 0 /\ before' = Blank
  /\ UNCHANGED <<paralellism, BSY, flags, job, mem, optcr>>

Config(p) ==
  /\ pc = "Idle" /\ paralellism' = p
  /\ UNCHANGED <<pc, call, idx, retVal, currentState, hardware, optcr>>

-----------------------------------------------------------------------------
(* The option register: nWRP after SetSectorRWProtection, and a mutant with a
   bit past the last sector. *)
NWRPPastLast(m) ==
  IF optcr.SPRMOD THEN SectorsOfMask(m)
                  ELSE (0 .. FLASH_NUMBER_OF_SECTORS) \ SectorsOfMask(m)

NWRPAfter(m) == IF optcr.SPRMOD THEN SectorsOfMask(m) ELSE Sectors \ SectorsOfMask(m)

SetFlashProtectionMode(mode) ==
  /\ pc = "Idle" /\ "Protect" \in Operations
  /\ IF Free
     THEN optcr' = [optcr EXCEPT !.SPRMOD = mode # "WRITE_PROTECTION"] /\ retVal' = "ST_OK"
     ELSE retVal' = "ST_BUSY" /\ UNCHANGED optcr
  /\ UNCHANGED <<pc, call, idx, currentState, paralellism, hardware>>

SetSectorRWProtection(m) ==
  /\ pc = "Idle" /\ "Protect" \in Operations
  /\ IF Free
     THEN optcr' = [optcr EXCEPT !.nWRP = NWRPAfter(m)] /\ retVal' = "ST_OK"
     ELSE retVal' = "ST_BUSY" /\ UNCHANGED optcr
  /\ UNCHANGED <<pc, call, idx, currentState, paralellism, hardware>>

(* The flash. *)
Finish ==
  /\ BSY
  /\ BSY' = FALSE /\ job' = NoJob
  /\ mem' = IF job.how = "Erase" THEN EraseCells(mem, job.cells)
            ELSE [a \in Address |-> IF a \in job.cells THEN ProgramCell(mem[a], job.data)
                                                       ELSE mem[a]]
  /\ UNCHANGED <<pc, call, idx, status, CR, flags, optcr>>

HalfErased == IF BSY /\ job.how = "Erase" THEN job.cells ELSE {}

Reset(gone) ==
  /\ mem' = EraseCells(mem, gone)
  /\ pc' = "Idle" /\ kind' = "SectorErase" /\ mask' = 0 /\ write' = NoWrite /\ idx' = 0
  /\ before' = Blank
  /\ retVal' = "ST_OK" /\ currentState' = "FLASH_AVAILABLE" /\ paralellism' = "X8"
  /\ CR' = Locked /\ BSY' = FALSE /\ WRPERR' = FALSE /\ PGPERR' = FALSE /\ job' = NoJob
  /\ optcr' = OptcrAtReset

Driver ==
  \/ UnlockControlRegister
  \/ SelectOperation
  \/ StartOperation
  \/ Wait
  \/ DeselectOperation
  \/ LockControlRegister

Next ==
  \/ MassErase
  \/ \E m \in Masks : SectorErase(m)
  \/ \E w \in Writes : WriteFlash(w)
  \/ \E p \in Parallelisms : Config(p)
  \/ Driver
  \/ \E mode \in {"WRITE_PROTECTION", "PROPRIETARY_PROTECTION"} : SetFlashProtectionMode(mode)
  \/ \E m \in Masks : SetSectorRWProtection(m)
  \/ Finish
  \/ \E gone \in SUBSET HalfErased : Reset(gone)

Spec == Init /\ [][Next]_vars

(* The driver's code runs, and the flash ends what it has begun. *)
FairSpec == Spec /\ WF_vars(Driver) /\ WF_vars(Finish)

-----------------------------------------------------------------------------
TypeOK ==
  /\ pc \in {"Idle", "Unlock", "Select", "Loop", "Wait", "Lock"}
  /\ kind \in {"MassErase", "SectorErase", "Program"}
  /\ mask \in Masks \cup {0} /\ write \in Writes \cup {NoWrite} /\ idx \in Nat
  /\ retVal \in {"ST_OK", "ST_NOK", "ST_BUSY"} /\ paralellism \in Parallelisms \cup {"X8"}
  /\ currentState \in {"FLASH_AVAILABLE", "FLASH_BUSY"}
  /\ CR \in [PG : BOOLEAN, SER : BOOLEAN, MER : BOOLEAN, SNB : Sectors, LOCK : BOOLEAN]
  /\ BSY \in BOOLEAN /\ WRPERR \in BOOLEAN /\ PGPERR \in BOOLEAN
  /\ job.cells \subseteq Address
  /\ mem \in [Address -> Byte] /\ before \in [Address -> Byte]
  /\ optcr \in [SPRMOD : BOOLEAN, nWRP : SUBSET Sectors]

(* Between calls the control register is locked with no operation selected,
   and the flash is at rest: a stray store to the flash then has no effect,
   and the next call finds the driver free. *)
ClosedWhenIdle ==
  pc = "Idle" => CR = Locked /\ ~ BSY /\ currentState = "FLASH_AVAILABLE"

(* While the flash works the driver leaves its control register alone, as
   the hardware demands. *)
HandsOffWhileBusy == [][BSY /\ BSY' => CR' = CR]_vars

(* A program call ends without an error flag only when the flash has taken its
   data, whatever the width: every byte is in its cell if the cell was erased
   when the call began, a cell that was not holds the bits both have, and no
   other cell has changed.  The driver never looks at the flags; a caller who
   has erased first and does look can tell. *)
CleanMeansProgrammed ==
  pc = "Lock" /\ kind = "Program" /\ ~ WRPERR /\ ~ PGPERR =>
    \A a \in Address :
      LET i == a - write.dest + 1
      IN  IF i \in 1 .. Len(write.data)
          THEN /\ before[a] = Erased => mem[a] = write.data[i]
               /\ mem[a] = ProgramCell(before[a], write.data[i])
          ELSE mem[a] = before[a]

(* Every call returns. *)
CallsReturn == (pc # "Idle") ~> (pc = "Idle")

(***************************************************************************)
(* The driver keeps FlashSpec: a call is a task, of which a sector or byte *)
(* is left until the flash has finished with it.  A mass erase is no task, *)
(* nor is a program call of a width the flash refuses.                     *)
(***************************************************************************)
Started == IF BSY THEN idx - 1 ELSE idx

Task ==
  IF \/ pc = "Idle"
     \/ kind = "MassErase"
     \/ kind = "Program" /\ paralellism # PSIZE
  THEN [kind |-> "None"]
  ELSE IF kind = "SectorErase"
  THEN [kind |-> "Erase", left |-> {s \in SectorsOfMask(mask) : s >= Started}]
  ELSE [kind |-> "Program", dest |-> write.dest + Started,
        data |-> SubSeq(write.data, Started + 1, Len(write.data))]

Flash == INSTANCE FlashSpec WITH task <- Task

ImplementsFlashSpec == Flash!Spec
=============================================================================
