----------------------------- MODULE FlashSpec -----------------------------
(***************************************************************************)
(* What the flash driver promises: at any time there is at most one task,  *)
(* a set of sectors to erase or a string of bytes to program; the flash    *)
(* changes only as the task says, sector by sector or byte by byte, and a  *)
(* write protected cell never does.  FlashDriver implements it, and        *)
(* BootDevice uses the flash in no other way.                              *)
(***************************************************************************)
EXTENDS FlashLayout, Sequences

CONSTANTS INITIAL_FLASH, OptcrAtReset, Protected(_)

VARIABLES mem, WRPERR, optcr, task

vars == <<mem, WRPERR, optcr, task>>

None == [kind |-> "None"]
EraseTask(S) == [kind |-> "Erase", left |-> S]
ProgramTask(dest, data) == [kind |-> "Program", dest |-> dest, data |-> data]

Init ==
  /\ mem = INITIAL_FLASH /\ WRPERR = FALSE
  /\ optcr = OptcrAtReset
  /\ task = None

Begin ==
  /\ task = None
  /\ \/ \E S \in SUBSET Sectors : task' = EraseTask(S)
     \/ task'.kind = "Program" /\ task' = ProgramTask(task'.dest, task'.data)
  /\ UNCHANGED <<mem, WRPERR, optcr>>

EraseOne(s) ==
  /\ task.kind = "Erase" /\ s \in task.left
  /\ task' = EraseTask(task.left \ {s})
  /\ IF s \in Protected(optcr)
     THEN WRPERR' = TRUE /\ UNCHANGED mem
     ELSE mem' = EraseCells(mem, CellsOf(s)) /\ UNCHANGED WRPERR
  /\ UNCHANGED optcr

ProgramOne ==
  /\ task.kind = "Program" /\ task.data # <<>> /\ task.dest \in Address
  /\ task' = ProgramTask(task.dest + 1, Tail(task.data))
  /\ IF task.dest \in CellsOfAll(Protected(optcr))
     THEN WRPERR' = TRUE /\ UNCHANGED mem
     ELSE /\ mem' = [mem EXCEPT ![task.dest] = ProgramCell(@, Head(task.data))]
          /\ UNCHANGED WRPERR
  /\ UNCHANGED optcr

MassErase ==
  /\ task = None
  /\ IF Protected(optcr) # {}
     THEN WRPERR' = TRUE /\ UNCHANGED mem
     ELSE mem' = EraseCells(mem, Address) /\ UNCHANGED WRPERR
  /\ UNCHANGED <<optcr, task>>

Done ==
  /\ \/ task.kind = "Erase" /\ task.left = {}
     \/ task.kind = "Program" /\ task.data = <<>>
  /\ task' = None
  /\ UNCHANGED <<mem, WRPERR, optcr>>

SetProtection ==
  /\ task = None
  /\ optcr' \in [SPRMOD : BOOLEAN, nWRP : SUBSET Sectors]
  /\ UNCHANGED <<mem, WRPERR, task>>

(* Only the sector whose erase has begun loses cells. *)
Reset ==
  /\ \/ UNCHANGED mem
     \/ /\ task.kind = "Erase"
        /\ \E s \in task.left \ Protected(optcr) :
             \E gone \in SUBSET CellsOf(s) : mem' = EraseCells(mem, gone)
     \/ /\ task = None /\ Protected(optcr) = {}
        /\ \E gone \in SUBSET Address : mem' = EraseCells(mem, gone)
  /\ WRPERR' = FALSE /\ optcr' = OptcrAtReset /\ task' = None

Next ==
  \/ Begin
  \/ \E s \in Sectors : EraseOne(s)
  \/ ProgramOne
  \/ MassErase
  \/ Done
  \/ SetProtection
  \/ Reset

Spec == Init /\ [][Next]_vars
=============================================================================
