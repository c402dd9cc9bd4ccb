# STM32Bootloader: a TLA+ model, its checks and its proofs

The repository is a UART bootloader for the STM32F411 (C++) and the Python script
that talks to it. This directory holds TLA+ modules translated from its source, TLC
configurations that check them on small instances, and theorems about them that the
TLA+ proof system (TLAPS) checks for every value of the constants.

    tlc -workers 2 -config MCBootDevice.cfg MCBootDevice     # a run
    tlapm BootDevice_proofs.tla                              # the proofs of a module

Paths below are those of the repository: `src/Commands.cpp`, `inc/Commands.h`,
`scripts/STM32_Programmer_V1.py` and so on.

## 1. The system

| Part | State it keeps | Operations | Talks to |
|---|---|---|---|
| Boot entry (`src/main.cpp`, `inc/main.h`) | a local start time | for three ticks of one second: button pressed, send a banner and enter `BootControl`; otherwise send another banner and jump to the application | GPIO, USART, SysTick |
| `BootControl` and the handlers (`src/ControlStructure.cpp`, `src/Commands.cpp`) | `localBuffer`, never cleared; the statics `state`, `progAddress`, `sectorsToBeErased` of `BootFlashWrite` | read a frame, compare its CRC, dispatch to one of nine handlers, add one status byte when the handler does not return `ST_OK` | USART, CRC, FLASH |
| FLASH driver (`src/Drivers/Flash_Driver.cpp`) | `currentState`, the registers of the flash interface | `MassErase`, `SectorErase`, `WriteFlash`, protection bits | the flash, which works concurrently and is polled through `BSY` |
| USART driver (`src/Drivers/UART_Driver.cpp`) | `currentState`, registers; message structures of the interrupt-driven half | `Transmit` and `Read` by polling (all the bootloader uses); `TransmitIT`, `ReadIT`, `USART2_Interrupt` | transmitter, receiver, SysTick |
| SysTick (`src/Drivers/SysTick.cpp`, `inc/Drivers/SysTick.h`) | `globalTime`, a `uint32_t` | an interrupt that counts; the macro `DELAY_EXCEEDED` | USART driver, main |
| Host script (`scripts/STM32_Programmer_V1.py`) | the open port, `mem_write_active`, locals of a transfer | a menu; one frame and one reply per command; `BL_MEM_WRITE`: a size frame, two replies, then a block and a reply at a time | the user, the serial line |
| Startup code, set-up of `main`, jump (`src/stm32_startup.cpp`, `src/Utility/BootUtility.cpp`) | RAM, the stack pointer, `VTOR` | initialise RAM, run the constructors, `main`; switch to the application's vectors and jump | all drivers, sector 2 |
| CRC driver (`src/Drivers/CRC.cpp`) and the script's `get_crc` | `currentState`, the unit's word | `ComputeCRC` of header and data; on the host the same over unbounded integers | `BootControl` |
| NVIC, GPIO and clock drivers | registers | enable an interrupt, set its priority; read the button; enable a clock | USART, main |
| Linker script, Makefile, build output | | | |

The two programs meet only on the serial line: 9600 baud, no flow control, one byte of
buffer in the device, an operating system's buffer and a 10 s time-out at the host.

What is hard here:

* *Transfers are a conversation of many frames* whose state on the device is three
  statics, and any other command, a reset or a second transfer may come between two frames.
* *The host recognises a reply only by its second byte.* Banners, late replies and extra
  status bytes can stand where it expects something else.
* *The device has no time-out*: a lost byte shifts everything after it, and it hears nothing
  while it erases.
* *An erase takes longer than the host waits* (up to 16 s against 10 s).
* *A reset* can fall between any two bytes programmed and leaves the flash as it is.
* *The flash refuses what is write protected* with a flag that nothing reads.
* *Hardware works concurrently* with the polling loops: the transmitter, the receiver, the
  flash, the clock.
* *The interrupt-driven driver shares* `CR1`, the message structures, `currentState` and one
  enable bit of the NVIC between a caller and an interrupt, without any lock.
* *The switch to the application* replaces the vectors while SysTick goes on interrupting,
  and what sector 2 holds may be an erased or half programmed image.

What makes each part correct: the bootloader's own sector is touched only on request; a
transfer programs exactly what was sent, at the right place, into erased cells; what the
host reports is what the flash holds; the flash control register is closed between calls;
`Transmit` returns when the message has left; every command ends; a held button always
leads to the bootloader; a frame is accepted exactly when it came undamaged.

## 2. The modules

| Module | Models | Builds on |
|---|---|---|
| `FlashLayout` | sector table, masks, `GetSectorsForFlash`, erase and program of cells | |
| `BootProtocol` | codes, statuses, shape of frames and replies | |
| `SerialLine` | the bytes sent by the device and not read by the host | `BootProtocol` |
| `BootDevice` | `main`, `BootControl`, all nine handlers and the flash they change, resets | `FlashLayout`, `SerialLine` |
| `Programmer` | the host script | `SerialLine` |
| `Session` | script and firmware over a line with faults | `BootDevice`, `Programmer` |
| `Delay` | `uint32_t` time and `DELAY_EXCEEDED` | |
| `UsartPolling` | `USART::Transmit`, `USART::Read`, transmitter, receiver, SysTick | `Delay` |
| `FlashSpec` | what the flash promises its users: one task at a time, changed cell by cell | `FlashLayout` |
| `FlashDriver` | `Flash_Driver.cpp` on its registers, the flash concurrently | `FlashLayout` |
| `Nvic` | priorities and what `BASEPRI` holds back | |
| `UsartIT` | `TransmitIT`, `ReadIT`, `USART2_Interrupt` | `Nvic` |
| `CrcUnit` | the checksum of the board and of the script | |
| `BootEntry` | startup, set-up and window of `main`, jump, verdict on a frame | `CrcUnit`, `Nvic` |
| `MC...` | constants of the runs | |
| `..._proofs` | theorems | the module of that name |

Two refinements tie the levels together. `FlashDriver` implements `FlashSpec` (property
`ImplementsFlashSpec`), and the handlers of `BootDevice` use the flash only as `FlashSpec`
allows (property `FlashAsSpecified`): so the step per sector and per byte of `BootDevice`
stands for the register sequence of the driver. `Session` implements `BootDevice` (property
`DeviceBehaviour`, theorem `DeviceInSession`): the script, the line and its faults are one
of the hosts that `BootDevice` allows, so what is proved of the device holds in a session.

### BootDevice

`phase` is where the processor is: main's loop, `BootControl`, the application, or nowhere
(`Halted`: its code is gone or it faulted). `op` is what `BootControl` is in the middle of.
The other variables carry the names of the code. A handler that only replies is one action
(`BootGetVersion`, `BootSetRWProt`, ...); one that erases or programs is a first action
(`BootFlashErase`, `GetBinSize`, `WriteBlock`), one per sector or byte (`SectorErase`,
`WriteFlash`), and one that replies and returns (`EraseCommandDone`, `SectorsErased`,
`BlockWritten`), so that a reset can come between. `MassErase` only begins; `AllErased` is the end
of the erase, with the processor out of code, or with `WRPERR` set and nothing to reply. A reset
between the two leaves any set of cells erased (`HalfErased`).

Details that are kept because properties depend on them: a frame shorter than its handler
expects is completed with any byte of `StaleBytes` (`localBuffer` is never cleared);
handlers that return `Transmit`'s status may add a `TIMEOUT` byte; `GetSectorsForFlash`
compares with `<`, so an exact fit takes one sector more; the reply to SET carries the code
of GET and that to GET announces eleven bytes; `OPTSTRT` is never set, so protection lives
in `FLASH_OPTCR` until a reset. Whether `FLASH_OPTCR` protects before `OPTSTRT` is a
question about the hardware, and the constant `OptcrLive` leaves it open: the theorems hold
for both answers.

Abstractions: a CRC is the truth value of its comparison (`crcOk`); a frame is read in one
step; the bytes of a reply join `tx` at once (`UsartPolling` has the bytes one by one). The
`ST_BUSY` branches are there, unreachable as `DriverFree` says; the one of `BootGetRWProt` asks
`Transmit` for no bytes and gets one out, so `GetFailure` is its first byte and the status.

### Programmer and Session

`hpc` is the line of the script it waits at, `waitFor` which reply. `ReadHeader` looks only
at the second byte, as the script does; `HeaderTimeout` has the three cases of
`read_bootloader_reply` with fewer than three bytes, two of which raise an exception
(`Crash`). A user continues at the prompt (purging the input, `Continued`) or starts the
script again.

`refused` remembers whether the flash has refused anything since the start (the user may set a
protection, and neither the firmware nor the script looks at `WRPERR`): report and flash are
compared only as long as it has not. The menu of the instance has `GET_MCUID`, `GET_FLASH_RW_PROT`, erases by mask and of all,
`SET_FLASH_RW_PROT`, and the transfer; the other commands only exist in `boot_device`.

`Session` adds the line: a frame may be damaged (its CRC shows it) or lose a byte; a frame
that comes while a handler works leaves one byte behind; after either the device is
`skewed`: it cuts the bytes at wrong places, answers with bad-CRC statuses or waits for
more, and may be in step again at the end of a frame. That garbage never has a valid CRC
by accident is assumed.

`TimedOut` says when the 10 s can be over: when the device has nothing more to do, or
(`SlowErase`) while it erases. `UserIsBack` says when a user is fast enough to press a key:
only after an erase is over (`PatientUser`), or also before. Two of the runs differ in
exactly these.

### UsartPolling, Delay

The processor, the transmitter (`Load`, `ShiftOut`), the receiver (`Arrive`, `Overrun`) and
`Systick_Interrupt` are processes of their own. `srRead` keeps whether `SR` was read since
the last write of `DR`, because only that sequence clears `TC`. `DELAY_EXCEEDED` is the
macro with the wrap-around of `uint32_t`; a tick between two reads of the clock inside one
evaluation is taken as a tick before it.

### FlashDriver, FlashSpec

The three functions that change the flash share one shape (unlock, select, start and wait
per sector or byte, deselect, lock), and so share actions, with `kind` telling them apart.
`Start` and `Store` are the hardware: they have an effect only with `LOCK` clear and the one
right operation selected, and a write-protected target sets `WRPERR`. `Config` may select
any width; a length that is no multiple of it is refused with `ST_NOK`; and as `PSIZE` is
never written, the flash answers every store wider than a byte with `PGPERR` and programs
nothing. Such a call is no task of `FlashSpec`; `CleanMeansProgrammed` says that the
flags tell, to a caller who would look at them: `before` remembers the flash as it was when the call
began, and after a call without a flag an erased cell of the write holds its byte, any other what the
flash makes of old and new (only zeros can be added), and the rest of the flash is as before. That
programming a cell that is not erased loses the byte without any flag is how the hardware is, and why
`AheadErased` matters.

### UsartIT, Nvic

The caller, the interrupt, the transmitter and the receiver are processes; the interrupt may
come between any two register accesses of the caller, so `CR1 |= x` is a load and a store
(`LoadCR1`, `StoreCR1`). `alone` remembers whether the other direction was at rest when a call
began: what two overlapping transfers guarantee is only that both end. Details that are kept:

* lengths are `uint8_t`, so a message of 256 bytes has length 0 and ends after one byte;
* a message refused by `TransmitIT` leaves the structure alone but still sends a byte of an
  earlier one; the guard of `ReadIT` (`&&` for `||`) refuses nothing;
* `TCIE` is set and never cleared, and the handler does not look at `TC`: after a message
  the interrupt asks again as soon as it is enabled. `Caught` says when the processor does not get
  out of it any more; it is the one exception in `TransfersEnd`;
* the end of either transfer disables the one interrupt of both directions;
* the priority is shifted by bits instead of bytes; only so does it stay 0, and the interrupt
  is not held back by `BASEPRI = 0xFF` (`USART2_Unmasked`).

Not modelled here: an overrun inside one run of the handler, the callback (never set), the
copies of the code for USART1 and USART6, whose interrupts are not implemented.

### BootEntry, CrcUnit

`pc` is the function or statement that comes next, from `init_stack` to `BootControl`, `App` or
`Fault`. A reset loses the registers, not the RAM: the drivers' states are whatever they were
until `init_ram` and `call_ctors` have run. `held` and `touched` remember what the button was
since the reset, `asked` whether the host has sent `BL_JUMP_TO_APP`, the other way to
`JumpToUserApp` (`BootJumpToApplication`).

Sector 2 is a set of `Parts`: the first word (`Stack`), the second (`Reset`) and the rest (`Code`).
`Rewrite` is a session seen from here: it erases them all and programs them in this order; a reset in
`BootControl` may come in an erase and leaves any of them, and at power on any may be there. `JumpToUserApp`
has its three statements: what it finds in the first word becomes `sp`, what it finds in the second
decides where the jump ends (`Landings`). That a reset handler with all of its code, on its own stack,
runs, and may do anything otherwise, is the one assumption about the application; which of these it
is given is what `WholeAppIsEntered` is about.

SysTick and the user interleave with every statement. After `SetVTOR` a tick runs the application's
handler, which finds whatever RAM the bootloader has left until its reset handler is done (`AppStarts`):
the model lets it do nothing or fault, and `early` remembers it. The ticks after `AppRuns` are the
application's own.

`CrcUnit` has the shift register of the unit and the loop of the script, each over a word of
`W` bits and bytes of `B`. A number is the set of its bits that are 1: exclusive or, shift and cut
are operators on sets, and the script's integers, which have no width, are sets without a bound.
`ReceiveFrame` reads a frame, computes the one and compares
it with the other; the frame may come with one byte damaged, except the one that tells the length
(what follows from a frame cut at the wrong place is in `Session`). `BRRFor` is the table of
dividers, with its true numbers; `ConfigBaudRate` refuses a divided clock and `OVER8`, which nothing in
this program sets, so that the refusal is left out.

## 3. The runs

All instances are scaled down; the code reads its sizes from tables and constants, and the
bounds below are the least at which each case still occurs.

| Run | Question | Instance |
|---|---|---|
| `boot_device` | Does the firmware keep its promises against *any* host? | four sectors of 1, 1, 1 and 2 cells; every command; sizes that need one sector, fill one exactly, exceed the flash; blocks of 0 to 2 bytes, last and consecutive; erase masks with and without sector 0, mass erase; both protection modes; bad CRC, unknown command, a frame without data; two stale bytes; resets at any step |
| `session` | Is what the script reports in the flash, over a bad line, and does an undisturbed transfer complete? | sectors of 1, 1, 2 and 6 cells; an image of three bytes in blocks of two; one damaged frame, one reset, erases that may outlast the time-out, a user who waits for an erase; a reset in an erase leaves any cells of one sector (692,707 states) |
| `usart_polling` | Do `Transmit` and `Read` keep theirs? | a clock of four values, messages of 1 and 3 bytes, reads of 0, 1 and 3, one overrun |
| `flash_driver` | Does the driver implement `FlashSpec`? | four sectors; widths X8 and X16; erase masks with none and two sectors; writes of 0 to 2 bytes; cells that are not erased; resets (621,152 states) |
| `usart_it` | What do the interrupt-driven transfers keep? | an `uint8_t` of four values, a buffer of four bytes, messages of 0 (refused), 2 and 4 (length wraps to 0) bytes, reads of 1 and 2, one lost byte (668,593 states) |
| `boot_entry` | Who is started, and which frames are accepted? | `BOOT_TIMEOUT` of three ticks, as in the code; eight baud rates, one not in the table; words of eight bits and bytes of two, so that a checksum has four bytes as in the code; four frames; every content of sector 2; one reset (265,216 states) |

Why the bounds are enough: the statics of a transfer are a state, a pointer and a set, and two
frames of each kind reach every combination; four sectors give one of the bootloader, one
unused, two of the application with different sizes, so taking a sector too many or too few
shows; `MaxUnread = 0` in `boot_device` only makes the host read before it sends, `tx`
influences nothing in the device; the clock of four values turns over within a call; one
damaged frame and one reset per session, in any order and at any point, fire every branch of the
script and of the line; longer chains of faults are beyond this instance. In `usart_it` four
values of `uint8_t` have a size below, at and beyond the wrap, and the race needs only two calls.
In `boot_entry` a damaged byte, every window position of a tick and every content of sector 2 occur;
the smaller word changes the polynomial, not the two algorithms compared.

Properties, by what they protect against:

* `AheadErased`, `ErasedSoFar`, `BlockAsSent`, `ResetToDefault`, `PointerInApplication`:
  the statics of `BootFlashWrite` and the flash agree in every order of commands and resets.
  They hold unless the flash has set `WRPERR`: see the first finding.
* `BootloaderSurvives`: sector 0 changes only in an erase command that names it, or a mass erase. A mask
  completed by a stale byte of `localBuffer` counts as named.
* `ReportsWhatWasSet`: the inverted meaning of nWRP in the two modes cancels out, up to the next reset.
* `DriverFree`, `HandlerReturns`: no command leaves the driver busy, every handler answers.
* `ClaimedImageIsInFlash`, `InAgreement`: the host's report and the device's flash, unless
  the flash has refused something. A device that was reset between two blocks is in no transfer, and
  `InAgreement` says nothing of its pointer then; the claim about the flash stays.
* `CommandEnds`, `TransferCompletes`: the script never hangs; a clean transfer ends well.
* `MessageIsOut`, `BytesInOrder`, `TimeoutIsLate`, `CallsReturn` for the USART driver. `TimeoutIsLate`
  speaks of waits that end before the clock turns over; the others expire at the first tick (finding 6).
* `ClosedWhenIdle`, `HandsOffWhileBusy`, `CleanMeansProgrammed`, `ImplementsFlashSpec`,
  `CallsReturn` for FLASH.
* `MessageIsWhole`, `ReadIsWhole`: a transfer by interrupts that had the driver to itself;
  `TransfersEnd`, `CaughtForGood`: the one way the processor gets stuck, and that it is for good.
* `ButtonDecides`, `MainDecides`: after a reset at any point the board can be recovered by its button,
  and main decides.
* `WholeAppIsEntered`: an application that is whole runs with its vectors and on its stack, also right
  after a session that has programmed it, and only a tick before it has set up its RAM can make it fault.
* `WindowIsOnTime`: the user has the whole window, measured by a clock that runs, and no more
  than a tick beyond it.
* `VerdictIsRight`: a frame is accepted exactly when it came as it was sent.
* `LineRate`: the line runs within 2.5 % of the rate asked for.

*Fairness.* `BootDevice`: the processor runs (WF of `Continue`, the steps that need no host).
`Session`: the same, frames on the line arrive or are lost, and the script runs where it does
not wait for the user (`ScriptRuns`); nothing is assumed of the user, of faults or of resets.
`UsartPolling`: the processor and the transmitter run, and for `Read` the host goes on
sending, without which `Read` waits for ever, as the code does. `FlashDriver`: the driver runs
and the flash ends what it has begun. `UsartIT`: the caller and the interrupt run, the line moves,
and the host sends what is read; nothing makes the caller begin a call. `BootEntry`: the processor
runs and the clock ticks, without which the window never ends; nothing is assumed of the user.

### What the code does otherwise than it says

Six runs are expected to violate their property; each states what a line of the repository
says.

1. `ack_means_erased`: "ack that the previously sent sectors have been erased"
   (`Commands.cpp:196`). With a write-protected sector the second reply names it all the same,
   as `SectorErase` never reads the error flags.
2. `session_hurry`: "Block successfully programmed" (script, line 218). Without any fault of the
   line: the banner of `main` makes a first `BL_MEM_WRITE` fail, the user tries again while
   the device erases, the late second reply of the first attempt is taken for the first of the
   second, the second size frame is programmed as four bytes of data, and the image follows four
   bytes too far, all of it reported as programmed.
3. `session_whole_block`: "After Bootloader received the last data packet ... it will reset all
   the parameters" (`Commands.cpp:229`). A file of a multiple of 255 bytes never has a last frame.
4. `session_nack`: "received NACK" (script, line 491). The NACK is one byte, the script indexes
   the second.
5. `usart_it_race`: "The entire message has been received, deactivate further interrupts
   triggered by RXNEIE" (`UART_Driver.cpp:356`). With the receiver already on, the interrupt that ends a
   reception may fall between the load and the store of `CR1 |= RE` (`:318`), and the store sets
   `RXNEIE` again: once the interrupt is enabled again, a byte is written behind the buffer.
6. `usart_max_delay`: `MAX_DELAY` "will evaluate to undefinitive waiting" (`SysTick.h:7`). It
   wraps, and expires at the first tick; theorem `MaxDelayIsShort` says when exactly.

Divergences seen and modelled as they are, without a run of their own: protection types 1 and
2 of the script are 0 and 1 of the device (script, line 398), so that in `session` a user may
get the other protection than the one meant; SET_FLASH_RW_PROT answers with the code of GET (`Commands.cpp:323`);
the reply to GET announces eleven bytes and has eight (`Commands.cpp:285`); protection is lost
at a reset although "successfully set" (script, line 235); an image larger than the flash is accepted.

## 4. The proofs

Seven modules of proofs go with one component each, `Agreement_proofs` is about host and device together.
Assumptions are the named `ASSUME`s of the modules: the sector table is a running sum of
positive sizes with at least three sectors and at most eight; `BitAnd` maps bytes to bytes, 0xFF is its neutral
element and programming the same byte twice is programming it once; `BOOT_TIMEOUT` is more than
one tick (one may fall between `GetGlobalTime` and the first look); a byte can name every set of sectors; the frames are bytes, at least the three of a header; the polynomial
is odd; the first banner is not empty and no banner has a byte of 128 or more; the bootloader's
code is not the erased value. TLC evaluates them in the runs. The two theorems of `Agreement_proofs`
have one hypothesis more, `PatientUser`.

* `FlashLayout_proofs`. `ImageIsCovered`: the sectors `GetSectorsForFlash` takes contain every
  cell of an image that fits, and nothing below sector 2. `NoSectorInVain`: they are exactly the application's
  sectors that begin inside the image or where it ends, so one too many at most. The lemmas on cells (sectors are
  disjoint, lie in the flash, those of the application lie above sector 2) serve the rest.
* `BootDevice_proofs`. First `TypeCorrect`, action by action. The safety properties do not
  hold by themselves inductively, so they are proved together as
  `IInv == Bookkeeping /\ DriverFree /\ ResetToDefault /\ PointerInApplication /\ ErasedSoFar
  /\ AheadErased /\ BlockAsSent`. `Bookkeeping` says which variables are at rest when, and that
  the announced sectors are the application's: it ties `op` to `toErase`, `block` and `idx`.
  `AheadErased` is established by `SectorsErased` from `ErasedSoFar` with nothing left to
  erase, kept by `WriteFlash` because it changes one cell, the one `idx` moves past, and kept by
  erase commands because erasing only helps. `BlockAsSent` needs `AheadErased`: programming
  an erased cell stores exactly the byte. `BootloaderSurvives` needs `PointerInApplication` and
  `Bookkeeping`. `ReportsWhatWasSet` is an action property of one handler over two functions of
  the driver. `FlashIsUsedAsSpecified` is the refinement of `FlashSpec`, step by step: `TaskWhen` says
  what the task is in each `op`, a handler that begins is `Begin` because `DriverFree` leaves
  it no `ST_BUSY` branch, `SectorErase` and `WriteFlash` are one sector and one byte of the task.
* `Session_proofs`. `DeviceInSession`: every step of a session is a step of `BootDevice` or
  leaves it unchanged. The script's reads are `HostReads`; the frames it sends must be among
  `Frames`, hence the invariant `SInv == TypeOK /\ LineOK`, in which `LineOK` says that the
  line holds only frames of the device's constant. `SessionKeepsDeviceSafe` carries the
  device's theorems over. `SessionTypeCorrect` adds the script's side.
* `UsartPolling_proofs`. `TimeoutIsNeverEarly` from the arithmetic of the macro
  (`ExceededIsLate`). `MessageHasLeft` from `MInv`: while a message is under way its bytes
  are, in order, on the wire, in the shift register and in `DR`, and `TC` is clear
  until all have left, from the second byte on; a message of one byte relies on the previous call
  having read `SR`, and the first call of all is the banner, which is longer. `ReadIsInOrder` from
  `RInv`: the byte in `DR` is newer than all that were read. `MaxDelayIsShort` is arithmetic.
* `FlashDriver_proofs`. `InStep` says which bits of the control register are set at each place
  of the driver, and that the flash works only while it waits; `ClosedWhenIdle` and
  `HandsOffWhileBusy` follow. `JobInv` says what is left of the call's sectors or bytes at each
  place, and `CleanInv` that every cell whose unit was taken without a flag is what the flash makes of
  `before` and the data, and every other is as before: hence
  `CleanCallHasProgrammed`. `DriverImplementsFlashSpec` maps every step of the driver to a step of
  `FlashSpec` or a stutter: the task is what `JobInv` says is left (`TaskOf`), and only the end of
  an erase or of a store moves it.
* `BootEntry_proofs`. `WhoChanges` says which group of variables each step changes. `EntryInv` joins
  `VectorsInv` (the vectors are the bootloader's until `main` switches them), `LineInv` (USART2 is
  available when it is configured, and `BRR` is the divider of its rate from then on), `ButtonInv` (held
  implies pressed implies touched), `PortInv` (the button's port has its clock when the window begins)
  and `WindowInv` (the first look comes within a tick of the start) to `ButtonDecides`, and
  `HandOverInv` (what vectors and stack the processor has after each statement of the jump, tied to what
  sector 2 holds) to `WholeAppIsEntered`: without `PortInv` the window could see a button that is not pressed, without
  `WindowInv` it could close before the first look. `LineRate` is the ten rows of the table
  (`RowsAreClose`) and what the lookup returns (`EntryFound`).
  `VerdictIsRight` is about the two checksums. `Induction` and `Recursion` are proved from the library's
  theorem that every set of numbers has a smallest, and give the recursive functions of `CrcUnit`
  their equations (`HostByteRuns`, `WriteRuns`, `AccumulateRuns`, `get_crcRuns`). One shift of the script,
  cut to a word, is one of the unit (`CutOfHostBit`), so the bytes do the same to both and the frames too:
  `ChecksumsAgree`. A shift of the unit loses nothing, as the lowest bit of what it leaves tells whether the
  polynomial was added, which is odd (`ShiftedBitInjective`), so one byte damaged changes everything
  after it: `DamageIsNoticed`. `word_to_byte` and `ReadCRC` are inverse (`ReadCRCOfBytes`), and a damaged
  byte of the checksum is another word (`ReadCRCTellsBytes`). `UnitInv` says that the CRC driver has its clock
  and is available whenever a frame is read; without it the verdict would be about what the stack held.
* `UsartIT_proofs`. `ControlTypes` is the key: what the caller has loaded of `CR1` contains
  every bit still set, as the interrupt only clears. `SendInv` (while sending, every byte taken from the
  message is on the wire or in `DR`) gives `MessagesAreWhole`; `ReadInv` (while reading, every byte
  that came is in the buffer, in `DR` or counted as lost; and after the end the NVIC lets nothing
  through, so that the `RXNEIE` set again by the race cannot write behind the buffer of *this*
  call) gives `ReadsAreWhole`. `CaughtIsForGood` needs no invariant.

* `Agreement_proofs`. What the host believes and what the device has done: `HostAndDeviceAgree`
  (`InAgreement`) and `ClaimsAreTrue` (`ClaimedImageIsInFlash`). Neither says anything of the bytes the
  host has not read yet, and those decide what it will believe next. The invariant `Conversation` follows
  them: for every place the host can wait at, which bytes are unread (`tx`), which one frame may be on the
  line, which handler may be at work on it, and for which place of the image (`Talk`, with `First` and
  `Second` for the two replies to a size, `OfBlock` for the reply to a block). Its backbone is what a
  conversation that has gone wrong looks like: `Dead`, unread bytes that do not begin like a
  positive reply and nothing under way that could add one. A banner, a bad-CRC status or a late reply with
  the wrong second byte all make the rest unusable, as the host purges its input before it sends again; that
  the banners cannot be taken for a positive reply is `BannerAssumption`. `Ready` and `AtPlace` tie
  `progAddress` and the announced sectors to the host's `sent`; `InFlash` is carried from
  block to block by the device's own invariant `IInv` (a block is programmed as sent, over erased cells,
  without touching those before it). The hypothesis `PatientUser` is needed: in the run `session_hurry` the user
  sends while the device erases, and `ClaimedImageIsInFlash` is violated.

*What termination rests on.* Liveness is out of the prover's reach, but the measures it rests on are
safety, and proved for every value of the constants:

* `BootDevice_proofs`: `Work` is the sectors or bytes a handler has left and the reply. It is at most 256
  (`HandlersAreShort`), every step of the processor lessens it, and only a reset takes it away
  (`HandlersRunDown`). `toErase` stays small because the flash has at most eight sectors, the block because
  `BlockFits`.
* `FlashDriver_proofs`: `Work` counts what is left to start and the places of the call still to pass. The
  loop ends exactly when nothing is left to start (`LoopsEndInTime`: it cannot overshoot, also with a
  width that does not divide the length), every step of the driver lessens it and the flash adds none (`CallsRunDown`).
* `UsartPolling_proofs`: `Left` counts the hops bytes have to make, from the buffer to `DR`, the shift register and the
  wire, or back. Only a byte's hop changes it, downwards (`CallsRunDown`); and `Transmit` waits for `TC` only while
  a byte is on its way (`NothingAwaitedInVain`), which rests on the same memory of the previous call as `MessageIsOut`.
* `BootEntry_proofs`: `TimedInv` extends `EntryInv` by the clock of the window. The interrupt of SysTick is
  enabled and its vector is the bootloader's throughout the window, so `WindowIsKept` (`WindowIsOnTime`);
  and the banners go over a USART whose clock is on (`BannersGoOut`).

What is left to TLC is that a step that can be taken is taken: `HandlerReturns`, `CallsReturn` of both drivers,
`MainDecides`. `CommandEnds`, `TransferCompletes` and `TransfersEnd` are checked by TLC alone, without
a proved measure: they depend on what the host, the line and the interrupt do in turn. Every safety invariant, action property and
refinement that a passing run checks is also a theorem.

## 5. Not modelled, and what is planned

Planned, in this order:

1. `ImageTransfer`: an abstract specification of a transfer (an image announced, the flash
   changed to it, or not), implemented by a `Session` without faults.
2. `Framing`: `ReceiveCommand`, `Read`, `ReadCRC` byte by byte, as the refinement of
   `Session`'s `skewed`.

Left out:

* printing, port discovery and the parsing of user input in the script: no state of a session
  depends on them;
* configuration bits without behaviour here: `FLASH_ACR`, word length, parity and stop bits,
  output types, speeds and pull-ups of pins;
* functions nobody calls: `GPIO_WritePin`, the pending functions and `NVIC_GetInterruptPriority`,
  `CRC_Read`, and the copies of the interrupt-driven driver for USART1 and USART6;
* `NVIC_DisableInterrupt` writes `ICER` with `|=`, which disables every interrupt of the word:
  USART2's is the only one this program ever enables, so no property can tell the difference;
* what the application does, and the linker script, the Makefile and the build output; that the
  bootloader fits sector 0 is taken from the last.
