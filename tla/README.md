# HD6301 computer: TLA+ models, model checks and proofs

HD6301_thing is a home-built computer around the HD6301 microprocessor. The
repository holds an emulator of it in C++ (`emulator/`), the firmware in
assembler (`asm/`), the firmware of its graphics card (`pico_graphics/`, over
the shared `graphics_state/`), of its EPROM programmer (`pico_programmer/`), a
disassembler, some host tools and the boards.

The emulator has several threads (the one that runs the CPU, the UI, the
reader of the serial port, the callbacks that drive a pin), and devices that
share one interrupt line. The firmware talks to those devices through interrupt
routines, handshakes and retries. That is what the models are about: they follow
the C++ and the assembler, handler by handler, including what happens between
two critical sections of a mutex or two instructions of an interrupt routine.

Paths below are relative to the root of the repository.

## 1. The system

### Components, their state and their operations

| Component | Source | State | Operations |
|---|---|---|---|
| Interrupt line | `emulator/interrupt.h` | the set of outstanding ids, the next id, under a mutex | `set_interrupt`, `clear_interrupt`, `has_interrupt` |
| 65C22 VIA | `emulator/w65c22.cc`, `.h` | IFR, IER, four interrupt ids under `irq_flag_mutex_`; two timers; shift register; ports; CA1 edge | `tick`, `read`, `write`, `ca1_transition` |
| Serial port of the CPU | `emulator/hd6301_serial.cc` | TRCSR, RMCR, two countdowns, two interrupt ids, a queue under `mutex_`, an atomic "empty" flag, the pseudo terminal | `tick`, register reads and writes; the reader thread; shutdown |
| PS/2 keyboard on port 1 | `emulator/ps2_keyboard_6301.cc` | queue of bytes, interrupt id, level of P20 under `mutex_`; port 1 and P21 | `handle_keyboard_event` (UI thread), the callback on a write to port 2 |
| Keyboard interrupt routine | `asm/include/keyboard_6301.inc`, `asm/monitor.s` | a 256-byte ring buffer with two 8-bit pointers, the break counter | `keyboard_6301_irq`, `keyboard_getchar`, `io_irq`, `invoke_monitor` |
| Graphics state | `graphics_state/graphics_state.cc` | characters, colours, cursor, roll | `HandleCommand`, ten commands |
| Graphics on the emulator and on the Pico | `emulator/graphics.cc`, `pico_graphics/` | the registers the bus sees; the scan-line renderer | bus writes; drawing |
| VIA to SPI glue | `emulator/w65c22_to_spi_glue.cc` | chip select and clock on port B, shift count, keyboard countdown | port callbacks, `tick`, the keyboard thread |
| SPI adapter | `emulator/spi.cc`, `asm/include/spi.inc` | the two shift registers, chip selects | clock edges; the driver's send and receive |
| SD card and driver | `emulator/sd_card_spi.cc`, `asm/include/sd_card.inc` | the state machine of the card, its response queue, the image file | bytes exchanged; initialise, read and write a block |
| File system | `asm/include/file.inc` | the FAT structures of the mounted card | open, read, list |
| CPU | `emulator/cpu6301.cc`, `.h` | registers, flags, the instruction in progress, breakpoint | `tick`, `reset`, the instructions |
| Timer of the CPU | `emulator/timer.cc`, `asm/include/timer.inc` | counter, TCSR, output compare | `tick`, register accesses, `timer_irq` |
| Emulator loop and UI | `emulator/hd6301_thing.cc`, `emulator.cc` | `cpu_running_`, `emulator_mutex_` | run, pause, step, breakpoint, reset |
| Address space, RAM, ROM | `emulator/address_space.cc`, `ram.cc`, `rom.cc` | the ranges registered; bytes | reads and writes dispatched by address |
| UART TL16C2550 | `emulator/tl16c2550.cc`, `midi_to_serial.cc`, `asm/include/midi_uart.inc` | a queue, LSR, IER and the interrupt id under `io_mutex_`; the pseudo terminal | register accesses; the reader thread; the callback that writes a message |
| MIDI synthesizer | `asm/programs/midi_synth.s`, `asm/include/midi.inc`, `sound.inc` | the message being received; which voice plays what for whom | one handler for each message |
| OPL3 sound | `emulator/sound_opl3.cc`, `asm/include/sound.inc` | registers, the generator, the audio callback | register writes |
| EPROM programmer | `pico_programmer/` | the command in progress, the pins; the host's session | one-byte commands with time-outs; read and write of the bus |
| Monitor and programs | `asm/monitor.s`, `asm/programs/*.s` | the command line | examine, change, run |
| Disassembler | `disassembler/` | an annotation for each address, the worklist, the lines printed | `disassemble`, `set_instruction_boundary_hint`, as often as the emulator stops |
| Tools, boards | `tools/`, KiCad files | none that lasts | sequential conversions |

### How they interact

* The VIA, the UART and the keyboard share one `Interrupt` object. The CPU
  tests it between two instructions, without any lock of the devices, and the
  interrupt routine finds out by polling whose interrupt it is: first the
  keyboard (P21), then the VIA (bit 7 of IFR), then nobody, which invokes the
  monitor. The timer and the serial port have a line of their own.
* The bus accesses of the CPU call the devices synchronously. A write to a port
  calls back the device attached to it (keyboard, glue).
* The UI thread presses keys: into the keyboard's queue, or through the glue to
  CA1 of the VIA. It also starts, stops and steps the CPU. The serial reader
  thread pushes what the host wrote. The UART has a reader thread too; what it reads comes
  from the callback of the MIDI library, over a pseudo terminal. The sound chip is generated
  by an audio thread.
* `midi_synth.s` polls the UART and drives the OPL3; nobody else touches either.
* Locks are taken in this order: `emulator_mutex_`, then that of a device
  (keyboard, glue, port), then `irq_flag_mutex_`, then the one in `Interrupt`.
* The VIA's shift register drives the SPI adapter through the glue, one clock
  edge per tick, and the adapter drives the card.

### What is hard, and what makes each part correct

`PROJECT.json` lists the hazards at their lines. In short:

* *Interrupt line*: an id that is lost or handed back twice leaves the line
  active for ever, or takes away somebody else's interrupt.
* *VIA*: a write to IER is two critical sections and CA1 comes from another
  thread in between; bit 7 of IFR is stored and not computed. Correct: a flagged
  and enabled source always holds the line, and nothing else does.
* *Serial port*: `tick()` reads an atomic flag before it takes the mutex; three
  threads of control update that flag. Correct: no byte is stranded, doubled or
  overtaken, the reader ends at shutdown, the transmitter becomes ready again.
* *Keyboard*: the UI thread presents a byte in three unprotected writes while
  the CPU runs its interrupt routine. Correct: every byte arrives once and in
  order, the Pause key stays out of the buffer and invokes the monitor once, and
  no interrupt appears to belong to nobody.
* *Graphics state*: the screen scrolls by a roll and shows the cursor by swapping
  colours in the buffer. Correct: no sequence of commands ever shows that.
* *SPI*: the driver relies on counted cycles, and nothing in the hardware says that a byte
  is complete when it is read. Correct: every byte is exchanged once and read once,
  whatever interrupts the driver.
* *SD card*: a command may be cut short by a reset at any byte, and the card remembers.
  Correct: blocks are whole, the driver finds the card again, every call returns.
* *Loop and timer*: slices, pauses and breakpoints cut the program anywhere, and a slice
  overshoots by the rest of an instruction. Correct: the clock keeps pace, a stop
  stops, every timer interrupt is counted once.
* *Instructions*: the flags of one byte are the input of the next, and an interrupt may come
  between the two. Correct: bytes add up to the words they are part of, branches follow
  the order of what was compared, an interrupted program finds its registers.
* *UART and MIDI*: a byte is queued by one thread and its status bit is read by the other, and a
  reset or another program may come in the middle of a message. Correct: no message is put
  together from two, no note hangs, and which voice plays a note is never seen.
* *Disassembler*: an address is pushed when it is seen and looked at much later, when it may be
  something else; lines are printed once and later passes start from what is there. Correct: the
  worklist ends, what can be reached is decoded and nothing else, every byte has its line.
* *Programmer*: a byte that is 10 ms late is taken for a command. Correct: no line of the
  bus ever has two drivers, and the memory is what the host means or the host could know.

## 2. Modules

| Module | What it is | Code |
|---|---|---|
| `IrqLine` | the interrupt line, extended by its users | `emulator/interrupt.h` |
| `W65C22` | the VIA's interrupt logic with its two threads | `emulator/w65c22.cc` |
| `HD6301Serial` | the serial port with the reader thread, the host and the owner | `emulator/hd6301_serial.cc` |
| `IrqDevices_proofs` | theorems about the two devices on the interrupt line, `W65C22` and `HD6301Serial` | |
| `KeyChannel` | abstract: a channel that delivers keys, in which Pause is a call of the monitor | |
| `PS2Keyboard6301` | the keyboard composed with its interrupt routine; implements `KeyChannel` | `emulator/ps2_keyboard_6301.cc`, `asm/include/keyboard_6301.inc`, `asm/monitor.s` |
| `PS2Keyboard6301_proofs` | its theorems, and that it implements `KeyChannel` | |
| `Terminal` | abstract: a screen of cells in the order they are seen, and a cursor | |
| `GraphicsState` | the graphics card's commands; implements `Terminal` | `graphics_state/graphics_state.cc` |
| `BlockStore` | abstract: blocks that are read as they were last written, calls a reset may cut short | |
| `SdCard` | the card composed with its driver; implements `BlockStore` | `emulator/sd_card_spi.cc`, `asm/include/sd_card.inc`, `asm/include/spi.inc` |
| `SdCard_proofs` | its theorems, and that it implements `BlockStore` | |
| `ByteLink` | abstract: bytes exchanged once each, and the wanted ones read in order | |
| `SpiLink` | the VIA's shift register, the glue, the SPI adapter, the driver's routines and the keyboard's interrupt routine, tick by tick; implements `ByteLink` | `emulator/w65c22.cc`, `emulator/w65c22_to_spi_glue.cc`, `emulator/spi.cc`, `asm/include/spi.inc`, `asm/include/io.inc` |
| `SpiLink_proofs` | its theorems, and that it implements `ByteLink` | |
| `CpuTimer` | the timer's registers and interrupt as a value with operations; used by `EmulatorLoop` | `emulator/timer.cc` |
| `EmulatorLoop` | the emulator thread, the UI thread, the CPU's loop with its interrupts, and the firmware's path through `timer_init` and `timer_irq` | `emulator/hd6301_thing.cc`, `emulator/emulator.cc`, `emulator/cpu6301.cc`, `asm/include/timer.inc`, `asm/monitor.s` |
| `EmulatorLoop_proofs` | its theorems | |
| `Cpu6301` | the instructions as operators on the CPU, and a CPU that runs short programs with interrupts | `emulator/cpu6301.cc`, `asm/include/file.inc` |
| `Cpu6301_proofs` | theorems about the operators | |
| `Uart` | the UART's registers, its reader thread and the terminal; extended by `MidiSynth` | `emulator/tl16c2550.cc`, `emulator/midi_to_serial.cc` |
| `Polyphony` | abstract: a bounded bag of sounding notes and an instrument for each channel | |
| `MidiSynth` | the parser, the voice allocator and the OPL3's channels, on `Uart`; implements `Polyphony` | `asm/programs/midi_synth.s`, `asm/include/midi.inc`, `midi_uart.inc`, `sound.inc` |
| `MidiSynth_proofs` | its theorems, and that it implements `Polyphony` | |
| `Disassembler` | the worklist, the annotations and the listing | `disassembler/disassembler.cc` |
| `Programmer` | the programmer pin by pin, the bus, the memory and the host's sessions | `pico_programmer/pico_programmer.cpp`, `programmer.py` |
| `Pico_proofs` | theorems about the two Picos: of `Programmer`, and that `GraphicsState` implements `Terminal` | |
| `MC...` | the instances that TLC checks | |

Actions are named for the function or the label they translate, variables for the
member they stand for. Operators marked "A slip" are deliberate mistakes in one
of those functions: each shows that a property depends on the code being as it is.
No specification uses them.

### IrqLine and W65C22

`interrupts` is the set of ids handed out and not yet given back. Ids are
distinct from every outstanding one and never the sentinel 0, which is all a device
can observe as long as the counter does not wrap around, and the class comment
leaves that out of consideration. They are interchangeable, so they are model
values under symmetry.

A critical section of `irq_flag_mutex_` is a step. A bus write to IER is two:
`EnableIER` or `DisableIER` changes the register, `FinishIER` is the
`set_irq_flag(0)` or `clear_irq_flag(0)` that follows, and a CA1 edge can come
in between; so can another device on the line (`OtherSet`, `OtherClear`).
`ca1_transition` is `Ca1Sample`, which decides, and `Ca1Flag`, which sets the
flag. When a timer or the shift register expires is not modelled here: `Expire`
may come at any time, which is more than the counters allow, and therefore safe
for the properties.

### HD6301Serial

The emulator thread (`Tick`, `TickPop`, the register accesses), the reader thread
(`Poll`, `ReadPty`, `PushByte`, `HandleHangup`, `CheckShutdown`: one round of its
loop), the host (`HostWrite`, `HostClose`) and the destructor (`Shutdown`). The test
of `rx_fifo_empty_` happens in `Tick` and the pop under the mutex in `TickPop`,
so a push or a receiver enable cannot be excluded in between by anything but the
code. Countdowns are 8 bits wide, as in the code, and divided by `Scale`. Bytes
are numbered in the order the host writes them. What the program transmits is
not kept: it goes to the host at once and only the countdown remains.

### PS2Keyboard6301

The UI thread takes the mutex (`Press`), then writes port 1, P21 and the line
one after another (`UiPresent`, `UiStatus`, `UiRaise`). The interrupt routine
is a program counter `cpu` with a step for every instruction that touches
something shared; its two writes to port 2 run the callback and wait for the
mutex there. `Chain` is the rest of the monitor's interrupt routine: the other
device's interrupt is acknowledged, or the monitor is invoked. A byte is a record of the
press and the position in its code, so that order and loss show.

The CPU comes out of reset with a cleared status register, so interrupts are enabled
while `start` runs. `stage` is how far `start` has got, in the three instructions that
concern the keyboard; `Fetch` is the CPU's look at the line before each of them, so
that a key can come between the look and the instruction. While P20 is an input the
callback of the controller sees 0 whatever is written.

The refinement maps the bytes not yet stored to the channel's `line`, those between
the two buffer pointers to its `buffer`.

### GraphicsState

One action per command of `HandleCommand`. Colours are kept where the code keeps
them: at the place in the plane that the word and bit index select, with the
padding at the end of each line, and swapped at the cursor. The refinement
undoes the roll, the layout and the swap.

### SdCard

A step of the driver is one byte exchanged, or a change of the chip select: the
byte the card chose at the end of the last one goes out while the next one comes in
(`Exchange`). `phase` is the loop the driver is in, `command` the command it sends,
`count` the bytes or tries in that loop, `a` the accumulator that the routines return.
`handle_byte_in` is one operator for each state of the card, `handle_command` one for
ordinary commands (`StandardCommand`) and one for application commands (`AppCommand`).
`Reset` can come between any two bytes: the driver starts anew and the card stays as it was.
`app_at_start` is a history variable: whether an APP_CMD was pending when the
initialisation began.

That every load of the VIA's shift register exchanges exactly one byte is assumed
here; `SpiLink` shows it.

### SpiLink

The driver counts cycles: it reads port B a fixed number of instructions after it has
loaded the shift register, and `spi_receive_block` reads the previous byte when it has
already started the next. A routine is a sequence of instructions (`Code`), each with its
cycles; those that touch a device have an action, the others are `Working`. The ticks
of an instruction come before its effect, as in `Cpu6301::tick()`, and `Tick` is one
call of the two tick callbacks: the VIA moves the clock, the glue inverts it, the
adapter shifts. Bytes are sequences of bits, so that a byte cut at the wrong place
shows; `miso_shift_data` and `sub_data_in` hold the bits since the last whole
byte, so their lengths are `shift_count_` and `bit_count`.

A key may pulse CA1 at any tick and its interrupt is taken between any two
instructions (`ContinueAt`); the interrupt routine puts the keyboard on port B and
takes it off again. `Reset` starts the firmware anew, while the devices keep on shifting. The
routines are called in the orders in which `sd_card.inc` calls them (`MayFollow`).

The history variables `in_flight`, `offered` and `unread` say what should happen, `taken` and
`received` what does: the refinement compares them. `due` is the key that was announced.

### CpuTimer and EmulatorLoop

The emulator thread is the program counter `loop`: the test of `emulator_running_`, the
test of `cpu_running_` without the mutex, the lock, and the slice, in which every round of
`Cpu6301::tick()` is a step (`RunRound`), so that another device's request (`OtherRequest`,
from a thread of its own) comes between any two. The mutex is held exactly while `loop` is
"slice"; what the UI does under it are single steps. `seen` is the UI's copy of
`cpu_running_` from the start of its frame, which decides what the buttons do: a
breakpoint may have stopped the CPU since. `Run` is two steps, `RunTick` and `Run`,
as `tick(1, true)` and `run()` are two calls.

The firmware is reduced to the addresses at which the timer and the mask are touched. An
instruction first ticks the timer once for each of its cycles, then does its access.
`Interrupted` is the first of the tests in `tick()` that succeeds; entering costs cycles of
the slice that tick no device. An illegal instruction resets the CPU, and so does
the button. `Cpu6301::reset()` sets the program counter and nothing else: the timer, the mask
and what is outstanding stay.

History variables: `last` is the length of the slice before, `stale` the slices
begun since the CPU was stopped, `owed` the timer interrupts fired and not
yet counted by `inc timer_ticks`.

A property of the code that the model shows: an interrupt that arrives while the CPU is paused
at a breakpoint is what `tick(1, true)` of the Run button enters, so that the CPU
stops at the same breakpoint again after the routine, in spite of the comment at
`emulator/emulator.cc:214`. It is harmless, and no property is about it.

### Cpu6301

`cpu` is a record of the registers, the flags and 64 bytes of memory; an instruction is an
operator from a CPU to a CPU, at the widths of the code, and an operator of the model
stands for the 8-bit and the 16-bit version of the same formula (`Cmp` for `cmp` and
`cmp16`, with the width as a parameter). A flag is computed from the topmost bits,
as in the code. Opcodes are not encoded: an instruction says by its kind where its
operand is, and branches have an absolute target.

`task` is the program that runs and what it starts with. Most of the programs do with
bytes what one other instruction does with words, with the flags in between; two are
routines of the file system, instruction by instruction: what `file_init` computes from the
boot sector, and `fat_cluster_to_sector`. `Interrupt` may come before every instruction and
runs a routine that uses every register. The reference, `Exact` and `Result`, is integer
arithmetic on numbers with and without sign.

`Possible` leaves out inputs for which the code gives something else than that, all met
while modelling:

* `Sbc` (`emulator/cpu6301.cc:202`): the borrow is added to the operand and the sum cut to a
  byte before the comparison that sets the flags. With an operand of `$ff` and a borrow
  the carry is lost, and with `$7f` the overflow is wrong. `BorrowExact` excludes the two;
  the theorem `SubtractWithBorrow` says what happens. No routine of the firmware uses sbc.
* `file_init` (`asm/include/file.inc:183`): for one sector per cluster the branch skips the
  `clr a`, and the mask becomes 2, the number of FAT copies that A still holds, not 0.
* `file_init` and `fat_cluster_offset` compare with `bgt`, which is signed
  (`asm/include/file.inc:202`, `:208`, `:615`): values from `$8000` on pass for small ones.
* `fat_cluster_to_sector` computes modulo 2^16: clusters whose sector needs more than a word are
  left out. Those that can be used (up to 254, `asm/include/file.inc:25`, of at most 128 sectors)
  do not, unless half the word is taken by reserved sectors.

A FAT of 255 sectors is in the run, and `Computes` says nothing of whether it is refused: the
comments support it and the comparison does not (3, known disagreements).

`bls` and `ble` compare the sum of two flags with 1 (`emulator/cpu6301.cc:518`, `:532`), where
`documentation/6301_instruction_set.md:113` has "C or Z": with both set they do not branch.
After a comparison both are never set, as `BranchesFollowOrder` proves; after other
instructions they can be.

### Uart and MidiSynth

A step is one critical section of `io_mutex_`, or the code between two: the reader thread
takes a byte from the terminal (`ReadPty`) and then pushes it (`PushByte`), and the CPU reads the
status in one bus access (`SeeStatus`) and the byte in another (`FetchByte`). A
byte is the message it belongs to and its position there, so that a message put together from
two shows. `pc` is where the program is; "other" is whatever ran before
`midi_synth_start`, which may read bytes and use the interrupt (`OtherProgram`).

A handler is a step: nothing else touches the tables or the OPL3, and bytes that arrive
meanwhile only wait. `table` is `opl_to_midi_channel_note` without the
volume; `loaded`, `feedback` and `key` are what the OPL3 has been told of each channel: whose
settings its two operators have, whose feedback and connection, and its note. They differ
because `LoadInstrument` does what `sound_load_instrument` does: in the second array the eleventh
byte of an instrument goes to a register that belongs to no channel. `RightInstrument` is
therefore about all eleven bytes in the first array and ten in the second. A drum is a channel of its own, as in the code. `Attenuated` is the channel that
`sound_set_attenuation` silences, which is another one in the upper bank. The refinement
maps the voices to a bag of notes, so that which of them plays what is hidden.

The musician sends whole messages (`WriteMessage` is one `write`) and is bounded in what is in
flight. `struck` is a history variable for `OneStrike`: a drum is released before it is struck
again (see 3, known disagreements).

### Disassembler

What matters of the opcode at an address is its length, whether the next byte is code too and where
its operand leads; `program` is an arbitrary choice of these, so that overlaps, loops, jumps
into operands and beyond the data all occur. A step is one call or one round of a loop. `Decoded`
and `Annotate` follow `decode_instruction` in its order: the own annotation, those of the
operands, the label of the destination, what is pushed. A line is what it shows: bytes, a label,
and the address it refers to; it is set where the code prints it and stays as it was otherwise,
so that a line out of date is out of date in the model. `Reachable` and `Tidy` say what the
program is, without the algorithm.

### Programmer

A command of `programmer_task` is the sequence of its pin operations, `steps`, which are
executed one at a time (`Step`), since it is between two of them that a line may have two
drivers. `GiveUpArgument` is `getchar_timeout_us` giving up: it may come whenever the host
has sent nothing more, and also, up to `MaxStalls` times, while bytes are on their way.
Those bytes then are the next command. The memory takes a byte when the clock falls in a
write, and drives the bus while it is high in a read; both only while the CPU is off the
bus.

The host (`Begin`, `Ask`, `Hear`) runs sessions of `programmer.py`: standby, writes or
reads, and the end of standby, whatever went wrong. `intended` and `answers` are history variables:
what the memory should hold and what the host should be told. `reported` is set when the
programmer sends "e".

## 3. What is checked

| Run | Shows |
|---|---|
| `via_interrupts` | No interrupt is lost or leaked in any interleaving of bus accesses, both halves of an IER write, CA1 and another device; bit 7 is exact; nobody drops another's interrupt. |
| `serial` | Bytes stay in order; the queue drains; the reader thread ends at shutdown; no id is lost if TIE changes only with none outstanding. |
| `keyboard` | The keyboard and its interrupt routine implement the channel; every byte arrives; waiting bytes are announced in all three places; the monitor is invoked for Pause alone. |
| `sd_card` | Card and driver store whole blocks whatever the resets; the card is released between calls; every call returns; after a reset at most one initialisation fails, and only one cut short between APP_CMD and ACMD41. |
| `spi_link` | A byte loaded is exchanged once, and each byte wanted is read once and in order, wherever a key's interrupt or a reset comes; the interrupt routine reads the key and not the card; the wait for the shift register ends; every key is served. |
| `graphics` | Every sequence of commands leaves the screen, colours and cursor of the terminal. |
| `emulator_loop` | Slices, pauses, steps, breakpoints, resets and interrupts in any order: two consecutive slices make up two milliseconds, a stopped CPU runs one slice at most, every timer interrupt is served and counted once, and the destructor returns. |
| `cpu` | Arithmetic by bytes is arithmetic by words, with its flags, whatever interrupt comes; each branch follows the order of the operands; the two routines of the file system compute the layout and the sector that integer arithmetic gives, where the limits of the file system are kept and for up to 254 sectors per FAT. |
| `midi` | From the musician's message to the OPL3's channels: no byte is lost, doubled or taken for another message's, wherever a reset or another program comes; which voice plays a note is never seen; no note hangs; a voice has the instrument of its channel, as far as the code loads it (known disagreements); a byte that was written is read. |
| `midi_arrays` (violation) | A note on the OPL3's upper nine channels silences the one on the channel nine below, which the table goes on showing as playing. |
| `disassembler` | For every program of the instance: the worklist ends, what is reachable is decoded and nothing else, every byte and every label of the program is in the listing, no instruction or vector shows a byte without data, in two passes with a hint before, between or after them. |
| `programmer` | Pin by pin, with bytes that come late: no line of the bus has two drivers, memory and answers are what the host asked for or an error was sent, and every session ends and gives the bus back. |

The invariant `TypeOK` of each module is not listed: nine of them are proved (4), the others were
checked with the same configurations. So were the inductive invariants of section 4, before
they were proved.

### Known disagreements

What the code does here differs from what it, or somebody's use of it, says. One is a run of
its own: `midi_arrays`, described under `findings` in `PROJECT.json`. The others are left
out of the passing runs by a constant or an assumption with a name, and each can be seen in
TLC by changing the configuration as said.

| Code | What happens | To see it |
|---|---|---|
| `emulator/w65c22.cc:304` | Disabling a flagged source in IER leaves the line active, although the comment says that interrupts no longer enabled are cleared: `clear_irq_flag` looks only at the flags. | `MCW65C22` with INVARIANT `DisabledSourceReleased` |
| `emulator/hd6301_serial.cc:184` | At rates 1 to 3 the frame time is a multiple of 256 ticks and becomes 0 in the 8-bit countdown: TDRE never comes back. | `MCHD6301Serial` with `Rates = {0, 1}`, `MaxBytes = 0`, PROPERTY `TransmitterRecovers` |
| `emulator/hd6301_serial.cc:123` | A new interrupt id is stored over one that may be outstanding: a program that clears TIE meanwhile, writes a byte and sets TIE again leaves the line active for ever. | `MCHD6301Serial` with `TieDiscipline = FALSE` |
| `asm/include/keyboard_6301.inc:36` | A key pressed before the firmware has made P20 an output raises an interrupt that its routine cannot clear: the CPU takes it again before every instruction of `start`. | `MCPS2Keyboard6301` with `EarlyKeys <- MCAnyTime`, `MaxPresses = 1`, PROPERTY `ToggleClearsInterrupt` |
| `emulator/timer.cc:87` | A reset that meets an outstanding overflow: the write in `timer_init` clears the flag without the interrupt, and the two reads in `timer_irq` (`timer.inc:25`) no longer clear it. | `MCEmulatorLoop` with `QuietResets = FALSE`, PROPERTY `ReadClears` |
| `asm/include/midi.inc:365` | "We can't have more than one note per 'channel'": a drum struck twice has two voices, and releasing it twice stops the upper one twice. | `MCMidiSynth` with `OneStrike = FALSE` |
| `asm/include/sound.inc:265` | "Sets up an instrument on a given channel 1..18" (`:116`): on channels 10 to 18 the register of the eleventh byte is computed from a channel number that still counts from 10, so that feedback and connection go to `$C9` to `$D1`, and those of the channel stay as they were. | `MCMidiSynth` with INVARIANT `LoadedCompletely` |
| `asm/include/file.inc:207` | "At most 255 sectors per FAT are supported" (`:21`; also `:204`): the comparison is with 254, and a FAT of 255 sectors is refused. | `MCCpu6301` with INVARIANT `SupportsItsLimit` |
| `disassembler/disassembler.cc:414` | "Addresses without data ... are empty" (`disassembler.h:40`): the look-ahead of a run of data lines stops at annotated bytes and not at the end of the data, so that the last line of a run shows up to seven bytes that do not exist, as `$00`, and `print()` assembles to more than the program. The test of the round trip (`disassembler_test.cc:113`) has only data that end in code. | `MCDisassembler` with INVARIANT `RoundTrip` |
| `pico_programmer/pico_programmer.cpp:206` | Two bytes late in one session can make `x` and then `r` of two arguments: the read enables the data latch although the CPU runs. | `MCProgrammer` with `MaxStalls = 2` |

Others were met while modelling and are excluded from the states or described by no property:

* MIDI: a note-on of velocity 0 is played, where the MIDI standard has it end the note
  (`midi.inc:99`). `midi_reset` empties the table and silences nothing (`midi.inc:56`); the
  model has it only where nothing sounds. `openpty` is given a `termios` nobody has
  initialised (`emulator/tl16c2550.cc:179`): the model has its ECHO bit either way, and
  excludes data bytes of 10, which output processing would double. The emulator ignores DLAB
  and FCR, so that `midi_uart_init` writes its divisors into THR and IER and empties no
  queue; hence `Stray`. With bytes left in the queue no interrupt follows the read of one
  (`tl16c2550.cc:64`): polling is right, as the driver does; an interrupt routine that reads
  one byte would not be.
* Disassembler: `disassemble()` returns no error, whatever `disassembler.h:30` says. Lines
  of data bytes printed before a hint stay when the hint makes instructions of the bytes
  (`disassembler.h:40`: such addresses are empty), which is why `ListingExact` has each byte
  on only one line in the first pass. A hint before the first pass at the destination of a
  vector is reset by `decode_vectors` (`disassembler.cc:157`); hints before the first pass
  are in the model only where no vector has data, as in the tests. An illegal opcode that is
  reached, and instructions that overlap, leave bytes on no line or on two: `Tidy` excludes
  them from the listing's properties, and not from `DecodesReachable`'s first half and
  `Terminates`. `set_data` accepts one byte too many (`disassembler.cc:27`), and a hint
  where there are no data reads an empty `optional` (`:38`).
* Programmer: a read of the whole address space, or of no byte, reads nothing
  (`pico_programmer.cpp:147`), and so "size 0 means 'read one byte'" (`programmer.py:156`)
  is not so. The host does not look for an error while it writes.
* Disassembler, outside the model: `print()` never resets `previous_has_value`
  (`disassembler.cc:73`), so that it writes one `org` only, and what lies behind a gap assembles to
  another address. `instructions6301.h:175` lists `bsr` with an immediate operand, so that its
  destination is neither followed nor labelled; the opcode table is an arbitrary function in
  the model.
* SD card: the offset of a block is a product of 32 bits. From 2 GiB on it overflows in a read
  (`sd_card_spi.cc:222`), from 4 GiB on it wraps around in a write (`:133`), into another block;
  `OffsetsAssumption` is that all blocks begin below. When `get_r1` gives up in `send_cmd58`, the
  branch sees the flag of its last `dex` and goes on to read the OCR (`sd_card.inc:335`), as the
  model does; the emulator's card never lets it.
* Instructions and file system: see Cpu6301 above.

### Bounds, and why they are enough

* `MCW65C22`: five ids for four sources and the other device, so that no request
  ever finds none left. Everything else is finite in the code. The theorems
  below remove the bound.
* `MCHD6301Serial`: two bytes, which is what order, a full queue and a byte in
  hand while another waits need. `Scale = 32` turns the 160 ticks of a frame at rate 0
  into 5 and the 256 values of the countdown into 8; the products at the other rates
  are divided before the truncation, and 32 divides each of them and 256, so the
  truncated value is exact. The theorems remove the bound on bytes. In the passing run the rate is 0, which is what the
  firmware uses (`asm/include/serial.inc:29`), and `TieDiscipline` holds.
* `MCPS2Keyboard6301`: three presses of one or two bytes, or of the eight of
  Pause, and a buffer of 4, so that the pointers wrap, a Pause comes before, after
  or between keys, and several bytes queue behind an outstanding interrupt. `KeepsUp`
  is an assumption on the user: nobody types further ahead of the program than
  the buffer holds, since the routine does not test for a full buffer. `EarlyKeys`
  says which keys may be pressed at which stage of `start`: in the passing run ordinary keys
  from the moment P20 is an output and Pause from the moment it is set (a Pause whose
  first byte falls between those two instructions loses it).
* `MCGraphicsState`: three rows of two cells, with words of four colours so that
  lines are padded like those of the card (100 columns, words of eight). Data bytes
  are 0, 1 and 2, which reach every row, every column and every position whose number
  fits. At most two cells are not blank: every command treats the other cells alike, so
  following two shows every confusion of two cells.

* `MCSdCard`: two blocks of two bytes, so that a block can be torn and confused with the
  other, whose bytes are 254 and 255: the start token and the idle line. Address 2 is beyond
  the image. The card answers at the second try of each loop, so three tries
  stand for the driver's 10 and 500; two clock bytes stand for 10. Two resets: the
  second may cut short the recovery from the first. Blocks begin below 2 GiB
  (`OffsetsAssumption`), which the emulator's 32-bit offsets need. Up to there the theorems remove
  the bounds on the image, and those on blocks, on tries (from two) and on resets.
* `MCSpiLink`: blocks of three bytes, so that the loop of `spi_receive_block` goes round
  twice, between its first transfer and its last read; all longer blocks repeat the same
  round, which the theorems show. The bytes are such that none is another one shifted. The cycle counts
  are those of the code, and nothing bounds how often keys and resets come. Keys keep
  their distance (`PulseCA1`): the glue sends one in 1000 ticks, and `io_irq` takes
  about 150. Interrupts of other devices only delay the driver, as a key's does,
  and are left out.

* `MCEmulatorLoop`: a counter of four bits whose reload leaves ten ticks, slices of two
  cycles and instructions of one or two, so that an overflow falls on every instruction,
  also within its own routine and that of the other device, and a slice may overshoot or be
  used up by the surplus before it. Entering a routine costs one cycle of the slice. One
  request of the other device: a second one after the first is served differs in nothing.
  Breakpoints at the program and at the first instruction of `timer_irq`. `TicksPerMs` is at
  least 1: below 1000 ticks per second the loop runs no instruction. `QuietResets` is an
  assumption on when the CPU is reset: not with an overflow outstanding or about to
  come before `timer_init` has written TCSR.
* `MCCpu6301`: words whose bytes are 0, 127, 128 and 255, at the full widths: zero, the largest
  and the smallest with sign, and the largest without, in each of the two bytes, so that every
  carry, borrow and overflow happens in each, with and without the other; 2047 and
  254, which `file_init` compares with, and 2, the first cluster. Clusters of 1, 2 and 64 sectors: no shift, one, and many. One interrupt:
  a second one finds the same state as the first, which is what the run shows. The flags
  start all set or all clear. The theorems cover all operands.

* `MCMidiSynth`: two voices, one in each bank, for two melodic channels and a drum, so that
  voices run out, are taken over in both directions and are freed below and above others. A
  program change, an ignored message, and a message of every handler. Three bytes in flight:
  one in each of the terminal, the thread's hand and the queue, or a whole message in any of
  them; a longer queue repeats this. The theorems remove the bounds on voices, messages and
  bytes in flight. Bytes left over by another program or a reset begin
  with any byte of a message. Nothing bounds how many messages are sent.
* `MCDisassembler`: every program of three bytes between a byte without data and a byte
  without code, then another byte without data and one vector; opcodes of every length that fall through, return,
  branch or jump, to each of the three bytes, beyond them and before them. Three
  instructions make a loop, a diamond and an overlap. Three data bytes share a line (8 in the
  code), so that runs of one to four occur, and lines that end before the gap, in it and behind it. Two passes and one hint: a third pass
  starts from what the second does.
* `MCProgrammer`: bytes of eight values, each the code of a letter, so that every byte that
  comes late is a command; addresses are two such bytes. Two sessions: what one leaves
  behind meets a whole other one. The sessions are chosen so that data and addresses, taken
  for commands, are `x`, `l`, `r`, `d`, `e` and others. One pause of the host within a
  behaviour, which may outlast several arguments. A read up to the last address.

Deadlock is checked except where the system may stop: the serial port after
shutdown, the keyboard when the bound on key presses is reached, the emulator after
its destructor, the disassembler after its last pass and the programmer after its last
session.

### Fairness

* Serial: `Tick` and `TickPop` (the emulator thread ticks the port every cycle while
  the CPU runs) and `Reader` (a thread whose only waiting is in `poll`). Nothing is
  assumed of the program, the host or the owner.
* Keyboard: `UiThread` (it is inside a critical section that waits for nothing) and
  `Firmware` (the CPU runs). Nothing is assumed
  of the user, the program that reads the buffer, or the other device.

* SPI link: `Cpu` (it runs; every instruction ends). Nothing is assumed of keys and
  resets: the two liveness properties hold until the next reset.
* SD card: `Driver` (the CPU runs; the card answers within the exchange of a byte).
  Software owes no call, and nothing bounds when a reset comes, only how often.
* MIDI: `ReaderThread` (it waits only for `poll` and a mutex that is held for moments) and
  `Synth` (the CPU runs). Nothing is assumed of the musician, or of whether the synthesizer
  is started.
* Disassembler: the steps of a call that has begun. Nobody owes a call or a hint.
* Programmer: `Ask` and `Hear` (the host's program, which has time-outs of its own) and
  `Pico` (the loop of `main`, in which every wait for a byte ends after 10 ms).
* Emulator loop: `Emulator` (the thread waits only for the mutex, which the UI holds for a
  step, and for the end of a millisecond) and `Join`. The user owes nothing.

## 4. What is proved

The theorems hold for every value of the constants that satisfies the named
assumptions of the modules: any number of ids, any buffer size, any number of key presses,
images and blocks of any length, any number of voices, any messages.

* `IrqDevices_proofs`, the VIA (`ViaSpec`). `ViaEmulator` and `ViaIdsOwned` are inductive with the type: bit 7 exact outside an IER write,
  enabled flags fire outside an IER write, ids owned, and ids held only while flagged.
  During an IER write the invariant says what the second half will repair: that is why
  the properties alone are not inductive. `SetIrqFlagSound` and `ClearIrqFlagSound`
  are the two critical sections; every action is one of them or leaves the
  flags alone. From it follow `TypeCorrectness`, `NoLostInterrupt`, `AnyBitCorrect`,
  `NoLeakedInterrupt` and the action property `OnlyOwnInterruptDropped`.
* `PS2Keyboard6301_proofs`. `IInv` adds to the properties where the UI thread is in its
  critical section (which of the three announcements are made), and where the interrupt
  routine is (from the load of port 1 to the write of 1 to P20 a byte waits and its
  interrupt is outstanding, so the acknowledgement pops that byte). From it follow, for keys
  pressed at any stage of `start`, `TypeCorrectness`, `PresentedCorrect`,
  `NoLeakedInterrupt` and `MonitorOnlyOnBreak`.

  `ChannelImplemented` is the refinement of `KeyChannel`. It needs a second invariant,
  `ChannelInv`: the break counter of the routine agrees with the bytes of a Pause still in flight
  (`Whole`, since codes of several bytes come through whole and in order), and what is typed
  finds room in the buffer. The theorem assumes `NoEarlyKeys`: nobody types before `start`
  has set up P20. Without it a key waits for ever (3, known disagreements), and a Pause may
  lose its first byte.

* `IrqDevices_proofs`, the serial port. `IInv` says that the numbers of the bytes ascend along their whole way:
  the receive data register, the queue, the reader thread's hand, the terminal, what the host
  has sent (`Ordered`), from which `BytesInOrder` follows. It also says that the flag which
  `tick()` tests outside the mutex never calls a queue empty that is not (`FlagCorrect`), and
  that the reader thread reads only where it has seen input. With `TieDiscipline` ids are
  owned (`NoLeakedInterrupt`): an interrupt of the transmitter is outstanding only while TIE
  is set and no byte is on its way (`TransmitterIdle`), so that none is stored over another.

* `EmulatorLoop_proofs`. `IInv` is the type and two facts about the loop. Between slices
  `extra_ticks` is the length of the last slice less a millisecond, so that the budget of
  the next one and the length of the last one always make up two milliseconds: this is
  why a surplus computed without regard to the one before neither accumulates nor starves
  (`TypeCorrectness`, `KeepsPace`). And a second slice after a stop would
  need a test of `cpu_running_` that succeeded after it (`StopsAfterOneSlice`). These hold
  for all resets. `CountsOnce` assumes `QuietResets` and needs a second invariant,
  `CountInv`: outside `start` the flag is set whenever the interrupt is outstanding
  (`Flagged`), the routines run masked (`Masked`), so that `timer_irq`'s second read is
  always armed by its first, and on the way through `start` the counter stays far
  enough from its overflow (`BootSafe`).

* `Cpu6301_proofs`. These are theorems about the operators, for all operands where the
  run has sixteen. A remainder is a case distinction (`Remainders`), from which
  `CompareOrders` and `AddExact` follow by cases on the topmost bits, at both widths at once.
  `BranchesFollowOrder` adds the conditions of the branches; `AddBytesIsAddd` composes two
  byte additions into `addd`; `SubtractWithBorrow` says when sbc's carry is right and when it
  is lost. `ReturnRestores` follows the bytes of an interrupt's entry through the stack
  (`PushByte`, `PushWord`) and back: any routine that leaves the stack as it found it
  returns with all registers, whatever else it did. The stack pointer must not wrap
  around on the way, which the firmware's never does.

* `SdCard_proofs`. The invariant has a clause for each loop the driver may be in: what it has
  sent, what the card has therefore received, which state of `handle_byte_in` that is, and what
  the card is about to shift out. The two run a byte apart, since what the card decides
  goes out in the next exchange: hence an answer comes at the second try of each loop, and
  the theorems assume at least two tries. Resets come between any two bytes and leave the card
  in any of its states; the clauses of the initialisation therefore ask nothing of the card
  before the chip select has gone up, which is what resets the reception of a command.
  From it follow `TypeCorrectness`, `CleanBetweenCalls` and `StoreImplemented`, the
  refinement of `BlockStore`: the bytes that a transfer has moved are those of the block, at any
  length of block and for any image whose blocks begin below 2 GiB.

* `SpiLink_proofs`. The driver is right because its cycles suffice, and the invariant counts
  them: each place of the driver has the ticks that the shift register may still need there
  (`Room`) and the bytes that are exchanged and not yet read (`Owed`). That each instruction
  takes at least the ticks by which `Room` falls (`Fits`) and that `Owed` follows its effect
  (`Follows`) is checked for each instruction, on the places of a block folded onto those of a
  block of few bytes (`Node`, `Turn`): every round of the loop is the same, so blocks may have
  any length. The rest of the invariant says where the bits of a byte are while the clock is
  high, low or at rest (`OnTheWire`), that the byte read is the one that was exchanged
  (`Fetching`), what drives port B (`PortB`) and which key is announced (`KeyDue`). An interrupt
  only adds ticks; what it could spoil is a byte owed, and two are owed only while interrupts
  are masked. From it follow `TypeCorrectness`, `KeysSafe` and `ByteLinkImplemented`, the
  refinement of `ByteLink`, for keys and resets at any tick.

* `MidiSynth_proofs`. For any number of voices, any messages and any number of bytes in
  flight. `IInv` has three parts. `UartSound`: the registers are exact, and once the status
  was seen set a byte stays queued, since nobody else reads it. `StreamSound`: what is in
  flight is a sequence of whole messages of which the first may have lost its beginning
  (`Whole`, kept by taking the first byte and by writing a message or an echo behind the
  rest), and a message that is being received goes on with the first byte in flight. This is
  what makes `WholeMessages` inductive: that the parser does not mix messages is a fact
  about the queue, which a reset does not empty, and not about the parser. `VoicesSound`:
  whichever voice the allocator takes, starting, stopping and changing the instrument keep
  table and OPL3 together (`StartSound`, `StopSound`, `ChangeSound`), and nothing sounds
  when the synthesizer is started. From it follow `TypeCorrectness`, `RegistersCorrect`,
  `MessagesWhole`, `NoNoteHangs` and `InstrumentsRight`. The last is about what the code can load
  (`Loaded`: without feedback and connection in the second array), and needs that no drum has the
  number of a channel (`DrumsApart`).

  `PolyphonyImplemented` is the refinement of `Polyphony`, under `OneStrike`. A voice stopped or
  started is a note less or more in the bag (`Recount`), and a note is dropped exactly when
  no voice is free, because voices and notes can be numbered alike (`NotesCounted`).
  A bag does not say which of two equal notes ends, so this needs that a drum
  has one voice (`TableSound`), and that is a fact about the musician: `OneAtATime` says that
  between any two strikes of a drum, the one that plays, those among the bytes pending and
  the one the musician may send next, there is a release. Every step takes
  bytes from the front of this order or writes behind it (`StreamMoved`).

* `Pico_proofs`, the graphics card. Screens of any size and any colours. `TypeOK` is inductive
  as it stands, and it is where the code could write outside its buffers: the roll stays
  within the rows, and the place of a cell's colour within the plane (`TypeCorrect`). Two
  facts carry `TerminalImplemented`, the refinement of `Terminal`. The roll is a rotation, so
  each cell is seen at one place of the buffer and each place is the cell of one (`Ring`,
  `PlaceUnique`); and the swap under the cursor undoes itself, so that the colours as given
  (`Plain`) are changed by a command in the cells it names and nowhere else, whatever the
  cursor passes over. `PaddingAssumption` is the one constraint on the layout. The code skips
  `kNumColumns % 8` cells at the end of each line of the colour plane, which fills its last
  word, or leaves the line within it, only where that is at most half a word; with its 100 columns
  it is exactly half.

* `Pico_proofs`, the programmer. For any sessions that `programmer.py` makes, any number of
  them and of bytes that come late. The invariant speaks of what will be, not of what is: at
  each pin operation `Completing` says what the latches, the memory, the answers and the bus
  are when the operations left are done, and what the pins are on the way. The
  session then only depends on that outcome. It is a stream of bytes of which the programmer
  has taken `p`, at an offset in a frame of seven for each write or in the one command
  of a read; `Aligned` says that the command in progress is that of the byte taken last,
  `Latched` which latches the frame has already filled, and `UpTo` that the memory
  differs from what the host means only by the writes not yet done. These hold until an
  argument is given up (`Clean`). An argument given up is in `args`, and then reported, so that
  `ExactOrReportedHolds` needs nothing of the sessions after it. `OneDriver` does: a byte that comes
  late makes a command of an argument, and that may be `x`, which leaves standby. `InStep`
  and `ReadInStandby` say that after one pause no read follows it in the same session, and that the
  next begins in standby again. With two pauses one may (3, known disagreements), hence
  `OneDriverHolds` for `MaxStalls <= 1`; for any number there are `NoBusConflict`, on the data
  pins, the buffer and the memory, and `OneDriverInTime`, up to the first argument given up.
  `SessionsAssumption` is what `programmer.py` can do: standby is entered and left by a
  context manager, within it there are writes or one read.

Only model-checked: the liveness properties (`QueueDrains`, `ShutdownJoins` of both modules,
`TimerServed`, `EveryByteArrives`, `CallsReturn`, `EveryKeyArrives`, `AnswersEveryByte`,
`Terminates`, `GivesBack`), which are out of this prover's reach with the fairness and
ENABLED they rest on; the invariants of `Cpu6301`, whose operators are proved and whose programs
are checked; and those of `Disassembler`. What a recursive definition computes cannot be proved
with the installed provers, and `Disassembler` has two: `runs`, and the fixed point in
`Reachable`, by which its properties say what should be decoded.

## 5. What is not modelled, and why

The counters of the VIA's timers, the UART's transmitter and the serial port's driver in the
firmware (a ring buffer as the keyboard's), and the parts in the plan below, are not
modelled yet. Left out for good: rendering and the UI toolkit, audio synthesis (the OPL3 is
an external library), file and terminal I/O, ROM loading, boards, fonts and host scripts,
which hold no state that others rely on; volume and velocity of notes; the text of a
disassembled line and the opcode table; the programmer's bridge between USB and its serial
port, which may lose bytes of the other interface while a command waits (its buffer holds
32), and the erase and write algorithms of the flash chip, which are sequences of the writes
that are modelled. A race of the Pico's scan-line callback with a command shows for a frame
at most. Positions beyond the screen in command 7 are undefined in the code and are excluded
by the guard.

## 6. Plan

In this order; each with a type invariant, the properties named and its mutants.

1. Proofs: the programs of `Cpu6301` (`Computes`, `Decides`), by an assertion for each of their
   instructions and the CPU that an interrupt will return to; and what `Disassembler` does, with
   `Reachable` as the least set that is closed, which needs no recursion.
2. `GlueKeyboard`: the glue's queue of keys and its countdown, which the UI thread sets
   and the emulator thread decrements without the mutex; it discharges `PulseCA1`. A key's
   countdown may be overwritten by the decrement, and the key then waits for the next one.
3. `file.inc`: the walk over the FAT, composed with the block store, with the three
   disagreements noted under Cpu6301.
4. The logical instructions of the CPU, if a bit-wise reference is wanted.
