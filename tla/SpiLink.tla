-------------------------------- MODULE SpiLink --------------------------------
(***************************************************************************)
(* The way of a byte between the driver and the SD card, tick by tick: the *)
(* shift register of the VIA (emulator/w65c22.cc), the glue that inverts   *)
(* its clock and gathers the answer (emulator/w65c22_to_spi_glue.cc), the  *)
(* SPI adapter (emulator/spi.cc), the routines that load the register and  *)
(* read the answer a counted number of cycles later                        *)
(* (asm/include/spi.inc), and the keyboard's interrupt routine             *)
(* (asm/include/io.inc), which borrows the port the answer is read from.   *)
(*                                                                         *)
(* The ticks of an instruction come before its effect, as in               *)
(* Cpu6301::tick().  Interrupts are taken between two instructions.        *)
(***************************************************************************)
EXTENDS Naturals, Sequences

CONSTANTS
    SendByte,       \* a byte the driver sends
    CardBytes,      \* bytes a selected card offers
    Keys,           \* bytes of keys
    BlockBytes,     \* length of a block: 512
    None            \* no byte

Byte == [1..8 -> {0, 1}]            \* most significant bit first
Ones == [i \in 1..8 |-> 1]
Zeros == [i \in 1..8 |-> 0]

ASSUME BytesAssumption == SendByte \in Byte /\ CardBytes \subseteq Byte /\ Keys \subseteq Byte
ASSUME BlockBytesAssumption == BlockBytes \in Nat \ {0}
ASSUME NoneAssumption == None \notin Byte \cup [byte : Byte, wanted : BOOLEAN]

VARIABLES
    (* W65C22 *)
    shift_register, shifts_remaining, ticks_to_next_edge,
    cb1,                \* level of CB1, the clock; CB2 is bit 0 of the shift register
    sr_flag, ca1_flag,  \* bits of IFR; CA1 is enabled, SR is not
    (* glue *)
    miso_shift_data,    \* the bits since the last byte: shift_count_ of them
    sd_card_data, keyboard_data,
    output_keyboard,    \* output_keyboard_data_
    port_b,             \* what the VIA sees on port B
    (* SPI adapter *)
    sub_data_in,        \* the bits since the last byte: bit_count of them
    sub_data_out,
    miso,
    selected,           \* previous_cs is low
    (* CPU *)
    routine, at,        \* the instruction
    cycles,             \* its ticks to come
    suspended,          \* where an interrupt came, or <<>>
    masked,             \* the I bit
    key,                \* register B in the interrupt routine
    (* history; see ByteLink *)
    in_flight, offered, unread, taken, received,
    due                 \* the key announced and not yet stored

via_vars == <<shift_register, shifts_remaining, ticks_to_next_edge, cb1, sr_flag>>
port_vars == <<sd_card_data, output_keyboard, port_b>>
sub_vars == <<sub_data_in, sub_data_out, miso, selected>>
device_vars == <<via_vars, miso_shift_data, port_vars, sub_vars>>
key_vars == <<ca1_flag, keyboard_data, due>>
cpu_vars == <<routine, at, cycles, suspended, masked>>
link_vars == <<in_flight, offered, unread>>
vars == <<device_vars, key_vars, cpu_vars, key, link_vars, taken, received>>

-------------------------------------------------------------------------------
(* The routines, as the instructions that concern the devices and the cycles *)
(* of those in between.  jsr takes 6 cycles, rts 5.                           *)

Op(name, n) == [op |-> name, cycles |-> n]
Work(n) == Op("work", n)
Load(byte, wanted, n) == [op |-> "load", cycles |-> n, byte |-> byte, wanted |-> wanted]
Clear(flags, n) == [op |-> "clear", cycles |-> n, flags |-> flags]
Rts == Op("rts", 5)

\* spi_receive_byte, from the load of $ff to the read of port B.
ReceiveByte ==
    <<Work(2), Load(Ones, TRUE, 4), Work(4), Work(3), Work(4), Work(3),
      Work(1), Work(1), Work(1), Work(1), Op("read", 4), Rts>>

\* A slip: interrupts stay enabled between the load and the read.
BlockStepUnmasked ==
    <<Work(1), Load(Zeros, TRUE, 4), Op("read", 4), Work(1),
      Work(4), Work(1), Work(1), Work(3)>>

\* A slip: interrupts stay disabled.
BlockStepMasked ==
    <<Op("sei", 1), Load(Zeros, TRUE, 4), Op("read", 4), Work(1),
      Work(4), Work(1), Work(1), Work(3)>>

\* One round of spi_receive_block: the next transfer is started before the
\* previous byte is read.  What it sends does not matter.
BlockStep ==
    <<Op("sei", 1), Load(Zeros, TRUE, 4), Op("read", 4), Op("cli", 1),
      Work(4), Work(1), Work(1), Work(3)>>

\* spi_receive_block: BlockBytes - 1 rounds between the first transfer and the last read.
ReceiveBlock ==
    LET first == <<Work(6), Work(2), Load(Ones, TRUE, 4), Work(5), Work(2), Work(3),
                   Work(4), Work(4), Work(2)>>
        rounds == [i \in 1..8 * (BlockBytes - 1) |-> BlockStep[((i - 1) % 8) + 1]]
        last == <<Work(1), Work(1), Work(1), Work(1), Op("read", 4), Work(4), Rts>>
    IN  first \o rounds \o last

\* A slip: port B is given back before the key is read.
IoIrqEarlyCard ==
    <<Work(73), Clear({"CA1"}, 4), Work(7), Op("read_ora", 4), Work(2), Op("keyboard", 4),
      Work(2), Op("card", 4), Work(7), Op("key", 4), Work(5), Op("store", 4), Work(22),
      Op("rti", 10)>>

\* irq, and io_irq for a key other than Pause.  The first delay stands for the
\* polls of the other devices and the tests of IFR; nothing interrupts them.
IoIrq ==
    <<Work(73), Clear({"CA1"}, 4), Work(7), Op("read_ora", 4), Work(2), Op("keyboard", 4),
      Work(7), Op("key", 4), Work(2), Op("card", 4), Work(5), Op("store", 4), Work(22),
      Op("rti", 10)>>

\* start: io_init gives port B to the card, spi_init sets up the shift register.
Boot == <<Work(19), Op("card", 5), Work(40), Op("output_mode", 4), Work(5), Work(6),
          Op("deselect", 4), Op("cli", 1), Rts>>

Send == <<Work(6), Work(4), Work(3), Load(SendByte, FALSE, 4), Rts>>
SendFF == <<Work(6), Work(4), Work(3), Work(2), Load(Ones, FALSE, 4), Rts>>
Send00 == <<Work(6), Work(4), Work(3), Load(Zeros, FALSE, 5), Rts>>
Start == <<Work(6), Work(4), Work(2), Work(2), Op("select", 4), Rts>>
End == <<Work(6), Op("wait", 9), Work(4), Work(2), Op("deselect", 4), Rts>>

Code == [boot |-> Boot, idle |-> <<Op("rts", 1)>>, start |-> Start, end |-> End,
         send |-> Send, send_ff |-> SendFF, send_00 |-> Send00,
         get_r1 |-> <<Work(6), Work(3), Work(6)>> \o ReceiveByte,
         receive |-> <<Work(6)>> \o ReceiveByte,
         block |-> ReceiveBlock, io_irq |-> IoIrq]

Routines == DOMAIN Code
Sends == {"send", "send_ff", "send_00"}

\* The order in which sd_card.inc calls the routines.  A byte that answers a send
\* is fetched by get_r1, a block follows the token that announces it.
MayFollow(next) ==
    /\ next \in Routines \ {"boot", "io_irq"}
    /\ next \in {"receive", "block"} => routine \in {"get_r1", "receive"}
    /\ next \in {"end", "get_r1"} => selected
    /\ routine = "start" => next \in Sends

-------------------------------------------------------------------------------
Init ==
    /\ shift_register = Zeros /\ shifts_remaining = 0 /\ ticks_to_next_edge = 0
    /\ cb1 = 1 /\ sr_flag = FALSE /\ ca1_flag = FALSE
    /\ miso_shift_data = <<>> /\ sd_card_data = Zeros /\ keyboard_data = Zeros
    /\ output_keyboard = FALSE /\ port_b = Zeros
    /\ sub_data_in = <<>> /\ sub_data_out = Ones /\ miso = 0 /\ selected = FALSE
    /\ routine = "idle" /\ at = 1 /\ cycles = 1 /\ suspended = <<>> /\ masked = FALSE
    /\ key = None
    /\ in_flight = None /\ offered = Ones /\ unread = <<>>
    /\ taken = None /\ received = None /\ due = None

-------------------------------------------------------------------------------
(* The tick callbacks: W65C22::tick(), then W65C22ToSPIGlue::tick(), which    *)
(* hands the inverted clock to the adapter.                                   *)

\* SPI::clk_data_in() on a rising edge.  The eighth bit completes a byte, and the
\* card chooses the one to come; one that is not selected gives $ff.
SubRisingEdge(bit) ==
    IF Len(sub_data_in) < 7
      THEN /\ sub_data_in' = Append(sub_data_in, bit)
           /\ taken' = None
           /\ UNCHANGED <<sub_data_out, link_vars>>
      ELSE /\ sub_data_in' = <<>>
           /\ sub_data_out' \in IF selected THEN CardBytes ELSE {Ones}
           /\ offered' = sub_data_out'
           /\ taken' = Append(sub_data_in, bit)
           /\ unread' = IF in_flight # None /\ in_flight.wanted
                          THEN Append(unread, offered) ELSE unread
           /\ in_flight' = None

\* On a falling edge.
SubFallingEdge ==
    /\ miso' = sub_data_out[1]
    /\ sub_data_out' = Append(Tail(sub_data_out), 0)
    /\ UNCHANGED <<sub_data_in, selected>>

MisoBitIn(bit) ==
    IF Len(miso_shift_data) < 7
      THEN miso_shift_data' = Append(miso_shift_data, bit) /\ UNCHANGED port_vars
      ELSE /\ miso_shift_data' = <<>>
           /\ sd_card_data' = Append(miso_shift_data, bit)
           /\ port_b' = IF output_keyboard THEN port_b ELSE sd_card_data'
           /\ UNCHANGED output_keyboard

\* CB1 falls and the next bit comes out.
ClockFalls ==
    /\ shifts_remaining > 0 /\ ticks_to_next_edge = 1 /\ cb1 = 1
    /\ cb1' = 0
    /\ shift_register' = Append(Tail(shift_register), shift_register[1])
    /\ SubRisingEdge(shift_register[1])
    /\ MisoBitIn(miso)
    /\ UNCHANGED <<shifts_remaining, ticks_to_next_edge, sr_flag, miso, selected>>

\* CB1 rises again.
ClockRises ==
    /\ shifts_remaining > 0 /\ ticks_to_next_edge = 1 /\ cb1 = 0
    /\ cb1' = 1
    /\ shifts_remaining' = shifts_remaining - 1
    /\ IF shifts_remaining' = 0
         THEN ticks_to_next_edge' = 0 /\ sr_flag' = TRUE
         ELSE UNCHANGED <<ticks_to_next_edge, sr_flag>>
    /\ SubFallingEdge
    /\ taken' = None
    /\ UNCHANGED <<shift_register, miso_shift_data, port_vars, link_vars>>

WaitForEdge ==
    /\ shifts_remaining > 0 /\ ticks_to_next_edge > 1
    /\ ticks_to_next_edge' = ticks_to_next_edge - 1
    /\ taken' = None
    /\ UNCHANGED <<shift_register, shifts_remaining, cb1, sr_flag, miso_shift_data,
                   port_vars, sub_vars, link_vars>>

\* The glue presents a byte of a key and pulses CA1.  A key leaves time for the one
\* before it: they are kKeyboardByteTickInterval apart, several times what io_irq takes.
PulseCA1 ==
    \/ UNCHANGED key_vars
    \/ /\ due = None /\ routine # "io_irq"
       /\ keyboard_data' \in Keys
       /\ due' = keyboard_data'
       /\ ca1_flag' = TRUE

Tick ==
    /\ cycles > 0 /\ shifts_remaining > 0
    /\ cycles' = cycles - 1
    /\ ClockFalls \/ ClockRises \/ WaitForEdge
    /\ PulseCA1
    /\ received' = None
    /\ UNCHANGED <<routine, at, suspended, masked, key>>

\* With nothing to shift the rest of an instruction's ticks do nothing else.
RemainingTicks ==
    /\ cycles > 0 /\ shifts_remaining = 0
    /\ cycles' = 0
    /\ PulseCA1
    /\ taken' = None /\ received' = None
    /\ UNCHANGED <<device_vars, routine, at, suspended,
                   masked, key, link_vars>>

-------------------------------------------------------------------------------
(* The CPU.                                                                   *)

\* The next instruction, or that of the interrupt routine.
ContinueAt(next_routine, next_at, next_masked) ==
    IF ca1_flag' /\ ~next_masked
      THEN /\ suspended' = <<next_routine, next_at>>
           /\ routine' = "io_irq" /\ at' = 1 /\ masked' = TRUE
           /\ cycles' = Code.io_irq[1].cycles
      ELSE /\ routine' = next_routine /\ at' = next_at /\ masked' = next_masked
           /\ cycles' = Code[next_routine][next_at].cycles
           /\ suspended' = IF routine = "io_irq" /\ next_routine # "io_irq"
                             THEN <<>> ELSE suspended

Instruction == Code[routine][at]
Completes(op) == cycles = 0 /\ Instruction.op = op
Proceed == ContinueAt(routine, at + 1, masked)
Silent == taken' = None /\ received' = None
NoAccess ==
    /\ Silent
    /\ UNCHANGED <<device_vars, key_vars, key, link_vars>>

Working == Completes("work") /\ NoAccess /\ Proceed
SetMask == Completes("sei") /\ NoAccess /\ ContinueAt(routine, at + 1, TRUE)
ClearMask == Completes("cli") /\ NoAccess /\ ContinueAt(routine, at + 1, FALSE)
ReturnFromInterrupt ==
    Completes("rti") /\ NoAccess /\ ContinueAt(suspended[1], suspended[2], FALSE)

\* The driver returns, and is called again.
Return ==
    /\ Completes("rts")
    /\ NoAccess
    /\ \E next \in Routines : MayFollow(next) /\ ContinueAt(next, 1, masked)

\* A write to the shift register, in the mode that spi_init chose.
LoadSR ==
    /\ Completes("load")
    /\ shift_register' = Instruction.byte
    /\ sr_flag' = FALSE
    /\ shifts_remaining' = 8 /\ ticks_to_next_edge' = 4
    /\ in_flight' = [byte |-> Instruction.byte, wanted |-> Instruction.wanted]
    /\ Silent
    /\ UNCHANGED <<cb1, miso_shift_data, port_vars, sub_vars, key_vars, key, offered, unread>>
    /\ Proceed

\* A read of port B by the driver.
ReadIRB ==
    /\ Completes("read")
    /\ received' = port_b
    /\ unread' = IF unread = <<>> THEN <<>> ELSE Tail(unread)
    /\ taken' = None
    /\ UNCHANGED <<device_vars, key_vars, key, in_flight, offered>>
    /\ Proceed

\* SPI::cs_data_in(): a change of chip select presents the first bit of $ff.
ChipSelect(low) ==
    IF low = selected THEN UNCHANGED <<sub_vars, offered>>
    ELSE /\ selected' = low
         /\ sub_data_in' = <<>> /\ sub_data_out' = Ones /\ miso' = 1
         /\ offered' = Ones

\* A write to PCR moves CA2, the chip select.
WritePCR ==
    /\ \/ Completes("select") /\ ChipSelect(TRUE)
       \/ Completes("deselect") /\ ChipSelect(FALSE)
    /\ Silent
    /\ UNCHANGED <<via_vars, miso_shift_data, port_vars, key_vars, key, in_flight, unread>>
    /\ Proceed

\* spi_end_command waits for the flag of the shift register.
ReadIFR ==
    /\ Completes("wait")
    /\ NoAccess
    /\ ContinueAt(routine, IF sr_flag THEN at + 1 ELSE at, masked)

\* A write to ACR raises the clock.
WriteACR ==
    /\ Completes("output_mode")
    /\ cb1' = 1
    /\ Silent
    /\ UNCHANGED <<shift_register, shifts_remaining, ticks_to_next_edge, sr_flag,
                   miso_shift_data, port_vars, sub_vars, key_vars, key, link_vars>>
    /\ Proceed

\* A write to IFR clears the flags whose bits are set.
WriteIFR ==
    /\ Completes("clear")
    /\ ca1_flag' = (ca1_flag /\ "CA1" \notin Instruction.flags)
    /\ sr_flag' = (sr_flag /\ "SR" \notin Instruction.flags)
    /\ Silent
    /\ UNCHANGED <<shift_register, shifts_remaining, ticks_to_next_edge, cb1, miso_shift_data,
                   port_vars, sub_vars, keyboard_data, due, key, link_vars>>
    /\ Proceed

\* A read of ORA clears it too.
ReadORA ==
    /\ Completes("read_ora")
    /\ ca1_flag' = FALSE
    /\ Silent
    /\ UNCHANGED <<device_vars, keyboard_data, due, key, link_vars>>
    /\ Proceed

\* A write to ORA clears it and chooses what port B shows: the callback of the
\* glue.  The one of io_init may lose a key that comes while the computer starts.
WriteORA ==
    /\ \/ /\ Completes("keyboard")
          /\ output_keyboard' = TRUE /\ port_b' = keyboard_data
       \/ /\ Completes("card")
          /\ output_keyboard' = FALSE /\ port_b' = sd_card_data
    /\ ca1_flag' = FALSE
    /\ due' = IF routine = "boot" THEN None ELSE due
    /\ Silent
    /\ UNCHANGED <<via_vars, miso_shift_data, sd_card_data, sub_vars, keyboard_data, key,
                   link_vars>>
    /\ Proceed

\* The interrupt routine reads port B.
ReadKey ==
    /\ Completes("key")
    /\ key' = port_b
    /\ Silent
    /\ UNCHANGED <<device_vars, key_vars, link_vars>>
    /\ Proceed

\* It puts the byte into the keyboard buffer.
StoreKey ==
    /\ Completes("store")
    /\ key' = None /\ due' = None
    /\ Silent
    /\ UNCHANGED <<device_vars, ca1_flag, keyboard_data, link_vars>>
    /\ Proceed

\* The user resets the CPU between two instructions.  The devices go on.
Reset ==
    /\ cycles = Instruction.cycles
    /\ key' = None
    /\ due' = IF ca1_flag THEN due ELSE None
    /\ unread' = <<>>
    /\ in_flight' = IF in_flight = None THEN None ELSE [in_flight EXCEPT !.wanted = FALSE]
    /\ Silent
    /\ UNCHANGED <<device_vars, ca1_flag, keyboard_data, offered>>
    /\ ContinueAt("boot", 1, masked /\ ~(routine = "io_irq" /\ at = 1))

-------------------------------------------------------------------------------
Instructions ==
    \/ Working \/ SetMask \/ ClearMask \/ Return \/ ReturnFromInterrupt
    \/ LoadSR \/ ReadIRB \/ WritePCR \/ ReadIFR \/ WriteACR
    \/ WriteIFR \/ ReadORA \/ WriteORA \/ ReadKey \/ StoreKey

Cpu == Tick \/ RemainingTicks \/ Instructions

Next == Cpu \/ Reset

\* The CPU runs.
Spec == Init /\ [][Next]_vars /\ WF_vars(Cpu)

-------------------------------------------------------------------------------
TypeOK ==
    /\ shift_register \in Byte /\ shifts_remaining \in 0..8 /\ ticks_to_next_edge \in 0..4
    /\ cb1 \in {0, 1} /\ sr_flag \in BOOLEAN /\ ca1_flag \in BOOLEAN
    /\ miso_shift_data \in Seq({0, 1}) /\ Len(miso_shift_data) < 8
    /\ {sd_card_data, keyboard_data, port_b, sub_data_out, offered} \subseteq Byte
    /\ sub_data_in \in Seq({0, 1}) /\ Len(sub_data_in) < 8
    /\ miso \in {0, 1} /\ output_keyboard \in BOOLEAN /\ selected \in BOOLEAN
    /\ routine \in Routines /\ at \in 1..Len(Code[routine])
    /\ cycles \in 0..Code[routine][at].cycles
    /\ suspended = <<>> \/ suspended[1] \in Routines \ {"io_irq"}
    /\ masked \in BOOLEAN
    /\ {key, due, taken, received} \subseteq Byte \cup {None}
    /\ in_flight \in [byte : Byte, wanted : BOOLEAN] \cup {None}
    /\ unread \in Seq(Byte)

\* The bytes go through as if the driver and the card met for each of them: no
\* interrupt, wherever it comes, shifts, doubles or swaps one.
Link == INSTANCE ByteLink

ImplementsByteLink == Link!Spec

\* The key announced is the one the interrupt routine finds on port B, whatever
\* the card sends meanwhile, and it stays announced until the routine has come for it.
KeysIntact ==
    /\ key # None => key = due
    /\ due # None => ca1_flag \/ routine = "io_irq"

\* Interrupts are enabled again, so that every key is stored unless the computer is
\* started anew.
EveryKeyArrives == due # None ~> due = None \/ routine = "boot"
=============================================================================
