---------------------------- MODULE HD6301Serial ----------------------------
(***************************************************************************)
(* The serial interface of the CPU (emulator/hd6301_serial.cc): the        *)
(* emulator thread, which ticks it and accesses its registers, the reader  *)
(* thread, which takes bytes from the pseudo terminal, and the host on the *)
(* other side of that terminal.                                            *)
(*                                                                         *)
(* Bytes are numbered in the order the host writes them.  A step is one    *)
(* critical section of mutex_, or the code between two of them; the test   *)
(* of the atomic flag rx_fifo_empty_ in tick() is outside the mutex and is *)
(* a step of its own.                                                      *)
(***************************************************************************)
EXTENDS IrqLine, Sequences

CONSTANTS
    Rates,          \* the values of the two rate bits of RMCR software uses
    ControlWords,   \* the values it writes to TRCSR, as sets of bits
    MaxBytes,       \* bound: how many bytes the host writes
    Scale,          \* bound: all tick counts are divided by it
    TieDiscipline   \* software changes TIE only with no interrupt outstanding

ASSUME RatesAssumption == Rates \subseteq 0..3
ASSUME ControlWordsAssumption == ControlWords \subseteq SUBSET {"TE", "TIE", "RE", "RIE"}
ASSUME MaxBytesAssumption == MaxBytes \in Nat
ASSUME ScaleAssumption == Scale \in {1, 2, 4, 8, 16, 32}
ASSUME TieDisciplineAssumption == TieDiscipline \in BOOLEAN

VARIABLES
    rmcr,                   \* rate bits of the rate / mode control register
    control,                \* TRCSR bits 1..4: which of TE, TIE, RE, RIE are 1
    tdre,                   \* TRCSR: transmit data register empty
    rdrf,                   \* TRCSR: receive data register full
    transmit_countdown,     \* transmit_register_empty_countdown_ (uint8_t)
    receive_countdown,      \* receive_register_full_countdown_ (uint8_t)
    transmit_id,            \* transmit_interrupt_id_
    receive_id,             \* receive_interrupt_id_
    receive_data_register,  \* 0 before the first byte
    rx_fifo,
    rx_fifo_empty,          \* the atomic flag
    tick_pc,                \* tick(): "idle", or "pop" between flag and lock
    reader,                 \* where the reader thread is in its loop
    revents,                \* what poll() reported
    reader_byte,            \* the byte read and not yet pushed
    pty,                    \* bytes the host wrote and nobody read
    host_sent,              \* number of bytes the host wrote
    hung_up,                \* the host closed its side
    shutdown                \* the destructor wrote to the shutdown pipe

sci_vars == <<rmcr, control, tdre, rdrf, transmit_countdown, receive_countdown,
              transmit_id, receive_id, receive_data_register, interrupts, tick_pc>>
fifo_vars == <<rx_fifo, rx_fifo_empty>>
reader_vars == <<reader, revents, reader_byte>>
host_vars == <<pty, host_sent, hung_up, shutdown>>
vars == <<sci_vars, fifo_vars, reader_vars, host_vars>>

ControlBits == {"TE", "TIE", "RE", "RIE"}
Bytes == 1..MaxBytes
CountMod == 256 \div Scale      \* the countdowns are 8 bits wide

TicksPerBit(rate) == CASE rate = 0 -> 16
                       [] rate = 1 -> 128
                       [] rate = 2 -> 1024
                       [] rate = 3 -> 4096

\* ticks_per_bit(rmcr_) * 10, stored into a uint8_t.
Frame(rate) == ((TicksPerBit(rate) * 10) \div Scale) % CountMod

TypeOK ==
    /\ interrupts \subseteq IrqIds
    /\ rmcr \in 0..3
    /\ control \subseteq ControlBits
    /\ tdre \in BOOLEAN /\ rdrf \in BOOLEAN
    /\ transmit_countdown \in 0..CountMod - 1
    /\ receive_countdown \in 0..CountMod - 1
    /\ transmit_id \in IrqIds \cup {NoIrq}
    /\ receive_id \in IrqIds \cup {NoIrq}
    /\ receive_data_register \in 0..MaxBytes
    /\ rx_fifo \in Seq(Bytes) /\ rx_fifo_empty \in BOOLEAN
    /\ tick_pc \in {"idle", "pop"}
    /\ reader \in {"poll", "input", "push", "hangup", "stop", "stopped", "disabled"}
    /\ revents \subseteq {"in", "hup", "shutdown"}
    /\ reader_byte \in 0..MaxBytes
    /\ pty \in Seq(Bytes)
    /\ host_sent \in 0..MaxBytes
    /\ hung_up \in BOOLEAN /\ shutdown \in BOOLEAN

Init ==
    /\ interrupts = {}
    /\ rmcr = 0
    /\ control = {}
    /\ tdre = TRUE /\ rdrf = FALSE
    /\ transmit_countdown = 0 /\ receive_countdown = 0
    /\ transmit_id = NoIrq /\ receive_id = NoIrq
    /\ receive_data_register = 0
    /\ rx_fifo = <<>> /\ rx_fifo_empty = FALSE
    /\ tick_pc = "idle"
    /\ reader = "poll" /\ revents = {} /\ reader_byte = 0
    /\ pty = <<>> /\ host_sent = 0 /\ hung_up = FALSE /\ shutdown = FALSE

-------------------------------------------------------------------------------
(* The emulator thread.  It has stopped by the time the destructor runs. *)

EmulatorIdle == tick_pc = "idle" /\ ~shutdown

TransmitterEmpties == transmit_countdown = 1

\* tick() up to the test of rx_fifo_empty_.  An expired transmit countdown
\* takes an id without looking at the one it may already hold.
Tick ==
    /\ EmulatorIdle
    /\ transmit_countdown' = IF transmit_countdown > 0 THEN transmit_countdown - 1 ELSE 0
    /\ tdre' = (tdre \/ TransmitterEmpties)
    /\ IF TransmitterEmpties /\ "TIE" \in control
         THEN \E fresh \in FreshIds({"tx"}) :
                /\ transmit_id' = fresh["tx"]
                /\ interrupts' = interrupts \cup {fresh["tx"]}
         ELSE UNCHANGED <<transmit_id, interrupts>>
    /\ receive_countdown' = IF receive_countdown > 0 THEN receive_countdown - 1 ELSE 0
    /\ tick_pc' = IF receive_countdown' = 0 /\ ~rx_fifo_empty THEN "pop" ELSE "idle"
    /\ UNCHANGED <<rmcr, control, rdrf, receive_id, receive_data_register,
                   fifo_vars, reader_vars, host_vars>>

\* A slip: front() without pop().
TickPopPeeks ==
    /\ tick_pc = "pop"
    /\ tick_pc' = "idle"
    /\ IF rx_fifo # <<>>
         THEN /\ receive_data_register' = Head(rx_fifo)
              /\ rdrf' = TRUE
              /\ receive_countdown' = Frame(rmcr)
         ELSE UNCHANGED <<receive_data_register, rdrf, receive_countdown>>
    /\ rx_fifo_empty' = (rx_fifo_empty \/ rx_fifo = <<>>)
    /\ UNCHANGED <<rmcr, control, tdre, transmit_countdown, transmit_id, receive_id,
                   interrupts, rx_fifo, reader_vars, host_vars>>

\* tick() under the mutex: the oldest byte goes to the data register.
TickPop ==
    /\ tick_pc = "pop"
    /\ tick_pc' = "idle"
    /\ IF rx_fifo # <<>>
         THEN /\ receive_data_register' = Head(rx_fifo)
              /\ rx_fifo' = Tail(rx_fifo)
              /\ rdrf' = TRUE
              /\ receive_countdown' = Frame(rmcr)
              /\ IF "RIE" \in control /\ receive_id = NoIrq
                   THEN \E fresh \in FreshIds({"rx"}) :
                          /\ receive_id' = fresh["rx"]
                          /\ interrupts' = interrupts \cup {fresh["rx"]}
                   ELSE UNCHANGED <<receive_id, interrupts>>
         ELSE UNCHANGED <<receive_data_register, rx_fifo, rdrf, receive_countdown,
                          receive_id, interrupts>>
    /\ rx_fifo_empty' = (rx_fifo_empty \/ rx_fifo' = <<>>)
    /\ UNCHANGED <<rmcr, control, tdre, transmit_countdown, transmit_id,
                   reader_vars, host_vars>>

WriteRMCR(rate) ==
    /\ EmulatorIdle
    /\ rmcr' = rate
    /\ UNCHANGED <<control, tdre, rdrf, transmit_countdown, receive_countdown,
                   transmit_id, receive_id, receive_data_register, interrupts, tick_pc,
                   fifo_vars, reader_vars, host_vars>>

\* A write to TRCSR; enabling the receiver empties the queue.
WriteTRCSR(bits) ==
    /\ EmulatorIdle
    /\ TieDiscipline /\ transmit_id # NoIrq => ("TIE" \in bits <=> "TIE" \in control)
    /\ control' = bits
    /\ IF "RE" \notin control /\ "RE" \in bits
         THEN rx_fifo' = <<>> /\ rx_fifo_empty' = TRUE
         ELSE UNCHANGED fifo_vars
    /\ UNCHANGED <<rmcr, tdre, rdrf, transmit_countdown, receive_countdown,
                   transmit_id, receive_id, receive_data_register, interrupts, tick_pc,
                   reader_vars, host_vars>>

\* A slip: the id is reset without being given back.
WriteTDRForgetsId ==
    /\ EmulatorIdle
    /\ transmit_id' = NoIrq
    /\ tdre' = (tdre /\ "TE" \notin control)
    /\ transmit_countdown' = IF tdre /\ ~tdre' THEN Frame(rmcr) ELSE transmit_countdown
    /\ UNCHANGED <<rmcr, control, rdrf, receive_countdown, receive_id, interrupts,
                   receive_data_register, tick_pc, fifo_vars, reader_vars, host_vars>>

\* A write to the transmit data register.  The byte goes to the host at once;
\* what the host reads is not modelled.
WriteTDR ==
    /\ EmulatorIdle
    /\ IF "TIE" \in control
         THEN /\ interrupts' = interrupts \ {transmit_id}
              /\ transmit_id' = NoIrq
         ELSE UNCHANGED <<interrupts, transmit_id>>
    /\ IF "TE" \in control /\ tdre
         THEN tdre' = FALSE /\ transmit_countdown' = Frame(rmcr)
         ELSE UNCHANGED <<tdre, transmit_countdown>>
    /\ UNCHANGED <<rmcr, control, rdrf, receive_countdown, receive_id,
                   receive_data_register, tick_pc, fifo_vars, reader_vars, host_vars>>

\* A read of the receive data register clears the interrupt, and nothing else.
ReadRDR ==
    /\ EmulatorIdle
    /\ interrupts' = interrupts \ {receive_id}
    /\ receive_id' = NoIrq
    /\ UNCHANGED <<rmcr, control, tdre, rdrf, transmit_countdown, receive_countdown,
                   transmit_id, receive_data_register, tick_pc, fifo_vars,
                   reader_vars, host_vars>>

-------------------------------------------------------------------------------
(* The reader thread: one round of its loop is poll, input, push, hang-up, *)
(* shutdown.                                                               *)

\* A slip: the shutdown pipe is not among the descriptors poll() waits for.
ReadyOnTerminal ==
    {e \in {"in", "hup"} : (e = "in" /\ pty # <<>>) \/ (e = "hup" /\ hung_up)}

\* What poll() reports: it returns when there is something.
Ready == {e \in {"in", "hup", "shutdown"} :
             \/ e = "in" /\ pty # <<>>
             \/ e = "hup" /\ hung_up
             \/ e = "shutdown" /\ shutdown}

Poll ==
    /\ reader = "poll"
    /\ Ready # {}
    /\ revents' = Ready
    /\ reader' = "input"
    /\ UNCHANGED <<sci_vars, fifo_vars, reader_byte, host_vars>>

ReadPty ==
    /\ reader = "input"
    /\ IF "in" \in revents
         THEN /\ reader_byte' = Head(pty)
              /\ pty' = Tail(pty)
              /\ reader' = "push"
         ELSE reader' = "hangup" /\ UNCHANGED <<reader_byte, pty>>
    /\ UNCHANGED <<sci_vars, fifo_vars, revents, host_sent, hung_up, shutdown>>

\* A slip: the flag stays set.
PushByteQuietly ==
    /\ reader = "push"
    /\ rx_fifo' = Append(rx_fifo, reader_byte)
    /\ reader' = "hangup"
    /\ UNCHANGED <<sci_vars, rx_fifo_empty, revents, reader_byte, host_vars>>

\* Under the mutex: push the byte, then clear the empty flag.
PushByte ==
    /\ reader = "push"
    /\ rx_fifo' = Append(rx_fifo, reader_byte)
    /\ rx_fifo_empty' = FALSE
    /\ reader' = "hangup"
    /\ UNCHANGED <<sci_vars, revents, reader_byte, host_vars>>

\* The host closed its side: a new terminal is opened, and what was left in
\* the old one is gone.  If none can be opened the thread ends.
HandleHangup ==
    /\ reader = "hangup"
    /\ \/ "hup" \notin revents /\ reader' = "stop" /\ UNCHANGED <<pty, hung_up>>
       \/ "hup" \in revents /\ reader' = "stop" /\ pty' = <<>> /\ hung_up' = FALSE
       \/ "hup" \in revents /\ reader' = "disabled" /\ UNCHANGED <<pty, hung_up>>
    /\ UNCHANGED <<sci_vars, fifo_vars, revents, reader_byte, host_sent, shutdown>>

CheckShutdown ==
    /\ reader = "stop"
    /\ reader' = IF "shutdown" \in revents THEN "stopped" ELSE "poll"
    /\ UNCHANGED <<sci_vars, fifo_vars, revents, reader_byte, host_vars>>

Reader == Poll \/ ReadPty \/ PushByte \/ HandleHangup \/ CheckShutdown

-------------------------------------------------------------------------------
(* The host and the owner of the emulation. *)

HostWrite ==
    /\ ~hung_up /\ reader # "disabled"
    /\ host_sent < MaxBytes
    /\ host_sent' = host_sent + 1
    /\ pty' = Append(pty, host_sent')
    /\ UNCHANGED <<sci_vars, fifo_vars, reader_vars, hung_up, shutdown>>

HostClose ==
    /\ ~hung_up
    /\ hung_up' = TRUE
    /\ UNCHANGED <<sci_vars, fifo_vars, reader_vars, pty, host_sent, shutdown>>

Shutdown ==
    /\ EmulatorIdle
    /\ shutdown' = TRUE
    /\ UNCHANGED <<sci_vars, fifo_vars, reader_vars, pty, host_sent, hung_up>>

Emulator ==
    \/ Tick \/ TickPop \/ WriteTDR \/ ReadRDR
    \/ \E rate \in Rates : WriteRMCR(rate)
    \/ \E bits \in ControlWords : WriteTRCSR(bits)

Next == Emulator \/ Reader \/ HostWrite \/ HostClose \/ Shutdown

\* The emulator thread keeps ticking while the CPU runs, and the reader thread
\* is scheduled.  Nothing is assumed of the program, the host or the owner.
Fairness == WF_vars(Tick) /\ WF_vars(TickPop) /\ WF_vars(Reader)

Spec == Init /\ [][Next]_vars /\ Fairness

-------------------------------------------------------------------------------
(* What the threads must agree on. *)

\* The bytes between the host and the receive data register, oldest first.
InFlight ==
    (IF reader = "push" THEN rx_fifo \o <<reader_byte>> ELSE rx_fifo) \o pty

\* Bytes may be dropped (by a hang-up, a receiver enable, or an overrun) but are
\* never doubled and never overtake one another: what is in flight is ascending
\* and all newer than the byte in the receive data register.
InOrder ==
    /\ \A i, j \in DOMAIN InFlight : i < j => InFlight[i] < InFlight[j]
    /\ \A i \in DOMAIN InFlight : receive_data_register < InFlight[i]

\* "The returned integer needs to be used to clear the interrupt again"
\* (interrupt.h:19): every outstanding id is one the transmitter or the receiver
\* still knows, or the serial interrupt could never end.
IdsOwned == interrupts = {transmit_id, receive_id} \ {NoIrq}

\* A byte in the queue leaves it, unless the emulation is shut down: no order
\* of flag, mutex and countdown makes tick() pass it by for ever.
QueueDrains ==
    \A byte \in Bytes :
        (\E i \in DOMAIN rx_fifo : rx_fifo[i] = byte)
            ~> ((\A i \in DOMAIN rx_fifo : rx_fifo[i] # byte) \/ shutdown)

\* The destructor's join() returns: after the write to the shutdown pipe the
\* reader thread ends, wherever in its loop it was and whatever the host does.
ShutdownJoins == shutdown ~> reader \in {"stopped", "disabled"}

\* A byte goes out in a frame of 10 bits (hd6301_serial.cc:183), after which the
\* transmit data register is empty again: serial.inc polls TDRE before each byte.
TransmitterRecovers == ~tdre ~> (tdre \/ shutdown)
=============================================================================
