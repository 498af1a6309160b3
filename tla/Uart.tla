--------------------------------- MODULE Uart ---------------------------------
(***************************************************************************)
(* The TL16C2550 UART (emulator/tl16c2550.cc): its reader thread, which    *)
(* takes bytes from the pseudo terminal, the registers the emulator thread *)
(* reads and writes, and the writer on the other side of the terminal      *)
(* (emulator/midi_to_serial.cc).                                           *)
(*                                                                         *)
(* A step is one critical section of io_mutex_, or the code between two of *)
(* them.  The registers that only keep what is written (scratch), that are *)
(* logged as not implemented (FCR, LCR, MCR), and the identification       *)
(* register, which is set with the first interrupt and never changes       *)
(* again, are left out; so are what the CPU sends, and the end of the      *)
(* reader thread, which the shutdown pipe brings about as in HD6301Serial. *)
(***************************************************************************)
EXTENDS IrqLine, Sequences

VARIABLES
    rx_fifo,            \* rx_fifo_, bytes received and not read
    data_ready,         \* bit 0 of line_status_register_
    receive_enabled,    \* bit 0 of interrupt_enable_register_
    receive_id,         \* receive_data_available_irq_id_
    reader_byte,        \* the byte the reader thread holds, none or one
    pty                 \* bytes written to the terminal and not yet read

register_vars == <<rx_fifo, data_ready, receive_enabled, receive_id, interrupts>>
uart_vars == <<register_vars, reader_byte, pty>>

\* written is what is in the terminal when the thread starts.
UartInit(written) ==
    /\ interrupts = {}
    /\ rx_fifo = <<>> /\ data_ready = FALSE
    /\ receive_enabled = FALSE /\ receive_id = NoIrq
    /\ reader_byte = <<>>
    /\ pty = written

UartTypeOK(Bytes) ==
    /\ interrupts \subseteq IrqIds
    /\ rx_fifo \in Seq(Bytes) /\ pty \in Seq(Bytes)
    /\ reader_byte \in Seq(Bytes) /\ Len(reader_byte) <= 1
    /\ data_ready \in BOOLEAN /\ receive_enabled \in BOOLEAN
    /\ receive_id \in IrqIds \cup {NoIrq}

\* The bytes on their way to the CPU, oldest first.
InFlight == rx_fifo \o reader_byte \o pty

-------------------------------------------------------------------------------
(* The registers. *)

ReleaseInterrupt ==
    /\ interrupts' = interrupts \ {receive_id}
    /\ receive_id' = NoIrq

\* A slip: reading a byte says that there is no more.
ReadRBRClearsStatus ==
    /\ ReleaseInterrupt
    /\ rx_fifo' = IF rx_fifo = <<>> THEN <<>> ELSE Tail(rx_fifo)
    /\ data_ready' = FALSE
    /\ UNCHANGED receive_enabled

\* read(0): gives the interrupt back, bytes left in the queue or not, and takes
\* the oldest byte; an empty queue reads as 0.
ReadRBR ==
    /\ ReleaseInterrupt
    /\ rx_fifo' = IF rx_fifo = <<>> THEN <<>> ELSE Tail(rx_fifo)
    /\ data_ready' = (data_ready /\ rx_fifo' # <<>>)
    /\ UNCHANGED receive_enabled

\* write(1): switching the interrupt off gives an outstanding one back, and
\* switching it on with bytes in the queue raises none.
WriteIER(enable) ==
    /\ receive_enabled' = enable
    /\ IF enable THEN UNCHANGED <<receive_id, interrupts>> ELSE ReleaseInterrupt
    /\ UNCHANGED <<rx_fifo, data_ready>>

-------------------------------------------------------------------------------
(* The reader thread, and the other side of the terminal. *)

\* poll() reports input and read() takes one byte of it.
ReadPty ==
    /\ reader_byte = <<>> /\ pty # <<>>
    /\ reader_byte' = <<Head(pty)>>
    /\ pty' = Tail(pty)
    /\ UNCHANGED register_vars

\* A slip: the byte goes to the front of the queue.
PushByteInFront ==
    /\ reader_byte # <<>>
    /\ rx_fifo' = reader_byte \o rx_fifo
    /\ data_ready' = TRUE
    /\ reader_byte' = <<>>
    /\ UNCHANGED <<receive_enabled, receive_id, interrupts, pty>>

\* A slip: the interrupt is raised whether enabled or not.
PushByteAlwaysRaises ==
    /\ reader_byte # <<>>
    /\ rx_fifo' = rx_fifo \o reader_byte
    /\ data_ready' = TRUE
    /\ IF receive_id = NoIrq
         THEN \E fresh \in FreshIds({"rx"}) :
                /\ receive_id' = fresh["rx"]
                /\ interrupts' = interrupts \cup {fresh["rx"]}
         ELSE UNCHANGED <<receive_id, interrupts>>
    /\ reader_byte' = <<>>
    /\ UNCHANGED <<receive_enabled, pty>>

\* Under io_mutex_: the byte, the status bit and, when enabled, the interrupt.
PushByte ==
    /\ reader_byte # <<>>
    /\ rx_fifo' = rx_fifo \o reader_byte
    /\ data_ready' = TRUE
    /\ IF receive_enabled /\ receive_id = NoIrq
         THEN \E fresh \in FreshIds({"rx"}) :
                /\ receive_id' = fresh["rx"]
                /\ interrupts' = interrupts \cup {fresh["rx"]}
         ELSE UNCHANGED <<receive_id, interrupts>>
    /\ reader_byte' = <<>>
    /\ UNCHANGED <<receive_enabled, pty>>

Reader == ReadPty \/ PushByte

\* The callback of MidiToSerial writes a whole message with one write().
WriteMessage(bytes) ==
    /\ pty' = pty \o bytes
    /\ UNCHANGED <<register_vars, reader_byte>>

-------------------------------------------------------------------------------
\* What software may conclude from the registers: the status bit says whether a
\* byte is queued (tl16c2550.cc:76 and 214, in two threads), and the interrupt is
\* outstanding only while it is enabled and a byte is queued, or the CPU would
\* serve a device that wants nothing.
RegistersExact ==
    /\ data_ready <=> rx_fifo # <<>>
    /\ interrupts = {receive_id} \ {NoIrq}
    /\ receive_id # NoIrq => receive_enabled /\ rx_fifo # <<>>
=============================================================================
