-------------------------------- MODULE SdCard --------------------------------
(***************************************************************************)
(* The SD card of the emulator (emulator/sd_card_spi.cc) and the driver    *)
(* that talks to it (asm/include/sd_card.inc, over asm/include/spi.inc).   *)
(*                                                                         *)
(* A step of the driver is one byte exchanged over SPI, or a change of the *)
(* chip select.  A byte goes both ways at once: while the host shifts out  *)
(* a byte it shifts in the one that the card chose at the end of the byte  *)
(* before.  The user can reset the CPU between any two of them: the driver *)
(* starts anew, and the card stays as it was.                              *)
(***************************************************************************)
EXTENDS Integers, Sequences

CONSTANTS
    BlockCount,     \* blocks in the image
    BlockBytes,     \* kBlockSize: 512
    DataBytes,      \* values of the bytes software writes
    Addresses,      \* the addresses it asks for
    ReadFails,      \* whether reading the image may fail
    R1Tries,        \* tries of get_r1: 10
    TokenTries,     \* tries of get_start_block and get_data_response: 500
    ClockBytes,     \* bytes sent before the card is selected: 10
    MaxResets       \* bound: how often the CPU is reset

ASSUME BlocksAssumption == BlockCount \in Nat /\ BlockBytes \in Nat \ {0}
\* The card seeks to address * kBlockSize in the image, a product of 32 bits: beyond
\* 2 GiB it overflows in a read and, from 4 GiB on, wraps around in a write.  An image
\* whose last block begins below that has no such block.
ASSUME OffsetsAssumption == (BlockCount - 1) * BlockBytes <= 2147483647
ASSUME DataBytesAssumption == DataBytes \subseteq 0..255
ASSUME AddressesAssumption == \A n \in Addresses : n \in Nat /\ n <= 2147483647
ASSUME ReadFailsAssumption == ReadFails \subseteq BOOLEAN /\ ReadFails # {}
\* The card answers each command, and the data of a write, in the second exchange.
ASSUME TriesAssumption ==
    R1Tries \in Nat \ {0, 1} /\ TokenTries \in Nat \ {0, 1} /\ ClockBytes \in Nat \ {0}
ASSUME MaxResetsAssumption == MaxResets \in Nat

VARIABLES
    (* the card *)
    enabled,                \* enabled_; chip select is low
    ready,                  \* ready_
    next_is_app_command,
    write_address,
    card_state, next_card_state,
    input_buffer, response_queue,
    image,                  \* card_image_: [block -> bytes]
    sub_data_out,           \* the byte the card shifts out next
    (* the driver *)
    phase,                  \* which of its loops it is in
    command,                \* the command it sends
    count,                  \* bytes sent or tries made in this phase
    a,                      \* accumulator A
    address,                \* sd_card_block_address
    buffer,                 \* the bytes at sd_card_io_buffer_address
    resets,
    app_at_start            \* history: next_is_app_command when the driver
                            \* began to initialise the card

session_vars == <<ready, next_is_app_command, write_address, next_card_state>>
card_vars == <<enabled, session_vars, card_state, input_buffer, response_queue,
               image, sub_data_out>>
driver_vars == <<phase, command, count, a, address, buffer>>
vars == <<card_vars, driver_vars, resets, app_at_start>>

Blocks == 0..BlockCount - 1
Contents == [1..BlockBytes -> DataBytes]

ReadBlock == 17
WriteBlock == 24
InitCommands == {0, 8, 55, 41, 58}

CardStates == {"idle", "ready", "command", "response", "data_token", "data"}
Phases == {"boot", "idle", "clocks", "select", "send", "r1", "ocr", "skip", "token",
           "receive", "start", "transmit", "crc", "data_response", "busy",
           "deselect", "trailer"}

TypeOK ==
    /\ enabled \in BOOLEAN /\ ready \in BOOLEAN /\ next_is_app_command \in BOOLEAN
    /\ write_address \in Blocks \cup {0}
    /\ card_state \in CardStates
    /\ next_card_state \in {"undefined", "idle", "data_token"}
    /\ input_buffer \in Seq(0..255) /\ response_queue \in Seq(0..255)
    /\ image \in [Blocks -> Contents]
    /\ sub_data_out \in 0..255
    /\ phase \in Phases
    /\ command \in InitCommands \cup {ReadBlock, WriteBlock}
    /\ count \in Nat
    /\ a \in 0..255
    /\ address \in Addresses \cup {0}
    /\ buffer \in Seq(DataBytes)
    /\ resets \in 0..MaxResets
    /\ app_at_start \in BOOLEAN

Init ==
    /\ enabled = FALSE /\ ready = FALSE /\ next_is_app_command = FALSE
    /\ write_address = 0
    /\ card_state = "idle" /\ next_card_state = "idle"
    /\ input_buffer = <<>> /\ response_queue = <<>>
    /\ image \in [Blocks -> Contents]
    /\ sub_data_out = 255
    /\ phase = "boot" /\ command = 0 /\ count = 0 /\ a = 0
    /\ address = 0 /\ buffer = <<>>
    /\ resets = 0 /\ app_at_start = FALSE

-------------------------------------------------------------------------------
(* The card: handle_command(). *)

R1Idle == IF ready THEN 0 ELSE 1    \* kR1InIdleState

\* What a command that is no application command answers.  The image is read
\* here; reading fails if it is shorter than it was.
StandardResponse(number, argument, crc, fails) ==
    CASE number = 0 -> <<IF crc = 149 THEN 1 ELSE 9>>
      [] number = 8 -> <<1, 0, 0, 1, argument % 256>>
      [] number \in {ReadBlock, WriteBlock} /\ ~ready -> <<5>>
      [] number \in {ReadBlock, WriteBlock} /\ ready /\ argument >= BlockCount -> <<64>>
      [] number = ReadBlock /\ ready /\ argument < BlockCount ->
            IF fails THEN <<0, 1>> ELSE <<0, 254>> \o image[argument] \o <<0, 0>>
      [] number = WriteBlock /\ ready /\ argument < BlockCount -> <<0>>
      [] number = 55 -> <<R1Idle>>
      [] number = 58 -> <<R1Idle, IF ready THEN 192 ELSE 0, 255, 128, 0>>
      [] OTHER -> <<4 + R1Idle>>

\* A slip: APP_CMD is forgotten at once.
StandardCommandNoApp(number, argument, crc) ==
    /\ \E fails \in ReadFails :
          response_queue' = response_queue \o StandardResponse(number, argument, crc, fails)
    /\ ready' = (ready /\ number # 0)
    /\ next_is_app_command' = FALSE
    /\ IF number = WriteBlock /\ ready /\ argument < BlockCount
         THEN next_card_state' = "data_token" /\ write_address' = argument
         ELSE UNCHANGED <<next_card_state, write_address>>

\* A slip: GO_IDLE_STATE leaves the card waiting for an application command.
StandardCommandStale(number, argument, crc) ==
    /\ \E fails \in ReadFails :
          response_queue' = response_queue \o StandardResponse(number, argument, crc, fails)
    /\ ready' = (ready /\ number # 0)
    /\ next_is_app_command' = (number \in {0, 55})
    /\ IF number = WriteBlock /\ ready /\ argument < BlockCount
         THEN next_card_state' = "data_token" /\ write_address' = argument
         ELSE UNCHANGED <<next_card_state, write_address>>

\* Any other command.
StandardCommand(number, argument, crc) ==
    /\ \E fails \in ReadFails :
          response_queue' = response_queue \o StandardResponse(number, argument, crc, fails)
    /\ ready' = (ready /\ number # 0)
    /\ next_is_app_command' = (number = 55)
    /\ IF number = WriteBlock /\ ready /\ argument < BlockCount
         THEN next_card_state' = "data_token" /\ write_address' = argument
         ELSE UNCHANGED <<next_card_state, write_address>>

\* Any command after APP_CMD; 41 is the only one known.
AppCommand(number) ==
    /\ response_queue' = Append(response_queue, IF number = 41 THEN 0 ELSE 255)
    /\ ready' = (ready \/ number = 41)
    /\ next_is_app_command' = FALSE
    /\ UNCHANGED <<next_card_state, write_address>>

Argument(bytes) == ((bytes[2] * 256 + bytes[3]) * 256 + bytes[4]) * 256 + bytes[5]

HandleCommand(bytes) ==
    LET number == bytes[1] % 64
    IN  IF next_is_app_command THEN AppCommand(number)
        ELSE StandardCommand(number, Argument(bytes), bytes[6])

-------------------------------------------------------------------------------
(* The card: handle_byte_in(), by its state, and handle_enable(). *)

\* Not selected, or between two commands.
IgnoreByte ==
    /\ ~enabled \/ card_state \in {"idle", "ready"}
    /\ sub_data_out' = 255
    /\ UNCHANGED <<session_vars, card_state, input_buffer, response_queue, image>>

\* The sixth byte completes a command.
CommandByte(byte) ==
    /\ enabled /\ card_state = "command"
    /\ sub_data_out' = 255
    /\ IF Len(input_buffer) = 5
         THEN /\ HandleCommand(Append(input_buffer, byte))
              /\ input_buffer' = <<>>
              /\ card_state' = "response"
         ELSE /\ input_buffer' = Append(input_buffer, byte)
              /\ UNCHANGED <<session_vars, card_state, response_queue>>
    /\ UNCHANGED image

\* The last byte of the response ends the command, or leads to the data of a write.
ResponseByte ==
    /\ enabled /\ card_state = "response"
    /\ IF response_queue = <<>>
         THEN /\ sub_data_out' = 255
              /\ UNCHANGED <<response_queue, card_state, next_card_state>>
         ELSE /\ sub_data_out' = Head(response_queue)
              /\ response_queue' = Tail(response_queue)
              /\ IF response_queue' # <<>> THEN UNCHANGED <<card_state, next_card_state>>
                 ELSE /\ card_state' = IF next_card_state = "undefined" THEN "ready"
                                       ELSE next_card_state
                      /\ next_card_state' = "undefined"
    /\ UNCHANGED <<ready, next_is_app_command, write_address, input_buffer, image>>

TokenByte(byte) ==
    /\ enabled /\ card_state = "data_token"
    /\ sub_data_out' = 255
    /\ IF byte = 254 THEN card_state' = "data" /\ input_buffer' = <<>>
                     ELSE UNCHANGED <<card_state, input_buffer>>
    /\ UNCHANGED <<session_vars, response_queue, image>>

\* A slip: the bytes go to the image as they arrive.
DataByteTorn(byte) ==
    /\ enabled /\ card_state = "data"
    /\ sub_data_out' = 255
    /\ LET received == Append(input_buffer, byte)
       IN  /\ image' = IF Len(received) <= BlockBytes
                         THEN [image EXCEPT ![write_address][Len(received)] = byte]
                         ELSE image
           /\ IF Len(received) = BlockBytes + 2
                THEN /\ input_buffer' = <<>>
                     /\ response_queue' = response_queue \o <<5, 0>>
                     /\ card_state' = "response"
                ELSE input_buffer' = received /\ UNCHANGED <<response_queue, card_state>>
    /\ UNCHANGED session_vars

\* The block and two bytes of CRC, which is not checked; then "data accepted"
\* and one byte of busy.
DataByte(byte) ==
    /\ enabled /\ card_state = "data"
    /\ sub_data_out' = 255
    /\ LET received == Append(input_buffer, byte)
       IN  IF Len(received) = BlockBytes + 2
             THEN /\ image' = [image EXCEPT ![write_address] = SubSeq(received, 1, BlockBytes)]
                  /\ input_buffer' = <<>>
                  /\ response_queue' = response_queue \o <<5, 0>>
                  /\ card_state' = "response"
             ELSE /\ input_buffer' = received
                  /\ UNCHANGED <<image, response_queue, card_state>>
    /\ UNCHANGED session_vars

\* One byte over SPI; the host receives sub_data_out.
Exchange(byte) ==
    /\ \/ IgnoreByte \/ CommandByte(byte) \/ ResponseByte
       \/ TokenByte(byte) \/ DataByte(byte)
    /\ UNCHANGED enabled

\* The chip select line; handle_enable() is called when it changes.
ChipSelect(low) ==
    IF low = enabled THEN UNCHANGED card_vars
    ELSE /\ enabled' = low
         /\ IF low
              THEN input_buffer' = <<>> /\ response_queue' = <<>> /\ card_state' = "command"
              ELSE /\ card_state' = IF ready THEN "ready" ELSE "idle"
                   /\ UNCHANGED <<input_buffer, response_queue>>
         /\ sub_data_out' = 255
         /\ UNCHANGED <<session_vars, image>>

-------------------------------------------------------------------------------
(* The driver. *)

Go(next) == phase' = next /\ count' = 0
Stay == phase' = phase /\ count' = count + 1

AddressBytes ==
    <<address \div 16777216, (address \div 65536) % 256, (address \div 256) % 256, address % 256>>

CommandBytes ==
    CASE command = 0 -> <<64, 0, 0, 0, 0, 149>>
      [] command = 8 -> <<72, 0, 0, 1, 170, 135>>
      [] command = 41 -> <<105, 64, 0, 0, 0, 0>>
      [] command \in {55, 58} -> <<64 + command, 0, 0, 0, 0, 0>>
      [] OTHER -> <<64 + command>> \o AddressBytes \o <<255>>

\* After a command of sd_card_initialize: the next one, or A is its result.
NextCommand(received) ==
    LET chosen == CASE command = 0 /\ received = 1 -> 8
                    [] command = 8 /\ received = 1 -> 55
                    [] command = 55 -> 41
                    [] command = 41 -> IF received = 0 THEN 58 ELSE 55
                    [] OTHER -> 0
    IN  IF chosen # 0
          THEN Go("select") /\ command' = chosen /\ a' = received
          ELSE /\ Go("idle") /\ UNCHANGED command
               /\ a' = IF command = 58 /\ received >= 192 THEN 0 ELSE 1

\* start in monitor.s: spi_init raises chip select, file_init initialises.
Boot ==
    /\ phase = "boot"
    /\ ChipSelect(FALSE)
    /\ Go("clocks") /\ command' = 0
    /\ app_at_start' = next_is_app_command
    /\ UNCHANGED <<a, address, buffer, resets>>

\* The calls software makes.
CallInitialize ==
    /\ phase = "idle"
    /\ Go("clocks") /\ command' = 0
    /\ app_at_start' = next_is_app_command
    /\ UNCHANGED <<card_vars, a, address, buffer, resets>>

CallRead ==
    /\ phase = "idle"
    /\ Go("select") /\ command' = ReadBlock
    /\ address' \in Addresses
    /\ buffer' = <<>>
    /\ UNCHANGED <<card_vars, a, resets, app_at_start>>

CallWrite ==
    /\ phase = "idle"
    /\ Go("select") /\ command' = WriteBlock
    /\ address' \in Addresses
    /\ buffer' \in Contents
    /\ UNCHANGED <<card_vars, a, resets, app_at_start>>

\* Ten bytes with chip select high.
Clocks ==
    /\ phase = "clocks"
    /\ Exchange(255)
    /\ IF count + 1 = ClockBytes THEN Go("select") ELSE Stay
    /\ UNCHANGED <<command, a, address, buffer, resets, app_at_start>>

\* spi_start_command
Select ==
    /\ phase = "select"
    /\ ChipSelect(TRUE)
    /\ Go("send")
    /\ UNCHANGED <<command, a, address, buffer, resets, app_at_start>>

SendCommand ==
    /\ phase = "send"
    /\ Exchange(CommandBytes[count + 1])
    /\ IF count + 1 = 6 THEN Go("r1") ELSE Stay
    /\ UNCHANGED <<command, a, address, buffer, resets, app_at_start>>

AfterR1(received) ==
    CASE command = 8 -> "skip"
      [] command = 58 -> "ocr"
      [] command = ReadBlock /\ received = 0 -> "token"
      [] command = WriteBlock /\ received = 0 -> "start"
      [] OTHER -> "deselect"

\* get_r1, and the branch that follows: for a read or a write a test of R1.
\* send_cmd58 branches on the Z flag that get_r1 leaves.  It returns without raising
\* chip select if an R1 came that is not 0; when the tries run out Z is set by dex,
\* and it goes on as if R1 were 0.
GetR1 ==
    /\ phase = "r1"
    /\ Exchange(255)
    /\ IF sub_data_out >= 128 /\ count + 1 < R1Tries
         THEN Stay /\ a' = sub_data_out /\ UNCHANGED command
         ELSE IF command = 58 /\ sub_data_out \in 1..127 THEN NextCommand(sub_data_out)
         ELSE Go(AfterR1(sub_data_out)) /\ a' = sub_data_out /\ UNCHANGED command
    /\ UNCHANGED <<address, buffer, resets, app_at_start>>

\* The top byte of the OCR register.
ReceiveOcr ==
    /\ phase = "ocr"
    /\ Exchange(255)
    /\ a' = sub_data_out
    /\ Go("skip")
    /\ UNCHANGED <<command, address, buffer, resets, app_at_start>>

\* The rest of the responses to CMD8 and CMD58.
Skip ==
    /\ phase = "skip"
    /\ Exchange(255)
    /\ IF count + 1 = (IF command = 8 THEN 4 ELSE 3) THEN Go("deselect") ELSE Stay
    /\ UNCHANGED <<command, a, address, buffer, resets, app_at_start>>

WithTopBit(byte) == IF byte < 128 THEN byte + 128 ELSE byte

\* get_start_block.  The branch that follows it uses the sign of A - $ff.
GetStartBlock ==
    /\ phase = "token"
    /\ Exchange(255)
    /\ IF sub_data_out = 255 /\ count + 1 < TokenTries
         THEN Stay /\ a' = sub_data_out
         ELSE IF (sub_data_out + 1) % 256 >= 128
           THEN Go("receive") /\ a' = sub_data_out
           ELSE Go("deselect") /\ a' = WithTopBit(sub_data_out)
    /\ UNCHANGED <<command, address, buffer, resets, app_at_start>>

\* What spi_receive_block sends in the exchange of the i-th byte: its counter.
CounterByte(i) == IF i = 1 THEN 255 ELSE IF i <= 257 THEN i - 2 ELSE i - 257

\* spi_receive_block
Receive ==
    /\ phase = "receive"
    /\ Exchange(CounterByte(count + 1))
    /\ buffer' = Append(buffer, sub_data_out)
    /\ IF count + 1 = BlockBytes THEN Go("crc") ELSE Stay
    /\ UNCHANGED <<command, a, address, resets, app_at_start>>

\* The start block token of a write.
SendStartBlock ==
    /\ phase = "start"
    /\ Exchange(254)
    /\ Go("transmit") /\ a' = 254
    /\ UNCHANGED <<command, address, buffer, resets, app_at_start>>

Transmit ==
    /\ phase = "transmit"
    /\ Exchange(buffer[count + 1])
    /\ a' = buffer[count + 1]
    /\ IF count + 1 = BlockBytes THEN Go("crc") ELSE Stay
    /\ UNCHANGED <<command, address, buffer, resets, app_at_start>>

\* Two bytes of CRC after the data, either way.  A read is then complete.
Crc ==
    /\ phase = "crc"
    /\ Exchange(255)
    /\ IF count + 1 < 2 THEN Stay /\ UNCHANGED a
       ELSE IF command = ReadBlock THEN Go("deselect") /\ a' = 0
       ELSE Go("data_response") /\ UNCHANGED a
    /\ UNCHANGED <<command, address, buffer, resets, app_at_start>>

\* get_data_response
GetDataResponse ==
    /\ phase = "data_response"
    /\ Exchange(255)
    /\ a' = sub_data_out
    /\ IF sub_data_out = 255 /\ count + 1 < TokenTries THEN Stay ELSE Go("busy")
    /\ UNCHANGED <<command, address, buffer, resets, app_at_start>>

Refused(response) == (response \div 2) % 2 = 1 \/ (response \div 8) % 2 = 1

\* wait_busy, without a limit; then A is the result of the write.
WaitBusy ==
    /\ phase = "busy"
    /\ Exchange(255)
    /\ IF sub_data_out = 0 THEN UNCHANGED <<phase, count, a>>
       ELSE Go("deselect") /\ a' = IF Refused(a) THEN WithTopBit(a) ELSE 0
    /\ UNCHANGED <<command, address, buffer, resets, app_at_start>>

\* spi_end_command
Deselect ==
    /\ phase = "deselect"
    /\ ChipSelect(FALSE)
    /\ Go("trailer")
    /\ UNCHANGED <<command, a, address, buffer, resets, app_at_start>>

\* A last byte after each command.
Trailer ==
    /\ phase = "trailer"
    /\ Exchange(255)
    /\ IF command \in InitCommands THEN NextCommand(a)
       ELSE Go("idle") /\ UNCHANGED <<command, a>>
    /\ UNCHANGED <<address, buffer, resets, app_at_start>>

\* The user resets the CPU; RAM and the devices keep their state.
Reset ==
    /\ phase # "boot"
    /\ resets < MaxResets
    /\ resets' = resets + 1
    /\ Go("boot")
    /\ UNCHANGED <<card_vars, command, a, address, buffer, app_at_start>>

-------------------------------------------------------------------------------
Call == CallInitialize \/ CallRead \/ CallWrite

Driver ==
    \/ Boot \/ Clocks \/ Select \/ SendCommand \/ GetR1 \/ ReceiveOcr \/ Skip
    \/ GetStartBlock \/ Receive \/ SendStartBlock \/ Transmit \/ Crc
    \/ GetDataResponse \/ WaitBusy \/ Deselect \/ Trailer

Next == Call \/ Driver \/ Reset

\* The CPU runs.  Software owes no call.
Spec == Init /\ [][Next]_vars /\ WF_vars(Driver)

-------------------------------------------------------------------------------
(* What the card and the driver must agree on. *)

\* Between two calls the card is as the next call needs it.  It is not selected:
\* spi_start_command would not be seen by a card that is, and it would take the
\* command for the rest of another.  And an initialisation has failed only if a
\* reset came between APP_CMD and ACMD41 of the one before, so that CMD0 was not
\* recognised; after a failure none is pending, so that the next one succeeds.
CleanWhenIdle ==
    phase = "idle" =>
        /\ ~enabled
        /\ command \in InitCommands => ~next_is_app_command /\ (a # 0 => app_at_start)

\* Every call returns: the loops on ACMD41 and on a busy card have no limit, and
\* the card must answer them in whatever state a reset found it.
CallsReturn == phase # "idle" ~> phase = "idle"

Running == phase \notin {"boot", "idle"}

\* What the store sees of the driver: the call in progress, and its result.
StoreCall ==
    CASE ~Running -> [op |-> "none"]
      [] Running /\ command = ReadBlock -> [op |-> "read", address |-> address]
      [] Running /\ command = WriteBlock ->
            [op |-> "write", address |-> address, contents |-> buffer]
      [] OTHER -> [op |-> "initialize"]

StoreAnswer ==
    CASE phase # "idle" -> [result |-> "none"]
      [] phase = "idle" /\ a # 0 -> [result |-> "error"]
      [] phase = "idle" /\ a = 0 /\ command = ReadBlock ->
            [result |-> "ok", contents |-> buffer]
      [] OTHER -> [result |-> "ok"]

Store == INSTANCE BlockStore WITH
    Faulty <- TRUE \in ReadFails,
    store <- image,
    usable <- ready,
    call <- StoreCall,
    answer <- StoreAnswer

\* Card and driver together store blocks: a read returns what was last written, a
\* write cut short by a reset is whole or has not happened, and success is
\* reported of nothing else.
ImplementsBlockStore == Store!Spec
=============================================================================
