------------------------------ MODULE MidiSynth ------------------------------
(***************************************************************************)
(* The MIDI synthesizer: midi_synth.s, which parses what the UART receives *)
(* with midi_uart.inc, the voice allocator of midi.inc, and the channels   *)
(* of the OPL3 as sound.inc drives them.  It runs on Uart.                 *)
(*                                                                         *)
(* A byte is the message it belongs to and its position in it.  Volume and *)
(* velocity are left out (midi_velocity, midi_volume, the third byte of a  *)
(* voice's entry): a note is played whatever its velocity.  Voices are     *)
(* numbered from 0, as in opl_to_midi_channel_note.                        *)
(***************************************************************************)
EXTENDS Uart, FiniteSetsExt

CONSTANTS
    NumVoices,      \* NUM_OPL_CHANNELS
    Bank,           \* voices in the first register array of the OPL3: 9 of 18
    Messages,       \* the messages the musician sends
    DrumNote,       \* general_midi_percussion_note_number
    MaxInFlight,    \* bound: bytes on their way to the CPU
    OneStrike       \* the musician releases a drum before striking it again

MIDI_RHYTHM_CHANNEL == 9
MidiChannels == 0..15
NoChannel == 255            \* $FF: no instrument loaded for any channel
Silent == 0                 \* a free voice's note

\* How many bytes a message has: the last argument byte is read, whatever it is.
Length(op) == IF op \in {"program", "pressure"} THEN 2 ELSE 3

\* Which byte the handler of the message looks at.
Argument(op) == IF op = "instrument" THEN 3 ELSE 2

\* "instrument" and "silence" are the control changes $46 and $78 / $7B;
\* "pressure" and "bend" stand for the two- and three-byte messages it ignores,
\* and "stray" for a byte that is no message.
Operations == {"play", "stop", "program", "instrument", "silence", "pressure", "bend"}

\* midi_uart_init writes the divisor of the baud rate where the chip has its
\* transmit register.  With ECHO in the terminal's attributes, which openpty()
\* gets uninitialized, it comes back.
Stray == [of |-> [op |-> "stray", channel |-> 0, data |-> 48], pos |-> 2]

Drums == {m.data : m \in {n \in Messages : n.channel = MIDI_RHYTHM_CHANNEL /\ n.op = "play"}}

ASSUME VoicesAssumption == NumVoices \in Nat \ {0} /\ Bank \in 1..NumVoices
ASSUME MessagesAssumption ==
    /\ IsFiniteSet(Messages)
    /\ \A m \in Messages :
         /\ m.op \in Operations /\ m.channel \in MidiChannels /\ m.data \in 0..127
         \* The range sound_play_note supports, and what General MIDI has of drums.
         /\ m.op \in {"play", "stop"} =>
              m.data \in IF m.channel = MIDI_RHYTHM_CHANNEL THEN 35..87 ELSE 21..104
         \* A terminal that is not raw turns 10 into 13, 10.
         /\ m.data # 10
ASSUME DrumNoteAssumption == \A d \in Drums : DrumNote[d] \in 1..127
ASSUME MaxInFlightAssumption == MaxInFlight \in Nat
ASSUME OneStrikeAssumption == OneStrike \in BOOLEAN

Voices == 0..NumVoices - 1
Instruments == 0..255       \* 128 and up: percussion
NotLoaded == 256            \* the registers of a channel are 0

VARIABLES
    pc,             \* "other" software, or the synthesizer: "wait", "fetch", "handle"
    received,       \* the bytes of the message being received
    table,          \* opl_to_midi_channel_note: each voice's channel and note
    instrument_of,  \* midi_channel_to_instrument
    loaded,         \* whose settings each OPL3 channel's two operators have
    feedback,       \* whose feedback and connection the channel has
    key,            \* the note each OPL3 channel sounds
    struck          \* the drums the musician has struck and not released

voice_vars == <<table, instrument_of, loaded, feedback, key>>
synth_vars == <<pc, received, voice_vars>>
vars == <<uart_vars, synth_vars, struck>>

Bytes == {[of |-> m, pos |-> i] : m \in Messages, i \in 1..3} \cup {Stray}

TypeOK ==
    /\ UartTypeOK(Bytes)
    /\ pc \in {"other", "wait", "fetch", "handle"}
    /\ received \in Seq(Bytes)
    /\ table \in [Voices -> [channel : 0..255, note : 0..127]]
    /\ instrument_of \in [MidiChannels -> Instruments]
    /\ loaded \in [Voices -> Instruments \cup {NotLoaded}]
    /\ feedback \in [Voices -> Instruments \cup {NotLoaded}]
    /\ key \in [Voices -> 0..127]
    /\ struck \subseteq Drums

Echoes == {<<>>, <<Stray>>}

\* start has run; the memory of the tables and the OPL3's registers are 0.
Init ==
    /\ \E back \in Echoes : UartInit(back)
    /\ pc = "other" /\ received = <<>>
    /\ table = [v \in Voices |-> [channel |-> 0, note |-> Silent]]
    /\ instrument_of = [c \in MidiChannels |-> 0]
    /\ loaded = [v \in Voices |-> NotLoaded] /\ feedback = loaded
    /\ key = [v \in Voices |-> Silent]
    /\ struck = {}

-------------------------------------------------------------------------------
(* The voice allocator and the OPL3. *)

Free == {v \in Voices : table[v].note = Silent}
SetUpFor(c) == {v \in Voices : table[v].channel = c}

\* sound_set_attenuation silences a channel before it sets its level; for one of
\* the second array it silences the channel of that number in the first.
Attenuated(v) == IF v < Bank THEN v ELSE v - Bank

\* sound_load_instrument writes five bytes to each operator.  The eleventh, feedback
\* and connection, reaches the channel in the first array only: in the second
\* one it goes to the register nine above, $C9 to $D1, which is nobody's.
LoadInstrument(voices, instrument) ==
    /\ loaded' = [v \in Voices |-> IF v \in voices THEN instrument ELSE loaded[v]]
    /\ feedback' = [v \in Voices |->
                       IF v \in voices /\ v < Bank THEN instrument ELSE feedback[v]]

\* A slip: the voice keeps the instrument it had.
StartUnloaded(v, c, note, instrument) ==
    /\ table' = [table EXCEPT ![v] = [channel |-> c, note |-> note]]
    /\ UNCHANGED <<loaded, feedback>>
    /\ key' = [key EXCEPT ![Attenuated(v)] = Silent, ![v] = note]

\* Play note on voice v for channel c, which is set up first if need be.
StartVoice(v, c, note, instrument) ==
    /\ table' = [table EXCEPT ![v] = [channel |-> c, note |-> note]]
    /\ IF v \in SetUpFor(c) THEN UNCHANGED <<loaded, feedback>>
                            ELSE LoadInstrument({v}, instrument)
    /\ key' = [key EXCEPT ![Attenuated(v)] = Silent, ![v] = note]

\* midi_play_note: the lowest free voice set up for the channel, else the lowest
\* free one, else the note is dropped.
PlayMelodic(c, note) ==
    /\ IF Free = {}
         THEN UNCHANGED <<table, loaded, feedback, key>>
         ELSE LET fitting == Free \cap SetUpFor(c)
              IN  StartVoice(Min(IF fitting # {} THEN fitting ELSE Free),
                             c, note, instrument_of[c])
    /\ UNCHANGED instrument_of

\* play_rhythm: the drum stands in the table as a channel of its own; voices are
\* taken from the top.
PlayRhythm(drum) ==
    /\ IF Free = {}
         THEN UNCHANGED <<table, loaded, feedback, key>>
         ELSE LET fitting == Free \cap SetUpFor(drum)
              IN  StartVoice(Max(IF fitting # {} THEN fitting ELSE Free),
                             drum, DrumNote[drum], 128 + drum)
    /\ UNCHANGED instrument_of

\* A slip: the voice is freed before it has been told to stop.
StopVoicesForgotten(stopped) ==
    /\ table' = [v \in Voices |-> IF v \in stopped THEN [table[v] EXCEPT !.note = Silent]
                                                   ELSE table[v]]
    /\ UNCHANGED <<loaded, feedback, key, instrument_of>>

StopVoices(stopped) ==
    /\ table' = [v \in Voices |-> IF v \in stopped THEN [table[v] EXCEPT !.note = Silent]
                                                   ELSE table[v]]
    /\ key' = [v \in Voices |-> IF v \in stopped THEN Silent ELSE key[v]]
    /\ UNCHANGED <<loaded, feedback, instrument_of>>

\* A slip: every voice with that note stops.
StopMelodicAll(c, note) ==
    StopVoices({v \in SetUpFor(c) : table[v].note = note})

\* midi_stop_note: the lowest voice that plays the note.
StopMelodic(c, note) ==
    LET playing == {v \in SetUpFor(c) : table[v].note = note}
    IN  StopVoices(IF playing = {} THEN {} ELSE {Min(playing)})

\* stop_rhythm: the highest voice set up for the drum, whether it plays or not.
StopRhythm(drum) ==
    StopVoices(IF SetUpFor(drum) = {} THEN {} ELSE {Max(SetUpFor(drum))})

\* stop_all_channel_notes.
SilenceChannel(c) ==
    StopVoices({v \in Voices \ Free :
                   IF c = MIDI_RHYTHM_CHANNEL
                     THEN table[v].channel \in 17..127   \* above 16, as a signed byte
                     ELSE v \in SetUpFor(c)})

\* midi_program_change: the channel's voices stop and are set up for none.
ChangeProgram(c, p) ==
    LET changed == SetUpFor(c)
    IN  /\ instrument_of' = [instrument_of EXCEPT ![c] = p]
        /\ table' = [v \in Voices |->
                        IF v \in changed THEN [channel |-> NoChannel, note |-> Silent]
                                         ELSE table[v]]
        /\ key' = [v \in Voices |-> IF v \in changed \ Free THEN Silent ELSE key[v]]
        /\ UNCHANGED <<loaded, feedback>>

-------------------------------------------------------------------------------
(* The program. *)

\* midi_reset: a piano in every OPL3 channel and for every MIDI channel.
ResetTables ==
    /\ LoadInstrument(Voices, 0)
    /\ instrument_of' = [c \in MidiChannels |-> 0]
    /\ table' = [v \in Voices |-> [channel |-> 0, note |-> Silent]]

\* The CPU is reset: start silences the OPL3 and initializes the UART, whose
\* queue, written off in FCR, stays as it is.  The tables stay as they are too;
\* nothing reads them before midi_reset fills them, and they are filled here.
Reset ==
    /\ pc' = "other" /\ received' = <<>>
    /\ key' = [v \in Voices |-> Silent]
    /\ receive_enabled' = FALSE /\ ReleaseInterrupt
    /\ \E back \in Echoes :
         pty' = pty \o back /\ Len(InFlight \o back) <= MaxInFlight
    /\ ResetTables
    /\ UNCHANGED <<rx_fifo, data_ready, reader_byte, struck>>

\* Another program uses the UART, with or without its interrupt.
OtherProgram ==
    /\ pc = "other"
    /\ ReadRBR \/ \E enable \in BOOLEAN : WriteIER(enable)
    /\ UNCHANGED <<reader_byte, pty, struck, synth_vars>>

\* midi_synth_start, with midi_reset.
Start ==
    /\ pc = "other"
    /\ pc' = "wait" /\ received' = <<>>
    /\ ResetTables
    /\ UNCHANGED <<uart_vars, struck, key>>

\* midi_uart_read_byte_blocking reads the status until a byte is there.
SeeStatus ==
    /\ pc = "wait"
    /\ data_ready
    /\ pc' = "fetch"
    /\ UNCHANGED <<uart_vars, struck, received, voice_vars>>

\* It reads the byte.  A message begins with a byte that has the top bit set;
\* any other one there is unexpected and dropped, and whatever follows the first
\* one is taken for an argument.
FetchByte ==
    /\ pc = "fetch"
    /\ ReadRBR
    /\ LET byte == Head(rx_fifo)
           more == IF received = <<>> /\ byte.pos # 1 THEN <<>> ELSE Append(received, byte)
       IN  /\ received' = more
           /\ pc' = IF more # <<>> /\ Len(more) = Length(more[1].of.op)
                      THEN "handle" ELSE "wait"
    /\ UNCHANGED <<reader_byte, pty, struck, voice_vars>>

Handle(m, data) ==
    LET rhythm == m.channel = MIDI_RHYTHM_CHANNEL
    IN  CASE m.op = "play" /\ ~rhythm -> PlayMelodic(m.channel, data)
          [] m.op = "play" /\ rhythm  -> PlayRhythm(data)
          [] m.op = "stop" /\ ~rhythm -> StopMelodic(m.channel, data)
          [] m.op = "stop" /\ rhythm  -> StopRhythm(data)
          [] m.op \in {"program", "instrument"} -> ChangeProgram(m.channel, data)
          [] m.op = "silence" -> SilenceChannel(m.channel)
          [] OTHER -> UNCHANGED voice_vars

HandleMessage ==
    /\ pc = "handle"
    /\ Handle(received[1].of, received[Argument(received[1].of.op)].of.data)
    /\ pc' = "wait" /\ received' = <<>>
    /\ UNCHANGED <<uart_vars, struck>>

Synth == SeeStatus \/ FetchByte \/ HandleMessage

\* The musician.  A drum is struck again only after its release, or after all
\* of them were silenced.
Send(m) ==
    /\ Len(InFlight) + Length(m.op) <= MaxInFlight
    /\ WriteMessage([i \in 1..Length(m.op) |-> [of |-> m, pos |-> i]])
    /\ LET struckAfter ==
             CASE m.op = "play"    -> struck \cup {m.data}
               [] m.op = "stop"    -> struck \ {m.data}
               [] m.op = "silence" -> {}
               [] OTHER            -> struck
       IN  IF m.channel = MIDI_RHYTHM_CHANNEL /\ OneStrike
             THEN struck' = struckAfter /\ (m.op = "play" => m.data \notin struck)
             ELSE struck' = struck
    /\ UNCHANGED <<synth_vars>>

Musician == \E m \in Messages : Send(m)

ReaderThread == Reader /\ UNCHANGED <<struck, synth_vars>>

Next == Reset \/ OtherProgram \/ Start \/ Synth \/ Musician \/ ReaderThread

\* The reader thread is scheduled and the CPU runs.
Spec == Init /\ [][Next]_vars /\ WF_vars(ReaderThread) /\ WF_vars(Synth)

-------------------------------------------------------------------------------
(* Properties. *)

\* A message is handled only with the bytes it was sent with, in their order:
\* whatever another program read of the one before, and wherever a reset cut it,
\* the rest of a message is never taken for the arguments of the next.
WholeMessages ==
    \A i \in DOMAIN received : received[i] = [of |-> received[1].of, pos |-> i]

\* No note hangs: an OPL3 channel that sounds is the one the table knows, so that
\* a stop can find it (midi.inc:340).
NoHangingNote ==
    \A v \in Voices : key[v] # Silent => table[v].note = key[v]

\* "A channel not playing anything is represented with 0 in the note byte"
\* (midi.inc:50), and one with a note plays it: what is played on one voice leaves
\* the others alone.
EntrySounds ==
    pc # "other" => \A v \in Voices \ Free : key[v] = table[v].note

\* What of an instrument the code can load: all of it in the first array, the
\* operators in the second.
Loaded(v, instrument) ==
    loaded[v] = instrument /\ (v < Bank => feedback[v] = instrument)

\* "An OPL channel is set up for a given MIDI channel if it has the right
\* instrument loaded" (midi.inc:49), after any order of program changes, drums
\* and notes: midi_play_note loads nothing into a voice that is set up.  Of the
\* voices of the second array this holds but for feedback and connection.
RightInstrument ==
    pc # "other" =>
      \A v \in Voices :
        \/ table[v].channel = NoChannel
        \/ table[v].channel \in MidiChannels /\ Loaded(v, instrument_of[table[v].channel])
        \/ table[v].channel \in Drums /\ Loaded(v, 128 + table[v].channel)

\* An instrument is loaded completely, "on a given channel 1..18" (sound.inc:116).
\* The code violates this on channels 10 to 18: it is in no passing run.
LoadedCompletely ==
    pc # "other" =>
      \A v \in Voices : table[v].channel # NoChannel => feedback[v] = loaded[v]

\* A byte that was written reaches the synthesizer that waits for one: no order of
\* the reader thread's push and the CPU's reads leaves the status bit clear.
AnswersEveryByte ==
    (pc = "wait" /\ InFlight # <<>>) ~> (pc # "wait")

\* What the table says is playing is what the messages ask for, each served once
\* and exactly: which voice is taken, stopped or set up anew is never seen.
PlayedKeys ==
    {<<m.channel, m.data>> : m \in {n \in Messages : n.op \in {"play", "stop"}}}
VoicesOf(k) ==
    {v \in Voices \ Free :
        IF k[1] = MIDI_RHYTHM_CHANNEL
          THEN table[v].channel = k[2]
          ELSE table[v] = [channel |-> k[1], note |-> k[2]]}
Bag == INSTANCE Polyphony WITH
    Requests <- Messages, NoRequest <- Stray.of, Rhythm <- MIDI_RHYTHM_CHANNEL,
    Keys <- PlayedKeys, Capacity <- NumVoices,
    sounding <- [k \in PlayedKeys |-> Cardinality(VoicesOf(k))],
    program <- [c \in {m.channel : m \in Messages} |-> instrument_of[c]],
    request <- IF pc = "handle" THEN received[1].of ELSE Stray.of
ImplementsPolyphony == Bag!Spec
=============================================================================
