--------------------------- MODULE MidiSynth_proofs ---------------------------
(***************************************************************************)
(* Proofs about the MIDI synthesizer and the UART it reads: with any       *)
(* number of voices, any messages and any number of bytes in flight, the   *)
(* registers say what is queued, no message is put together from two, no   *)
(* note hangs, every voice that is set up has the right instrument, and    *)
(* what plays is the bag of notes that the messages ask for (Polyphony).   *)
(***************************************************************************)
EXTENDS MidiSynth, SequenceTheorems, FiniteSetTheorems, WellFoundedInduction, TLAPS

\* A byte is the last of its message, the first of one, or neither.
Ends(b) == b = Stray \/ b.pos = Length(b.of.op)
Begins(b) == b = Stray \/ b.pos = 1
Continuation(b) == [of |-> b.of, pos |-> b.pos + 1]

\* s is a sequence of whole messages, of which the first may have lost its
\* beginning.
Whole(s) ==
    \A i \in 1..Len(s) :
        IF Ends(s[i]) THEN i < Len(s) => Begins(s[i + 1])
                      ELSE i < Len(s) /\ s[i + 1] = Continuation(s[i])

\* The UART: once the status was seen set, the queue has a byte, since nobody
\* else reads it.
UartSound ==
    /\ UartTypeOK(Bytes)
    /\ RegistersExact
    /\ pc = "fetch" => rx_fifo # <<>>

\* The message being received goes on with the first byte in flight.
StreamSound ==
    /\ pc \in {"other", "wait", "fetch", "handle"}
    /\ received \in Seq(Bytes)
    /\ Whole(InFlight)
    /\ WholeMessages
    /\ pc = "other" => received = <<>>
    /\ pc = "handle" => received # <<>>
    /\ received # <<>> =>
         /\ received[1].of \in Messages
         /\ pc = "handle" => Len(received) = Length(received[1].of.op)
         /\ pc # "handle" =>
              /\ Len(received) < Length(received[1].of.op)
              /\ InFlight # <<>>
              /\ InFlight[1] = [of |-> received[1].of, pos |-> Len(received) + 1]

\* The tables and the OPL3.  Nothing sounds while other software runs.
Loads == Instruments \cup {NotLoaded}
VoiceTypes ==
    /\ table \in [Voices -> [channel : 0..255, note : 0..127]]
    /\ instrument_of \in [MidiChannels -> Instruments]
    /\ loaded \in [Voices -> Loads]
    /\ feedback \in [Voices -> Loads]
    /\ key \in [Voices -> 0..127]
SetUpRight ==
    \A v \in Voices :
        \/ table[v].channel = NoChannel
        \/ table[v].channel \in MidiChannels /\ Loaded(v, instrument_of[table[v].channel])
        \/ table[v].channel \in Drums /\ Loaded(v, 128 + table[v].channel)
VoicesSound ==
    /\ VoiceTypes
    /\ NoHangingNote
    /\ pc # "other" => SetUpRight
    /\ pc = "other" => \A v \in Voices : key[v] = Silent

IInv == UartSound /\ StreamSound /\ VoicesSound /\ struck \subseteq Drums

-------------------------------------------------------------------------------
(* Sequences of whole messages. *)

\* What is left when the first byte is taken.
LEMMA WholeTail ==
    ASSUME NEW s \in Seq(Bytes), s # <<>>, Whole(s)
    PROVE  Whole(Tail(s))
<1>1. /\ Len(s) \in Nat \ {0} /\ Len(Tail(s)) = Len(s) - 1
      /\ \A i \in 1..Len(Tail(s)) : Tail(s)[i] = s[i + 1]
  BY HeadTailProperties, EmptySeq
<1>2. SUFFICES ASSUME NEW i \in 1..Len(Tail(s))
               PROVE  IF Ends(Tail(s)[i]) THEN i < Len(Tail(s)) => Begins(Tail(s)[i + 1])
                      ELSE i < Len(Tail(s)) /\ Tail(s)[i + 1] = Continuation(Tail(s)[i])
  BY DEF Whole
<1>3. i + 1 \in 1..Len(s) /\ Tail(s)[i] = s[i + 1]
  BY <1>1
<1>4. IF Ends(s[i + 1]) THEN i + 1 < Len(s) => Begins(s[(i + 1) + 1])
      ELSE i + 1 < Len(s) /\ s[(i + 1) + 1] = Continuation(s[i + 1])
  BY <1>3 DEF Whole
<1>5. i < Len(Tail(s)) => Tail(s)[i + 1] = s[(i + 1) + 1]
  BY <1>1
<1> QED  BY <1>1, <1>3, <1>4, <1>5

\* What follows whole messages must begin with one.
LEMMA WholeConcat ==
    ASSUME NEW s \in Seq(Bytes), NEW t \in Seq(Bytes), Whole(s), Whole(t),
           t # <<>> => Begins(t[1])
    PROVE  Whole(s \o t)
<1>1. /\ Len(s) \in Nat /\ Len(t) \in Nat /\ Len(s \o t) = Len(s) + Len(t)
      /\ \A i \in 1..Len(s) + Len(t) :
           (s \o t)[i] = IF i <= Len(s) THEN s[i] ELSE t[i - Len(s)]
  BY ConcatProperties, LenProperties
<1>2. SUFFICES ASSUME NEW i \in 1..Len(s) + Len(t)
               PROVE  IF Ends((s \o t)[i]) THEN i < Len(s) + Len(t) => Begins((s \o t)[i + 1])
                      ELSE i < Len(s) + Len(t) /\ (s \o t)[i + 1] = Continuation((s \o t)[i])
  BY <1>1 DEF Whole
<1>3. CASE i < Len(s)
  <2>1. (s \o t)[i] = s[i] /\ (s \o t)[i + 1] = s[i + 1] /\ i \in 1..Len(s)
    BY <1>1, <1>3
  <2> QED  BY <2>1, <1>1, <1>3 DEF Whole
<1>4. CASE i = Len(s)
  <2>1. (s \o t)[i] = s[i] /\ i \in 1..Len(s) /\ Ends(s[i])
    BY <1>1, <1>4 DEF Whole
  <2>2. i < Len(s) + Len(t) => t # <<>> /\ (s \o t)[i + 1] = t[1]
    <3>1. i < Len(s) + Len(t) => i + 1 \in 1..Len(s) + Len(t) /\ ~(i + 1 <= Len(s))
                                  /\ (i + 1) - Len(s) = 1 /\ Len(t) # 0
      BY <1>1, <1>4
    <3> QED  BY <3>1, <1>1, EmptySeq
  <2> QED  BY <2>1, <2>2
<1>5. CASE i > Len(s)
  <2> DEFINE j == i - Len(s)
  <2>1. j \in 1..Len(t) /\ (s \o t)[i] = t[j] /\ (i < Len(s) + Len(t) <=> j < Len(t))
    BY <1>1, <1>5
  <2>2. i < Len(s) + Len(t) => (s \o t)[i + 1] = t[j + 1]
    <3>1. i < Len(s) + Len(t) => i + 1 \in 1..Len(s) + Len(t) /\ ~(i + 1 <= Len(s))
                                  /\ (i + 1) - Len(s) = j + 1
      BY <1>1, <1>5
    <3> QED  BY <3>1, <1>1
  <2>3. IF Ends(t[j]) THEN j < Len(t) => Begins(t[j + 1])
        ELSE j < Len(t) /\ t[j + 1] = Continuation(t[j])
    BY <2>1 DEF Whole
  <2> HIDE DEF j
  <2> QED  BY <2>1, <2>2, <2>3
<1> QED  BY <1>1, <1>3, <1>4, <1>5

\* Taking the first byte of a concatenation takes it from the first part.
LEMMA TailConcat ==
    ASSUME NEW S, NEW s \in Seq(S), NEW t \in Seq(S), s # <<>>
    PROVE  /\ s \o t # <<>> /\ (s \o t)[1] = Head(s)
           /\ Tail(s \o t) = Tail(s) \o t
<1>1. /\ Len(s) \in Nat \ {0} /\ Len(t) \in Nat
      /\ Len(Tail(s)) = Len(s) - 1 /\ Tail(s) \in Seq(S)
      /\ \A i \in 1..Len(Tail(s)) : Tail(s)[i] = s[i + 1]
  BY HeadTailProperties, EmptySeq, LenProperties
<1>2. /\ s \o t \in Seq(S) /\ Len(s \o t) = Len(s) + Len(t)
      /\ \A i \in 1..Len(s) + Len(t) :
           (s \o t)[i] = IF i <= Len(s) THEN s[i] ELSE t[i - Len(s)]
  BY ConcatProperties
<1>3. /\ Tail(s) \o t \in Seq(S) /\ Len(Tail(s) \o t) = Len(s) - 1 + Len(t)
      /\ \A i \in 1..Len(s) - 1 + Len(t) :
           (Tail(s) \o t)[i] = IF i <= Len(s) - 1 THEN Tail(s)[i] ELSE t[i - (Len(s) - 1)]
  BY <1>1, ConcatProperties
<1>4. s \o t # <<>>
  BY <1>1, <1>2, EmptySeq
<1>5. (s \o t)[1] = Head(s)
  BY <1>1, <1>2
<1>6. /\ Tail(s \o t) \in Seq(S) /\ Len(Tail(s \o t)) = Len(s) + Len(t) - 1
      /\ \A i \in 1..Len(Tail(s \o t)) : Tail(s \o t)[i] = (s \o t)[i + 1]
  BY <1>2, <1>4, HeadTailProperties
<1>7. ASSUME NEW i \in 1..Len(Tail(s \o t))
      PROVE  Tail(s \o t)[i] = (Tail(s) \o t)[i]
  <2>1. i + 1 \in 1..Len(s) + Len(t) /\ i \in 1..Len(s) - 1 + Len(t)
    BY <1>1, <1>6
  <2>2. CASE i <= Len(s) - 1
    BY <1>1, <1>2, <1>3, <1>6, <2>1, <2>2
  <2>3. CASE ~(i <= Len(s) - 1)
    BY <1>1, <1>2, <1>3, <1>6, <2>1, <2>3
  <2> QED  BY <2>2, <2>3
<1>8. Tail(s \o t) = Tail(s) \o t
  BY <1>1, <1>3, <1>6, <1>7, SeqEqual
<1> QED  BY <1>4, <1>5, <1>8

\* What the musician writes at once.
LEMMA MessageWhole ==
    ASSUME NEW m \in Messages
    PROVE  LET s == [i \in 1..Length(m.op) |-> [of |-> m, pos |-> i]]
           IN  s \in Seq(Bytes) /\ s # <<>> /\ Whole(s) /\ Begins(s[1])
<1> DEFINE s == [i \in 1..Length(m.op) |-> [of |-> m, pos |-> i]]
<1>1. Length(m.op) \in {2, 3}
  BY DEF Length
<1>2. \A i \in 1..Length(m.op) : [of |-> m, pos |-> i] \in Bytes
  BY <1>1 DEF Bytes
<1>3. s \in Seq(Bytes) /\ Len(s) = Length(m.op) /\ \A i \in 1..Len(s) : s[i] = [of |-> m, pos |-> i]
  BY <1>1, <1>2
<1>4. ASSUME NEW i \in 1..Len(s)
      PROVE  IF Ends(s[i]) THEN i < Len(s) => Begins(s[i + 1])
             ELSE i < Len(s) /\ s[i + 1] = Continuation(s[i])
  <2>1. m.op # "stray"
    BY MessagesAssumption DEF Operations
  <2>2. [of |-> m, pos |-> i] # Stray
    BY <2>1 DEF Stray
  <2>3. Ends(s[i]) <=> i = Len(s)
    BY <1>3, <2>2 DEF Ends
  <2>4. i < Len(s) => s[i + 1] = Continuation(s[i])
    BY <1>1, <1>3 DEF Continuation
  <2> QED  BY <1>1, <1>3, <2>3, <2>4
<1>5. s # <<>> /\ Begins(s[1])
  BY <1>1, <1>3 DEF Begins
<1> QED  BY <1>3, <1>4, <1>5 DEF Whole

-------------------------------------------------------------------------------
(* The UART. *)

\* Reading RBR keeps the registers exact, and takes the first byte in flight if
\* one is queued.
LEMMA ReadRBRSound ==
    ASSUME UartTypeOK(Bytes), RegistersExact, ReadRBR, UNCHANGED <<reader_byte, pty>>
    PROVE  /\ UartTypeOK(Bytes)' /\ RegistersExact'
           /\ rx_fifo = <<>> => InFlight' = InFlight
           /\ rx_fifo # <<>> => /\ InFlight # <<>> /\ InFlight[1] = Head(rx_fifo)
                               /\ InFlight' = Tail(InFlight)
<1>1. /\ rx_fifo \in Seq(Bytes) /\ reader_byte \in Seq(Bytes) /\ pty \in Seq(Bytes)
      /\ interrupts \subseteq IrqIds /\ data_ready \in BOOLEAN
  BY DEF UartTypeOK
<1>2. rx_fifo' \in Seq(Bytes)
  BY <1>1, HeadTailProperties, EmptySeq DEF ReadRBR
<1>3. UartTypeOK(Bytes)'
  BY <1>1, <1>2 DEF UartTypeOK, ReadRBR, ReleaseInterrupt
<1>4. RegistersExact'
  BY DEF RegistersExact, ReadRBR, ReleaseInterrupt
<1>5. rx_fifo = <<>> => InFlight' = InFlight
  BY DEF InFlight, ReadRBR
<1>6. ASSUME rx_fifo # <<>>
      PROVE  /\ InFlight # <<>> /\ InFlight[1] = Head(rx_fifo)
             /\ InFlight' = Tail(InFlight)
  <2>1. Tail(rx_fifo) \in Seq(Bytes) /\ reader_byte \o pty \in Seq(Bytes)
    BY <1>1, <1>6, HeadTailProperties, ConcatProperties
  <2>2. /\ InFlight = rx_fifo \o (reader_byte \o pty)
        /\ Tail(rx_fifo) \o reader_byte \o pty = Tail(rx_fifo) \o (reader_byte \o pty)
    BY <1>1, <2>1, ConcatAssociative, SMTT(40) DEF InFlight
  <2>3. InFlight' = Tail(rx_fifo) \o reader_byte \o pty
    BY <1>6 DEF InFlight, ReadRBR
  <2> QED  BY <1>1, <1>6, <2>1, <2>2, <2>3, TailConcat
<1> QED  BY <1>3, <1>4, <1>5, <1>6

\* The reader thread moves a byte on, and neither loses nor overtakes one.
LEMMA ReaderSound ==
    ASSUME UartTypeOK(Bytes), RegistersExact, Reader
    PROVE  /\ UartTypeOK(Bytes)' /\ RegistersExact' /\ InFlight' = InFlight
           /\ rx_fifo # <<>> => rx_fifo' # <<>>
<1>1. /\ rx_fifo \in Seq(Bytes) /\ reader_byte \in Seq(Bytes) /\ pty \in Seq(Bytes)
      /\ interrupts \subseteq IrqIds /\ data_ready \in BOOLEAN
      /\ receive_enabled \in BOOLEAN /\ receive_id \in IrqIds \cup {NoIrq}
      /\ Len(reader_byte) <= 1
  BY DEF UartTypeOK
<1>2. CASE ReadPty
  <2>1. Head(pty) \in Bytes /\ Tail(pty) \in Seq(Bytes) /\ pty = <<Head(pty)>> \o Tail(pty)
    BY <1>1, <1>2, HeadTailProperties, EmptySeq DEF ReadPty
  <2>2. UartTypeOK(Bytes)'
    BY <1>1, <1>2, <2>1 DEF ReadPty, UartTypeOK, register_vars
  <2>3. RegistersExact' /\ rx_fifo' = rx_fifo
    BY <1>2 DEF ReadPty, RegistersExact, register_vars
  <2>4. InFlight' = InFlight
    <3>1. <<Head(pty)>> \in Seq(Bytes)
      BY <2>1
    <3>2. InFlight = rx_fifo \o (<<Head(pty)>> \o Tail(pty))
      BY <1>1, <1>2, <2>1, ConcatEmptySeq DEF InFlight, ReadPty
    <3>3. InFlight' = (rx_fifo \o <<Head(pty)>>) \o Tail(pty)
      BY <1>2, <2>3 DEF InFlight, ReadPty
    <3> QED  BY <1>1, <2>1, <3>1, <3>2, <3>3, ConcatAssociative
  <2> QED  BY <2>2, <2>3, <2>4
<1>3. CASE PushByte
  <2>1. rx_fifo' = rx_fifo \o reader_byte /\ reader_byte' = <<>> /\ pty' = pty /\ data_ready' = TRUE
        /\ receive_enabled' = receive_enabled
    BY <1>3 DEF PushByte
  <2>2. rx_fifo' \in Seq(Bytes) /\ rx_fifo' # <<>>
    <3>1. reader_byte # <<>>
      BY <1>3 DEF PushByte
    <3> QED  BY <1>1, <2>1, <3>1, ConcatProperties, ConcatEqualIffEmpty
  <2>3. /\ interrupts' \subseteq IrqIds /\ receive_id' \in IrqIds \cup {NoIrq}
        /\ interrupts' = {receive_id'} \ {NoIrq}
        /\ receive_id' # NoIrq => receive_enabled
    <3>1. CASE receive_enabled /\ receive_id = NoIrq
      <4>1. PICK fresh \in FreshIds({"rx"}) :
              receive_id' = fresh["rx"] /\ interrupts' = interrupts \cup {fresh["rx"]}
        BY <1>3, <3>1 DEF PushByte
      <4>2. fresh["rx"] \in IrqIds
        BY DEF FreshIds
      <4> QED  BY <1>1, <3>1, <4>1, <4>2, NoIrqAssumption DEF RegistersExact
    <3>2. CASE ~(receive_enabled /\ receive_id = NoIrq)
      BY <1>1, <1>3, <3>2 DEF PushByte, RegistersExact
    <3> QED  BY <3>1, <3>2
  <2>4. UartTypeOK(Bytes)' /\ RegistersExact'
    <3>1. <<>> \in Seq(Bytes) /\ Len(<<>>) <= 1
      OBVIOUS
    <3> QED  BY <1>1, <2>1, <2>2, <2>3, <3>1 DEF UartTypeOK, RegistersExact
  <2>5. InFlight' = InFlight
    BY <1>1, <2>1, <2>2, ConcatEmptySeq DEF InFlight
  <2> QED  BY <2>2, <2>4, <2>5
<1> QED  BY <1>2, <1>3 DEF Reader

\* What is written to the terminal comes last.
LEMMA WriteSound ==
    ASSUME UartTypeOK(Bytes), NEW written \in Seq(Bytes), pty' = pty \o written,
           UNCHANGED <<rx_fifo, reader_byte>>, Whole(InFlight), Whole(written),
           written # <<>> => Begins(written[1])
    PROVE  /\ InFlight \in Seq(Bytes) /\ pty' \in Seq(Bytes)
           /\ InFlight' = InFlight \o written /\ Whole(InFlight')
<1>1. /\ rx_fifo \in Seq(Bytes) /\ reader_byte \in Seq(Bytes) /\ pty \in Seq(Bytes)
      /\ rx_fifo \o reader_byte \in Seq(Bytes) /\ InFlight \in Seq(Bytes)
  BY ConcatProperties DEF UartTypeOK, InFlight
<1>2. pty' \in Seq(Bytes)
  BY <1>1, ConcatProperties
<1>3. InFlight' = InFlight \o written
  <2> DEFINE front == rx_fifo \o reader_byte
  <2>1. InFlight' = front \o (pty \o written) /\ InFlight = front \o pty
    BY DEF InFlight
  <2>2. front \in Seq(Bytes)
    BY <1>1
  <2> HIDE DEF front
  <2>3. (front \o pty) \o written = front \o (pty \o written)
    <3>1. pty \in Seq(Bytes) /\ written \in Seq(Bytes)
      BY <1>1
    <3> QED  BY <2>2, <3>1, ConcatAssociative
  <2> QED  BY <2>1, <2>3
<1> QED  BY <1>1, <1>2, <1>3, WholeConcat

-------------------------------------------------------------------------------
(* The parser. *)

\* Fetching a byte keeps it: what is taken for an argument is the next byte of
\* the message that was begun, and what begins none is dropped.
LEMMA FetchSound ==
    ASSUME UartSound, StreamSound, FetchByte
    PROVE  StreamSound'
<1> DEFINE byte == Head(rx_fifo)
           more == IF received = <<>> /\ byte.pos # 1 THEN <<>> ELSE Append(received, byte)
<1>1. /\ pc = "fetch" /\ ReadRBR /\ UNCHANGED <<reader_byte, pty>>
      /\ received' = more
      /\ pc' = IF more # <<>> /\ Len(more) = Length(more[1].of.op) THEN "handle" ELSE "wait"
  BY DEF FetchByte
<1>2. /\ rx_fifo # <<>> /\ UartTypeOK(Bytes) /\ RegistersExact
      /\ InFlight # <<>> /\ InFlight[1] = byte /\ InFlight' = Tail(InFlight)
  BY <1>1, ReadRBRSound DEF UartSound
<1>3. InFlight \in Seq(Bytes) /\ byte \in Bytes /\ received \in Seq(Bytes)
  BY <1>2, HeadTailProperties, ConcatProperties DEF UartTypeOK, InFlight, StreamSound
<1>4. Whole(InFlight') /\ InFlight' \in Seq(Bytes)
  BY <1>2, <1>3, WholeTail, HeadTailProperties DEF StreamSound
<1>5. Len(InFlight) \in Nat \ {0}
  BY <1>2, <1>3, EmptySeq
<1>6. IF Ends(byte) THEN TRUE
      ELSE InFlight' # <<>> /\ InFlight'[1] = Continuation(byte)
  <2>1. ASSUME ~Ends(byte) PROVE 1 < Len(InFlight) /\ InFlight[2] = Continuation(byte)
    BY <1>2, <1>5, <2>1 DEF StreamSound, Whole
  <2>2. /\ Len(InFlight') = Len(InFlight) - 1
        /\ \A i \in 1..Len(InFlight') : InFlight'[i] = InFlight[i + 1]
    BY <1>2, <1>3, HeadTailProperties
  <2>3. ASSUME 1 < Len(InFlight) PROVE InFlight' # <<>> /\ InFlight'[1] = InFlight[2]
    BY <1>4, <1>5, <2>2, <2>3, EmptySeq
  <2> QED  BY <2>1, <2>3
<1>7. CASE received = <<>> /\ byte.pos # 1
  BY <1>1, <1>4, <1>7 DEF StreamSound, WholeMessages
<1>8. CASE ~(received = <<>> /\ byte.pos # 1)
  <2>1. more = Append(received, byte) /\ more # <<>> /\ more \in Seq(Bytes)
        /\ Len(received) \in Nat /\ Len(more) = Len(received) + 1
        /\ more[Len(received) + 1] = byte
        /\ \A i \in 1..Len(received) : more[i] = received[i]
    BY <1>3, <1>8
  <2>2. /\ byte.of = more[1].of /\ byte.pos = Len(more) /\ more[1].of \in Messages
        /\ Len(more) <= Length(more[1].of.op)
        /\ byte = [of |-> more[1].of, pos |-> Len(more)]
    <3>1. CASE received = <<>>
      <4>1. byte.pos = 1 /\ Len(more) = 1 /\ more[1] = byte
        BY <1>8, <2>1, <3>1
      <4>2. PICK m \in Messages : \E i \in 1..3 : byte = [of |-> m, pos |-> i]
        BY <1>3, <4>1 DEF Bytes, Stray
      <4> QED  BY <4>1, <4>2 DEF Length
    <3>2. CASE received # <<>>
      <4>1. more[1] = received[1] /\ Len(received) >= 1
        BY <1>3, <2>1, <3>2, EmptySeq
      <4>2. /\ byte = [of |-> received[1].of, pos |-> Len(received) + 1]
            /\ received[1].of \in Messages /\ Len(received) < Length(received[1].of.op)
        BY <1>1, <1>2, <3>2 DEF StreamSound
      <4> QED  BY <2>1, <4>1, <4>2 DEF Length
    <3> QED  BY <3>1, <3>2
  <2>3. \A i \in DOMAIN more : more[i] = [of |-> more[1].of, pos |-> i]
    <3>1. DOMAIN more = 1..Len(received) + 1 /\ DOMAIN received = 1..Len(received)
      BY <2>1, <1>3, LenProperties
    <3>2. ASSUME NEW i \in 1..Len(received) PROVE more[i] = [of |-> more[1].of, pos |-> i]
      <4>1. 1 \in 1..Len(received)
        BY <2>1
      <4> QED  BY <2>1, <3>1, <4>1 DEF StreamSound, WholeMessages
    <3> QED  BY <2>1, <2>2, <3>1, <3>2
  <2>4. Ends(byte) <=> Len(more) = Length(more[1].of.op)
    <3>1. more[1].of.op # "stray"
      BY <2>2, MessagesAssumption DEF Operations
    <3> QED  BY <2>2, <3>1 DEF Ends, Stray
  <2>5. ASSUME pc' # "handle"
        PROVE  /\ Len(more) < Length(more[1].of.op)
               /\ InFlight' # <<>>
               /\ InFlight'[1] = [of |-> more[1].of, pos |-> Len(more) + 1]
    BY <1>1, <1>6, <2>1, <2>2, <2>4, <2>5 DEF Continuation, Length
  <2>6. WholeMessages'
    BY <1>1, <2>3 DEF WholeMessages
  <2>7. pc' \in {"wait", "handle"} /\ (pc' = "handle" => Len(more) = Length(more[1].of.op))
    BY <1>1, <2>1
  <2> HIDE DEF byte, more
  <2> QED  BY <1>1, <1>4, <2>1, <2>2, <2>5, <2>6, <2>7 DEF StreamSound
<1> QED  BY <1>7, <1>8

\* The message that is handled is one that was sent, with its own data.
LEMMA HandledSent ==
    ASSUME StreamSound, pc = "handle"
    PROVE  /\ received[1].of \in Messages
           /\ received[Argument(received[1].of.op)].of = received[1].of
<1>1. received \in Seq(Bytes) /\ received # <<>> /\ Len(received) = Length(received[1].of.op)
      /\ received[1].of \in Messages
  BY DEF StreamSound
<1>2. Argument(received[1].of.op) \in DOMAIN received
  BY <1>1, LenProperties DEF Argument, Length
<1> QED  BY <1>1, <1>2 DEF StreamSound, WholeMessages

-------------------------------------------------------------------------------
(* The voice allocator. *)

\* The tables after a step of it, whatever voices it has chosen.
VoicesKept == VoiceTypes' /\ NoHangingNote' /\ SetUpRight'

\* A drum is never taken for a channel, nor for the mark of no channel.
LEMMA DrumsApart ==
    ASSUME NEW d \in Drums
    PROVE  /\ d \in 35..87 /\ d \notin MidiChannels /\ d # NoChannel
           /\ DrumNote[d] \in 1..127 /\ 128 + d \in Instruments
<1>1. PICK m \in Messages : m.channel = MIDI_RHYTHM_CHANNEL /\ m.op = "play" /\ m.data = d
  BY DEF Drums
<1>2. d \in 35..87
  BY <1>1, MessagesAssumption
<1> QED  BY <1>2, DrumNoteAssumption DEF MidiChannels, NoChannel, Instruments

\* A note is started on a voice, which may be the only one that changes its
\* channel, or on none.
LEMMA StartSound ==
    ASSUME VoiceTypes, NoHangingNote, SetUpRight,
           NEW w, NEW c \in 0..255, NEW note \in 0..127, NEW i \in Instruments,
           \/ c \in MidiChannels /\ i = instrument_of[c]
           \/ c \in Drums /\ i = 128 + c,
           StartVoice(w, c, note, i), UNCHANGED instrument_of
    PROVE  VoicesKept
<1>1. VoiceTypes'
  <2>1. table' \in [Voices -> [channel : 0..255, note : 0..127]]
    BY DEF StartVoice, VoiceTypes
  <2>2. loaded' \in [Voices -> Loads] /\ feedback' \in [Voices -> Loads]
    BY DEF StartVoice, LoadInstrument, VoiceTypes, Loads
  <2>3. key' \in [Voices -> 0..127]
    <3> DEFINE silenced(a) == [key EXCEPT ![a] = Silent]
    <3>1. key \in [Voices -> 0..127] /\ Silent \in 0..127
      BY DEF VoiceTypes, Silent
    <3>2. \A a : silenced(a) \in [Voices -> 0..127]
      BY <3>1
    <3>3. key' = [silenced(Attenuated(w)) EXCEPT ![w] = note]
      BY DEF StartVoice
    <3> QED  BY <3>2, <3>3
  <2> QED  BY <2>1, <2>2, <2>3 DEF VoiceTypes
<1>2. NoHangingNote'
  BY DEF StartVoice, VoiceTypes, NoHangingNote, Silent
<1>3. ASSUME NEW v \in Voices
      PROVE  (\/ table[v].channel = NoChannel
              \/ table[v].channel \in MidiChannels /\ Loaded(v, instrument_of[table[v].channel])
              \/ table[v].channel \in Drums /\ Loaded(v, 128 + table[v].channel))'
  <2>1. CASE v # w
    <3>1. table'[v] = table[v] /\ loaded'[v] = loaded[v] /\ feedback'[v] = feedback[v]
      BY <2>1 DEF StartVoice, LoadInstrument, VoiceTypes
    <3> QED  BY <3>1 DEF SetUpRight, Loaded
  <2>2. CASE v = w /\ v \notin SetUpFor(c)
    <3>1. table'[v].channel = c /\ Loaded(v, i)'
      BY <2>2 DEF StartVoice, LoadInstrument, Loaded, VoiceTypes
    <3> QED  BY <3>1 DEF Loaded
  <2>3. CASE v = w /\ v \in SetUpFor(c)
    <3>1. /\ table'[v].channel = c /\ table[v].channel = c
          /\ loaded'[v] = loaded[v] /\ feedback'[v] = feedback[v]
      BY <2>3 DEF StartVoice, VoiceTypes, SetUpFor
    <3>2. c \in Drums => c \notin MidiChannels /\ c # NoChannel
      BY DrumsApart
    <3>3. c \in MidiChannels => c # NoChannel
      BY DEF MidiChannels, NoChannel
    <3> QED  BY <3>1, <3>2, <3>3 DEF SetUpRight, Loaded
  <2> QED  BY <2>1, <2>2, <2>3
<1> QED  BY <1>1, <1>2, <1>3 DEF VoicesKept, SetUpRight

\* Stopping any voices frees and silences them alike.
LEMMA StopSound ==
    ASSUME VoiceTypes, NoHangingNote, SetUpRight, NEW stopped, StopVoices(stopped)
    PROVE  VoicesKept
<1>1. VoiceTypes'
  BY DEF StopVoices, VoiceTypes, Silent
<1>2. NoHangingNote'
  BY DEF StopVoices, VoiceTypes, NoHangingNote, Silent
<1>3. \A v \in Voices : table'[v].channel = table[v].channel
  BY DEF StopVoices, VoiceTypes
<1> QED  BY <1>1, <1>2, <1>3 DEF VoicesKept, SetUpRight, Loaded, StopVoices

\* A channel that changes its instrument leaves no voice set up for it.
LEMMA ChangeSound ==
    ASSUME VoiceTypes, NoHangingNote, SetUpRight,
           NEW c \in MidiChannels, NEW p \in 0..127, ChangeProgram(c, p)
    PROVE  VoicesKept
<1>1. \A v \in Voices :
        IF table[v].channel = c THEN table'[v] = [channel |-> NoChannel, note |-> Silent]
                                ELSE table'[v] = table[v]
  BY DEF ChangeProgram, SetUpFor
<1>2. VoiceTypes'
  <2>1. table' \in [Voices -> [channel : 0..255, note : 0..127]]
    BY DEF ChangeProgram, VoiceTypes, NoChannel, Silent
  <2>2. instrument_of' \in [MidiChannels -> Instruments] /\ UNCHANGED <<loaded, feedback>>
    BY DEF ChangeProgram, VoiceTypes, Instruments
  <2>3. key' \in [Voices -> 0..127]
    BY DEF ChangeProgram, VoiceTypes, Silent
  <2> QED  BY <2>1, <2>2, <2>3 DEF VoiceTypes
<1>3. NoHangingNote'
  BY <1>1 DEF ChangeProgram, SetUpFor, Free, VoiceTypes, NoHangingNote, Silent
<1>4. \A x \in MidiChannels : x # c => instrument_of'[x] = instrument_of[x]
  BY DEF ChangeProgram, VoiceTypes
<1>5. SetUpRight'
  BY <1>1, <1>4 DEF SetUpRight, Loaded, ChangeProgram
<1> QED  BY <1>2, <1>3, <1>5 DEF VoicesKept

\* Every message that was sent is handled so.
LEMMA HandleSound ==
    ASSUME VoiceTypes, NoHangingNote, SetUpRight, NEW m \in Messages, Handle(m, m.data)
    PROVE  VoicesKept
<1> DEFINE rhythm == m.channel = MIDI_RHYTHM_CHANNEL
<1>1. /\ m.op \in Operations /\ m.channel \in MidiChannels /\ m.channel \in 0..255
      /\ m.data \in 0..127
  BY MessagesAssumption DEF MidiChannels
<1>2. UNCHANGED voice_vars => VoicesKept
  BY DEF voice_vars, VoicesKept, VoiceTypes, NoHangingNote, SetUpRight, Loaded
<1>3. CASE m.op = "play" /\ ~rhythm
  <2>1. PlayMelodic(m.channel, m.data)
    BY <1>3 DEF Handle
  <2>2. CASE Free = {}
    BY <1>2, <2>1, <2>2 DEF PlayMelodic, voice_vars
  <2>3. CASE Free # {}
    <3>1. PICK w : StartVoice(w, m.channel, m.data, instrument_of[m.channel])
      BY <2>1, <2>3 DEF PlayMelodic
    <3>2. instrument_of[m.channel] \in Instruments /\ UNCHANGED instrument_of
      BY <1>1, <2>1 DEF VoiceTypes, PlayMelodic
    <3> QED  BY <1>1, <3>1, <3>2, StartSound
  <2> QED  BY <2>2, <2>3
<1>4. CASE m.op = "play" /\ rhythm
  <2>1. PlayRhythm(m.data) /\ m.data \in Drums
    BY <1>4 DEF Handle, Drums
  <2>2. CASE Free = {}
    BY <1>2, <2>1, <2>2 DEF PlayRhythm, voice_vars
  <2>3. CASE Free # {}
    <3>1. PICK w : StartVoice(w, m.data, DrumNote[m.data], 128 + m.data)
      BY <2>1, <2>3 DEF PlayRhythm
    <3>2. DrumNote[m.data] \in 0..127 /\ 128 + m.data \in Instruments /\ m.data \in 0..255
      BY <1>1, <2>1, DrumsApart
    <3>3. UNCHANGED instrument_of
      BY <2>1 DEF PlayRhythm
    <3> QED  BY <2>1, <3>1, <3>2, <3>3, StartSound
  <2> QED  BY <2>2, <2>3
<1>5. CASE m.op = "stop"
  <2>1. \E stopped : StopVoices(stopped)
    BY <1>5 DEF Handle, StopMelodic, StopRhythm
  <2> QED  BY <2>1, StopSound
<1>6. CASE m.op \in {"program", "instrument"}
  BY <1>1, <1>6, ChangeSound DEF Handle
<1>7. CASE m.op = "silence"
  <2>1. \E stopped : StopVoices(stopped)
    BY <1>7 DEF Handle, SilenceChannel
  <2> QED  BY <2>1, StopSound
<1>8. CASE m.op \in {"pressure", "bend"}
  BY <1>2, <1>8 DEF Handle
<1> QED  BY <1>1, <1>3, <1>4, <1>5, <1>6, <1>7, <1>8 DEF Operations

-------------------------------------------------------------------------------
(* The steps. *)

LEMMA InitSound == Init => IInv
<1> SUFFICES ASSUME Init PROVE IInv
  OBVIOUS
<1>1. PICK back \in Echoes : UartInit(back)
  BY DEF Init
<1>2. back \in Seq(Bytes) /\ Whole(back)
  <2>1. Stray \in Bytes /\ Ends(Stray)
    BY DEF Bytes, Ends
  <2>2. CASE back = <<>>
    BY <2>2 DEF Whole
  <2>3. CASE back = <<Stray>>
    <3>1. Len(back) = 1 /\ back[1] = Stray
      BY <2>3
    <3> QED  BY <2>1, <2>3, <3>1 DEF Whole
  <2> QED  BY <2>2, <2>3 DEF Echoes
<1>3. UartSound
  <2>1. <<>> \in Seq(Bytes) /\ Len(<<>>) <= 1
    OBVIOUS
  <2> QED  BY <1>1, <1>2, <2>1 DEF Init, UartInit, UartSound, UartTypeOK, RegistersExact
<1>4. StreamSound
  <2>1. InFlight = back
    BY <1>1, <1>2, ConcatEmptySeq DEF UartInit, InFlight
  <2> QED  BY <1>2, <2>1 DEF Init, StreamSound, WholeMessages
<1>5. VoicesSound /\ struck \subseteq Drums
  BY DEF Init, VoicesSound, VoiceTypes, Loads, NoHangingNote, Instruments, Silent
<1> QED  BY <1>3, <1>4, <1>5 DEF IInv

\* A whole message, or an echo, is written behind what is in flight.
LEMMA WriteKeeps ==
    ASSUME UartSound, StreamSound, NEW written \in Seq(Bytes), pty' = pty \o written,
           UNCHANGED <<rx_fifo, reader_byte>>, Whole(written),
           written # <<>> => Begins(written[1]),
           \/ UNCHANGED <<pc, received>>
           \/ pc' = "other" /\ received' = <<>>
    PROVE  StreamSound' /\ pty' \in Seq(Bytes)
<1>1. /\ InFlight \in Seq(Bytes) /\ pty' \in Seq(Bytes)
      /\ InFlight' = InFlight \o written /\ Whole(InFlight')
  BY WriteSound DEF UartSound, StreamSound
<1>2. CASE pc' = "other" /\ received' = <<>>
  BY <1>1, <1>2 DEF StreamSound, WholeMessages
<1>3. CASE UNCHANGED <<pc, received>>
  <2>1. InFlight # <<>> => InFlight' # <<>> /\ InFlight'[1] = InFlight[1]
    BY <1>1, TailConcat, HeadTailProperties
  <2> QED  BY <1>1, <1>3, <2>1 DEF StreamSound, WholeMessages
<1> QED  BY <1>2, <1>3

\* A CPU that is reset, in mid-message or not, forgets the message and silences
\* the OPL3.
LEMMA ResetSound == IInv /\ Reset => IInv'
<1> SUFFICES ASSUME IInv, Reset PROVE IInv'
  OBVIOUS
<1>1. PICK back \in Echoes : pty' = pty \o back
  BY DEF Reset
<1>2. back \in Seq(Bytes) /\ Whole(back) /\ (back # <<>> => Begins(back[1]))
  <2>1. Stray \in Bytes /\ Ends(Stray) /\ Begins(Stray)
    BY DEF Bytes, Ends, Begins
  <2>2. CASE back = <<>>
    BY <2>2 DEF Whole
  <2>3. CASE back = <<Stray>>
    <3>1. Len(back) = 1 /\ back[1] = Stray
      BY <2>3
    <3> QED  BY <2>1, <2>3, <3>1 DEF Whole
  <2> QED  BY <2>2, <2>3 DEF Echoes
<1>3. StreamSound' /\ pty' \in Seq(Bytes)
  BY <1>1, <1>2, WriteKeeps DEF IInv, Reset
<1>4. UartSound'
  BY <1>3 DEF IInv, Reset, ReleaseInterrupt, UartSound, UartTypeOK, RegistersExact
<1>5. VoicesSound' /\ struck' \subseteq Drums
  BY DEF IInv, Reset, ResetTables, LoadInstrument, VoicesSound, VoiceTypes, Loads, NoHangingNote,
         Instruments, Silent, Voices
<1> QED  BY <1>3, <1>4, <1>5 DEF IInv

LEMMA OtherProgramSound == IInv /\ OtherProgram => IInv'
<1> SUFFICES ASSUME IInv, OtherProgram PROVE IInv'
  OBVIOUS
<1>1. /\ pc = "other" /\ UNCHANGED <<reader_byte, pty, struck, synth_vars>>
      /\ ReadRBR \/ \E enable \in BOOLEAN : WriteIER(enable)
  BY DEF OtherProgram
<1>2. UartTypeOK(Bytes)' /\ RegistersExact' /\ Whole(InFlight')
  <2>1. CASE ReadRBR
    <3>1. InFlight \in Seq(Bytes)
      BY ConcatProperties DEF IInv, UartSound, UartTypeOK, InFlight
    <3> QED  BY <1>1, <2>1, <3>1, ReadRBRSound, WholeTail DEF IInv, UartSound, StreamSound
  <2>2. CASE \E enable \in BOOLEAN : WriteIER(enable)
    <3>1. PICK enable \in BOOLEAN : WriteIER(enable)
      BY <2>2
    <3>2. InFlight' = InFlight
      BY <1>1, <3>1 DEF WriteIER, InFlight
    <3>3. UartTypeOK(Bytes)'
      BY <1>1, <3>1 DEF WriteIER, ReleaseInterrupt, IInv, UartSound, UartTypeOK
    <3>4. RegistersExact'
      BY <3>1 DEF WriteIER, ReleaseInterrupt, IInv, UartSound, RegistersExact
    <3> QED  BY <3>2, <3>3, <3>4 DEF IInv, StreamSound
  <2> QED  BY <1>1, <2>1, <2>2
<1>3. UartSound' /\ StreamSound'
  BY <1>1, <1>2 DEF IInv, UartSound, StreamSound, WholeMessages, synth_vars
<1>4. VoicesSound' /\ struck' \subseteq Drums
  BY <1>1 DEF IInv, VoicesSound, VoiceTypes, NoHangingNote, SetUpRight, Loaded,
         synth_vars, voice_vars
<1> QED  BY <1>3, <1>4 DEF IInv

LEMMA StartSynthSound == IInv /\ Start => IInv'
<1> SUFFICES ASSUME IInv, Start PROVE IInv'
  OBVIOUS
<1>1. UartSound' /\ StreamSound'
  BY DEF IInv, Start, UartSound, UartTypeOK, RegistersExact, StreamSound, WholeMessages,
         InFlight, uart_vars, register_vars
<1>2. VoicesSound' /\ struck' \subseteq Drums
  BY DEF IInv, Start, ResetTables, LoadInstrument, VoicesSound, VoiceTypes, Loads,
         NoHangingNote, SetUpRight, Loaded,
         Instruments, MidiChannels, Silent
<1> QED  BY <1>1, <1>2 DEF IInv

LEMMA SynthSound == IInv /\ Synth => IInv'
<1> SUFFICES ASSUME IInv, Synth PROVE IInv'
  OBVIOUS
<1>1. CASE SeeStatus
  <2>1. UartSound' /\ StreamSound'
    BY <1>1 DEF IInv, SeeStatus, UartSound, UartTypeOK, RegistersExact, StreamSound,
                WholeMessages, InFlight, uart_vars, register_vars
  <2>2. VoicesSound' /\ struck' \subseteq Drums
    BY <1>1 DEF IInv, SeeStatus, VoicesSound, VoiceTypes, NoHangingNote, SetUpRight, Loaded,
           voice_vars
  <2> QED  BY <2>1, <2>2 DEF IInv
<1>2. CASE FetchByte
  <2>1. StreamSound'
    BY <1>2, FetchSound DEF IInv
  <2>2. UartSound'
    BY <1>2, ReadRBRSound DEF IInv, UartSound, FetchByte
  <2>3. VoicesSound' /\ struck' \subseteq Drums
    BY <1>2 DEF IInv, FetchByte, VoicesSound, VoiceTypes, NoHangingNote, SetUpRight, Loaded,
           voice_vars
  <2> QED  BY <2>1, <2>2, <2>3 DEF IInv
<1>3. CASE HandleMessage
  <2> DEFINE m == received[1].of
  <2>1. m \in Messages /\ Handle(m, m.data)
    BY <1>3, HandledSent DEF IInv, HandleMessage
  <2>2. VoicesKept
    <3> HIDE DEF m
    <3> QED  BY <1>3, <2>1, HandleSound DEF IInv, VoicesSound, HandleMessage
  <2>3. VoicesSound' /\ struck' \subseteq Drums
    BY <1>3, <2>2 DEF IInv, VoicesSound, VoicesKept, HandleMessage
  <2>4. UartSound' /\ StreamSound'
    BY <1>3 DEF IInv, HandleMessage, UartSound, UartTypeOK, RegistersExact, StreamSound,
                WholeMessages, InFlight, uart_vars, register_vars
  <2> QED  BY <2>3, <2>4 DEF IInv
<1> QED  BY <1>1, <1>2, <1>3 DEF Synth

LEMMA MusicianSound == IInv /\ Musician => IInv'
<1> SUFFICES ASSUME IInv, NEW m \in Messages, Send(m) PROVE IInv'
  BY DEF Musician
<1> DEFINE written == [i \in 1..Length(m.op) |-> [of |-> m, pos |-> i]]
<1>1. pty' = pty \o written /\ UNCHANGED <<register_vars, reader_byte, synth_vars>>
  BY DEF Send, WriteMessage
<1>2. written \in Seq(Bytes) /\ written # <<>> /\ Whole(written) /\ Begins(written[1])
  BY MessageWhole
<1>3. StreamSound' /\ pty' \in Seq(Bytes)
  <2> HIDE DEF written
  <2> QED  BY <1>1, <1>2, WriteKeeps DEF IInv, register_vars, synth_vars
<1>4. UartSound'
  BY <1>1, <1>3 DEF IInv, UartSound, UartTypeOK, RegistersExact, register_vars, synth_vars
<1>5. VoicesSound'
  BY <1>1 DEF IInv, VoicesSound, VoiceTypes, NoHangingNote, SetUpRight, Loaded,
         synth_vars, voice_vars
<1>6. struck' \subseteq Drums
  BY DEF IInv, Send, Drums
<1> QED  BY <1>3, <1>4, <1>5, <1>6 DEF IInv

LEMMA ReaderThreadSound == IInv /\ ReaderThread => IInv'
<1> SUFFICES ASSUME IInv, ReaderThread PROVE IInv'
  OBVIOUS
<1>1. /\ UartTypeOK(Bytes)' /\ RegistersExact' /\ InFlight' = InFlight
      /\ rx_fifo # <<>> => rx_fifo' # <<>>
      /\ UNCHANGED <<struck, synth_vars>>
  BY ReaderSound DEF IInv, UartSound, ReaderThread
<1>2. UartSound' /\ StreamSound'
  BY <1>1 DEF IInv, UartSound, StreamSound, WholeMessages, synth_vars
<1>3. VoicesSound' /\ struck' \subseteq Drums
  BY <1>1 DEF IInv, VoicesSound, VoiceTypes, NoHangingNote, SetUpRight, Loaded,
         synth_vars, voice_vars
<1> QED  BY <1>2, <1>3 DEF IInv

LEMMA Inductive == IInv /\ [Next]_vars => IInv'
<1> SUFFICES ASSUME IInv, [Next]_vars PROVE IInv'
  OBVIOUS
<1>1. CASE UNCHANGED vars
  BY <1>1 DEF IInv, UartSound, UartTypeOK, RegistersExact, StreamSound, WholeMessages, InFlight,
              VoicesSound, VoiceTypes, NoHangingNote, SetUpRight, Loaded,
              vars, uart_vars, register_vars, synth_vars, voice_vars
<1> QED  BY <1>1, ResetSound, OtherProgramSound, StartSynthSound, SynthSound, MusicianSound,
            ReaderThreadSound DEF Next

-------------------------------------------------------------------------------
(* The theorems. *)

\* IInv holds in every reachable state.
THEOREM Invariance == Spec => []IInv
  BY InitSound, Inductive, PTL DEF Spec

\* Every variable keeps to its type (the members of TL16C2550 and the tables of
\* midi.inc).
THEOREM TypeCorrectness == Spec => []TypeOK
<1>1. IInv => TypeOK
  BY DEF IInv, UartSound, StreamSound, VoicesSound, VoiceTypes, Loads, TypeOK
<1> QED  BY <1>1, Invariance, PTL

\* The status bit and the interrupt say what is queued, whatever the two threads
\* do between each other's critical sections (tl16c2550.cc).
THEOREM RegistersCorrect == Spec => []RegistersExact
<1>1. IInv => RegistersExact
  BY DEF IInv, UartSound
<1> QED  BY <1>1, Invariance, PTL

\* The parser of midi_synth.s never puts a message together from two, in whatever
\* state a reset or another program has left the queue.
THEOREM MessagesWhole == Spec => []WholeMessages
<1>1. IInv => WholeMessages
  BY DEF IInv, StreamSound
<1> QED  BY <1>1, Invariance, PTL

\* An OPL3 channel that sounds stands in the table with its note, so that the
\* message that ends the note finds it (midi.inc, midi_stop_note).
THEOREM NoNoteHangs == Spec => []NoHangingNote
<1>1. IInv => NoHangingNote
  BY DEF IInv, VoicesSound
<1> QED  BY <1>1, Invariance, PTL

\* A voice that is set up for a channel or a drum has its instrument, however
\* voices were taken over and programs changed (midi.inc, midi_play_note): all of it
\* in the first register array, all but feedback and connection in the second, where
\* sound_load_instrument does not reach them (sound.inc:265).
THEOREM InstrumentsRight == Spec => []RightInstrument
<1>1. IInv => RightInstrument
  BY DEF IInv, VoicesSound, SetUpRight, RightInstrument
<1> QED  BY <1>1, Invariance, PTL

-------------------------------------------------------------------------------
(* The refinement.  A bag of notes hides which voice plays which, so a drum  *)
(* must not have two: stop_rhythm would stop one of them twice.  What keeps  *)
(* it from that is the musician's discipline, and the invariant follows a    *)
(* drum's notes from there through the bytes in flight to the table.         *)

\* What the synthesizer has yet to handle, and its bytes that begin a drum's note
\* or end it.
Pending == received \o InFlight
Strikes(b, d) ==
    /\ b.pos = 1 /\ b.of.channel = MIDI_RHYTHM_CHANNEL
    /\ b.of.op = "play" /\ b.of.data = d
Releases(b, d) ==
    /\ b.pos = 1 /\ b.of.channel = MIDI_RHYTHM_CHANNEL
    /\ b.of.op = "silence" \/ (b.of.op = "stop" /\ b.of.data = d)

\* A drum's notes in the order of time: the one that plays is before all that is
\* pending, and the one the musician may send is after it.
Playing(d) == \E v \in Voices \ Free : table[v].channel = d
StrikeAt(d, i) ==
    \/ i = 0 /\ Playing(d)
    \/ i \in 1..Len(Pending) /\ Strikes(Pending[i], d)
    \/ i = Len(Pending) + 1 /\ d \notin struck
ReleaseAt(d, i) == i \in 1..Len(Pending) /\ Releases(Pending[i], d)

\* Between two of them the drum is released.
OneAtATime ==
    \A d \in Drums : \A i, j \in Nat :
        i < j /\ StrikeAt(d, i) /\ StrikeAt(d, j) =>
            \E k \in i + 1..j - 1 : ReleaseAt(d, k)

\* The tables: empty while other software runs; a voice that plays has the note of a
\* message, and a drum has one voice.
Empty == [v \in Voices |-> [channel |-> 0, note |-> Silent]]
TableSound ==
    /\ pc = "other" => table = Empty /\ instrument_of = [c \in MidiChannels |-> 0]
    /\ \A v \in Voices \ Free :
         \/ table[v].channel \in Drums
         \/ /\ table[v].channel # MIDI_RHYTHM_CHANNEL
            /\ <<table[v].channel, table[v].note>> \in PlayedKeys
    /\ \A d \in Drums : \A u, v \in SetUpFor(d) : u = v

\* The note that a voice plays.
KeyOf(v) ==
    IF table[v].channel \in Drums THEN <<MIDI_RHYTHM_CHANNEL, table[v].channel>>
                                  ELSE <<table[v].channel, table[v].note>>

\* The abstract state.
Sounding == [k \in PlayedKeys |-> Cardinality(VoicesOf(k))]
Program == [c \in {m.channel : m \in Messages} |-> instrument_of[c]]
Request == IF pc = "handle" THEN received[1].of ELSE Stray.of

-------------------------------------------------------------------------------
(* Voices and notes. *)

\* A set of voices has a lowest one and a highest one.
LEMMA SmallestOf ==
    ASSUME NEW S \in SUBSET Nat, S # {}
    PROVE  \E x \in S : \A y \in S : x <= y
<1>1. \E x \in S : \A y \in S : ~ (<<y, x>> \in OpToRel(<, Nat))
  BY NatLessThanWellFounded, WFMin
<1>2. PICK x \in S : \A y \in S : ~ (<<y, x>> \in OpToRel(<, Nat))
  BY <1>1
<1>3. ASSUME NEW y \in S PROVE ~ (y < x)
  <2>1. <<y, x>> \in Nat \X Nat
    OBVIOUS
  <2>2. <<y, x>> \notin OpToRel(<, Nat)
    BY <1>2
  <2> QED  BY <2>1, <2>2, Zenon DEF OpToRel
<1>4. \A y \in S : x <= y
  BY <1>3
<1> QED  BY <1>4

\* What Min and Max choose among voices is one of them.
LEMMA MinMax ==
    ASSUME NEW S \in SUBSET Voices, S # {}
    PROVE  Min(S) \in S /\ Max(S) \in S
<1>1. S \in SUBSET Nat /\ \A x \in S : x < NumVoices /\ NumVoices \in Nat
  BY VoicesAssumption DEF Voices
<1>2. \E x \in S : \A y \in S : x <= y
  BY <1>1, SmallestOf
<1>3. \E x \in S : \A y \in S : x >= y
  <2> DEFINE T == {n \in Nat : \E x \in S : n = NumVoices - x}
  <2>1. T \in SUBSET Nat /\ T # {}
    <3>1. PICK x \in S : TRUE
      OBVIOUS
    <3>2. NumVoices - x \in T
      BY <1>1
    <3> QED  BY <3>2
  <2>2. PICK n \in T : \A m \in T : n <= m
    <3> HIDE DEF T
    <3> QED  BY <2>1, SmallestOf
  <2>3. PICK x \in S : n = NumVoices - x
    BY <2>2
  <2>4. ASSUME NEW y \in S PROVE x >= y
    <3>1. NumVoices - y \in T
      BY <1>1
    <3>2. n <= NumVoices - y
      BY <2>2, <3>1
    <3>3. x \in Nat /\ y \in Nat
      BY <1>1
    <3> QED  BY <1>1, <2>3, <3>2, <3>3
  <2> QED  BY <2>4
<1> QED  BY <1>2, <1>3 DEF Min, Max

\* Sets of voices can be counted.
LEMMA VoicesFinite ==
    /\ IsFiniteSet(Voices) /\ Cardinality(Voices) = NumVoices
    /\ \A S \in SUBSET Voices : IsFiniteSet(S) /\ Cardinality(S) \in Nat
<1>1. IsFiniteSet(0..NumVoices - 1) /\ Cardinality(0..NumVoices - 1) = NumVoices
  BY VoicesAssumption, FS_Interval
<1> QED  BY <1>1, FS_Subset, FS_CardinalityType DEF Voices

\* A message that plays or stops a note: its key, and where the two kinds of keys lie.
LEMMA Keys ==
    /\ \A m \in Messages : m.op \in {"play", "stop"} => <<m.channel, m.data>> \in PlayedKeys
    /\ \A d \in Drums : <<MIDI_RHYTHM_CHANNEL, d>> \in PlayedKeys
    /\ \A k \in PlayedKeys : /\ k = <<k[1], k[2]>> /\ k[1] \in MidiChannels
                             /\ k[2] # Silent
                             /\ k[1] = MIDI_RHYTHM_CHANNEL => k[2] \in 35..87
<1>1. \A m \in Messages : m.op \in {"play", "stop"} => <<m.channel, m.data>> \in PlayedKeys
  BY DEF PlayedKeys
<1>2. \A d \in Drums : <<MIDI_RHYTHM_CHANNEL, d>> \in PlayedKeys
  BY DEF PlayedKeys, Drums
<1>3. ASSUME NEW k \in PlayedKeys
      PROVE  /\ k = <<k[1], k[2]>> /\ k[1] \in MidiChannels /\ k[2] # Silent
             /\ k[1] = MIDI_RHYTHM_CHANNEL => k[2] \in 35..87
  <2>1. PICK m \in Messages : m.op \in {"play", "stop"} /\ k = <<m.channel, m.data>>
    BY DEF PlayedKeys
  <2>2. /\ m.channel \in MidiChannels
        /\ m.data \in IF m.channel = MIDI_RHYTHM_CHANNEL THEN 35..87 ELSE 21..104
    BY <2>1, MessagesAssumption
  <2> QED  BY <2>1, <2>2 DEF Silent
<1> QED  BY <1>1, <1>2, <1>3

\* Every voice that plays has one key.
Keyed ==
    /\ \A v \in Voices \ Free : KeyOf(v) \in PlayedKeys
    /\ \A k \in PlayedKeys : VoicesOf(k) = {v \in Voices \ Free : KeyOf(v) = k}
LEMMA KeyOfVoice == VoiceTypes /\ TableSound => Keyed
<1> HAVE VoiceTypes /\ TableSound
<1>1. \A v \in Voices \ Free : KeyOf(v) \in PlayedKeys
  BY Keys DEF TableSound, KeyOf
<1>2. ASSUME NEW k \in PlayedKeys, NEW v \in Voices \ Free
      PROVE  v \in VoicesOf(k) <=> KeyOf(v) = k
  <2>1. /\ k = <<k[1], k[2]>> /\ k[1] \in MidiChannels /\ k[2] # Silent
        /\ k[1] = MIDI_RHYTHM_CHANNEL => k[2] \in 35..87
    BY Keys
  <2>2. table[v] = [channel |-> table[v].channel, note |-> table[v].note]
    BY DEF VoiceTypes
  <2>3. \/ table[v].channel \in Drums
        \/ /\ table[v].channel # MIDI_RHYTHM_CHANNEL /\ table[v].channel \in MidiChannels
    BY Keys DEF TableSound
  <2>4. table[v].channel \in Drums => table[v].channel \notin MidiChannels
    BY DrumsApart
  <2>5. \A n \in 35..87 : n \notin MidiChannels
    BY DEF MidiChannels
  <2>6. v \in VoicesOf(k) <=> IF k[1] = MIDI_RHYTHM_CHANNEL
                                THEN table[v].channel = k[2]
                                ELSE table[v] = [channel |-> k[1], note |-> k[2]]
    BY DEF VoicesOf
  <2>7. CASE table[v].channel \in Drums
    <3>1. KeyOf(v) = <<MIDI_RHYTHM_CHANNEL, table[v].channel>>
      BY <2>7 DEF KeyOf
    <3> QED  BY <2>1, <2>2, <2>4, <2>6, <2>7, <3>1
  <2>8. CASE table[v].channel \notin Drums
    <3>1. KeyOf(v) = <<table[v].channel, table[v].note>>
      BY <2>8 DEF KeyOf
    <3> QED  BY <2>1, <2>2, <2>3, <2>5, <2>6, <2>8, <3>1
  <2> QED  BY <2>7, <2>8
<1>3. \A k \in PlayedKeys : VoicesOf(k) \subseteq Voices \ Free
  BY DEF VoicesOf
<1> QED  BY <1>1, <1>2, <1>3 DEF Keyed

\* As many notes sound as voices play.
Notes == {note \in PlayedKeys \X (1..NumVoices) : note[2] <= Sounding[note[1]]}
\* A numbering of the voices of each key numbers the notes.
LEMMA NotesCounted ==
    ASSUME VoiceTypes, TableSound
    PROVE  Cardinality(Notes) = Cardinality(Voices \ Free)
<1> DEFINE Count(k) == Cardinality(VoicesOf(k))
           numbering == [k \in PlayedKeys |->
                            CHOOSE f : f \in Bijection(1..Count(k), VoicesOf(k))]
           voice == [note \in Notes |-> numbering[note[1]][note[2]]]
<1> Keyed
  BY KeyOfVoice
<1>1. ASSUME NEW k \in PlayedKeys
      PROVE  /\ VoicesOf(k) \subseteq Voices \ Free
             /\ Count(k) \in Nat /\ Count(k) <= NumVoices
             /\ numbering[k] \in Bijection(1..Count(k), VoicesOf(k))
  <2>1. VoicesOf(k) \in SUBSET Voices
    BY DEF VoicesOf
  <2>2. IsFiniteSet(VoicesOf(k)) /\ Count(k) \in Nat /\ Count(k) <= NumVoices
    BY <2>1, VoicesFinite, FS_Subset
  <2>3. ExistsBijection(1..Count(k), VoicesOf(k))
    BY <2>2, FS_CardinalityType
  <2> QED  BY <2>2, <2>3 DEF ExistsBijection, VoicesOf
<1>2. ASSUME NEW note \in Notes
      PROVE  /\ note[1] \in PlayedKeys /\ note[2] \in 1..Count(note[1])
             /\ note = <<note[1], note[2]>>
             /\ voice[note] \in VoicesOf(note[1])
  <2>1. /\ note[1] \in PlayedKeys /\ note[2] \in 1..NumVoices /\ note = <<note[1], note[2]>>
        /\ note[2] <= Count(note[1])
    BY DEF Notes, Sounding
  <2>2. note[2] \in 1..Count(note[1])
    BY <1>1, <2>1
  <2>3. numbering[note[1]] \in [1..Count(note[1]) -> VoicesOf(note[1])]
    BY <1>1, <2>1 DEF Bijection, Injection
  <2> HIDE DEF numbering, Count
  <2> QED  BY <2>1, <2>2, <2>3
<1>3. voice \in Injection(Notes, Voices \ Free)
  <2>1. voice \in [Notes -> Voices \ Free]
    BY <1>1, <1>2
  <2>2. ASSUME NEW n \in Notes, NEW o \in Notes, voice[n] = voice[o] PROVE n = o
    <3>1. n[1] = o[1]
      <4> HIDE DEF numbering, Count, voice
      <4>1. voice[n] \in VoicesOf(n[1]) /\ voice[n] \in VoicesOf(o[1])
        BY <1>2, <2>2
      <4> QED  BY <1>2, <4>1 DEF Keyed
    <3>2. numbering[n[1]] \in Injection(1..Count(n[1]), VoicesOf(n[1]))
      BY <1>1, <1>2 DEF Bijection
    <3>3. numbering[n[1]][n[2]] = numbering[n[1]][o[2]]
      BY <2>2, <3>1
    <3>4. n[2] = o[2]
      <4> HIDE DEF numbering, Count, voice
      <4>1. n[2] \in 1..Count(n[1]) /\ o[2] \in 1..Count(n[1])
        BY <1>2, <3>1
      <4> QED  BY <4>1, <3>2, <3>3 DEF Injection, IsInjective
    <3> HIDE DEF numbering, Count, voice
    <3> QED  BY <1>2, <3>1, <3>4
  <2> HIDE DEF voice
  <2>3. voice \in [Notes -> Voices \ Free] /\ \A n, o \in Notes : voice[n] = voice[o] => n = o
    BY <2>1, <2>2
  <2> QED  BY <2>3, Zenon DEF Injection, IsInjective
<1>4. voice \in Surjection(Notes, Voices \ Free)
  <2>1. ASSUME NEW v \in Voices \ Free PROVE \E note \in Notes : voice[note] = v
    <3>1. KeyOf(v) \in PlayedKeys /\ v \in VoicesOf(KeyOf(v))
      BY DEF Keyed
    <3>2. numbering[KeyOf(v)] \in Surjection(1..Count(KeyOf(v)), VoicesOf(KeyOf(v)))
      BY <1>1, <3>1 DEF Bijection
    <3>3. PICK i \in 1..Count(KeyOf(v)) : numbering[KeyOf(v)][i] = v
      <4> HIDE DEF numbering, Count
      <4> QED  BY <3>1, <3>2 DEF Surjection
    <3>4. i \in 1..NumVoices /\ i <= Count(KeyOf(v))
      <4>1. Count(KeyOf(v)) \in Nat /\ Count(KeyOf(v)) <= NumVoices /\ NumVoices \in Nat
        BY <1>1, <3>1, VoicesAssumption
      <4> HIDE DEF Count
      <4> QED  BY <4>1
    <3>5. <<KeyOf(v), i>> \in Notes
      BY <3>1, <3>4 DEF Notes, Sounding
    <3>6. voice[<<KeyOf(v), i>>] = v
      BY <3>3, <3>5
    <3> QED  BY <3>5, <3>6
  <2>2. voice \in [Notes -> Voices \ Free]
    BY <1>3 DEF Injection
  <2> HIDE DEF voice
  <2> QED  BY <2>1, <2>2 DEF Surjection
<1>5. IsFiniteSet(Voices \ Free)
  BY VoicesFinite
<1> HIDE DEF voice
<1> QED  BY <1>3, <1>4, <1>5, FS_Injection

\* A note is dropped exactly when no voice is free.
LEMMA Capacity ==
    ASSUME VoiceTypes, TableSound
    PROVE  Cardinality(Notes) < NumVoices <=> Free # {}
<1>1. Free \subseteq Voices
  BY DEF Free
<1>2. Cardinality(Voices \ Free) <= NumVoices
      /\ (Cardinality(Voices \ Free) = NumVoices => Voices \ Free = Voices)
      /\ Cardinality(Voices \ Free) \in Nat
  BY VoicesFinite, FS_Subset
<1>3. Free = {} => Cardinality(Voices \ Free) = NumVoices
  BY VoicesFinite
<1> QED  BY <1>1, <1>2, <1>3, NotesCounted, VoicesAssumption

-------------------------------------------------------------------------------
(* What a message does to the bag of notes. *)

\* A voice more or less is a note more or less.
LEMMA Recount ==
    ASSUME NEW k \in PlayedKeys, NEW w \in Voices
    PROVE  /\ Cardinality(VoicesOf(k)) \in Nat
           /\ VoicesOf(k) = {} <=> Cardinality(VoicesOf(k)) = 0
           /\ w \notin VoicesOf(k) =>
                Cardinality(VoicesOf(k) \cup {w}) = Cardinality(VoicesOf(k)) + 1
           /\ w \in VoicesOf(k) =>
                Cardinality(VoicesOf(k) \ {w}) = Cardinality(VoicesOf(k)) - 1
<1>1. VoicesOf(k) \in SUBSET Voices
  BY DEF VoicesOf
<1>2. IsFiniteSet(VoicesOf(k)) /\ Cardinality(VoicesOf(k)) \in Nat
  BY <1>1, VoicesFinite
<1> QED  BY <1>2, FS_AddElement, FS_RemoveElement, FS_EmptySet

\* A free voice starts to play.
LEMMA StartCounted ==
    ASSUME VoiceTypes, VoiceTypes', TableSound, pc' # "other",
           NEW w \in Free, NEW c \in 0..255, NEW n \in 1..127, NEW i, StartVoice(w, c, n, i),
           c \in Drums => SetUpFor(c) \subseteq {w},
           c \in Drums \/ (c # MIDI_RHYTHM_CHANNEL /\ <<c, n>> \in PlayedKeys),
           NEW k, k = IF c \in Drums THEN <<MIDI_RHYTHM_CHANNEL, c>> ELSE <<c, n>>
    PROVE  /\ TableSound'
           /\ Sounding' = [Sounding EXCEPT ![k] = @ + 1]
           /\ \A d \in Drums : Playing(d)' => Playing(d) \/ d = c
<1>1. w \in Voices /\ k \in PlayedKeys
  BY Keys DEF Free
<1>2. /\ table'[w] = [channel |-> c, note |-> n] /\ n # Silent
      /\ \A v \in Voices : v # w => table'[v] = table[v]
  BY <1>1 DEF StartVoice, VoiceTypes, Silent
<1>3. (Voices \ Free)' = (Voices \ Free) \cup {w}
  BY <1>1, <1>2 DEF Free
<1>4. TableSound'
  <2>1. ASSUME NEW v \in (Voices \ Free)'
        PROVE  \/ table'[v].channel \in Drums
               \/ /\ table'[v].channel # MIDI_RHYTHM_CHANNEL
                  /\ <<table'[v].channel, table'[v].note>> \in PlayedKeys
    <3>1. CASE v = w
      BY <1>2, <3>1
    <3>2. CASE v # w
      <4>1. v \in Voices \ Free /\ table'[v] = table[v]
        BY <1>2, <1>3, <3>2
      <4> QED  BY <4>1 DEF TableSound
    <3> QED  BY <3>1, <3>2
  <2>2. ASSUME NEW d \in Drums, NEW u \in SetUpFor(d)', NEW v \in SetUpFor(d)' PROVE u = v
    <3>1. u \in Voices /\ v \in Voices /\ table'[u].channel = d /\ table'[v].channel = d
      BY DEF SetUpFor
    <3>2. \A x \in Voices : table'[x].channel = d /\ x # w => x \in SetUpFor(d)
      BY <1>2 DEF SetUpFor
    <3>3. CASE d = c
      BY <3>1, <3>2, <3>3
    <3>4. CASE d # c
      <4>1. u # w /\ v # w
        BY <1>2, <3>1, <3>4
      <4> QED  BY <3>1, <3>2, <4>1 DEF TableSound
    <3> QED  BY <3>3, <3>4
  <2> QED  BY <2>1, <2>2 DEF TableSound
<1>5. ASSUME NEW x \in PlayedKeys
      PROVE  VoicesOf(x)' = IF x = k THEN VoicesOf(x) \cup {w} ELSE VoicesOf(x)
  <2>1. VoicesOf(x) = {v \in Voices \ Free : KeyOf(v) = x}
    BY KeyOfVoice DEF Keyed
  <2>2. (VoiceTypes /\ TableSound => Keyed)'
    BY KeyOfVoice, PTL
  <2>3. VoicesOf(x)' = {v \in (Voices \ Free)' : KeyOf(v)' = x}
    BY <1>4, <2>2 DEF Keyed
  <2>4. KeyOf(w)' = k
    BY <1>2 DEF KeyOf
  <2>5. \A v \in Voices \ Free : v # w /\ KeyOf(v)' = KeyOf(v)
    BY <1>2 DEF KeyOf, Free
  <2> QED  BY <1>3, <2>1, <2>3, <2>4, <2>5
<1>6. w \notin VoicesOf(k)
  BY DEF VoicesOf
<1>7. Sounding' = [Sounding EXCEPT ![k] = @ + 1]
  <2>1. \A x \in PlayedKeys : Cardinality(VoicesOf(x)') =
          IF x = k THEN Cardinality(VoicesOf(x)) + 1 ELSE Cardinality(VoicesOf(x))
    BY <1>1, <1>5, <1>6, Recount
  <2>2. Sounding' = [x \in PlayedKeys |-> Cardinality(VoicesOf(x)')]
    BY DEF Sounding
  <2> QED  BY <2>1, <2>2 DEF Sounding
<1>8. \A d \in Drums : Playing(d)' => Playing(d) \/ d = c
  BY <1>2, <1>3 DEF Playing
<1> QED  BY <1>4, <1>7, <1>8

\* Some voices stop.
LEMMA StopCounted ==
    ASSUME VoiceTypes, VoiceTypes', TableSound, pc' # "other",
           NEW stopped, StopVoices(stopped)
    PROVE  /\ TableSound'
           /\ \A k \in PlayedKeys : VoicesOf(k)' = VoicesOf(k) \ stopped
           /\ \A d \in Drums : Playing(d)' => \E v \in (Voices \ Free) \ stopped : table[v].channel = d
<1>1. \A v \in Voices : /\ table'[v].channel = table[v].channel
                        /\ table'[v].note = IF v \in stopped THEN Silent ELSE table[v].note
  BY DEF StopVoices, VoiceTypes
<1>2. (Voices \ Free)' = (Voices \ Free) \ stopped
  BY <1>1 DEF Free
<1>3. TableSound'
  <2>1. \A d : SetUpFor(d)' = SetUpFor(d)
    BY <1>1 DEF SetUpFor
  <2>2. \A v \in (Voices \ Free)' :
          v \in Voices \ Free /\ table'[v].channel = table[v].channel /\ table'[v].note = table[v].note
    BY <1>1, <1>2
  <2> QED  BY <2>1, <2>2 DEF TableSound
<1>4. ASSUME NEW k \in PlayedKeys PROVE VoicesOf(k)' = VoicesOf(k) \ stopped
  <2>1. VoicesOf(k) = {v \in Voices \ Free : KeyOf(v) = k}
    BY KeyOfVoice DEF Keyed
  <2>2. (VoiceTypes /\ TableSound => Keyed)'
    BY KeyOfVoice, PTL
  <2>3. VoicesOf(k)' = {v \in (Voices \ Free)' : KeyOf(v)' = k}
    BY <1>3, <2>2 DEF Keyed
  <2>4. \A v \in (Voices \ Free) \ stopped : KeyOf(v)' = KeyOf(v)
    BY <1>1 DEF KeyOf
  <2> QED  BY <1>2, <2>1, <2>3, <2>4
<1>5. \A d \in Drums : Playing(d)' => \E v \in (Voices \ Free) \ stopped : table[v].channel = d
  BY <1>1, <1>2 DEF Playing
<1> QED  BY <1>3, <1>4, <1>5

\* A channel's voices stop and are set up for none.
LEMMA ChangeCounted ==
    ASSUME VoiceTypes, VoiceTypes', TableSound, pc' # "other",
           NEW c \in MidiChannels, NEW p, ChangeProgram(c, p)
    PROVE  /\ TableSound'
           /\ \A k \in PlayedKeys :
                VoicesOf(k)' = IF c # MIDI_RHYTHM_CHANNEL /\ k[1] = c THEN {} ELSE VoicesOf(k)
           /\ \A d \in Drums : Playing(d)' => Playing(d)
<1>1. \A v \in Voices :
        IF table[v].channel = c THEN table'[v] = [channel |-> NoChannel, note |-> Silent]
                                ELSE table'[v] = table[v]
  BY DEF ChangeProgram, SetUpFor
<1>2. (Voices \ Free)' = (Voices \ Free) \ SetUpFor(c)
  BY <1>1 DEF Free, SetUpFor
<1>3. TableSound'
  <2>1. \A d \in Drums : SetUpFor(d)' \subseteq SetUpFor(d)
    BY <1>1, DrumsApart DEF SetUpFor
  <2>2. \A v \in (Voices \ Free)' : v \in Voices \ Free /\ table'[v] = table[v]
    BY <1>1, <1>2 DEF SetUpFor
  <2> QED  BY <2>1, <2>2 DEF TableSound
<1>4. ASSUME NEW k \in PlayedKeys
      PROVE  VoicesOf(k)' = IF c # MIDI_RHYTHM_CHANNEL /\ k[1] = c THEN {} ELSE VoicesOf(k)
  <2>1. VoicesOf(k) = {v \in Voices \ Free : KeyOf(v) = k}
    BY KeyOfVoice DEF Keyed
  <2>2. (VoiceTypes /\ TableSound => Keyed)'
    BY KeyOfVoice, PTL
  <2>3. VoicesOf(k)' = {v \in (Voices \ Free)' : KeyOf(v)' = k}
    BY <1>3, <2>2 DEF Keyed
  <2>4. \A v \in (Voices \ Free) \ SetUpFor(c) : KeyOf(v)' = KeyOf(v)
    BY <1>1 DEF KeyOf, SetUpFor
  <2>5. VoicesOf(k)' = VoicesOf(k) \ SetUpFor(c)
    BY <1>2, <2>1, <2>3, <2>4
  <2>6. \A v \in Voices \ Free :
          /\ v \in SetUpFor(c) => c # MIDI_RHYTHM_CHANNEL /\ KeyOf(v)[1] = c
          /\ KeyOf(v)[1] = c /\ c # MIDI_RHYTHM_CHANNEL => v \in SetUpFor(c)
    BY DrumsApart, ZenonT(40) DEF TableSound, KeyOf, SetUpFor
  <2> QED  BY <2>1, <2>5, <2>6
<1>5. \A d \in Drums : Playing(d)' => Playing(d)
  BY <1>1, <1>2 DEF Playing, SetUpFor
<1> QED  BY <1>3, <1>4, <1>5

\* A message that begins a drum's note, or ends it.
NoteOn(m, d) == m.channel = MIDI_RHYTHM_CHANNEL /\ m.op = "play" /\ m.data = d
NoteOff(m, d) ==
    /\ m.channel = MIDI_RHYTHM_CHANNEL
    /\ m.op = "silence" \/ (m.op = "stop" /\ m.data = d)

\* What the abstract specification does with a message.
BagServes(m) ==
    \/ m.op = "play" /\ Bag!Play(<<m.channel, m.data>>)
    \/ m.op = "stop" /\ Bag!Stop(<<m.channel, m.data>>)
    \/ m.op \in {"program", "instrument"} /\ Bag!Change(m.channel, m.data)
    \/ m.op = "silence" /\ Bag!Silence(m.channel)
    \/ /\ m.op \notin {"play", "stop", "program", "instrument", "silence"}
       /\ Sounding' = Sounding /\ Program' = Program

\* The tables after a message.
MessageServed(m) ==
    /\ TableSound'
    /\ BagServes(m)
    /\ \A d \in Drums : Playing(d)' => NoteOn(m, d) \/ (Playing(d) /\ ~NoteOff(m, d))

\* The abstract actions in these terms.
LEMMA BagActions ==
    /\ \A k \in PlayedKeys :
         /\ Bag!Play(k) <=>
              /\ Sounding' = IF Cardinality(Notes) < NumVoices
                               THEN [Sounding EXCEPT ![k] = @ + 1] ELSE Sounding
              /\ Program' = Program
         /\ Bag!Stop(k) <=>
              /\ Sounding' = IF Sounding[k] > 0 THEN [Sounding EXCEPT ![k] = @ - 1] ELSE Sounding
              /\ Program' = Program
    /\ \A c : Bag!Silence(c) <=>
                /\ Sounding' = [k \in PlayedKeys |-> IF k[1] = c THEN 0 ELSE Sounding[k]]
                /\ Program' = Program
    /\ \A c, p : Bag!Change(c, p) <=>
                   /\ Program' = [Program EXCEPT ![c] = p]
                   /\ Sounding' = IF c = MIDI_RHYTHM_CHANNEL THEN Sounding
                                  ELSE [k \in PlayedKeys |-> IF k[1] = c THEN 0 ELSE Sounding[k]]
<1>1. \A k \in PlayedKeys :
         Bag!Play(k) <=>
           /\ Sounding' = IF Cardinality(Notes) < NumVoices
                            THEN [Sounding EXCEPT ![k] = @ + 1] ELSE Sounding
           /\ Program' = Program
  <2>1. \A S : Bag!Cardinality(S) = Cardinality(S)
    BY Zenon DEF Bag!Cardinality, Cardinality
  <2>2. Bag!Count = Cardinality(Notes)
    BY <2>1, Zenon DEF Bag!Count, Notes, Sounding
  <2> QED  BY <2>2, Zenon DEF Bag!Play, Sounding, Program
<1>2. \A k \in PlayedKeys :
         Bag!Stop(k) <=>
              /\ Sounding' = IF Sounding[k] > 0 THEN [Sounding EXCEPT ![k] = @ - 1] ELSE Sounding
              /\ Program' = Program
  BY Zenon DEF Bag!Stop, Sounding, Program
<1>3. \A c : Bag!Silence(c) <=>
                /\ Sounding' = [k \in PlayedKeys |-> IF k[1] = c THEN 0 ELSE Sounding[k]]
                /\ Program' = Program
  BY Zenon DEF Bag!Silence, Bag!Without, Sounding, Program
<1>4. \A c, p : Bag!Change(c, p) <=>
                   /\ Program' = [Program EXCEPT ![c] = p]
                   /\ Sounding' = IF c = MIDI_RHYTHM_CHANNEL THEN Sounding
                                  ELSE [k \in PlayedKeys |-> IF k[1] = c THEN 0 ELSE Sounding[k]]
  BY Zenon DEF Bag!Change, Bag!Without, Sounding, Program
<1> QED  BY <1>1, <1>2, <1>3, <1>4

\* The bag after a step, and the instruments when none changes.
LEMMA SoundingAfter ==
    /\ Sounding' = [k \in PlayedKeys |-> Cardinality(VoicesOf(k)')]
    /\ UNCHANGED instrument_of => Program' = Program
  BY DEF Sounding, Program

\* A message that changes no table.
LEMMA NothingServed ==
    ASSUME TableSound, pc' # "other", UNCHANGED voice_vars
    PROVE  /\ TableSound' /\ Sounding' = Sounding /\ Program' = Program
           /\ \A d \in Drums : Playing(d)' => Playing(d)
<1>1. UNCHANGED <<table, instrument_of>>
  BY DEF voice_vars
<1>2. Sounding' = Sounding /\ Program' = Program
  BY <1>1 DEF Sounding, Program, VoicesOf, Free
<1> QED  BY <1>1, <1>2 DEF TableSound, Playing, Free, SetUpFor

\* "play" for a channel.
LEMMA PlayServed ==
    ASSUME VoiceTypes, VoiceTypes', TableSound, pc' # "other", NEW m \in Messages,
           m.op = "play", m.channel # MIDI_RHYTHM_CHANNEL, PlayMelodic(m.channel, m.data)
    PROVE  MessageServed(m)
<1> DEFINE c == m.channel
           k == <<m.channel, m.data>>
<1>1. /\ c \in MidiChannels /\ c \in 0..255 /\ c \notin Drums /\ m.data \in 1..127
      /\ k \in PlayedKeys
  BY MessagesAssumption, DrumsApart, Keys DEF MidiChannels
<1>2. \A d \in Drums : ~NoteOff(m, d)
  BY DEF NoteOff
<1>3. CASE Free = {}
  <2>1. UNCHANGED voice_vars
    BY <1>3 DEF PlayMelodic, voice_vars
  <2>2. TableSound' /\ Sounding' = Sounding /\ Program' = Program
        /\ \A d \in Drums : Playing(d)' => Playing(d)
    BY <2>1, NothingServed
  <2>3. Bag!Play(k)
    BY <1>1, <1>3, <2>2, Capacity, BagActions
  <2> QED  BY <1>2, <2>2, <2>3 DEF MessageServed, BagServes
<1>4. CASE Free # {}
  <2> DEFINE fitting == Free \cap SetUpFor(c)
             w == Min(IF fitting # {} THEN fitting ELSE Free)
  <2>1. StartVoice(w, c, m.data, instrument_of[c]) /\ UNCHANGED instrument_of
    BY <1>4 DEF PlayMelodic
  <2>2. w \in Free
    <3>1. Free \subseteq Voices
      BY DEF Free
    <3> QED  BY <1>4, <3>1, MinMax
  <2> HIDE DEF w
  <2>3. /\ TableSound' /\ Sounding' = [Sounding EXCEPT ![k] = @ + 1]
        /\ \A d \in Drums : Playing(d)' => Playing(d) \/ d = c
    <3>1. /\ k = IF c \in Drums THEN <<MIDI_RHYTHM_CHANNEL, c>> ELSE <<c, m.data>>
          /\ c \in 0..255 /\ m.data \in 1..127
          /\ c \notin Drums /\ c # MIDI_RHYTHM_CHANNEL /\ <<c, m.data>> \in PlayedKeys
      BY <1>1
    <3> HIDE DEF c, k
    <3> QED  BY <2>1, <2>2, <3>1, StartCounted, Zenon
  <2>4. Bag!Play(k)
    BY <1>1, <1>4, <2>1, <2>3, Capacity, BagActions, SoundingAfter
  <2> QED  BY <1>1, <1>2, <2>3, <2>4 DEF MessageServed, BagServes
<1> QED  BY <1>3, <1>4

\* "play" for a drum that does not play.
LEMMA StrikeServed ==
    ASSUME VoiceTypes, VoiceTypes', TableSound, pc' # "other", NEW m \in Messages,
           m.op = "play", m.channel = MIDI_RHYTHM_CHANNEL, PlayRhythm(m.data),
           ~Playing(m.data)
    PROVE  MessageServed(m)
<1> DEFINE drum == m.data
           k == <<m.channel, m.data>>
<1>1. /\ drum \in Drums /\ drum \in 0..255 /\ DrumNote[drum] \in 1..127
      /\ k \in PlayedKeys /\ k = <<MIDI_RHYTHM_CHANNEL, drum>>
  <2>1. drum \in Drums
    BY DEF Drums
  <2> QED  BY <2>1, MessagesAssumption, DrumsApart, Keys
<1>2. \A d \in Drums : ~NoteOff(m, d)
  BY DEF NoteOff
<1>3. CASE Free = {}
  <2>1. UNCHANGED voice_vars
    BY <1>3 DEF PlayRhythm, voice_vars
  <2>2. TableSound' /\ Sounding' = Sounding /\ Program' = Program
        /\ \A d \in Drums : Playing(d)' => Playing(d)
    BY <2>1, NothingServed
  <2>3. Bag!Play(k)
    BY <1>1, <1>3, <2>2, Capacity, BagActions
  <2> QED  BY <1>2, <2>2, <2>3 DEF MessageServed, BagServes
<1>4. CASE Free # {}
  <2> DEFINE fitting == Free \cap SetUpFor(drum)
             w == Max(IF fitting # {} THEN fitting ELSE Free)
  <2>1. StartVoice(w, drum, DrumNote[drum], 128 + drum) /\ UNCHANGED instrument_of
    BY <1>4 DEF PlayRhythm
  <2>2. w \in Free /\ (fitting # {} => w \in fitting)
    <3>1. Free \subseteq Voices
      BY DEF Free
    <3> QED  BY <1>4, <3>1, MinMax
  <2>3. SetUpFor(drum) \subseteq {w}
    <3>1. SetUpFor(drum) = fitting
      BY DEF Playing, SetUpFor, Free
    <3> HIDE DEF w
    <3> QED  BY <1>1, <2>2, <3>1 DEF TableSound
  <2> HIDE DEF w
  <2>4. /\ TableSound' /\ Sounding' = [Sounding EXCEPT ![k] = @ + 1]
        /\ \A d \in Drums : Playing(d)' => Playing(d) \/ d = drum
    <3>1. k = IF drum \in Drums THEN <<MIDI_RHYTHM_CHANNEL, drum>> ELSE <<drum, DrumNote[drum]>>
      BY <1>1
    <3>2. drum \in 0..255 /\ DrumNote[drum] \in 1..127 /\ drum \in Drums
      BY <1>1
    <3>3. w \in Free
      BY <2>2
    <3>4. PICK n, i : n \in 1..127 /\ n = DrumNote[drum] /\ StartVoice(w, drum, n, i)
      BY <2>1, <3>2
    <3>5. k = IF drum \in Drums THEN <<MIDI_RHYTHM_CHANNEL, drum>> ELSE <<drum, n>>
      BY <3>1, <3>4
    <3> HIDE DEF drum, k
    <3> QED  BY <2>3, <3>2, <3>3, <3>4, <3>5, StartCounted, Zenon
  <2>5. Bag!Play(k)
    BY <1>1, <1>4, <2>1, <2>4, Capacity, BagActions, SoundingAfter
  <2> QED  BY <1>1, <1>2, <2>4, <2>5 DEF MessageServed, BagServes, NoteOn
<1> QED  BY <1>3, <1>4

\* One voice of a key stops, or none if none plays.
LEMMA OneStopped ==
    ASSUME VoiceTypes, VoiceTypes', TableSound, pc' # "other",
           NEW k \in PlayedKeys, NEW stopped, StopVoices(stopped),
           IF VoicesOf(k) = {} THEN stopped \cap (Voices \ Free) = {}
                               ELSE \E w \in VoicesOf(k) : stopped = {w}
    PROVE  TableSound' /\ Bag!Stop(k)
<1>1. TableSound' /\ \A x \in PlayedKeys : VoicesOf(x)' = VoicesOf(x) \ stopped
  BY StopCounted
<1>2. UNCHANGED instrument_of
  BY DEF StopVoices
<1>3. \A x \in PlayedKeys : VoicesOf(x) \subseteq Voices \ Free
  BY DEF VoicesOf
<1>4. CASE VoicesOf(k) = {}
  <2>1. \A x \in PlayedKeys : VoicesOf(x)' = VoicesOf(x)
    BY <1>1, <1>3, <1>4
  <2>2. Sounding' = Sounding
    BY <2>1, SoundingAfter DEF Sounding
  <2>3. ~(Sounding[k] > 0)
    <3>1. Sounding[k] = 0
      BY <1>4, FS_EmptySet DEF Sounding
    <3> QED  BY <3>1
  <2> QED  BY <1>1, <1>2, <2>2, <2>3, BagActions, SoundingAfter
<1>5. CASE VoicesOf(k) # {}
  <2>1. PICK w \in VoicesOf(k) : stopped = {w}
    BY <1>5
  <2>2. w \in Voices
    BY <1>3
  <2>3. \A x \in PlayedKeys : x # k => VoicesOf(x)' = VoicesOf(x)
    BY <1>1, <2>1, KeyOfVoice DEF Keyed
  <2>4. /\ Cardinality(VoicesOf(k)') = Cardinality(VoicesOf(k)) - 1
        /\ Cardinality(VoicesOf(k)) \in Nat /\ Cardinality(VoicesOf(k)) # 0
    BY <1>1, <1>5, <2>1, <2>2, Recount
  <2>5. Sounding' = [Sounding EXCEPT ![k] = @ - 1]
    BY <2>3, <2>4, SoundingAfter DEF Sounding
  <2>6. Sounding[k] > 0
    BY <2>4 DEF Sounding
  <2> QED  BY <1>1, <1>2, <2>5, <2>6, BagActions, SoundingAfter
<1> QED  BY <1>4, <1>5

\* "stop" for a channel.
LEMMA StopServed ==
    ASSUME VoiceTypes, VoiceTypes', TableSound, pc' # "other", NEW m \in Messages,
           m.op = "stop", m.channel # MIDI_RHYTHM_CHANNEL, StopMelodic(m.channel, m.data)
    PROVE  MessageServed(m)
<1> DEFINE k == <<m.channel, m.data>>
           playing == {v \in SetUpFor(m.channel) : table[v].note = m.data}
           stopped == IF playing = {} THEN {} ELSE {Min(playing)}
<1>1. k \in PlayedKeys /\ k[1] # MIDI_RHYTHM_CHANNEL /\ m.data # Silent
  BY Keys, MessagesAssumption DEF Silent
<1>2. VoicesOf(k) = playing
  <2>1. \A v \in Voices : table[v] = [channel |-> table[v].channel, note |-> table[v].note]
    BY DEF VoiceTypes
  <2> QED  BY <1>1, <2>1 DEF VoicesOf, SetUpFor, Free
<1>3. StopVoices(stopped)
  BY DEF StopMelodic
<1>4. playing # {} => Min(playing) \in playing
  <2>1. playing \subseteq Voices
    BY DEF SetUpFor
  <2> HIDE DEF playing
  <2> QED  BY <2>1, MinMax
<1>5. TableSound' /\ Bag!Stop(k)
  <2> HIDE DEF playing
  <2> QED  BY <1>1, <1>2, <1>3, <1>4, OneStopped
<1>6. \A d \in Drums : ~NoteOff(m, d) /\ (Playing(d)' => Playing(d))
  <2> HIDE DEF stopped
  <2> QED  BY <1>3, StopCounted DEF NoteOff, Playing
<1> QED  BY <1>5, <1>6 DEF MessageServed, BagServes

\* "stop" for a drum.
LEMMA DampServed ==
    ASSUME VoiceTypes, VoiceTypes', TableSound, pc' # "other", NEW m \in Messages,
           m.op = "stop", m.channel = MIDI_RHYTHM_CHANNEL, StopRhythm(m.data)
    PROVE  MessageServed(m)
<1> DEFINE drum == m.data
           k == <<m.channel, m.data>>
           stopped == IF SetUpFor(drum) = {} THEN {} ELSE {Max(SetUpFor(drum))}
<1>1. k \in PlayedKeys /\ k = <<MIDI_RHYTHM_CHANNEL, drum>> /\ drum \in 35..87
  BY Keys, MessagesAssumption
<1>2. VoicesOf(k) = {v \in Voices \ Free : v \in SetUpFor(drum)}
  BY <1>1 DEF VoicesOf, SetUpFor
<1>3. StopVoices(stopped)
  BY DEF StopRhythm
<1>4. SetUpFor(drum) # {} => Max(SetUpFor(drum)) \in SetUpFor(drum)
  <2>1. SetUpFor(drum) \subseteq Voices
    BY DEF SetUpFor
  <2> QED  BY <2>1, MinMax
<1>5. VoicesOf(k) # {} => drum \in Drums
  <2>1. \A n \in 35..87 : n \notin MidiChannels
    BY DEF MidiChannels
  <2>2. \A v \in Voices \ Free : table[v].channel \in Drums \/ table[v].channel \in MidiChannels
    BY Keys DEF TableSound
  <2> QED  BY <1>1, <1>2, <2>1, <2>2 DEF SetUpFor
<1>6. TableSound' /\ Bag!Stop(k)
  <2>1. CASE VoicesOf(k) = {}
    <3>1. stopped \cap (Voices \ Free) = {}
      BY <1>2, <1>4, <2>1
    <3> HIDE DEF stopped
    <3> QED  BY <1>1, <1>3, <2>1, <3>1, OneStopped
  <2>2. CASE VoicesOf(k) # {}
    <3>1. \E w \in VoicesOf(k) : stopped = {w}
      BY <1>2, <1>4, <1>5, <2>2 DEF TableSound
    <3> HIDE DEF stopped
    <3> QED  BY <1>1, <1>3, <2>2, <3>1, OneStopped
  <2> QED  BY <2>1, <2>2
<1>7. ASSUME NEW d \in Drums, Playing(d)' PROVE Playing(d) /\ ~NoteOff(m, d)
  <2>1. PICK v \in (Voices \ Free) \ stopped : table[v].channel = d
    <3> HIDE DEF stopped
    <3> QED  BY <1>3, <1>7, StopCounted
  <2>2. d # drum
    BY <1>4, <2>1 DEF SetUpFor, TableSound
  <2> QED  BY <2>1, <2>2 DEF Playing, NoteOff
<1> QED  BY <1>6, <1>7 DEF MessageServed, BagServes

\* "silence", for a channel or for all drums.
LEMMA SilenceServed ==
    ASSUME VoiceTypes, VoiceTypes', TableSound, pc' # "other", NEW m \in Messages,
           m.op = "silence", SilenceChannel(m.channel)
    PROVE  MessageServed(m)
<1> DEFINE c == m.channel
           stopped == {v \in Voices \ Free :
                         IF c = MIDI_RHYTHM_CHANNEL THEN table[v].channel \in 17..127
                                                    ELSE v \in SetUpFor(c)}
<1>1. StopVoices(stopped) /\ UNCHANGED instrument_of
  BY DEF SilenceChannel, StopVoices
<1>2. c \in MidiChannels
  BY MessagesAssumption
<1>3. ASSUME NEW x \in PlayedKeys, NEW v \in VoicesOf(x)
      PROVE  v \in stopped <=> x[1] = c
  <2>1. /\ x[1] \in MidiChannels
        /\ x[1] = MIDI_RHYTHM_CHANNEL => x[2] \in 35..87
    BY Keys
  <2>2. /\ v \in Voices \ Free
        /\ table[v].channel = IF x[1] = MIDI_RHYTHM_CHANNEL THEN x[2] ELSE x[1]
    BY DEF VoicesOf
  <2> QED  BY <1>2, <2>1, <2>2 DEF SetUpFor, MidiChannels
<1>4. /\ TableSound'
      /\ \A x \in PlayedKeys : VoicesOf(x)' = VoicesOf(x) \ stopped
      /\ \A d \in Drums : Playing(d)' => \E v \in (Voices \ Free) \ stopped : table[v].channel = d
  <2> HIDE DEF stopped
  <2> QED  BY <1>1, StopCounted
<1>5. \A x \in PlayedKeys : VoicesOf(x)' = IF x[1] = c THEN {} ELSE VoicesOf(x)
  <2> HIDE DEF stopped
  <2> QED  BY <1>3, <1>4
<1>6. Bag!Silence(c)
  <2>1. \A x \in PlayedKeys :
          Cardinality(VoicesOf(x)') = IF x[1] = c THEN 0 ELSE Cardinality(VoicesOf(x))
    BY <1>5, FS_EmptySet
  <2>2. Sounding' = [x \in PlayedKeys |-> IF x[1] = c THEN 0 ELSE Sounding[x]]
    BY <2>1, SoundingAfter DEF Sounding
  <2> QED  BY <1>1, <2>2, BagActions, SoundingAfter
<1>7. ASSUME NEW d \in Drums, Playing(d)' PROVE Playing(d) /\ ~NoteOff(m, d)
  <2>1. PICK v \in (Voices \ Free) \ stopped : table[v].channel = d
    BY <1>4, <1>7, Zenon
  <2>2. d \in 35..87
    BY DrumsApart
  <2>3. c # MIDI_RHYTHM_CHANNEL
    BY <2>1, <2>2
  <2> QED  BY <2>1, <2>3 DEF Playing, NoteOff
<1> QED  BY <1>4, <1>6, <1>7 DEF MessageServed, BagServes

\* "program" and "instrument".
LEMMA ChangeServed ==
    ASSUME VoiceTypes, VoiceTypes', TableSound, pc' # "other", NEW m \in Messages,
           m.op \in {"program", "instrument"}, ChangeProgram(m.channel, m.data)
    PROVE  MessageServed(m)
<1> DEFINE c == m.channel
<1>1. c \in MidiChannels
  BY MessagesAssumption
<1>2. /\ TableSound'
      /\ \A x \in PlayedKeys :
           VoicesOf(x)' = IF c # MIDI_RHYTHM_CHANNEL /\ x[1] = c THEN {} ELSE VoicesOf(x)
      /\ \A d \in Drums : Playing(d)' => Playing(d)
  BY <1>1, ChangeCounted
<1>3. Sounding' = IF c = MIDI_RHYTHM_CHANNEL THEN Sounding
                  ELSE [x \in PlayedKeys |-> IF x[1] = c THEN 0 ELSE Sounding[x]]
  <2>1. \A x \in PlayedKeys :
          Cardinality(VoicesOf(x)') =
            IF c # MIDI_RHYTHM_CHANNEL /\ x[1] = c THEN 0 ELSE Cardinality(VoicesOf(x))
    BY <1>2, FS_EmptySet
  <2>2. CASE c = MIDI_RHYTHM_CHANNEL
    BY <2>1, <2>2, SoundingAfter DEF Sounding
  <2>3. CASE c # MIDI_RHYTHM_CHANNEL
    BY <2>1, <2>3, SoundingAfter DEF Sounding
  <2> QED  BY <2>2, <2>3
<1>4. Program' = [Program EXCEPT ![c] = m.data]
  <2>1. instrument_of' = [instrument_of EXCEPT ![c] = m.data]
    BY DEF ChangeProgram
  <2>2. {n.channel : n \in Messages} \subseteq MidiChannels
    BY MessagesAssumption
  <2> QED  BY <1>1, <2>1, <2>2 DEF Program, VoiceTypes
<1>5. Bag!Change(c, m.data)
  BY <1>3, <1>4, BagActions
<1>6. \A d \in Drums : ~NoteOff(m, d)
  BY DEF NoteOff
<1> QED  BY <1>2, <1>5, <1>6 DEF MessageServed, BagServes

\* Every message.
LEMMA HandleServed ==
    ASSUME VoiceTypes, VoiceTypes', TableSound, pc' # "other", NEW m \in Messages,
           Handle(m, m.data), \A d \in Drums : NoteOn(m, d) => ~Playing(d)
    PROVE  MessageServed(m)
<1> DEFINE rhythm == m.channel = MIDI_RHYTHM_CHANNEL
<1>1. m.op \in Operations
  BY MessagesAssumption
<1>2. CASE m.op = "play" /\ ~rhythm
  BY <1>2, PlayServed DEF Handle
<1>3. CASE m.op = "play" /\ rhythm
  <2>1. m.data \in Drums /\ ~Playing(m.data)
    BY <1>3 DEF Drums, NoteOn
  <2> QED  BY <1>3, <2>1, StrikeServed DEF Handle
<1>4. CASE m.op = "stop" /\ ~rhythm
  BY <1>4, StopServed DEF Handle
<1>5. CASE m.op = "stop" /\ rhythm
  BY <1>5, DampServed DEF Handle
<1>6. CASE m.op \in {"program", "instrument"}
  BY <1>6, ChangeServed DEF Handle
<1>7. CASE m.op = "silence"
  BY <1>7, SilenceServed DEF Handle
<1>8. CASE m.op \in {"pressure", "bend"}
  <2>1. UNCHANGED voice_vars
    BY <1>8 DEF Handle
  <2>2. TableSound' /\ Sounding' = Sounding /\ Program' = Program
        /\ \A d \in Drums : Playing(d)' => Playing(d)
    BY <2>1, NothingServed
  <2>3. \A d \in Drums : ~NoteOff(m, d)
    BY <1>8 DEF NoteOff
  <2> QED  BY <1>8, <2>2, <2>3 DEF MessageServed, BagServes
<1> QED  BY <1>1, <1>2, <1>3, <1>4, <1>5, <1>6, <1>7, <1>8 DEF Operations

-------------------------------------------------------------------------------
(* A drum's notes, from the musician to the table. *)

\* n bytes are taken from the front and s is written behind: what plays then began
\* before or with one of the n, and what s begins was not begun before.
LEMMA StreamMoved ==
    ASSUME OneAtATime, NEW n \in Nat, NEW s \in Seq(Bytes),
           Pending \in Seq(Bytes), n <= Len(Pending),
           Len(Pending') = Len(Pending) - n + Len(s),
           \A i \in 1..Len(Pending) - n : Pending'[i] = Pending[i + n],
           \A i \in 1..Len(s) : Pending'[Len(Pending) - n + i] = s[i],
           \A d \in Drums : Playing(d)' =>
              \E i \in 0..n : StrikeAt(d, i) /\ \A k \in i + 1..n : ~ReleaseAt(d, k),
           \A d \in Drums : \A i \in 1..Len(s) :
              Strikes(s[i], d) => i = 1 /\ d \notin struck /\ d \in struck',
           \A d \in Drums :
              d \notin struck' => d \notin struck \/ \E i \in 1..Len(s) : Releases(s[i], d)
    PROVE  OneAtATime'
<1> DEFINE kept == Len(Pending) - n
<1>1. /\ Len(Pending) \in Nat /\ Len(s) \in Nat /\ kept \in Nat
      /\ Len(Pending) = kept + n /\ Len(Pending') = kept + Len(s)
      /\ \A i \in 1..kept : i + n \in 1..Len(Pending) /\ Pending'[i] = Pending[i + n]
      /\ \A i \in 1..Len(s) : Pending'[kept + i] = s[i]
  BY LenProperties
<1> HIDE DEF kept
<1> SUFFICES ASSUME NEW d \in Drums, NEW i \in Nat, NEW j \in Nat, i < j,
                    StrikeAt(d, i)', StrikeAt(d, j)'
             PROVE  \E k \in i + 1..j - 1 : ReleaseAt(d, k)'
  BY DEF OneAtATime
\* Where the earlier one was.
<1>2. ASSUME i <= kept
      PROVE  \E x \in Nat : /\ x <= i + n /\ StrikeAt(d, x)
                            /\ \A k \in x + 1..i + n : ~ReleaseAt(d, k)
  <2>1. CASE i = 0
    <3>1. Playing(d)'
      BY <1>1, <2>1 DEF StrikeAt
    <3>2. PICK x \in 0..n : StrikeAt(d, x) /\ \A k \in x + 1..n : ~ReleaseAt(d, k)
      BY <3>1
    <3> QED  BY <2>1, <3>2
  <2>2. CASE i # 0
    <3>1. i \in 1..kept /\ i # Len(Pending') + 1
      BY <1>1, <1>2, <2>2
    <3>2. Strikes(Pending'[i], d)
      BY <2>2, <3>1 DEF StrikeAt, Strikes
    <3>3. StrikeAt(d, i + n)
      BY <1>1, <3>1, <3>2 DEF StrikeAt
    <3> QED  BY <3>3
  <2> QED  BY <2>1, <2>2
\* The later one, when it is no new one, or a new one after none.
<1>3. ASSUME j <= kept \/ d \notin struck
      PROVE  \E y \in Nat : /\ StrikeAt(d, y) /\ y <= j + n
                            /\ y = j + n \/ y = Len(Pending) + 1
  <2>1. CASE j <= kept
    <3>1. j \in 1..kept /\ j # Len(Pending') + 1 /\ j # 0
      BY <1>1, <2>1
    <3>2. Strikes(Pending'[j], d)
      BY <3>1 DEF StrikeAt, Strikes
    <3>3. StrikeAt(d, j + n)
      BY <1>1, <3>1, <3>2 DEF StrikeAt
    <3> QED  BY <3>3
  <2>2. CASE kept < j
    <3>1. StrikeAt(d, Len(Pending) + 1)
      BY <1>3, <1>1, <2>2 DEF StrikeAt
    <3> QED  BY <1>1, <2>2, <3>1
  <2> QED  BY <1>1, <2>1, <2>2
<1>4. CASE i <= kept /\ (j <= kept \/ d \notin struck)
  <2>1. PICK x \in Nat : /\ x <= i + n /\ StrikeAt(d, x)
                         /\ \A k \in x + 1..i + n : ~ReleaseAt(d, k)
    BY <1>2, <1>4
  <2>2. PICK y \in Nat : /\ StrikeAt(d, y) /\ y <= j + n
                         /\ y = j + n \/ y = Len(Pending) + 1
    BY <1>3, <1>4
  <2>3. x < y
    BY <1>1, <1>4, <2>1, <2>2
  <2>4. PICK k \in x + 1..y - 1 : ReleaseAt(d, k)
    BY <2>1, <2>2, <2>3 DEF OneAtATime
  <2>5. k \in Nat /\ k > i + n /\ k <= j + n - 1 /\ k \in 1..Len(Pending)
        /\ Releases(Pending[k], d)
    <3>1. k \in Nat /\ x < k /\ k < y /\ k <= j + n - 1
      BY <2>2, <2>4
    <3>2. k \in 1..Len(Pending) /\ Releases(Pending[k], d)
      BY <2>4 DEF ReleaseAt
    <3>3. ~(k <= i + n)
      BY <2>1, <2>4, <3>1
    <3> QED  BY <3>1, <3>2, <3>3
  <2>6. /\ k - n \in i + 1..j - 1 /\ k - n \in 1..kept /\ (k - n) + n = k
        /\ k - n \in 1..Len(Pending')
    BY <1>1, <2>5
  <2>7. Pending'[k - n] = Pending[k]
    BY <1>1, <2>6
  <2>8. ReleaseAt(d, k - n)'
    BY <2>5, <2>6, <2>7 DEF ReleaseAt, Releases
  <2> QED  BY <2>6, <2>8
<1>5. ASSUME kept < i PROVE FALSE
  <2>1. i \in 1..Len(Pending') /\ i - kept \in 1..Len(s) /\ kept + (i - kept) = i
    <3>1. j <= Len(Pending') + 1 /\ i # 0
      BY <1>1, <1>5 DEF StrikeAt
    <3> QED  BY <1>1, <1>5, <3>1
  <2>2. Strikes(Pending'[i], d)
    BY <1>1, <1>5, <2>1 DEF StrikeAt, Strikes
  <2>3. i - kept = 1 /\ d \in struck'
    BY <1>1, <2>1, <2>2
  <2>4. j \in 1..Len(Pending') /\ Strikes(Pending'[j], d)
    BY <1>1, <1>5, <2>3 DEF StrikeAt, Strikes
  <2>5. j - kept \in 1..Len(s) /\ kept + (j - kept) = j
    BY <1>1, <1>5, <2>4
  <2>6. j - kept = 1
    BY <1>1, <2>4, <2>5
  <2> QED  BY <1>1, <2>3, <2>6
\* The later one is new, and something new released the drum.
<1>6. CASE i <= kept /\ kept < j /\ d \in struck
  <2>1. j = Len(Pending') + 1 /\ d \notin struck'
    <3>1. ASSUME j \in 1..Len(Pending'), Strikes(Pending'[j], d) PROVE FALSE
      <4>1. j - kept \in 1..Len(s) /\ kept + (j - kept) = j
        BY <1>1, <1>6, <3>1
      <4> QED  BY <1>1, <1>6, <3>1, <4>1
    <3>2. j # 0
      BY <1>1, <1>6
    <3> QED  BY <3>1, <3>2 DEF StrikeAt, Strikes
  <2>2. PICK r \in 1..Len(s) : Releases(s[r], d)
    BY <1>6, <2>1
  <2>3. PICK k \in Nat : k = kept + r
    BY <1>1
  <2>4. k \in i + 1..j - 1 /\ k \in 1..Len(Pending') /\ Releases(Pending'[k], d)
    BY <1>1, <1>6, <2>1, <2>2, <2>3
  <2>5. ReleaseAt(d, k)'
    BY <2>4 DEF ReleaseAt, Releases
  <2> QED  BY <2>4, <2>5
<1> QED  BY <1>1, <1>4, <1>5, <1>6

\* The bytes are taken from the front only.
LEMMA StreamTaken ==
    ASSUME OneAtATime, Pending \in Seq(Bytes), NEW n \in Nat, n <= Len(Pending),
           Len(Pending') = Len(Pending) - n,
           \A i \in 1..Len(Pending) - n : Pending'[i] = Pending[i + n],
           UNCHANGED struck,
           \A d \in Drums : Playing(d)' =>
              \E i \in 0..n : StrikeAt(d, i) /\ \A k \in i + 1..n : ~ReleaseAt(d, k)
    PROVE  OneAtATime'
<1>1. <<>> \in Seq(Bytes) /\ Len(<<>>) = 0
  OBVIOUS
<1>2. PICK s \in Seq(Bytes) : Len(s) = 0
  BY <1>1
<1>3. /\ Len(Pending') = Len(Pending) - n + Len(s)
      /\ \A i \in 1..Len(s) : FALSE
  BY <1>2, LenProperties
<1> QED  BY <1>3, StreamMoved

\* Nothing moves, and what plays may only end.
LEMMA StreamKept ==
    ASSUME OneAtATime, Pending' = Pending, UNCHANGED struck,
           \A d \in Drums : Playing(d)' => Playing(d)
    PROVE  OneAtATime'
<1>1. \A d \in Drums : \A i \in Nat : StrikeAt(d, i)' => StrikeAt(d, i)
  BY DEF StrikeAt, Strikes
<1>2. \A d \in Drums : \A i \in Nat : ReleaseAt(d, i) => ReleaseAt(d, i)'
  BY DEF ReleaseAt, Releases
<1> QED  BY <1>1, <1>2 DEF OneAtATime

\* The tables of midi_reset: nothing plays.
LEMMA TablesReset ==
    ASSUME ResetTables
    PROVE  /\ TableSound' /\ \A d \in Drums : ~Playing(d)'
           /\ Sounding' = [k \in PlayedKeys |-> 0]
           /\ Program' = [c \in {m.channel : m \in Messages} |-> 0]
<1>1. /\ table' = Empty /\ instrument_of' = [c \in MidiChannels |-> 0]
      /\ \A v \in Voices : table'[v].note = Silent /\ table'[v].channel = 0
  BY DEF ResetTables, Empty
<1>2. (Voices \ Free)' = {}
  BY <1>1 DEF Free
<1>3. \A d \in Drums : SetUpFor(d)' = {}
  BY <1>1, DrumsApart DEF SetUpFor
<1>4. TableSound'
  BY <1>1, <1>2, <1>3 DEF TableSound
<1>5. \A d \in Drums : ~Playing(d)'
  BY <1>2 DEF Playing
<1>6. \A k \in PlayedKeys : VoicesOf(k)' = {}
  BY <1>2 DEF VoicesOf
<1>7. Sounding' = [k \in PlayedKeys |-> 0]
  BY <1>6, SoundingAfter, FS_EmptySet
<1>8. Program' = [c \in {m.channel : m \in Messages} |-> 0]
  BY <1>1, MessagesAssumption DEF Program
<1> QED  BY <1>4, <1>5, <1>7, <1>8

\* A step that changes no table.
LEMMA TablesKept ==
    ASSUME TableSound, UNCHANGED <<table, instrument_of>>, pc' = "other" => pc = "other"
    PROVE  /\ TableSound' /\ \A d \in Drums : Playing(d)' => Playing(d)
           /\ Sounding' = Sounding /\ Program' = Program
<1>1. Sounding' = Sounding /\ Program' = Program
  BY DEF Sounding, Program, VoicesOf, Free
<1> QED  BY <1>1 DEF TableSound, Playing, Free, SetUpFor

\* The abstract steps in these terms.
LEMMA BagSteps ==
    /\ Sounding' = [k \in PlayedKeys |-> 0] /\
       Program' = [c \in {m.channel : m \in Messages} |-> 0] /\ Request' = Stray.of =>
         Bag!Next
    /\ Sounding' = Sounding /\ Program' = Program /\ Request = Stray.of /\
       Request' \in Messages => Bag!Next
    /\ \A m \in Messages :
         BagServes(m) /\ Request = m /\ m # Stray.of /\ Request' = Stray.of => Bag!Next
    /\ Sounding' = Sounding /\ Program' = Program /\ Request' = Request => UNCHANGED Bag!vars
<1>1. Sounding' = [k \in PlayedKeys |-> 0] /\
      Program' = [c \in {m.channel : m \in Messages} |-> 0] /\ Request' = Stray.of =>
         Bag!Restart
  BY DEF Bag!Restart, Bag!Silent, Bag!Channels, Sounding, Program, Request
<1>2. Sounding' = Sounding /\ Program' = Program /\ Request = Stray.of /\
      Request' \in Messages => Bag!Ask
  BY DEF Bag!Ask, Sounding, Program, Request
<1>3. ASSUME NEW m \in Messages, BagServes(m), Request = m, m # Stray.of,
             Request' = Stray.of
      PROVE  Bag!Serve
  <2> DEFINE r == IF pc = "handle" THEN received[1].of ELSE Stray.of
  <2>1. m = r /\ r # Stray.of /\ Request' = Stray.of
    BY <1>3 DEF Request
  <2>2. \/ r.op = "play" /\ Bag!Play(<<r.channel, r.data>>)
        \/ r.op = "stop" /\ Bag!Stop(<<r.channel, r.data>>)
        \/ r.op \in {"program", "instrument"} /\ Bag!Change(r.channel, r.data)
        \/ r.op = "silence" /\ Bag!Silence(r.channel)
        \/ /\ r.op \notin {"play", "stop", "program", "instrument", "silence"}
           /\ Sounding' = Sounding /\ Program' = Program
    <3> HIDE DEF r
    <3> QED  BY <1>3, <2>1, Zenon DEF BagServes, Bag!Play, Bag!Stop, Bag!Change, Bag!Silence
  <2> QED  BY <2>1, <2>2, Zenon DEF Bag!Serve, Sounding, Program, Request
<1>4. Sounding' = Sounding /\ Program' = Program /\ Request' = Request => UNCHANGED Bag!vars
  BY DEF Bag!vars, Sounding, Program, Request
<1> QED  BY <1>1, <1>2, <1>3, <1>4 DEF Bag!Next

-------------------------------------------------------------------------------
(* The steps of the refinement. *)

StepServed == TableSound' /\ OneAtATime' /\ (Bag!Next \/ UNCHANGED Bag!vars)

\* A step that changes no table and hands out no message is none of the abstract
\* specification.
LEMMA Stutters ==
    ASSUME TableSound, UNCHANGED <<table, instrument_of>>, Request' = Request,
           pc' = "other" => pc = "other", OneAtATime'
    PROVE  StepServed
  BY TablesKept, BagSteps DEF StepServed

\* Where a byte of the message being received, or one in flight, is pending.
LEMMA PendingBytes ==
    ASSUME UartTypeOK(Bytes), received \in Seq(Bytes)
    PROVE  /\ InFlight \in Seq(Bytes) /\ Pending \in Seq(Bytes)
           /\ Len(Pending) = Len(received) + Len(InFlight)
           /\ \A i \in 1..Len(received) : Pending[i] = received[i]
           /\ \A i \in 1..Len(InFlight) : Pending[i + Len(received)] = InFlight[i]
           /\ received = <<>> => Pending = InFlight
<1>1. /\ rx_fifo \in Seq(Bytes) /\ reader_byte \in Seq(Bytes) /\ pty \in Seq(Bytes)
      /\ rx_fifo \o reader_byte \in Seq(Bytes) /\ InFlight \in Seq(Bytes)
  BY ConcatProperties DEF UartTypeOK, InFlight
<1>2. /\ Pending \in Seq(Bytes) /\ Len(Pending) = Len(received) + Len(InFlight)
      /\ \A i \in 1..Len(received) + Len(InFlight) :
           Pending[i] = IF i <= Len(received) THEN received[i] ELSE InFlight[i - Len(received)]
  BY <1>1, ConcatProperties DEF Pending
<1>3. Len(received) \in Nat /\ Len(InFlight) \in Nat
  BY <1>1, LenProperties
<1>4. received = <<>> => Pending = InFlight
  BY <1>1, ConcatEmptySeq DEF Pending
<1>5. ASSUME NEW i \in 1..Len(InFlight) PROVE Pending[i + Len(received)] = InFlight[i]
  <2>1. /\ i + Len(received) \in 1..Len(received) + Len(InFlight)
        /\ ~(i + Len(received) <= Len(received)) /\ (i + Len(received)) - Len(received) = i
    BY <1>3
  <2> QED  BY <1>2, <2>1
<1> QED  BY <1>1, <1>2, <1>3, <1>4, <1>5

\* What is written comes last.
LEMMA PendingWritten ==
    ASSUME UartTypeOK(Bytes), received \in Seq(Bytes), NEW written \in Seq(Bytes),
           pty' = pty \o written, UNCHANGED <<rx_fifo, reader_byte>>
    PROVE  /\ received' = received => Pending' = Pending \o written
           /\ received' = <<>> => Pending' = InFlight \o written
<1>1. /\ rx_fifo \in Seq(Bytes) /\ reader_byte \in Seq(Bytes) /\ pty \in Seq(Bytes)
      /\ rx_fifo \o reader_byte \in Seq(Bytes) /\ InFlight \in Seq(Bytes)
  BY ConcatProperties DEF UartTypeOK, InFlight
<1>2. InFlight' = InFlight \o written
  <2>1. PICK front \in Seq(Bytes) : front = rx_fifo \o reader_byte
    BY <1>1
  <2>2. InFlight' = front \o (pty \o written) /\ InFlight = front \o pty
    BY <2>1 DEF InFlight
  <2>3. (front \o pty) \o written = front \o (pty \o written)
    <3>1. pty \in Seq(Bytes) /\ written \in Seq(Bytes)
      BY <1>1
    <3> QED  BY <3>1, ConcatAssociative, SMTT(40)
  <2> QED  BY <2>2, <2>3
<1>3. received' = received => Pending' = Pending \o written
  <2>1. received \o (InFlight \o written) = (received \o InFlight) \o written
    <3>1. InFlight \in Seq(Bytes) /\ written \in Seq(Bytes)
      BY <1>1
    <3> QED  BY <3>1, ConcatAssociative
  <2> QED  BY <1>2, <2>1 DEF Pending
<1>4. received' = <<>> => Pending' = InFlight \o written
  BY <1>1, <1>2, ConcatProperties, ConcatEmptySeq DEF Pending
<1> QED  BY <1>3, <1>4

\* What the program starts in is what the abstract specification starts in.
LEMMA InitServed == Init => TableSound /\ OneAtATime /\ Bag!Init
<1> SUFFICES ASSUME Init PROVE TableSound /\ OneAtATime /\ Bag!Init
  OBVIOUS
<1>1. /\ table = Empty /\ instrument_of = [c \in MidiChannels |-> 0] /\ pc = "other"
      /\ \A v \in Voices : table[v].note = Silent /\ table[v].channel = 0
  BY DEF Init, Empty
<1>2. Voices \ Free = {} /\ \A d \in Drums : SetUpFor(d) = {}
  BY <1>1, DrumsApart DEF Free, SetUpFor
<1>3. TableSound
  BY <1>1, <1>2 DEF TableSound
<1>4. PICK back \in Echoes : UartInit(back)
  BY DEF Init
<1>5. Pending = back
  <2>1. back \in Seq(Bytes)
    BY <1>4, InitSound DEF IInv, UartSound, UartTypeOK, UartInit
  <2> QED  BY <1>4, <2>1, ConcatEmptySeq DEF UartInit, InFlight, Pending, Init
<1>6. \A i \in 1..Len(Pending) : \A d : ~Strikes(Pending[i], d)
  BY <1>5 DEF Echoes, Stray, Strikes
<1>7. OneAtATime
  <2>1. \A d \in Drums : \A i \in Nat : StrikeAt(d, i) => i = Len(Pending) + 1
    BY <1>2, <1>6 DEF StrikeAt, Playing
  <2>2. Len(Pending) \in Nat
    BY <1>5 DEF Echoes
  <2> QED  BY <2>1, <2>2 DEF OneAtATime
<1>8. Bag!Init
  <2>1. \A k \in PlayedKeys : VoicesOf(k) = {}
    BY <1>2 DEF VoicesOf
  <2>2. Sounding = [k \in PlayedKeys |-> 0]
    BY <2>1, FS_EmptySet DEF Sounding
  <2>3. Program = [c \in {m.channel : m \in Messages} |-> 0]
    BY <1>1, MessagesAssumption DEF Program
  <2>4. Request = Stray.of
    BY <1>1 DEF Request
  <2> QED  BY <2>2, <2>3, <2>4 DEF Bag!Init, Bag!Silent, Bag!Channels, Sounding, Program, Request
<1> QED  BY <1>3, <1>7, <1>8

\* A reset forgets the message being received, empties the tables and may echo.
LEMMA ResetServed == IInv /\ TableSound /\ OneAtATime /\ Reset => StepServed
<1> SUFFICES ASSUME IInv, TableSound, OneAtATime, Reset PROVE StepServed
  OBVIOUS
<1>1. PICK back \in Echoes : pty' = pty \o back
  BY DEF Reset
<1>2. back \in Seq(Bytes) /\ Len(back) \in Nat /\ \A i \in 1..Len(back) : back[i] = Stray
  <2>1. Stray \in Bytes
    BY DEF Bytes
  <2>2. CASE back = <<>>
    BY <2>2
  <2>3. CASE back = <<Stray>>
    <3>1. Len(back) = 1 /\ back[1] = Stray
      BY <2>3
    <3> QED  BY <2>1, <2>3, <3>1
  <2> QED  BY <2>2, <2>3 DEF Echoes
<1>3. UNCHANGED <<rx_fifo, reader_byte, struck>> /\ received' = <<>> /\ pc' = "other"
      /\ ResetTables
  BY DEF Reset
<1>4. UartTypeOK(Bytes) /\ received \in Seq(Bytes)
  BY DEF IInv, UartSound, StreamSound
<1>5. /\ TableSound' /\ \A d \in Drums : ~Playing(d)'
      /\ Sounding' = [k \in PlayedKeys |-> 0]
      /\ Program' = [c \in {m.channel : m \in Messages} |-> 0]
  BY <1>3, TablesReset
<1>6. Bag!Next
  BY <1>3, <1>5, BagSteps DEF Request
<1>7. OneAtATime'
  <2>1. /\ InFlight \in Seq(Bytes) /\ Pending \in Seq(Bytes)
        /\ Len(Pending) = Len(received) + Len(InFlight)
        /\ \A i \in 1..Len(InFlight) : Pending[i + Len(received)] = InFlight[i]
    BY <1>4, PendingBytes
  <2>2. Pending' = InFlight \o back
    BY <1>1, <1>2, <1>3, <1>4, PendingWritten
  <2>3. PICK n \in Nat : n = Len(received)
    BY <1>4, LenProperties
  <2>4. Len(InFlight) \in Nat /\ n <= Len(Pending) /\ Len(Pending) - n = Len(InFlight)
    BY <2>1, <2>3, LenProperties
  <2>5. /\ Len(Pending') = Len(InFlight) + Len(back)
        /\ \A i \in 1..Len(InFlight) + Len(back) :
             Pending'[i] = IF i <= Len(InFlight) THEN InFlight[i] ELSE back[i - Len(InFlight)]
    BY <1>2, <2>1, <2>2, ConcatProperties
  <2>6. \A i \in 1..Len(InFlight) : Pending'[i] = Pending[i + n]
    BY <1>2, <2>1, <2>3, <2>4, <2>5
  <2>7. \A i \in 1..Len(back) : Pending'[Len(InFlight) + i] = back[i]
    BY <1>2, <2>4, <2>5
  <2>8. \A i \in 1..Len(back) : \A d \in Drums : ~Strikes(back[i], d)
    BY <1>2 DEF Strikes, Stray
  <2> QED  BY <1>2, <1>3, <1>5, <2>1, <2>4, <2>5, <2>6, <2>7, <2>8, StreamMoved
<1> QED  BY <1>5, <1>6, <1>7 DEF StepServed

\* Another program may take a byte; nothing plays meanwhile.
LEMMA OtherProgramServed == IInv /\ TableSound /\ OneAtATime /\ OtherProgram => StepServed
<1> SUFFICES ASSUME IInv, TableSound, OneAtATime, OtherProgram PROVE StepServed
  OBVIOUS
<1>1. /\ pc = "other" /\ received = <<>>
      /\ UNCHANGED <<reader_byte, pty, struck, pc, received, table, instrument_of>>
      /\ ReadRBR \/ \E enable \in BOOLEAN : WriteIER(enable)
  BY DEF OtherProgram, synth_vars, voice_vars, IInv, StreamSound
<1>2. UartTypeOK(Bytes) /\ received \in Seq(Bytes) /\ RegistersExact
  BY DEF IInv, UartSound, StreamSound
<1>3. InFlight \in Seq(Bytes) /\ Pending = InFlight
  BY <1>1, <1>2, PendingBytes
<1>4. \A d \in Drums : ~Playing(d)'
  <2>1. table' = Empty
    BY <1>1 DEF TableSound
  <2>2. (Voices \ Free)' = {}
    BY <2>1 DEF Free, Empty
  <2> QED  BY <2>2 DEF Playing
<1>5. OneAtATime'
  <2>1. CASE InFlight' = InFlight
    <3>1. Pending' = Pending
      BY <1>1, <2>1 DEF Pending
    <3> QED  BY <1>1, <1>4, <3>1, StreamKept
  <2>2. CASE InFlight # <<>> /\ InFlight' = Tail(InFlight)
    <3>1. Pending' = Tail(Pending) /\ Pending # <<>>
      <4>1. InFlight' \in Seq(Bytes)
        BY <1>3, <2>2, HeadTailProperties
      <4>2. Pending' = InFlight'
        BY <1>1, <4>1, ConcatEmptySeq DEF Pending
      <4> QED  BY <1>3, <2>2, <4>2
    <3>2. /\ Len(Pending) \in Nat /\ 1 <= Len(Pending) /\ Len(Pending') = Len(Pending) - 1
          /\ \A i \in 1..Len(Pending) - 1 : Pending'[i] = Pending[i + 1]
      BY <1>3, <3>1, HeadTailProperties, EmptySeq
    <3> QED  BY <1>1, <1>3, <1>4, <3>2, StreamTaken
  <2>3. CASE ReadRBR
    BY <1>1, <1>2, <2>1, <2>2, <2>3, ReadRBRSound
  <2>4. CASE \E enable \in BOOLEAN : WriteIER(enable)
    BY <1>1, <2>1, <2>4 DEF WriteIER, InFlight
  <2> QED  BY <1>1, <2>3, <2>4
<1> QED  BY <1>1, <1>5, Stutters DEF Request

\* The synthesizer starts with the tables empty.
LEMMA StartServed == IInv /\ TableSound /\ OneAtATime /\ Start => StepServed
<1> SUFFICES ASSUME IInv, TableSound, OneAtATime, Start PROVE StepServed
  OBVIOUS
<1>1. /\ pc = "other" /\ pc' = "wait" /\ received' = <<>> /\ received = <<>>
      /\ ResetTables /\ UNCHANGED <<uart_vars, struck>>
  BY DEF Start, IInv, StreamSound
<1>2. /\ TableSound' /\ \A d \in Drums : ~Playing(d)'
      /\ Sounding' = [k \in PlayedKeys |-> 0]
      /\ Program' = [c \in {m.channel : m \in Messages} |-> 0]
  BY <1>1, TablesReset
<1>3. Bag!Next
  BY <1>1, <1>2, BagSteps DEF Request
<1>4. Pending' = Pending
  BY <1>1 DEF Pending, InFlight, uart_vars, register_vars
<1>5. OneAtATime'
  BY <1>1, <1>2, <1>4, StreamKept
<1> QED  BY <1>2, <1>3, <1>5 DEF StepServed

\* The byte that is seen is still pending.
LEMMA SeeStatusServed == IInv /\ TableSound /\ OneAtATime /\ SeeStatus => StepServed
<1> SUFFICES ASSUME IInv, TableSound, OneAtATime, SeeStatus PROVE StepServed
  OBVIOUS
<1>1. /\ pc = "wait" /\ pc' = "fetch"
      /\ UNCHANGED <<uart_vars, struck, received, table, instrument_of>>
  BY DEF SeeStatus, voice_vars
<1>2. Pending' = Pending
  BY <1>1 DEF Pending, InFlight, uart_vars, register_vars
<1>3. OneAtATime'
  BY <1>1, <1>2, TablesKept, StreamKept
<1> QED  BY <1>1, <1>3, Stutters DEF Request

\* A byte goes on to the queue, in its place.
LEMMA ReaderThreadServed == IInv /\ TableSound /\ OneAtATime /\ ReaderThread => StepServed
<1> SUFFICES ASSUME IInv, TableSound, OneAtATime, ReaderThread PROVE StepServed
  OBVIOUS
<1>1. InFlight' = InFlight /\ UNCHANGED <<struck, pc, received, table, instrument_of>>
  BY ReaderSound DEF IInv, UartSound, ReaderThread, synth_vars, voice_vars
<1>2. Pending' = Pending
  BY <1>1 DEF Pending
<1>3. OneAtATime'
  BY <1>1, <1>2, TablesKept, StreamKept
<1> QED  BY <1>1, <1>3, Stutters DEF Request

\* The byte fetched is still pending, or is dropped; with the last one the message
\* is asked for.
LEMMA FetchServed == IInv /\ TableSound /\ OneAtATime /\ FetchByte => StepServed
<1> SUFFICES ASSUME IInv, TableSound, OneAtATime, FetchByte PROVE StepServed
  OBVIOUS
<1> DEFINE byte == Head(rx_fifo)
           more == IF received = <<>> /\ byte.pos # 1 THEN <<>> ELSE Append(received, byte)
<1>1. /\ pc = "fetch" /\ ReadRBR
      /\ UNCHANGED <<reader_byte, pty, struck, table, instrument_of>>
      /\ received' = more /\ pc' \in {"wait", "handle"}
      /\ pc' = "handle" => more # <<>>
  BY DEF FetchByte, voice_vars
<1>2. UartTypeOK(Bytes) /\ RegistersExact /\ received \in Seq(Bytes) /\ rx_fifo # <<>>
  BY <1>1 DEF IInv, UartSound, StreamSound
<1>3. InFlight # <<>> /\ InFlight[1] = byte /\ InFlight' = Tail(InFlight)
  BY <1>1, <1>2, ReadRBRSound
<1>4. /\ InFlight \in Seq(Bytes) /\ Pending \in Seq(Bytes)
      /\ received = <<>> => Pending = InFlight
  BY <1>2, PendingBytes
<1>5. byte \in Bytes /\ Tail(InFlight) \in Seq(Bytes) /\ InFlight = <<byte>> \o Tail(InFlight)
  BY <1>3, <1>4, HeadTailProperties
<1>6. \A d \in Drums : Playing(d)' => Playing(d)
  BY <1>1, TablesKept
<1>7. CASE received = <<>> /\ byte.pos # 1
  <2>1. more = <<>> /\ Pending' = Tail(Pending) /\ Pending = InFlight
    BY <1>1, <1>3, <1>4, <1>5, <1>7, ConcatEmptySeq DEF Pending
  <2>2. /\ Len(Pending) \in Nat /\ 1 <= Len(Pending) /\ Len(Pending') = Len(Pending) - 1
        /\ \A i \in 1..Len(Pending) - 1 : Pending'[i] = Pending[i + 1]
    BY <1>3, <1>4, <2>1, HeadTailProperties, EmptySeq
  <2>3. \A d \in Drums : ~ReleaseAt(d, 1)
    BY <1>3, <1>7, <2>1 DEF ReleaseAt, Releases
  <2>4. \A d \in Drums : Playing(d)' =>
           \E i \in 0..1 : StrikeAt(d, i) /\ \A k \in i + 1..1 : ~ReleaseAt(d, k)
    BY <1>6, <2>3 DEF StrikeAt
  <2>5. OneAtATime'
    BY <1>1, <1>4, <2>2, <2>4, StreamTaken
  <2>6. Request' = Request
    BY <1>1, <2>1 DEF Request
  <2> QED  BY <1>1, <2>5, <2>6, Stutters
<1>8. CASE ~(received = <<>> /\ byte.pos # 1)
  <2>1. more = Append(received, byte)
    BY <1>8
  <2>2. Pending' = Pending
    <3>1. PICK b \in Bytes : b = byte
      BY <1>5
    <3>2. PICK rest \in Seq(Bytes) : rest = Tail(InFlight)
      BY <1>5
    <3>3. Append(received, b) = received \o <<b>> /\ <<b>> \in Seq(Bytes)
      BY <1>2, AppendIsConcat
    <3>4. (received \o <<b>>) \o rest = received \o (<<b>> \o rest)
      BY <1>2, <3>3, ConcatAssociative
    <3> QED  BY <1>1, <1>3, <1>5, <2>1, <3>1, <3>2, <3>3, <3>4 DEF Pending
  <2>3. OneAtATime'
    BY <1>1, <1>6, <2>2, StreamKept
  <2>4. CASE pc' = "wait"
    <3>1. Request' = Request
      BY <1>1, <2>4 DEF Request
    <3> QED  BY <1>1, <2>3, <3>1, Stutters
  <2>5. CASE pc' = "handle"
    <3>1. received'[1].of \in Messages
      BY <2>5, SynthSound DEF Synth, IInv, StreamSound
    <3>2. Request = Stray.of /\ Request' \in Messages
      BY <1>1, <2>5, <3>1 DEF Request
    <3>3. TableSound' /\ Sounding' = Sounding /\ Program' = Program
      BY <1>1, TablesKept
    <3>4. Bag!Next
      BY <3>2, <3>3, BagSteps
    <3> QED  BY <2>3, <3>3, <3>4 DEF StepServed
  <2> QED  BY <1>1, <2>4, <2>5
<1> QED  BY <1>7, <1>8

\* The message is served, and its bytes are pending no longer.
LEMMA HandleMessageServed == IInv /\ TableSound /\ OneAtATime /\ HandleMessage => StepServed
<1> SUFFICES ASSUME IInv, TableSound, OneAtATime, HandleMessage PROVE StepServed
  OBVIOUS
<1>1. /\ pc = "handle" /\ pc' = "wait" /\ received' = <<>>
      /\ UNCHANGED <<uart_vars, struck>>
  BY DEF HandleMessage
<1>2. PICK m \in Messages : m = received[1].of /\ Handle(m, m.data)
  BY <1>1, HandledSent DEF IInv, HandleMessage
<1>3. /\ UartTypeOK(Bytes) /\ received \in Seq(Bytes) /\ received # <<>> /\ WholeMessages
      /\ VoiceTypes /\ VoiceTypes'
  BY <1>1, SynthSound DEF Synth, IInv, UartSound, StreamSound, VoicesSound
<1>4. /\ InFlight \in Seq(Bytes) /\ Pending \in Seq(Bytes)
      /\ Len(Pending) = Len(received) + Len(InFlight)
      /\ \A i \in 1..Len(received) : Pending[i] = received[i]
      /\ \A i \in 1..Len(InFlight) : Pending[i + Len(received)] = InFlight[i]
  BY <1>3, PendingBytes
<1>5. PICK n \in Nat : n = Len(received) /\ n >= 1 /\ Len(InFlight) \in Nat
  BY <1>3, <1>4, EmptySeq
<1>6. ASSUME NEW i \in 1..n PROVE Pending[i].of = m /\ Pending[i].pos = i
  <2>1. received[i] = [of |-> m, pos |-> i]
    BY <1>2, <1>3, <1>5 DEF WholeMessages
  <2>2. Pending[i] = received[i]
    BY <1>4, <1>5
  <2> QED  BY <2>1, <2>2
<1>7. \A d \in Drums : NoteOn(m, d) => StrikeAt(d, 1)
  BY <1>4, <1>5, <1>6 DEF NoteOn, StrikeAt, Strikes
<1>8. \A d \in Drums, k \in 1..n : ReleaseAt(d, k) => NoteOff(m, d) /\ k = 1
  BY <1>4, <1>5, <1>6 DEF NoteOff, ReleaseAt, Releases
<1>9. \A d \in Drums : NoteOn(m, d) => ~Playing(d)
  <2>1. SUFFICES ASSUME NEW d \in Drums, NoteOn(m, d), Playing(d) PROVE FALSE
    OBVIOUS
  <2>2. StrikeAt(d, 0) /\ StrikeAt(d, 1)
    BY <1>7, <2>1 DEF StrikeAt
  <2> QED  BY <2>2 DEF OneAtATime
<1>10. MessageServed(m)
  BY <1>1, <1>2, <1>3, <1>9, HandleServed
<1>11. OneAtATime'
  <2>1. Pending' = InFlight
    BY <1>1, <1>4, ConcatEmptySeq DEF Pending, InFlight, uart_vars, register_vars
  <2>2. \A d \in Drums : Playing(d)' =>
           \E i \in 0..n : StrikeAt(d, i) /\ \A k \in i + 1..n : ~ReleaseAt(d, k)
    <3>1. SUFFICES ASSUME NEW d \in Drums, Playing(d)'
                   PROVE  \E i \in 0..n : StrikeAt(d, i) /\ \A k \in i + 1..n : ~ReleaseAt(d, k)
      OBVIOUS
    <3>2. CASE NoteOn(m, d)
      <4>1. StrikeAt(d, 1) /\ \A k \in 2..n : ~ReleaseAt(d, k)
        BY <1>7, <1>8, <3>2
      <4> QED  BY <1>5, <4>1
    <3>3. CASE Playing(d) /\ ~NoteOff(m, d)
      <4>1. StrikeAt(d, 0) /\ \A k \in 1..n : ~ReleaseAt(d, k)
        BY <1>8, <3>3 DEF StrikeAt
      <4> QED  BY <1>5, <4>1
    <3> QED  BY <1>10, <3>1, <3>2, <3>3 DEF MessageServed
  <2>3. /\ n <= Len(Pending) /\ Len(Pending') = Len(Pending) - n
        /\ \A i \in 1..Len(Pending) - n : Pending'[i] = Pending[i + n]
    BY <1>4, <1>5, <2>1
  <2> QED  BY <1>1, <1>4, <2>2, <2>3, StreamTaken
<1>12. Bag!Next
  <2>1. Request = m /\ Request' = Stray.of
    BY <1>1, <1>2 DEF Request
  <2>2. m # Stray.of
    BY MessagesAssumption DEF Operations, Stray
  <2> QED  BY <1>10, <2>1, <2>2, BagSteps DEF MessageServed
<1> QED  BY <1>10, <1>11, <1>12 DEF StepServed, MessageServed

\* The message is written whole, and a drum that was struck is not struck again.
LEMMA SendServed ==
    ASSUME OneStrike, IInv, TableSound, OneAtATime, NEW m \in Messages, Send(m)
    PROVE  StepServed
<1> DEFINE w == [i \in 1..Length(m.op) |-> [of |-> m, pos |-> i]]
<1>1. PICK written \in Seq(Bytes) : written = w
  BY MessageWhole
<1>2. /\ pty' = pty \o written
      /\ UNCHANGED <<rx_fifo, reader_byte, pc, received, table, instrument_of>>
  BY <1>1 DEF Send, WriteMessage, register_vars, synth_vars, voice_vars
<1>3. /\ Len(written) \in {2, 3}
      /\ \A i \in 1..Len(written) : written[i].of = m /\ written[i].pos = i
  <2>1. ASSUME NEW i \in 1..Len(written) PROVE written[i].of = m /\ written[i].pos = i
    <3>1. written[i] = [of |-> m, pos |-> i]
      BY <1>1 DEF Length
    <3> QED  BY <3>1
  <2> QED  BY <1>1, <2>1 DEF Length
<1>4. UartTypeOK(Bytes) /\ received \in Seq(Bytes)
  BY DEF IInv, UartSound, StreamSound
<1>5. Pending \in Seq(Bytes) /\ Pending' = Pending \o written
  BY <1>2, <1>4, PendingBytes, PendingWritten
<1>6. /\ Len(Pending) \in Nat /\ Len(Pending') = Len(Pending) - 0 + Len(written)
      /\ \A i \in 1..Len(Pending) - 0 : Pending'[i] = Pending[i + 0]
      /\ \A i \in 1..Len(written) : Pending'[Len(Pending) - 0 + i] = written[i]
  <2>1. /\ Len(Pending) \in Nat /\ Len(Pending') = Len(Pending) + Len(written)
        /\ \A i \in 1..Len(Pending) + Len(written) :
             Pending'[i] = IF i <= Len(Pending) THEN Pending[i] ELSE written[i - Len(Pending)]
    BY <1>5, ConcatProperties, LenProperties
  <2> QED  BY <1>3, <2>1
<1>7. ASSUME NEW d \in Drums, NEW i \in 1..Len(written), Strikes(written[i], d)
      PROVE  i = 1 /\ d \notin struck /\ d \in struck'
  <2>1. i = 1 /\ m.channel = MIDI_RHYTHM_CHANNEL /\ m.op = "play" /\ m.data = d
    BY <1>3, <1>7 DEF Strikes
  <2> QED  BY <2>1 DEF Send
<1>8. ASSUME NEW d \in Drums, d \notin struck', d \in struck
      PROVE  \E i \in 1..Len(written) : Releases(written[i], d)
  <2>1. m.channel = MIDI_RHYTHM_CHANNEL /\ (m.op = "silence" \/ (m.op = "stop" /\ m.data = d))
    <3>1. CASE m.channel # MIDI_RHYTHM_CHANNEL
      BY <1>8, <3>1 DEF Send
    <3>2. CASE m.op = "play"
      BY <1>8, <3>2 DEF Send
    <3>3. CASE m.op = "stop" /\ m.data # d
      BY <1>8, <3>3 DEF Send
    <3>4. CASE m.op \notin {"play", "stop", "silence"}
      BY <1>8, <3>4, Zenon DEF Send
    <3> QED  BY <3>1, <3>2, <3>3, <3>4
  <2>2. 1 \in 1..Len(written) /\ written[1].of = m /\ written[1].pos = 1
    BY <1>3
  <2>3. Releases(written[1], d)
    BY <2>1, <2>2 DEF Releases
  <2> QED  BY <2>2, <2>3
<1>9. \A d \in Drums : Playing(d)' =>
        \E i \in 0..0 : StrikeAt(d, i) /\ \A k \in i + 1..0 : ~ReleaseAt(d, k)
  BY <1>2, TablesKept DEF StrikeAt
<1>10. OneAtATime'
  BY <1>5, <1>6, <1>7, <1>8, <1>9, StreamMoved
<1> QED  BY <1>2, <1>10, Stutters DEF Request

\* Every step keeps the invariant and is a step of the abstract specification or none.
LEMMA NextServed ==
    ASSUME OneStrike
    PROVE  IInv /\ TableSound /\ OneAtATime /\ [Next]_vars => StepServed
<1> SUFFICES ASSUME IInv, TableSound, OneAtATime, [Next]_vars PROVE StepServed
  OBVIOUS
<1>1. CASE UNCHANGED vars
  <2>1. UNCHANGED <<struck, pc, received, table, instrument_of>> /\ Pending' = Pending
    BY <1>1 DEF vars, uart_vars, register_vars, synth_vars, voice_vars, Pending, InFlight
  <2>2. OneAtATime'
    BY <2>1, TablesKept, StreamKept
  <2> QED  BY <2>1, <2>2, Stutters DEF Request
<1> QED  BY <1>1, ResetServed, OtherProgramServed, StartServed, SeeStatusServed, FetchServed,
            HandleMessageServed, SendServed, ReaderThreadServed DEF Next, Synth, Musician

\* What the table says is playing is what the messages ask for, each served once and
\* exactly, with any number of voices, however bytes, resets and other programs
\* come between (midi_synth.s, midi.inc), when the musician releases a drum before
\* striking it again.
THEOREM PolyphonyImplemented == ASSUME OneStrike PROVE Spec => ImplementsPolyphony
<1>1. Init => TableSound /\ OneAtATime /\ Bag!Init
  BY InitServed
<1>2. IInv /\ TableSound /\ OneAtATime /\ [Next]_vars =>
        TableSound' /\ OneAtATime' /\ [Bag!Next]_(Bag!vars)
  BY NextServed DEF StepServed
<1> QED  BY <1>1, <1>2, Invariance, PTL DEF Spec, ImplementsPolyphony, Bag!Spec

===============================================================================
