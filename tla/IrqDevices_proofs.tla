--------------------------- MODULE IrqDevices_proofs ---------------------------
(***************************************************************************)
(* Proofs about two devices of the interrupt line.                         *)
(*                                                                         *)
(* The serial interface: for any number of bytes, any rates and any        *)
(* control words, and in every interleaving of the emulator thread with    *)
(* the reader thread and the host, bytes are neither doubled nor           *)
(* reordered, none waits behind a flag that calls the queue empty, and no  *)
(* interrupt is left on the line that nobody can clear.                    *)
(*                                                                         *)
(* The interrupt logic of the 65C22: with any number of ids and in every   *)
(* interleaving of the two threads, no enabled flag is left without an     *)
(* interrupt and every interrupt on the line has one owner.                *)
(***************************************************************************)
EXTENDS HD6301Serial, W65C22, SequenceTheorems, TLAPS

-------------------------------------------------------------------------------
(* The serial interface. *)

\* What both parts of InOrder say of the bytes s between the host and a register
\* that holds byte first, none of them newer than byte last.
Ordered(first, s, last) ==
    /\ \A i, j \in DOMAIN s : i < j => s[i] < s[j]
    /\ \A i \in DOMAIN s : first < s[i] /\ s[i] <= last
    /\ first <= last

\* poll() reported input only when there was some, and nobody but the reader
\* thread takes it away.
InputThere == reader = "input" /\ "in" \in revents => pty # <<>>

\* No byte is in the queue while the flag that tick() tests calls it empty: it is
\* tested outside the mutex, and tick() would pass the byte by.
NoStrandedByte == rx_fifo # <<>> => ~rx_fifo_empty

\* The transmitter holds an interrupt only when TIE is set and no byte is on its
\* way out: an expired countdown does not take a second id over the first.
TransmitterIdle == transmit_id # NoIrq => "TIE" \in control /\ transmit_countdown = 0

\* The two ids are different.
IdsDistinct == transmit_id # NoIrq => transmit_id # receive_id

\* What holds whatever software writes to TRCSR.
IInv ==
    /\ TypeOK
    /\ Ordered(receive_data_register, InFlight, host_sent)
    /\ reader = "push" => reader_byte \in Bytes
    /\ InputThere
    /\ NoStrandedByte

\* What holds if it does not change TIE while an interrupt is outstanding.
IdsInv == IdsOwned /\ TransmitterIdle /\ IdsDistinct

-------------------------------------------------------------------------------
(* Sequences of bytes in ascending order.                                  *)

LEMMA OrderedAppend ==
    ASSUME NEW first \in Nat, NEW s \in Seq(Nat), NEW last \in Nat, Ordered(first, s, last)
    PROVE  Ordered(first, Append(s, last + 1), last + 1)
<1> DEFINE t == Append(s, last + 1)
<1>1. /\ Len(t) = Len(s) + 1 /\ t \in Seq(Nat)
      /\ \A i \in 1..Len(s) : t[i] = s[i]
      /\ t[Len(s) + 1] = last + 1
  BY AppendProperties
<1>2. DOMAIN t = 1..Len(s) + 1 /\ DOMAIN s = 1..Len(s) /\ Len(s) \in Nat
  BY <1>1, LenProperties
<1>3. \A i \in 1..Len(s) : s[i] \in Nat
  BY ElementOfSeq
<1>4. ASSUME NEW i \in DOMAIN t, NEW j \in DOMAIN t, i < j
      PROVE  t[i] < t[j]
  <2>1. i \in 1..Len(s)
    BY <1>2, <1>4
  <2>2. CASE j \in 1..Len(s)
    BY <1>1, <1>2, <1>4, <2>1, <2>2 DEF Ordered
  <2>3. CASE j = Len(s) + 1
    BY <1>1, <1>2, <1>3, <2>1, <2>3 DEF Ordered
  <2>4. QED BY <1>2, <2>2, <2>3
<1>5. \A i \in DOMAIN t : first < t[i] /\ t[i] <= last + 1
  BY <1>1, <1>2, <1>3 DEF Ordered
<1>6. QED BY <1>4, <1>5 DEF Ordered

LEMMA OrderedTail ==
    ASSUME NEW first \in Nat, NEW s \in Seq(Nat), NEW last \in Nat,
           Ordered(first, s, last), s # <<>>
    PROVE  Ordered(Head(s), Tail(s), last)
<1>1. /\ Len(s) \in Nat /\ Len(s) > 0 /\ DOMAIN s = 1..Len(s) /\ Head(s) = s[1]
  BY EmptySeq, LenProperties
<1>2. /\ Tail(s) \in Seq(Nat) /\ DOMAIN Tail(s) = 1..Len(s) - 1
      /\ \A i \in 1..Len(s) - 1 : Tail(s)[i] = s[i + 1]
  BY <1>1, HeadTailProperties, LenProperties
<1>3. \A i, j \in DOMAIN s : i < j => s[i] < s[j]
  BY DEF Ordered
<1>4. \A i \in DOMAIN s : s[i] <= last
  BY DEF Ordered
<1>5. ASSUME NEW i \in DOMAIN Tail(s), NEW j \in DOMAIN Tail(s), i < j
      PROVE  Tail(s)[i] < Tail(s)[j]
  <2>1. /\ i + 1 \in DOMAIN s /\ j + 1 \in DOMAIN s /\ i + 1 < j + 1
        /\ Tail(s)[i] = s[i + 1] /\ Tail(s)[j] = s[j + 1]
    BY <1>1, <1>2, <1>5
  <2>2. QED BY <1>3, <2>1
<1>6. ASSUME NEW i \in DOMAIN Tail(s)
      PROVE  Head(s) < Tail(s)[i] /\ Tail(s)[i] <= last
  <2>1. /\ 1 \in DOMAIN s /\ i + 1 \in DOMAIN s /\ 1 < i + 1
        /\ Tail(s)[i] = s[i + 1]
    BY <1>1, <1>2, <1>6
  <2>2. QED BY <1>1, <1>3, <1>4, <2>1
<1>7. Head(s) <= last
  BY <1>1, <1>4
<1>8. QED BY <1>5, <1>6, <1>7 DEF Ordered

LEMMA OrderedParts ==
    ASSUME NEW first \in Nat, NEW s \in Seq(Nat), NEW t \in Seq(Nat), NEW last \in Nat,
           Ordered(first, s \o t, last)
    PROVE  Ordered(first, s, last) /\ Ordered(first, t, last)
<1> DEFINE u == s \o t
<1>1. /\ Len(u) = Len(s) + Len(t)
      /\ \A i \in 1..Len(s) : u[i] = s[i]
      /\ \A i \in 1..Len(t) : u[Len(s) + i] = t[i]
  BY ConcatProperties
<1>2. /\ DOMAIN u = 1..Len(s) + Len(t) /\ DOMAIN s = 1..Len(s) /\ DOMAIN t = 1..Len(t)
      /\ Len(s) \in Nat /\ Len(t) \in Nat
  BY <1>1, LenProperties, ConcatProperties
<1>3. \A i, j \in DOMAIN u : i < j => u[i] < u[j]
  BY DEF Ordered
<1>4. (\A i \in DOMAIN u : first < u[i] /\ u[i] <= last) /\ first <= last
  BY DEF Ordered
<1>5. Ordered(first, s, last)
  <2>1. ASSUME NEW i \in DOMAIN s
        PROVE  i \in DOMAIN u /\ s[i] = u[i]
    BY <1>1, <1>2, <2>1
  <2>2. QED BY <1>3, <1>4, <2>1 DEF Ordered
<1>6. Ordered(first, t, last)
  <2>1. ASSUME NEW i \in DOMAIN t
        PROVE  Len(s) + i \in DOMAIN u /\ t[i] = u[Len(s) + i]
    BY <1>1, <1>2, <2>1
  <2>2. ASSUME NEW i \in DOMAIN t, NEW j \in DOMAIN t, i < j
        PROVE  t[i] < t[j]
    <3>1. Len(s) + i < Len(s) + j
      BY <1>2, <2>2
    <3>2. QED BY <1>3, <2>1, <3>1
  <2>3. QED BY <1>4, <2>1, <2>2 DEF Ordered
<1>7. QED BY <1>5, <1>6

LEMMA HeadTailConcat ==
    ASSUME NEW s \in Seq(Nat), NEW t \in Seq(Nat), s # <<>>
    PROVE  /\ Tail(s) \in Seq(Nat) /\ s \o t # <<>>
           /\ Head(s \o t) = Head(s) /\ Tail(s \o t) = Tail(s) \o t
<1>1. Len(s) \in Nat \ {0} /\ Len(t) \in Nat
  BY EmptySeq, LenProperties
<1>2. /\ s \o t \in Seq(Nat) /\ Len(s \o t) = Len(s) + Len(t)
      /\ \A i \in 1..Len(s) + Len(t) :
            (s \o t)[i] = IF i <= Len(s) THEN s[i] ELSE t[i - Len(s)]
  BY ConcatProperties
<1>3. s \o t # <<>>
  BY <1>1, <1>2
<1>4. Tail(s) \in Seq(Nat) /\ Len(Tail(s)) = Len(s) - 1
      /\ \A i \in 1..Len(s) - 1 : Tail(s)[i] = s[i + 1]
  BY HeadTailProperties
<1>5. Tail(s \o t) \in Seq(Nat) /\ Len(Tail(s \o t)) = Len(s) + Len(t) - 1
      /\ \A i \in 1..Len(s) + Len(t) - 1 : Tail(s \o t)[i] = (s \o t)[i + 1]
  BY <1>2, <1>3, HeadTailProperties
<1>6. Tail(s) \o t \in Seq(Nat) /\ Len(Tail(s) \o t) = Len(s) - 1 + Len(t)
      /\ \A i \in 1..Len(s) - 1 + Len(t) :
            (Tail(s) \o t)[i] = IF i <= Len(s) - 1 THEN Tail(s)[i] ELSE t[i - (Len(s) - 1)]
  BY <1>4, ConcatProperties
<1>7. ASSUME NEW i \in 1..Len(s) + Len(t) - 1
      PROVE  Tail(s \o t)[i] = (Tail(s) \o t)[i]
  <2>1. i + 1 \in 1..Len(s) + Len(t) /\ i \in 1..Len(s) - 1 + Len(t)
    BY <1>1
  <2>2. Tail(s \o t)[i] = IF i + 1 <= Len(s) THEN s[i + 1] ELSE t[i + 1 - Len(s)]
    BY <1>2, <1>5, <2>1
  <2>3. CASE i + 1 <= Len(s)
    BY <1>1, <1>4, <1>6, <2>1, <2>2, <2>3
  <2>4. CASE ~(i + 1 <= Len(s))
    <3>1. i - (Len(s) - 1) = i + 1 - Len(s) /\ ~(i <= Len(s) - 1)
      BY <1>1, <2>4
    <3>2. QED BY <1>6, <2>1, <2>2, <2>4, <3>1
  <2>5. QED BY <2>3, <2>4
<1>8. Tail(s \o t) = Tail(s) \o t
  BY <1>1, <1>5, <1>6, <1>7, SeqEqual
<1>9. Head(s \o t) = Head(s)
  BY <1>1, <1>2
<1>10. QED BY <1>3, <1>4, <1>8, <1>9

LEMMA HeadThenTail ==
    ASSUME NEW s \in Seq(Nat), s # <<>>
    PROVE  <<Head(s)>> \o Tail(s) = s
<1>1. Len(s) \in Nat \ {0}
  BY EmptySeq
<1>2. 1 \in 1..Len(s) /\ Len(s) \in 1..Len(s)
  BY <1>1
<1>3. SubSeq(s, 1, Len(s)) = <<s[1]>> \o SubSeq(s, 1 + 1, Len(s))
  BY <1>2, SubSeqRecursiveFirst
<1>4. Tail(s) = SubSeq(s, 2, Len(s)) /\ SubSeq(s, 1, Len(s)) = s
  BY TailIsSubSeq, SubSeqFull
<1>5. QED BY <1>3, <1>4

LEMMA AppendToConcat ==
    ASSUME NEW s \in Seq(Nat), NEW t \in Seq(Nat), NEW e \in Nat
    PROVE  s \o Append(t, e) = Append(s \o t, e)
<1>1. <<e>> \in Seq(Nat) /\ s \o t \in Seq(Nat)
  BY ConcatProperties
<1>2. Append(t, e) = t \o <<e>> /\ Append(s \o t, e) = (s \o t) \o <<e>>
  BY <1>1, AppendIsConcat
<1>3. QED BY <1>1, <1>2, ConcatAssociative

\* The byte the reader thread holds in its hand, as a sequence.
HeldByte(where, byte) == IF where = "push" THEN <<byte>> ELSE <<>>

\* InFlight as a function of the places.
Flight(queue, where, byte, terminal) ==
    (IF where = "push" THEN queue \o <<byte>> ELSE queue) \o terminal

LEMMA HeldType ==
    ASSUME NEW where, NEW byte, where = "push" => byte \in Bytes
    PROVE  HeldByte(where, byte) \in Seq(Nat)
<1>1. Bytes \subseteq Nat
  BY MaxBytesAssumption DEF Bytes
<1>2. CASE where = "push"
  <2>1. byte \in Nat
    BY <1>1, <1>2
  <2>2. <<byte>> \in Seq(Nat)
    BY <2>1
  <2>3. QED BY <1>2, <2>2 DEF HeldByte
<1>3. CASE where # "push"
  BY <1>3, EmptySeq DEF HeldByte
<1>4. QED BY <1>2, <1>3

\* The three places of a byte in flight: the queue, the hand, the terminal.
LEMMA InFlightParts ==
    ASSUME NEW queue \in Seq(Bytes), NEW terminal \in Seq(Bytes), NEW where, NEW byte,
           where = "push" => byte \in Bytes
    PROVE  /\ queue \in Seq(Nat) /\ terminal \in Seq(Nat)
           /\ HeldByte(where, byte) \o terminal \in Seq(Nat)
           /\ queue \o (HeldByte(where, byte) \o terminal) \in Seq(Nat)
           /\ Flight(queue, where, byte, terminal) = queue \o (HeldByte(where, byte) \o terminal)
<1>1. Bytes \subseteq Nat
  BY MaxBytesAssumption DEF Bytes
<1>2. queue \in Seq(Nat) /\ terminal \in Seq(Nat)
  BY <1>1, SeqMonotonic, Zenon
<1>3. HeldByte(where, byte) \in Seq(Nat)
  BY HeldType
<1>4. CASE where = "push"
  <2>1. <<byte>> \in Seq(Nat) /\ HeldByte(where, byte) = <<byte>>
    BY <1>3, <1>4 DEF HeldByte
  <2>2. (queue \o <<byte>>) \o terminal = queue \o (<<byte>> \o terminal)
    BY <1>2, <2>1, ConcatAssociative
  <2>3. <<byte>> \o terminal \in Seq(Nat)
    BY <1>2, <2>1, ConcatProperties
  <2>4. queue \o (<<byte>> \o terminal) \in Seq(Nat)
    BY <1>2, <2>3, ConcatProperties
  <2>5. QED BY <1>2, <1>4, <2>1, <2>2, <2>3, <2>4 DEF Flight
<1>5. CASE where # "push"
  <2>1. HeldByte(where, byte) \o terminal = terminal
    BY <1>2, <1>5, ConcatEmptySeq DEF HeldByte
  <2>2. queue \o terminal \in Seq(Nat)
    BY <1>2, ConcatProperties
  <2>3. QED BY <1>2, <1>5, <2>1, <2>2 DEF Flight
<1>6. QED BY <1>4, <1>5

-------------------------------------------------------------------------------
(* Type correctness.                                                       *)

\* What is stored in a countdown fits into its 8 bits, and so does what a tick
\* leaves of it.
LEMMA FrameType ==
    ASSUME NEW rate \in 0..3
    PROVE  /\ CountMod \in Nat \ {0}
           /\ Frame(rate) \in 0..CountMod - 1
<1>1. CountMod \in {256, 128, 64, 32, 16, 8}
  BY ScaleAssumption DEF CountMod
<1>2. TicksPerBit(rate) \in {16, 128, 1024, 4096}
  BY DEF TicksPerBit
<1>3. (TicksPerBit(rate) * 10) \div Scale \in Nat
  <2>1. TicksPerBit(rate) * 10 \in Nat
    BY <1>2
  <2>2. Scale \in Nat \ {0}
    BY ScaleAssumption
  <2>3. QED BY <2>1, <2>2
<1>4. Frame(rate) \in 0..CountMod - 1
  BY <1>1, <1>3 DEF Frame
<1>5. QED BY <1>1, <1>4

LEMMA CountDown ==
    ASSUME NEW count \in 0..CountMod - 1
    PROVE  (IF count > 0 THEN count - 1 ELSE 0) \in 0..CountMod - 1
<1>1. CountMod \in Nat \ {0}
  BY FrameType
<1>2. QED BY <1>1

LEMMA InitTypeOK == Init => TypeOK
<1>1. 0 \in 0..CountMod - 1
  BY FrameType
<1>2. 0 \in 0..MaxBytes
  BY MaxBytesAssumption
<1>3. <<>> \in Seq(Bytes)
  BY EmptySeq
<1>4. ASSUME Init
      PROVE  /\ rx_fifo \in Seq(Bytes) /\ pty \in Seq(Bytes)
             /\ rmcr \in 0..3 /\ transmit_countdown \in 0..CountMod - 1
             /\ receive_countdown \in 0..CountMod - 1
             /\ receive_data_register \in 0..MaxBytes
             /\ reader_byte \in 0..MaxBytes /\ host_sent \in 0..MaxBytes
  BY <1>1, <1>2, <1>3, <1>4 DEF Init
<1>5. ASSUME Init
      PROVE  /\ interrupts \subseteq IrqIds /\ control \subseteq ControlBits
             /\ revents \subseteq {"in", "hup", "shutdown"}
             /\ tick_pc \in {"idle", "pop"} /\ reader = "poll"
             /\ transmit_id = NoIrq /\ receive_id = NoIrq
             /\ {tdre, rdrf, rx_fifo_empty, hung_up, shutdown} \subseteq BOOLEAN
  BY <1>5 DEF Init
<1>6. QED BY <1>4, <1>5 DEF TypeOK

\* Every action keeps the types.  InputThere makes Head(pty) a byte.
LEMMA NextTypeOK ==
    ASSUME TypeOK, InputThere, reader = "push" => reader_byte \in Bytes, [Next]_vars
    PROVE  TypeOK'
<1> USE DEF TypeOK
<1>1. CASE Tick
  <2>1. /\ transmit_countdown' \in 0..CountMod - 1
        /\ receive_countdown' \in 0..CountMod - 1
    BY <1>1, CountDown DEF Tick
  <2>2. interrupts' \subseteq IrqIds /\ transmit_id' \in IrqIds \cup {NoIrq}
    <3>1. CASE TransmitterEmpties /\ "TIE" \in control
      <4>1. PICK fresh \in FreshIds({"tx"}) :
              transmit_id' = fresh["tx"] /\ interrupts' = interrupts \cup {fresh["tx"]}
        BY <1>1, <3>1 DEF Tick
      <4>2. fresh["tx"] \in IrqIds
        BY DEF FreshIds
      <4>3. QED BY <4>1, <4>2
    <3>2. CASE ~(TransmitterEmpties /\ "TIE" \in control)
      BY <1>1, <3>2 DEF Tick
    <3>3. QED BY <3>1, <3>2
  <2>3. tdre' \in BOOLEAN /\ tick_pc' \in {"idle", "pop"}
    BY <1>1 DEF Tick, TransmitterEmpties
  <2>4. QED BY <1>1, <2>1, <2>2, <2>3 DEF Tick, fifo_vars, reader_vars, host_vars
<1>2. CASE TickPop
  <2>1. /\ rx_fifo' \in Seq(Bytes) /\ rx_fifo_empty' \in BOOLEAN
        /\ receive_data_register' \in 0..MaxBytes
        /\ receive_countdown' \in 0..CountMod - 1
    <3>1. CASE rx_fifo # <<>>
      <4>1. Head(rx_fifo) \in Bytes /\ Tail(rx_fifo) \in Seq(Bytes)
        BY <3>1, HeadTailProperties
      <4>2. Bytes \subseteq 0..MaxBytes
        BY DEF Bytes
      <4>3. Frame(rmcr) \in 0..CountMod - 1
        BY FrameType
      <4>4. QED BY <1>2, <3>1, <4>1, <4>2, <4>3 DEF TickPop
    <3>2. CASE rx_fifo = <<>>
      BY <1>2, <3>2 DEF TickPop
    <3>3. QED BY <3>1, <3>2
  <2>2. interrupts' \subseteq IrqIds /\ receive_id' \in IrqIds \cup {NoIrq}
    <3>1. CASE rx_fifo # <<>> /\ "RIE" \in control /\ receive_id = NoIrq
      <4>1. PICK fresh \in FreshIds({"rx"}) :
              receive_id' = fresh["rx"] /\ interrupts' = interrupts \cup {fresh["rx"]}
        BY <1>2, <3>1 DEF TickPop
      <4>2. fresh["rx"] \in IrqIds
        BY DEF FreshIds
      <4>3. QED BY <4>1, <4>2
    <3>2. CASE ~(rx_fifo # <<>> /\ "RIE" \in control /\ receive_id = NoIrq)
      BY <1>2, <3>2 DEF TickPop
    <3>3. QED BY <3>1, <3>2
  <2>3. rdrf' \in BOOLEAN
    BY <1>2 DEF TickPop
  <2>4. QED BY <1>2, <2>1, <2>2, <2>3 DEF TickPop, reader_vars, host_vars
<1>3. CASE WriteTDR
  <2>1. Frame(rmcr) \in 0..CountMod - 1
    BY FrameType
  <2>2. QED BY <1>3, <2>1, ZenonT(40) DEF WriteTDR, fifo_vars, reader_vars, host_vars
<1>4. CASE ReadRDR
  BY <1>4 DEF ReadRDR, fifo_vars, reader_vars, host_vars
<1>5. ASSUME NEW rate \in Rates, WriteRMCR(rate) PROVE TypeOK'
  BY <1>5, RatesAssumption DEF WriteRMCR, fifo_vars, reader_vars, host_vars
<1>6. ASSUME NEW bits \in ControlWords, WriteTRCSR(bits) PROVE TypeOK'
  <2>1. bits \subseteq ControlBits
    BY ControlWordsAssumption DEF ControlBits
  <2>2. rx_fifo' \in Seq(Bytes) /\ rx_fifo_empty' \in BOOLEAN
    BY <1>6, EmptySeq DEF WriteTRCSR, fifo_vars
  <2>3. QED BY <1>6, <2>1, <2>2 DEF WriteTRCSR, reader_vars, host_vars
<1>7. CASE Poll
  <2>1. Ready \subseteq {"in", "hup", "shutdown"}
    BY DEF Ready
  <2>2. QED BY <1>7, <2>1 DEF Poll, sci_vars, fifo_vars, host_vars
<1>8. CASE ReadPty
  <2>1. reader_byte' \in 0..MaxBytes /\ pty' \in Seq(Bytes)
    <3>1. CASE "in" \in revents
      <4>1. pty # <<>>
        BY <1>8, <3>1 DEF InputThere, ReadPty
      <4>2. Head(pty) \in Bytes /\ Tail(pty) \in Seq(Bytes)
        BY <4>1, HeadTailProperties
      <4>3. Bytes \subseteq 0..MaxBytes
        BY DEF Bytes
      <4>4. QED BY <1>8, <3>1, <4>2, <4>3 DEF ReadPty
    <3>2. CASE "in" \notin revents
      BY <1>8, <3>2 DEF ReadPty
    <3>3. QED BY <3>1, <3>2
  <2>2. reader' \in {"push", "hangup"}
    BY <1>8 DEF ReadPty
  <2>3. QED BY <1>8, <2>1, <2>2 DEF ReadPty, sci_vars, fifo_vars
<1>9. CASE PushByte
  <2>1. rx_fifo' \in Seq(Bytes)
    BY <1>9, AppendProperties DEF PushByte
  <2>2. QED BY <1>9, <2>1 DEF PushByte, sci_vars, host_vars
<1>10. CASE HandleHangup
  <2>1. pty' \in Seq(Bytes) /\ hung_up' \in BOOLEAN /\ reader' \in {"stop", "disabled"}
    BY <1>10, EmptySeq DEF HandleHangup
  <2>2. QED BY <1>10, <2>1 DEF HandleHangup, sci_vars, fifo_vars
<1>11. CASE CheckShutdown
  BY <1>11 DEF CheckShutdown, sci_vars, fifo_vars, host_vars
<1>12. CASE HostWrite
  <2>1. host_sent + 1 \in Bytes
    BY <1>12, MaxBytesAssumption DEF HostWrite, Bytes
  <2>2. pty' \in Seq(Bytes)
    BY <1>12, <2>1, AppendProperties DEF HostWrite
  <2>3. host_sent' \in 0..MaxBytes
    BY <1>12, <2>1 DEF HostWrite, Bytes
  <2>4. QED BY <1>12, <2>2, <2>3 DEF HostWrite, sci_vars, fifo_vars, reader_vars
<1>13. CASE HostClose
  BY <1>13 DEF HostClose, sci_vars, fifo_vars, reader_vars
<1>14. CASE Shutdown
  BY <1>14 DEF Shutdown, sci_vars, fifo_vars, reader_vars
<1>15. CASE UNCHANGED vars
  BY <1>15 DEF vars, sci_vars, fifo_vars, reader_vars, host_vars
<1>16. QED
  BY <1>1, <1>2, <1>3, <1>4, <1>5, <1>6, <1>7, <1>8, <1>9, <1>10, <1>11, <1>12, <1>13,
     <1>14, <1>15
  DEF Next, Emulator, Reader

-------------------------------------------------------------------------------
(* Bytes stay in order.                                                    *)

\* The bytes that are not yet in the queue.
Late == HeldByte(reader, reader_byte) \o pty

LEMMA InitIInv == Init => IInv
<1> SUFFICES ASSUME Init PROVE IInv
  OBVIOUS
<1>1. TypeOK
  BY InitTypeOK
<1>2. InFlight = <<>>
  <2>1. <<>> \o <<>> = <<>>
    OBVIOUS
  <2>2. QED BY <2>1 DEF Init, InFlight
<1>3. Ordered(receive_data_register, InFlight, host_sent)
  BY <1>2 DEF Ordered, Init
<1>4. QED BY <1>1, <1>3 DEF IInv, Init, InputThere, NoStrandedByte

\* A step drops bytes at one end, moves them along, or adds one that is newer
\* than all others.
LEMMA NextIInv == IInv /\ [Next]_vars => IInv'
<1> SUFFICES ASSUME IInv, [Next]_vars PROVE IInv'
  OBVIOUS
<1>1. /\ TypeOK /\ InputThere /\ NoStrandedByte
      /\ reader = "push" => reader_byte \in Bytes
      /\ Ordered(receive_data_register, InFlight, host_sent)
  BY DEF IInv
<1>2. TypeOK'
  BY <1>1, NextTypeOK
<1>3. /\ rx_fifo \in Seq(Bytes) /\ pty \in Seq(Bytes)
      /\ receive_data_register \in Nat /\ host_sent \in Nat
  BY <1>1, MaxBytesAssumption DEF TypeOK
<1> InFlight = Flight(rx_fifo, reader, reader_byte, pty)
  BY DEF InFlight, Flight
<1> InFlight' = Flight(rx_fifo', reader', reader_byte', pty')
  BY DEF InFlight, Flight
<1>4. /\ rx_fifo \in Seq(Nat) /\ pty \in Seq(Nat) /\ Late \in Seq(Nat)
      /\ InFlight = rx_fifo \o Late /\ InFlight \in Seq(Nat)
  <2>1. reader = "push" => reader_byte \in Bytes
    BY <1>1
  <2>2. /\ rx_fifo \in Seq(Nat) /\ pty \in Seq(Nat) /\ Late \in Seq(Nat)
        /\ rx_fifo \o Late \in Seq(Nat)
        /\ Flight(rx_fifo, reader, reader_byte, pty) = rx_fifo \o Late
    BY <1>3, <2>1, InFlightParts, SMTT(40) DEF Late
  <2>3. QED BY <2>2
<1> DEFINE Goal == /\ Ordered(receive_data_register, InFlight, host_sent)'
                   /\ (reader = "push" => reader_byte \in Bytes)'
                   /\ InputThere' /\ NoStrandedByte'
<1> SUFFICES Goal
  BY <1>2 DEF IInv
<1>5. ASSUME UNCHANGED <<fifo_vars, reader_vars, host_vars, receive_data_register>>
      PROVE  Goal
  <2>1. UNCHANGED <<rx_fifo, rx_fifo_empty, reader, revents, reader_byte, pty, host_sent,
                    receive_data_register>>
    BY <1>5 DEF fifo_vars, reader_vars, host_vars
  <2>2. UNCHANGED InFlight
    BY <2>1 DEF InFlight
  <2>3. QED BY <1>1, <2>1, <2>2 DEF InputThere, NoStrandedByte
<1>6. CASE Tick
  BY <1>5, <1>6 DEF Tick
<1>7. CASE TickPop
  <2>1. UNCHANGED <<reader, revents, reader_byte, pty, host_sent>>
    BY <1>7 DEF TickPop, reader_vars, host_vars
  <2>2. CASE rx_fifo # <<>>
    <3>1. receive_data_register' = Head(rx_fifo) /\ rx_fifo' = Tail(rx_fifo)
      BY <1>7, <2>2 DEF TickPop
    <3>2. /\ rx_fifo' \in Seq(Nat) /\ InFlight # <<>>
          /\ Head(InFlight) = Head(rx_fifo) /\ Tail(InFlight) = Tail(rx_fifo) \o Late
      BY <1>4, <2>2, <3>1, HeadTailConcat, SMTT(40)
    <3>3. InFlight' = Tail(InFlight)
      <4>1. InFlight' = rx_fifo' \o Late'
        <5>1. /\ rx_fifo' \in Seq(Bytes) /\ pty' \in Seq(Bytes)
              /\ reader' = "push" => reader_byte' \in Bytes
          BY <1>1, <1>2, <2>1 DEF TypeOK
        <5>2. QED BY <5>1, InFlightParts, SMTT(40) DEF Late
      <4>2. Late' = Late
        BY <2>1 DEF Late
      <4>3. QED BY <3>1, <3>2, <4>1, <4>2
    <3>4. Ordered(Head(InFlight), Tail(InFlight), host_sent)
      BY <1>1, <1>3, <1>4, <3>2, OrderedTail
    <3>5. Ordered(receive_data_register, InFlight, host_sent)'
      BY <2>1, <3>1, <3>2, <3>3, <3>4
    <3>6. NoStrandedByte'
      BY <1>1, <1>7, <2>2 DEF TickPop, NoStrandedByte
    <3>7. QED BY <1>1, <2>1, <3>5, <3>6 DEF InputThere
  <2>3. CASE rx_fifo = <<>>
    <3>1. UNCHANGED <<receive_data_register, rx_fifo>>
      BY <1>7, <2>3 DEF TickPop
    <3>2. UNCHANGED InFlight
      BY <2>1, <3>1 DEF InFlight
    <3>3. QED BY <1>1, <2>1, <2>3, <3>1, <3>2 DEF InputThere, NoStrandedByte
  <2>4. QED BY <2>2, <2>3
<1>8. CASE WriteTDR \/ ReadRDR \/ \E rate \in Rates : WriteRMCR(rate)
  BY <1>5, <1>8 DEF WriteTDR, ReadRDR, WriteRMCR
<1>9. ASSUME NEW bits \in ControlWords, WriteTRCSR(bits) PROVE Goal
  <2>1. UNCHANGED <<reader, revents, reader_byte, pty, host_sent, receive_data_register>>
    BY <1>9 DEF WriteTRCSR, reader_vars, host_vars
  <2>2. CASE "RE" \notin control /\ "RE" \in bits
    <3>1. rx_fifo' = <<>> /\ rx_fifo_empty' = TRUE
      BY <1>9, <2>2 DEF WriteTRCSR
    <3>2. InFlight' = Late
      <4>1. InFlight' = rx_fifo' \o Late'
        <5>1. /\ rx_fifo' \in Seq(Bytes) /\ pty' \in Seq(Bytes)
              /\ reader' = "push" => reader_byte' \in Bytes
          BY <1>1, <1>2, <2>1 DEF TypeOK
        <5>2. QED BY <5>1, InFlightParts, SMTT(40) DEF Late
      <4>2. Late' = Late
        BY <2>1 DEF Late
      <4>3. QED BY <1>4, <3>1, <4>1, <4>2, ConcatEmptySeq
    <3>3. Ordered(receive_data_register, Late, host_sent)
      BY <1>1, <1>3, <1>4, OrderedParts
    <3>4. QED BY <1>1, <2>1, <3>1, <3>2, <3>3 DEF InputThere, NoStrandedByte
  <2>3. CASE ~("RE" \notin control /\ "RE" \in bits)
    BY <1>5, <1>9, <2>3 DEF WriteTRCSR
  <2>4. QED BY <2>2, <2>3
<1>10. CASE Poll
  <2>1. UNCHANGED <<rx_fifo, rx_fifo_empty, reader_byte, pty, host_sent, receive_data_register>>
    BY <1>10 DEF Poll, sci_vars, fifo_vars, host_vars
  <2>2. reader = "poll" /\ reader' = "input" /\ revents' = Ready
    BY <1>10 DEF Poll
  <2>3. UNCHANGED InFlight
    BY <2>1, <2>2 DEF InFlight
  <2>4. InputThere'
    BY <2>1, <2>2 DEF InputThere, Ready
  <2>5. QED BY <1>1, <2>1, <2>2, <2>3, <2>4 DEF NoStrandedByte
<1>11. CASE ReadPty
  <2>1. UNCHANGED <<rx_fifo, rx_fifo_empty, revents, host_sent, receive_data_register>>
    BY <1>11 DEF ReadPty, sci_vars, fifo_vars
  <2>2. reader = "input"
    BY <1>11 DEF ReadPty
  <2>3. CASE "in" \in revents
    <3>1. /\ reader' = "push" /\ reader_byte' = Head(pty) /\ pty' = Tail(pty)
          /\ pty # <<>>
      BY <1>1, <1>11, <2>2, <2>3 DEF ReadPty, InputThere
    <3>2. reader_byte' \in Bytes
      BY <1>3, <3>1, HeadTailProperties
    <3>3. Late' = Late
      <4>1. Late = pty
        BY <1>4, <2>2, ConcatEmptySeq DEF Late, HeldByte
      <4>2. Late' = <<Head(pty)>> \o Tail(pty)
        BY <3>1 DEF Late, HeldByte
      <4>3. <<Head(pty)>> \o Tail(pty) = pty
        BY <1>4, <3>1, HeadThenTail
      <4>4. QED BY <4>1, <4>2, <4>3
    <3>4. InFlight' = rx_fifo' \o Late'
      <4>1. rx_fifo' \in Seq(Bytes) /\ pty' \in Seq(Bytes)
        BY <1>2 DEF TypeOK
      <4>2. QED BY <3>2, <4>1, InFlightParts, SMTT(40) DEF Late
    <3>5. InFlight' = InFlight
      BY <1>4, <2>1, <3>3, <3>4
    <3>6. QED BY <1>1, <2>1, <3>1, <3>2, <3>5 DEF InputThere, NoStrandedByte
  <2>4. CASE "in" \notin revents
    <3>1. reader' = "hangup" /\ UNCHANGED <<reader_byte, pty>>
      BY <1>11, <2>4 DEF ReadPty
    <3>2. UNCHANGED InFlight
      BY <2>1, <2>2, <3>1 DEF InFlight
    <3>3. QED BY <1>1, <2>1, <3>1, <3>2 DEF InputThere, NoStrandedByte
  <2>5. QED BY <2>3, <2>4
<1>12. CASE PushByte
  <2>1. /\ UNCHANGED <<revents, reader_byte, pty, host_sent, receive_data_register>>
        /\ reader = "push" /\ reader' = "hangup" /\ rx_fifo_empty' = FALSE
        /\ rx_fifo' = Append(rx_fifo, reader_byte)
    BY <1>12 DEF PushByte, sci_vars, host_vars
  <2>2. Append(rx_fifo, reader_byte) = rx_fifo \o <<reader_byte>>
    BY <1>1, <1>3, <2>1, AppendIsConcat
  <2>3. InFlight' = InFlight
    BY <2>1, <2>2 DEF InFlight
  <2>4. QED BY <1>1, <2>1, <2>3 DEF InputThere, NoStrandedByte
<1>13. CASE HandleHangup
  <2>1. /\ UNCHANGED <<rx_fifo, rx_fifo_empty, reader_byte, host_sent, receive_data_register>>
        /\ reader = "hangup" /\ reader' \in {"stop", "disabled"}
        /\ pty' = pty \/ pty' = <<>>
    BY <1>13 DEF HandleHangup, sci_vars, fifo_vars
  <2>2. InFlight = rx_fifo \o pty /\ InFlight' = rx_fifo \o pty'
    BY <2>1 DEF InFlight
  <2>3. Ordered(receive_data_register, rx_fifo, host_sent)
    BY <1>1, <1>3, <1>4, <2>2, OrderedParts
  <2>4. Ordered(receive_data_register, InFlight, host_sent)'
    <3>1. CASE pty' = pty
      BY <1>1, <2>1, <2>2, <3>1
    <3>2. CASE pty' = <<>>
      <4>1. InFlight' = rx_fifo
        BY <1>4, <2>2, <3>2, ConcatEmptySeq
      <4>2. QED BY <2>1, <2>3, <4>1
    <3>3. QED BY <2>1, <3>1, <3>2
  <2>5. QED BY <1>1, <2>1, <2>4 DEF InputThere, NoStrandedByte
<1>14. CASE CheckShutdown
  <2>1. /\ UNCHANGED <<rx_fifo, rx_fifo_empty, pty, host_sent, receive_data_register>>
        /\ reader = "stop" /\ reader' \in {"stopped", "poll"}
    BY <1>14 DEF CheckShutdown, sci_vars, fifo_vars, host_vars
  <2>2. UNCHANGED InFlight
    BY <2>1 DEF InFlight
  <2>3. QED BY <1>1, <2>1, <2>2 DEF InputThere, NoStrandedByte
<1>15. CASE HostWrite
  <2>1. /\ UNCHANGED <<rx_fifo, rx_fifo_empty, reader, revents, reader_byte,
                       receive_data_register>>
        /\ host_sent' = host_sent + 1 /\ pty' = Append(pty, host_sent + 1)
    BY <1>15 DEF HostWrite, sci_vars, fifo_vars, reader_vars
  <2>2. InFlight' = Append(InFlight, host_sent + 1)
    <3>1. rx_fifo \o HeldByte(reader, reader_byte) \in Seq(Nat)
      BY <1>1, <1>4, HeldType, ConcatProperties
    <3>2. InFlight = (rx_fifo \o HeldByte(reader, reader_byte)) \o pty
      BY <1>4, ConcatEmptySeq DEF InFlight, HeldByte
    <3>3. InFlight' = (rx_fifo \o HeldByte(reader, reader_byte)) \o pty'
      <4>1. InFlight' = (IF reader = "push" THEN rx_fifo \o <<reader_byte>> ELSE rx_fifo) \o pty'
        BY <2>1 DEF InFlight
      <4>2. CASE reader = "push"
        BY <4>1, <4>2 DEF HeldByte
      <4>3. CASE reader # "push"
        <5>1. rx_fifo \o <<>> = rx_fifo
          BY <1>4, ConcatEmptySeq
        <5>2. QED BY <4>1, <4>3, <5>1 DEF HeldByte
      <4>4. QED BY <4>2, <4>3
    <3>4. host_sent + 1 \in Nat
      BY <1>3
    <3>5. (rx_fifo \o HeldByte(reader, reader_byte)) \o Append(pty, host_sent + 1)
            = Append(InFlight, host_sent + 1)
      BY <1>4, <3>1, <3>2, <3>4, AppendToConcat, SMTT(40)
    <3>6. QED BY <2>1, <3>3, <3>5
  <2>3. Ordered(receive_data_register, InFlight, host_sent)'
    BY <1>1, <1>3, <1>4, <2>1, <2>2, OrderedAppend
  <2>4. InputThere'
    BY <1>1, <1>3, <2>1, AppendProperties DEF InputThere
  <2>5. QED BY <1>1, <2>1, <2>3, <2>4 DEF NoStrandedByte
<1>16. CASE HostClose \/ Shutdown
  <2>1. UNCHANGED <<rx_fifo, rx_fifo_empty, reader, revents, reader_byte, pty, host_sent,
                    receive_data_register>>
    BY <1>16 DEF HostClose, Shutdown, sci_vars, fifo_vars, reader_vars
  <2>2. UNCHANGED InFlight
    BY <2>1 DEF InFlight
  <2>3. QED BY <1>1, <2>1, <2>2 DEF InputThere, NoStrandedByte
<1>17. CASE UNCHANGED vars
  BY <1>5, <1>17 DEF vars, sci_vars
<1>18. QED
  BY <1>6, <1>7, <1>8, <1>9, <1>10, <1>11, <1>12, <1>13, <1>14, <1>15, <1>16, <1>17
  DEF Next, Emulator, Reader

\* All variables keep their types, the countdowns their 8 bits among them.
THEOREM TypeCorrectness == Spec => []TypeOK
<1>1. IInv => TypeOK
  BY DEF IInv
<1>2. QED BY <1>1, InitIInv, NextIInv, PTL DEF Spec

\* Between the host and the receive data register no byte is doubled and none
\* overtakes another, for any number of bytes, hang-ups, receiver enables and
\* overruns.
THEOREM BytesInOrder == Spec => []InOrder
<1>1. IInv => InOrder
  BY DEF IInv, InOrder, Ordered
<1>2. QED BY <1>1, InitIInv, NextIInv, PTL DEF Spec

\* tick(), which tests the flag without the mutex, never passes a byte by.
THEOREM FlagCorrect == Spec => []NoStrandedByte
<1>1. IInv => NoStrandedByte
  BY DEF IInv
<1>2. QED BY <1>1, InitIInv, NextIInv, PTL DEF Spec

-------------------------------------------------------------------------------
(* No interrupt is left behind.                                            *)

LEMMA NextIdsInv ==
    ASSUME TieDiscipline, TypeOK, IdsInv, [Next]_vars
    PROVE  IdsInv'
<1> USE DEF IdsInv, IdsOwned, TransmitterIdle, IdsDistinct
<1>1. ASSUME UNCHANGED <<interrupts, transmit_id, receive_id, transmit_countdown, control>>
      PROVE  IdsInv'
  BY <1>1
<1>2. transmit_countdown \in Nat
  BY FrameType DEF TypeOK
<1>3. CASE Tick
  <2>1. UNCHANGED <<control, receive_id>>
    BY <1>3 DEF Tick
  <2>2. CASE TransmitterEmpties /\ "TIE" \in control
    <3>1. PICK fresh \in FreshIds({"tx"}) :
            transmit_id' = fresh["tx"] /\ interrupts' = interrupts \cup {fresh["tx"]}
      BY <1>3, <2>2 DEF Tick
    <3>2. fresh["tx"] \in IrqIds /\ fresh["tx"] \notin interrupts
      BY DEF FreshIds
    <3>3. transmit_id = NoIrq /\ transmit_countdown' = 0
      BY <1>3, <2>2 DEF TransmitterEmpties, Tick
    <3>4. fresh["tx"] # NoIrq /\ fresh["tx"] # receive_id
      BY <3>2, NoIrqAssumption
    <3>5. QED BY <2>1, <2>2, <3>1, <3>3, <3>4
  <2>3. CASE ~(TransmitterEmpties /\ "TIE" \in control)
    <3>1. UNCHANGED <<interrupts, transmit_id>>
      BY <1>3, <2>3 DEF Tick
    <3>2. transmit_countdown = 0 => transmit_countdown' = 0
      BY <1>3 DEF Tick
    <3>3. QED BY <2>1, <3>1, <3>2
  <2>4. QED BY <2>2, <2>3
<1>4. CASE TickPop
  <2>1. UNCHANGED <<control, transmit_id, transmit_countdown>>
    BY <1>4 DEF TickPop
  <2>2. CASE rx_fifo # <<>> /\ "RIE" \in control /\ receive_id = NoIrq
    <3>1. PICK fresh \in FreshIds({"rx"}) :
            receive_id' = fresh["rx"] /\ interrupts' = interrupts \cup {fresh["rx"]}
      BY <1>4, <2>2 DEF TickPop
    <3>2. fresh["rx"] \in IrqIds /\ fresh["rx"] \notin interrupts
      BY DEF FreshIds
    <3>3. fresh["rx"] # NoIrq /\ (transmit_id # NoIrq => fresh["rx"] # transmit_id)
      BY <3>2, NoIrqAssumption
    <3>4. QED BY <2>1, <2>2, <3>1, <3>3
  <2>3. CASE ~(rx_fifo # <<>> /\ "RIE" \in control /\ receive_id = NoIrq)
    <3>1. UNCHANGED <<interrupts, receive_id>>
      BY <1>4, <2>3 DEF TickPop
    <3>2. QED BY <2>1, <3>1
  <2>4. QED BY <2>2, <2>3
<1>5. CASE WriteTDR
  <2>1. UNCHANGED <<control, receive_id>>
    BY <1>5 DEF WriteTDR
  <2>2. CASE "TIE" \in control
    BY <1>5, <2>1, <2>2 DEF WriteTDR
  <2>3. CASE "TIE" \notin control
    BY <1>5, <2>1, <2>3 DEF WriteTDR
  <2>4. QED BY <2>2, <2>3
<1>6. CASE ReadRDR
  BY <1>6 DEF ReadRDR
<1>7. CASE \E rate \in Rates : WriteRMCR(rate)
  BY <1>1, <1>7 DEF WriteRMCR
<1>8. ASSUME NEW bits \in ControlWords, WriteTRCSR(bits) PROVE IdsInv'
  BY <1>8 DEF WriteTRCSR
<1>9. CASE Reader \/ HostWrite \/ HostClose \/ Shutdown \/ UNCHANGED vars
  <2>1. UNCHANGED sci_vars
    BY <1>9 DEF Reader, Poll, ReadPty, PushByte, HandleHangup, CheckShutdown, HostWrite,
                HostClose, Shutdown, vars
  <2>2. QED BY <1>1, <2>1 DEF sci_vars
<1>10. QED
  BY <1>3, <1>4, <1>5, <1>6, <1>7, <1>8, <1>9 DEF Next, Emulator

\* "The returned integer needs to be used to clear the interrupt again"
\* (interrupt.h:19).  Software that leaves TIE alone while an interrupt is
\* outstanding can clear every serial interrupt; without that discipline it cannot:
\* a write to the data register gives no id back while TIE is 0.
THEOREM NoLeakedInterrupt ==
    ASSUME TieDiscipline
    PROVE  Spec => []IdsOwned
<1>1. Init => IdsInv
  BY DEF Init, IdsInv, IdsOwned, TransmitterIdle, IdsDistinct
<1>2. TypeOK /\ IdsInv /\ [Next]_vars => IdsInv'
  BY NextIdsInv
<1>3. IdsInv => IdsOwned
  BY DEF IdsInv
<1>4. QED BY <1>1, <1>2, <1>3, TypeCorrectness, PTL DEF Spec

-------------------------------------------------------------------------------
(* The 65C22. *)

\* The four properties are not inductive: between the two critical sections of
\* an IER write bit 7 and the ids are behind the enable register.  After an
\* enable they can only be behind in one direction (a newly enabled flag has no
\* id, bit 7 is still 0), after a disable only in the other (bit 7 still 1).
IerBehind ==
    /\ ier_write # "set" =>
          /\ EnabledFlags \subseteq Held
          /\ EnabledFlags # {} => irq_any
    /\ ier_write # "clear" => (irq_any => EnabledFlags # {})

ViaIInv == ViaTypeOK /\ ViaIdsOwned /\ HeldOnlyWhileFlagged /\ IerBehind

-------------------------------------------------------------------------------
\* set_irq_flag() keeps ids well typed and owned, and leaves no enabled flag
\* without one.
LEMMA SetIrqFlagSound ==
    ASSUME ViaIInv, NEW mask \in SUBSET Sources, SetIrqFlag(mask),
           UNCHANGED <<irq_enable_register, other_id>>
    PROVE  /\ interrupts' \subseteq IrqIds
           /\ irq_flag_register' \subseteq Sources
           /\ irq_any' \in BOOLEAN
           /\ interrupt_id' \in [Sources -> IrqIds \cup {NoIrq}]
           /\ ViaIdsOwned'
           /\ HeldOnlyWhileFlagged'
           /\ EnabledFlags' \subseteq Held'
           /\ EnabledFlags' # {} => irq_any'
           /\ (irq_any => EnabledFlags # {}) => (irq_any' => EnabledFlags' # {})
<1> DEFINE flags == irq_flag_register \cup mask
           firing == Firing(flags)
<1>1. PICK fresh \in FreshIds(firing) :
         /\ interrupt_id' = [s \in Sources |->
                               IF s \in firing THEN fresh[s] ELSE interrupt_id[s]]
         /\ interrupts' = interrupts \cup {fresh[s] : s \in firing}
  BY DEF SetIrqFlag
<1>2. /\ irq_flag_register' = flags
      /\ irq_any' = (irq_any \/ flags \cap irq_enable_register # {})
  BY DEF SetIrqFlag
<1>3. firing \subseteq Sources /\ flags \subseteq Sources
  BY DEF Firing, ViaIInv, ViaTypeOK
<1>4. /\ \A s \in firing : fresh[s] \in IrqIds \ interrupts
      /\ \A s, t \in firing : fresh[s] = fresh[t] => s = t
  BY DEF FreshIds
<1>5. /\ \A s \in firing : interrupt_id[s] = NoIrq /\ interrupt_id'[s] = fresh[s]
      /\ \A s \in Sources \ firing : interrupt_id'[s] = interrupt_id[s]
  BY <1>1, <1>3 DEF Firing
<1>6. Held' = Held \cup firing /\ Held \cap firing = {}
  BY <1>3, <1>4, <1>5, NoIrqAssumption DEF Held
<1>7. interrupt_id' \in [Sources -> IrqIds \cup {NoIrq}] /\ interrupts' \subseteq IrqIds
  BY <1>1, <1>3, <1>4 DEF ViaIInv, ViaTypeOK
<1>8. ViaIdsOwned'
  <2>1. \A s \in Held : interrupt_id[s] \in interrupts /\ s \in Sources
    BY DEF ViaIInv, ViaIdsOwned, Held
  <2>2. other_id # NoIrq => other_id \in interrupts
    BY DEF ViaIInv, ViaIdsOwned
  <2>7. /\ \A s \in Held : interrupt_id'[s] = interrupt_id[s]
        /\ \A s \in firing : interrupt_id'[s] = fresh[s]
    BY <1>5, <1>6, <2>1
  <2>3. (interrupts = {interrupt_id[s] : s \in Held} \cup ({other_id} \ {NoIrq}))'
    <3>1. {interrupt_id'[s] : s \in Held'} =
             {interrupt_id[s] : s \in Held} \cup {fresh[s] : s \in firing}
      BY <1>6, <2>7
    <3>2. interrupts = {interrupt_id[s] : s \in Held} \cup ({other_id} \ {NoIrq})
      BY DEF ViaIInv, ViaIdsOwned
    <3>3. other_id' = other_id
      OBVIOUS
    <3>4. QED BY <1>1, <3>1, <3>2, <3>3
  <2>4. (\A s, t \in Held : interrupt_id[s] = interrupt_id[t] => s = t)'
    <3>1. ASSUME NEW s \in Held', NEW t \in Held', interrupt_id'[s] = interrupt_id'[t]
          PROVE  s = t
      <4>1. CASE s \in Held /\ t \in Held
        BY <3>1, <4>1, <2>7 DEF ViaIInv, ViaIdsOwned
      <4>2. CASE s \in firing /\ t \in firing
        BY <3>1, <4>2, <2>7, <1>4
      <4>3. CASE (s \in Held /\ t \in firing) \/ (s \in firing /\ t \in Held)
        BY <3>1, <4>3, <2>7, <2>1, <1>4
      <4>4. QED BY <1>6, <4>1, <4>2, <4>3
    <3>2. QED BY <3>1
  <2>5. (\A s \in Held : interrupt_id[s] # other_id)'
    <3>1. \A s \in firing : fresh[s] # other_id
      BY <1>4, <2>2, NoIrqAssumption
    <3>2. QED BY <1>5, <1>6, <2>1, <3>1 DEF ViaIInv, ViaIdsOwned
  <2>6. QED BY <2>3, <2>4, <2>5 DEF ViaIdsOwned
<1>9. HeldOnlyWhileFlagged'
  BY <1>2, <1>6 DEF HeldOnlyWhileFlagged, ViaIInv, Firing
<1>10. EnabledFlags' \subseteq Held'
  BY <1>2, <1>3, <1>6 DEF EnabledFlags, Firing, Held
<1>11. /\ irq_any' \in BOOLEAN
       /\ EnabledFlags' # {} => irq_any'
       /\ (irq_any => EnabledFlags # {}) => (irq_any' => EnabledFlags' # {})
  BY <1>2 DEF EnabledFlags, ViaIInv, ViaTypeOK
<1>12. QED BY <1>2, <1>3, <1>7, <1>8, <1>9, <1>10, <1>11

\* clear_irq_flag() releases exactly the ids of the flags it clears, and leaves
\* bit 7 exact.
LEMMA ClearIrqFlagSound ==
    ASSUME ViaIInv, NEW mask \in SUBSET Sources, ClearIrqFlag(mask),
           UNCHANGED <<irq_enable_register, other_id>>
    PROVE  /\ interrupts' \subseteq IrqIds
           /\ irq_flag_register' \subseteq Sources
           /\ irq_any' \in BOOLEAN
           /\ interrupt_id' \in [Sources -> IrqIds \cup {NoIrq}]
           /\ ViaIdsOwned'
           /\ HeldOnlyWhileFlagged'
           /\ EnabledFlags \subseteq Held => EnabledFlags' \subseteq Held'
           /\ irq_any' <=> EnabledFlags' # {}
<1> DEFINE flags == irq_flag_register \ mask
           released == Released(flags)
<1>1. /\ irq_flag_register' = flags
      /\ irq_any' = (flags \cap irq_enable_register # {})
      /\ interrupt_id' = [s \in Sources |->
                            IF s \in released THEN NoIrq ELSE interrupt_id[s]]
      /\ interrupts' = interrupts \ {interrupt_id[s] : s \in released}
  BY DEF ClearIrqFlag
<1>2. Held' = Held \ released /\ released \subseteq Held /\ Held \subseteq Sources
  BY <1>1 DEF Released, Held
<1>3. \A s \in Held' : interrupt_id'[s] = interrupt_id[s]
  BY <1>1, <1>2
<1>4. interrupt_id' \in [Sources -> IrqIds \cup {NoIrq}] /\ interrupts' \subseteq IrqIds
  BY <1>1 DEF ViaIInv, ViaTypeOK
<1>5. ViaIdsOwned'
  <2>1. (interrupts = {interrupt_id[s] : s \in Held} \cup ({other_id} \ {NoIrq}))'
    <3> DEFINE ids == {interrupt_id[s] : s \in Held}
               gone == {interrupt_id[s] : s \in released}
               others == {other_id} \ {NoIrq}
    <3>1. interrupts = ids \cup others /\ interrupts' = interrupts \ gone
      BY <1>1 DEF ViaIInv, ViaIdsOwned
    <3>2. {interrupt_id'[s] : s \in Held'} = {interrupt_id[s] : s \in Held \ released}
      BY <1>2, <1>3
    <3>3. \A s \in Held \ released, t \in released : interrupt_id[s] # interrupt_id[t]
      BY <1>2 DEF ViaIInv, ViaIdsOwned
    <3>4. {interrupt_id[s] : s \in Held \ released} = ids \ gone
      BY <1>2, <3>3
    <3>5. others \cap gone = {}
      BY <1>2 DEF ViaIInv, ViaIdsOwned
    <3>6. others' = others
      OBVIOUS
    <3>7. interrupts' = (ids \ gone) \cup others
      BY <3>1, <3>5
    <3> HIDE DEF ids, gone, released
    <3>8. QED BY <3>2, <3>4, <3>6, <3>7
  <2>2. QED BY <1>2, <1>3, <2>1 DEF ViaIInv, ViaIdsOwned
<1>6. HeldOnlyWhileFlagged'
  BY <1>1, <1>2 DEF HeldOnlyWhileFlagged, Released
<1>7. /\ EnabledFlags \subseteq Held => EnabledFlags' \subseteq Held'
      /\ irq_any' <=> EnabledFlags' # {}
  BY <1>1, <1>2 DEF EnabledFlags, Released
<1>8. QED BY <1>1, <1>4, <1>5, <1>6, <1>7 DEF ViaIInv, ViaTypeOK

-------------------------------------------------------------------------------
LEMMA InitViaIInv == ViaInit => ViaIInv
<1> SUFFICES ASSUME ViaInit PROVE ViaIInv
  OBVIOUS
<1>1. ViaTypeOK
  BY DEF ViaInit, ViaTypeOK
<1>2. Held = {}
  BY DEF ViaInit, Held
<1>3. QED
  BY <1>1, <1>2
  DEF ViaInit, ViaIInv, ViaIdsOwned, HeldOnlyWhileFlagged, IerBehind, EnabledFlags

LEMMA NextViaIInv == ViaIInv /\ [ViaNext]_via_vars => ViaIInv'
<1> SUFFICES ASSUME ViaIInv, [ViaNext]_via_vars PROVE ViaIInv'
  OBVIOUS
<1>1. ASSUME NEW s \in Ticked, Expire(s) PROVE ViaIInv'
  <2>1. SetIrqFlag({s}) /\ {s} \in SUBSET Sources /\ UNCHANGED <<irq_enable_register, other_id>>
    BY <1>1 DEF Expire, Ticked
  <2>2. UNCHANGED <<ca1_vars, ier_write, ca1_rising>> /\ ier_write = "none"
    BY <1>1 DEF Expire
  <2>3. QED BY <2>1, <2>2, SetIrqFlagSound DEF ViaIInv, ViaTypeOK, IerBehind, ca1_vars
<1>2. ASSUME NEW mask \in SUBSET Sources, ClearIrqFlag(mask), ier_write = "none",
             UNCHANGED <<ca1_vars, irq_enable_register, ier_write, ca1_rising, other_id>>
      PROVE  ViaIInv'
  BY <1>2, ClearIrqFlagSound DEF ViaIInv, ViaTypeOK, IerBehind, ca1_vars
<1>3. ASSUME NEW mask \in SUBSET Sources, EnableIER(mask) PROVE ViaIInv'
  <2>1. Held' = Held /\ EnabledFlags \subseteq EnabledFlags'
    BY <1>3 DEF EnableIER, Held, EnabledFlags, flag_vars
  <2>2. ViaTypeOK'
    BY <1>3 DEF EnableIER, ViaIInv, ViaTypeOK, flag_vars, ca1_vars
  <2>3. ViaIdsOwned' /\ HeldOnlyWhileFlagged'
    BY <1>3, <2>1 DEF EnableIER, ViaIInv, ViaIdsOwned, HeldOnlyWhileFlagged, flag_vars
  <2>4. IerBehind'
    BY <1>3, <2>1 DEF EnableIER, ViaIInv, IerBehind, flag_vars
  <2>5. QED BY <2>2, <2>3, <2>4 DEF ViaIInv
<1>4. ASSUME NEW mask \in SUBSET Sources, DisableIER(mask) PROVE ViaIInv'
  <2>1. Held' = Held /\ EnabledFlags' \subseteq EnabledFlags
    BY <1>4 DEF DisableIER, Held, EnabledFlags, flag_vars
  <2>2. ViaTypeOK'
    BY <1>4 DEF DisableIER, ViaIInv, ViaTypeOK, flag_vars, ca1_vars
  <2>3. ViaIdsOwned' /\ HeldOnlyWhileFlagged'
    BY <1>4, <2>1 DEF DisableIER, ViaIInv, ViaIdsOwned, HeldOnlyWhileFlagged, flag_vars
  <2>4. IerBehind'
    BY <1>4, <2>1 DEF DisableIER, ViaIInv, IerBehind, flag_vars
  <2>5. QED BY <2>2, <2>3, <2>4 DEF ViaIInv
<1>5. CASE FinishIER
  <2>1. UNCHANGED <<ca1_vars, irq_enable_register, ca1_rising, other_id>> /\ ier_write' = "none"
    BY <1>5 DEF FinishIER
  <2>2. CASE ier_write = "set"
    <3>1. SetIrqFlag({}) /\ (irq_any => EnabledFlags # {})
      BY <1>5, <2>2 DEF FinishIER, ViaIInv, IerBehind
    <3>2. QED BY <2>1, <3>1, SetIrqFlagSound DEF ViaIInv, ViaTypeOK, IerBehind, ca1_vars
  <2>3. CASE ier_write # "set"
    <3>1. ClearIrqFlag({}) /\ EnabledFlags \subseteq Held
      BY <1>5, <2>3 DEF FinishIER, ViaIInv, IerBehind
    <3>2. QED BY <2>1, <3>1, ClearIrqFlagSound DEF ViaIInv, ViaTypeOK, IerBehind, ca1_vars
  <2>4. QED BY <2>2, <2>3
<1>6. ASSUME NEW rising \in BOOLEAN, WritePCR(rising) PROVE ViaIInv'
  BY <1>6 DEF WritePCR, ViaIInv, ViaTypeOK, ViaIdsOwned, HeldOnlyWhileFlagged, IerBehind,
              Held, EnabledFlags, flag_vars, ca1_vars
<1>7. ASSUME NEW level \in BOOLEAN, Ca1Sample(level) PROVE ViaIInv'
  BY <1>7 DEF Ca1Sample, ViaIInv, ViaTypeOK, ViaIdsOwned, HeldOnlyWhileFlagged, IerBehind,
              Held, EnabledFlags, flag_vars
<1>8. CASE Ca1Flag
  <2>1. SetIrqFlag({"CA1"}) /\ UNCHANGED <<irq_enable_register, other_id>>
    BY <1>8 DEF Ca1Flag
  <2>2. UNCHANGED <<prev_ca1_level, ier_write, ca1_rising>> /\ ca1_callback' = "idle"
    BY <1>8 DEF Ca1Flag
  <2>3. {"CA1"} \in SUBSET Sources
    BY DEF Sources
  <2>4. QED BY <2>1, <2>2, <2>3, SetIrqFlagSound DEF ViaIInv, ViaTypeOK, IerBehind
<1>9. CASE OtherSet
  <2>1. PICK fresh \in FreshIds({"other"}) :
           other_id' = fresh["other"] /\ interrupts' = interrupts \cup {fresh["other"]}
    BY <1>9 DEF OtherSet
  <2>2. other_id = NoIrq /\ other_id' \in IrqIds \ interrupts
    BY <1>9, <2>1 DEF FreshIds, OtherSet
  <2>3. Held' = Held /\ EnabledFlags' = EnabledFlags
    BY <1>9 DEF OtherSet, Held, EnabledFlags
  <2>4. ViaTypeOK'
    BY <1>9, <2>1, <2>2 DEF OtherSet, ViaIInv, ViaTypeOK, ca1_vars
  <2>5. ViaIdsOwned'
    BY <1>9, <2>1, <2>2, <2>3, NoIrqAssumption DEF OtherSet, ViaIInv, ViaIdsOwned
  <2>6. HeldOnlyWhileFlagged' /\ IerBehind'
    BY <1>9, <2>3 DEF OtherSet, ViaIInv, HeldOnlyWhileFlagged, IerBehind
  <2>7. QED BY <2>4, <2>5, <2>6 DEF ViaIInv
<1>10. CASE OtherClear
  <2>1. Held' = Held /\ EnabledFlags' = EnabledFlags
    BY <1>10 DEF OtherClear, Held, EnabledFlags
  <2>2. ViaTypeOK'
    BY <1>10 DEF OtherClear, ViaIInv, ViaTypeOK, ca1_vars
  <2>3. ViaIdsOwned'
    BY <1>10, <2>1 DEF OtherClear, ViaIInv, ViaIdsOwned, Held
  <2>4. HeldOnlyWhileFlagged' /\ IerBehind'
    BY <1>10, <2>1 DEF OtherClear, ViaIInv, HeldOnlyWhileFlagged, IerBehind
  <2>5. QED BY <2>2, <2>3, <2>4 DEF ViaIInv
<1>11. CASE UNCHANGED via_vars
  BY <1>11 DEF via_vars, flag_vars, ca1_vars, ViaIInv, ViaTypeOK, ViaIdsOwned,
               HeldOnlyWhileFlagged,
               IerBehind, Held, EnabledFlags
<1>12. ASSUME NEW s \in Sources, Acknowledge(s) PROVE ViaIInv'
  <2>1. ClearIrqFlag({s}) /\ {s} \in SUBSET Sources
    BY <1>12 DEF Acknowledge
  <2>2. QED BY <1>2, <1>12, <2>1 DEF Acknowledge
<1>13. ASSUME NEW mask \in SUBSET Sources, WriteIFR(mask) PROVE ViaIInv'
  BY <1>2, <1>13 DEF WriteIFR
<1>14. QED BY <1>1, <1>3, <1>4, <1>5, <1>6, <1>7, <1>8, <1>9, <1>10, <1>11, <1>12, <1>13
           DEF ViaNext, ViaEmulator, Ca1Thread

\* Every reachable state satisfies the inductive invariant.
THEOREM ViaInvariance == ViaSpec => []ViaIInv
  BY InitViaIInv, NextViaIInv, PTL DEF ViaSpec

\* Every variable keeps its type.
THEOREM ViaTypeCorrectness == ViaSpec => []ViaTypeOK
<1>1. ViaIInv => ViaTypeOK
  BY DEF ViaIInv
<1>2. QED BY <1>1, ViaInvariance, PTL

\* No interrupt is lost between the CA1 thread and an IER write.
THEOREM NoLostInterrupt == ViaSpec => []EnabledFlagFires
<1>1. ViaIInv => EnabledFlagFires
  BY DEF ViaIInv, IerBehind, EnabledFlagFires, ViaIdsOwned
<1>2. QED BY <1>1, ViaInvariance, PTL

\* Bit 7 of IFR is exact whenever the CPU can read it.
THEOREM AnyBitCorrect == ViaSpec => []AnyBitExact
<1>1. ViaIInv => AnyBitExact
  BY DEF ViaIInv, ViaTypeOK, IerBehind, AnyBitExact
<1>2. QED BY <1>1, ViaInvariance, PTL

\* Every interrupt on the line has exactly one owner, which can clear it.
THEOREM NoLeakedViaInterrupt == ViaSpec => [](ViaIdsOwned /\ HeldOnlyWhileFlagged)
<1>1. ViaIInv => ViaIdsOwned /\ HeldOnlyWhileFlagged
  BY DEF ViaIInv
<1>2. QED BY <1>1, ViaInvariance, PTL

\* An interrupt leaves the line only in the step in which its owner forgets it.
THEOREM OnlyOwnInterruptDropped == ViaSpec => DropsOnlyOwn
<1> DEFINE Dropped == \A id \in interrupts \ interrupts' : OwnerForgets(id)
<1>1. ASSUME [ViaNext]_via_vars PROVE [Dropped]_via_vars
  <2>1. ASSUME NEW mask, SetIrqFlag(mask) PROVE Dropped
    BY <2>1 DEF SetIrqFlag
  <2>2. ASSUME NEW mask, ClearIrqFlag(mask) PROVE Dropped
    <3>1. ASSUME NEW id \in interrupts \ interrupts' PROVE OwnerForgets(id)
      <4>1. PICK s \in Released(irq_flag_register \ mask) : id = interrupt_id[s]
        BY <2>2, <3>1 DEF ClearIrqFlag
      <4>2. s \in Held /\ s \in Sources /\ s \notin irq_flag_register'
        BY <2>2, <4>1 DEF ClearIrqFlag, Released, Held
      <4>3. interrupt_id'[s] = NoIrq
        BY <2>2, <4>1, <4>2 DEF ClearIrqFlag
      <4>4. QED BY <4>1, <4>2, <4>3 DEF OwnerForgets
    <3>2. QED BY <3>1
  <2>3. CASE OtherClear
    BY <2>3 DEF OtherClear, OwnerForgets
  <2>4. CASE OtherSet
    BY <2>4 DEF OtherSet
  <2>5. CASE ViaEmulator
    <3>1. CASE \E s \in Ticked : Expire(s)
      BY <2>1, <3>1 DEF Expire
    <3>2. CASE \E s \in Sources : Acknowledge(s)
      BY <2>2, <3>2 DEF Acknowledge
    <3>3. CASE \E mask \in SUBSET Sources : WriteIFR(mask)
      BY <2>2, <3>3 DEF WriteIFR
    <3>4. CASE \E mask \in SUBSET Sources : EnableIER(mask) \/ DisableIER(mask)
      BY <3>4 DEF EnableIER, DisableIER, flag_vars
    <3>5. CASE FinishIER
      BY <2>1, <2>2, <3>5 DEF FinishIER
    <3>6. CASE \E rising \in BOOLEAN : WritePCR(rising)
      BY <3>6 DEF WritePCR, flag_vars
    <3>7. QED BY <2>5, <3>1, <3>2, <3>3, <3>4, <3>5, <3>6 DEF ViaEmulator
  <2>6. CASE Ca1Thread
    <3>1. CASE Ca1Flag
      BY <2>1, <3>1 DEF Ca1Flag
    <3>2. CASE \E level \in BOOLEAN : Ca1Sample(level)
      BY <3>2 DEF Ca1Sample, flag_vars
    <3>3. QED BY <2>6, <3>1, <3>2 DEF Ca1Thread
  <2>7. CASE UNCHANGED via_vars
    BY <2>7
  <2>8. QED BY <1>1, <2>3, <2>4, <2>5, <2>6, <2>7 DEF ViaNext
<1>2. QED BY <1>1, PTL DEF ViaSpec, DropsOnlyOwn
===============================================================================
