----------------------- MODULE PS2Keyboard6301_proofs -----------------------
(***************************************************************************)
(* Proofs about the 6301 keyboard: for any number of key presses, any      *)
(* buffer and any code lengths, and in every interleaving of the UI thread *)
(* with the interrupt routine, the controller announces exactly the byte   *)
(* that waits, and the monitor is never invoked by an unknown interrupt.   *)
(***************************************************************************)
EXTENDS PS2Keyboard6301, SequenceTheorems, FiniteSetTheorems, FunctionTheorems,
        TLAPS

\* While the UI thread is in its critical section it works on the only byte
\* nobody has been told of; what it has done so far follows from where it is.
UiWorking ==
    /\ ui # "idle" => interrupt_id = NoIrq /\ data # <<>>
    /\ ui = "idle" => (interrupt_id # NoIrq <=> data # <<>>)
    /\ ui \in {"status", "raise"} => port1 = Head(data)

\* P21 is low from just before the interrupt is raised until it is acknowledged,
\* and from power-on until the controller has first seen P20 high.
Announcement ==
    /\ interrupt_id # NoIrq => port1 = Head(data)
    /\ status_high => ui # "raise" /\ interrupt_id = NoIrq
    /\ interrupt_clear \/ stage \in {"init", "ready"} =>
           (ui # "raise" /\ interrupt_id = NoIrq => status_high)

\* How far start has got, and what P20 is then.  No other device interrupts until
\* P20 was set.
Starting ==
    /\ stage = "start" => ~interrupt_clear
    /\ stage \in {"init", "ready"} => (cpu = "set" <=> ~interrupt_clear)
    /\ stage \in {"start", "output"} => other_id = NoIrq
    /\ cpu = "step" => stage # "ready"

\* What the interrupt routine has learnt stays true until it uses it: the byte
\* it saw announced stays the first one, and an interrupt it passed on stays.
Routine ==
    /\ cpu \in {"load", "clear", "set"} => data # <<>>
    /\ cpu \in {"clear", "set"} => a = Head(data)
    /\ cpu = "load" => ui = "raise" \/ interrupt_id # NoIrq
    /\ cpu = "set" => ~interrupt_clear
    /\ cpu = "test" => interrupts # {}
    /\ cpu = "chain" => other_id # NoIrq
    /\ cpu # "unhandled"

IInv == TypeOK /\ IdsOwned /\ UiWorking /\ Announcement /\ Starting /\ Routine

-------------------------------------------------------------------------------
\* The head of a queue is not disturbed by what is queued behind it.
LEMMA HeadConcat ==
    ASSUME NEW S, NEW s \in Seq(S), NEW t \in Seq(S)
    PROVE  /\ s \o t \in Seq(S)
           /\ s # <<>> => s \o t # <<>> /\ Head(s \o t) = Head(s)
           /\ t # <<>> => s \o t # <<>>
<1>1. s \o t \in Seq(S) /\ Len(s \o t) = Len(s) + Len(t)
  BY ConcatProperties
<1>2. ASSUME s # <<>> PROVE s \o t # <<>> /\ Head(s \o t) = Head(s)
  BY <1>1, <1>2
<1>3. ASSUME t # <<>> PROVE s \o t # <<>>
  BY <1>1, <1>3
<1>4. QED BY <1>1, <1>2, <1>3

\* The code of a key is a sequence of bytes.
LEMMA CodeType ==
    ASSUME NEW event \in 0..MaxPresses, NEW length \in 1..PauseLength,
           NEW pause \in BOOLEAN
    PROVE  Code(event, length, pause) \in Seq(Byte) /\ Code(event, length, pause) # <<>>
<1>1. \A i \in 1..length : [event |-> event, pos |-> i, pause |-> pause] \in Byte
  BY DEF Byte, PauseLength
<1>2. Code(event, length, pause) \in [1..length -> Byte]
  BY <1>1 DEF Code
<1>3. Code(event, length, pause) \in Seq(Byte)
  BY <1>2, length \in Nat DEF PauseLength
<1>4. Len(Code(event, length, pause)) = length
  BY <1>3, length \in Nat DEF Code, PauseLength
<1>5. QED BY <1>3, <1>4 DEF PauseLength

\* A write of 1 to P20 keeps the controller's announcements exact.
LEMMA WriteSound ==
    ASSUME IInv, Write1P20, UNCHANGED <<ui_vars, other_id>>
    PROVE  /\ interrupts' \subseteq IrqIds
           /\ data' \in Seq(Byte)
           /\ interrupt_id' \in IrqIds \cup {NoIrq}
           /\ interrupt_clear' = (stage # "start") /\ status_high' \in BOOLEAN
           /\ port1' \in Byte
           /\ IdsOwned' /\ UiWorking' /\ ui' = "idle"
           /\ interrupt_id' # NoIrq => port1' = Head(data')
           /\ status_high' => interrupt_id' = NoIrq
           /\ stage # "start" => (interrupt_id' = NoIrq => status_high')
<1>1. CASE stage = "start"
  <2>1. /\ UNCHANGED <<data, interrupt_id, status_high, port1, interrupts, ui, other_id>>
        /\ interrupt_clear' = FALSE /\ ui = "idle"
    BY <1>1 DEF Write1P20, MutexFree, ui_vars
  <2>2. QED
    BY <1>1, <2>1 DEF IInv, TypeOK, IdsOwned, UiWorking, Announcement
<1>2. CASE stage # "start" /\ interrupt_clear
  <2>1. UNCHANGED <<keyboard_vars, ui_vars, other_id>> /\ ui = "idle"
    BY <1>2 DEF Write1P20, MutexFree
  <2>2. QED
    BY <1>2, <2>1 DEF IInv, TypeOK, IdsOwned, UiWorking, Announcement, keyboard_vars, ui_vars
<1>3. CASE stage # "start" /\ ~interrupt_clear
  <2>1. Acknowledge /\ ui = "idle" /\ ui' = "idle"
    BY <1>3 DEF Write1P20, Acknowledge, MutexFree, ui_vars
  <2>2. Rest \in Seq(Byte) /\ (Rest # <<>> => Head(Rest) \in Byte)
    BY DEF Rest, IInv, TypeOK
  <2>3. CASE Rest # <<>>
    <3>1. PICK fresh \in FreshIds({"keyboard"}) :
            /\ interrupt_id' = fresh["keyboard"]
            /\ interrupts' = (interrupts \ {interrupt_id}) \cup {fresh["keyboard"]}
      BY <2>1, <2>3 DEF Acknowledge
    <3>2. fresh["keyboard"] \in IrqIds /\ fresh["keyboard"] \notin interrupts
      BY DEF FreshIds
    <3>3. interrupt_id' # NoIrq /\ interrupt_id' \in IrqIds
      BY <3>1, <3>2, NoIrqAssumption
    <3>4. IdsOwned'
      BY <3>1, <3>2, <3>3 DEF IInv, IdsOwned
    <3>5. data' = Rest /\ port1' = Head(Rest) /\ interrupt_clear' = TRUE /\ status_high' = FALSE
      BY <2>1, <2>3 DEF Acknowledge
    <3>6. interrupts' \subseteq IrqIds
      BY <3>1, <3>2 DEF IInv, TypeOK
    <3>7. UiWorking'
      BY <2>1, <2>3, <3>3, <3>5 DEF UiWorking
    <3>8. QED BY <1>3, <2>1, <2>2, <2>3, <3>3, <3>4, <3>5, <3>6, <3>7
  <2>4. CASE Rest = <<>>
    <3>1. /\ data' = Rest /\ interrupt_clear' = TRUE /\ status_high' = TRUE
          /\ interrupt_id' = NoIrq /\ interrupts' = interrupts \ {interrupt_id}
          /\ port1' = port1
      BY <2>1, <2>4 DEF Acknowledge
    <3>2. IdsOwned'
      BY <3>1 DEF IInv, IdsOwned
    <3>3. UiWorking'
      BY <2>1, <2>4, <3>1 DEF UiWorking
    <3>4. QED BY <1>3, <2>1, <2>2, <3>1, <3>2, <3>3 DEF IInv, TypeOK
  <2>5. QED BY <2>3, <2>4
<1>4. QED BY <1>1, <1>2, <1>3

-------------------------------------------------------------------------------
LEMMA InitIInv == Init => IInv
<1> SUFFICES ASSUME Init PROVE IInv
  OBVIOUS
<1>2. NoByte \in Byte
  BY MaxPressesAssumption DEF NoByte, Byte, PauseLength
<1>3. TypeOK
  <2>1. data \in Seq(Byte) /\ keyboard_buffer \in [0..BufferSize - 1 -> Byte]
    BY <1>2 DEF Init
  <2>2. 0 \in 0..BufferSize - 1 /\ 0 \in 0..MaxPresses /\ 0 \in 0..PauseLength
    BY BufferSizeAssumption, MaxPressesAssumption DEF PauseLength
  <2>3. QED BY <1>2, <2>1, <2>2 DEF Init, TypeOK
<1>4. IdsOwned /\ UiWorking /\ Announcement /\ Starting /\ Routine
  BY DEF Init, IdsOwned, UiWorking, Announcement, Starting, Routine
<1>5. QED BY <1>3, <1>4 DEF IInv

\* One step for each action of the two threads and of the other device.
LEMMA NextIInv == IInv /\ [Next]_vars => IInv'
<1> SUFFICES ASSUME IInv, [Next]_vars PROVE IInv'
  OBVIOUS
<1> USE DEF IInv
<1>1. ASSUME NEW key \in {"key", "pause"}, NEW length \in 1..PauseLength, Press(key, length)
      PROVE  IInv'
  <2> DEFINE code == Code(presses', length, key = "pause")
  <2>1. presses' \in 0..MaxPresses
    BY <1>1, MaxPressesAssumption DEF Press, TypeOK
  <2>2. code \in Seq(Byte) /\ code # <<>>
    BY <2>1, CodeType
  <2>3. data' = data \o code
    BY <1>1 DEF Press
  <2> HIDE DEF code
  <2>4. /\ data' \in Seq(Byte) /\ data' # <<>>
        /\ data # <<>> => Head(data') = Head(data)
    BY <2>2, <2>3, HeadConcat DEF TypeOK
  <2>5. TypeOK'
    BY <1>1, <2>1, <2>4 DEF Press, TypeOK, buffer_vars
  <2>6. UiWorking'
    BY <1>1, <2>4 DEF Press, MutexFree, UiWorking
  <2>7. IdsOwned' /\ Announcement' /\ Starting' /\ Routine'
    BY <1>1, <2>4 DEF Press, MutexFree, IdsOwned, UiWorking, Announcement, Starting, Routine
  <2>8. QED BY <2>5, <2>6, <2>7
<1>2. ASSUME PressKey PROVE IInv'
  BY <1>1, <1>2, KeyLengthsAssumption DEF PressKey, PauseLength
<1>3. ASSUME PressPause PROVE IInv'
  BY <1>1, <1>3 DEF PressPause, PauseLength
<1>4. ASSUME UiPresent PROVE IInv'
  <2>1. Head(data) \in Byte
    BY <1>4 DEF UiPresent, UiWorking, TypeOK
  <2>2. TypeOK'
    BY <1>4, <2>1 DEF UiPresent, TypeOK, buffer_vars
  <2>3. IdsOwned' /\ UiWorking' /\ Announcement' /\ Starting' /\ Routine'
    BY <1>4 DEF UiPresent, IdsOwned, UiWorking, Announcement, Starting, Routine
  <2>4. QED BY <2>2, <2>3
<1>5. ASSUME UiStatus PROVE IInv'
  <2>1. TypeOK'
    BY <1>5 DEF UiStatus, TypeOK, buffer_vars
  <2>2. IdsOwned' /\ UiWorking' /\ Announcement' /\ Starting' /\ Routine'
    BY <1>5 DEF UiStatus, IdsOwned, UiWorking, Announcement, Starting, Routine
  <2>3. QED BY <2>1, <2>2
<1>6. ASSUME UiRaise PROVE IInv'
  <2>1. PICK fresh \in FreshIds({"keyboard"}) :
          /\ interrupt_id' = fresh["keyboard"]
          /\ interrupts' = interrupts \cup {fresh["keyboard"]}
    BY <1>6 DEF UiRaise
  <2>2. fresh["keyboard"] \in IrqIds /\ fresh["keyboard"] \notin interrupts
    BY DEF FreshIds
  <2>3. interrupt_id = NoIrq /\ interrupt_id' # NoIrq
    BY <1>6, <2>1, <2>2, NoIrqAssumption DEF UiRaise, UiWorking
  <2>4. TypeOK'
    BY <1>6, <2>1, <2>2 DEF UiRaise, TypeOK, buffer_vars
  <2>5. IdsOwned'
    BY <1>6, <2>1, <2>2, <2>3 DEF UiRaise, IdsOwned
  <2>6. UiWorking' /\ Announcement' /\ Starting' /\ Routine'
    BY <1>6, <2>1, <2>3 DEF UiRaise, UiWorking, Announcement, Starting, Routine
  <2>7. QED BY <2>4, <2>5, <2>6
<1>7. ASSUME Fetch \/ SetDDR2 \/ InitP20 \/ InitBuffer PROVE IInv'
  <2>1. CASE Fetch
    <3>1. TypeOK'
      BY <2>1 DEF Fetch, TypeOK, keyboard_vars, ui_vars, buffer_vars
    <3>2. IdsOwned' /\ UiWorking' /\ Announcement' /\ Starting' /\ Routine'
      BY <2>1 DEF Fetch, IdsOwned, UiWorking, Announcement, Starting, Routine,
                  keyboard_vars, ui_vars
    <3>3. QED BY <3>1, <3>2
  <2>2. CASE SetDDR2
    <3>1. TypeOK'
      BY <2>2 DEF SetDDR2, TypeOK, keyboard_vars, ui_vars, buffer_vars
    <3>2. IdsOwned' /\ UiWorking' /\ Announcement' /\ Starting' /\ Routine'
      BY <2>2 DEF SetDDR2, IdsOwned, UiWorking, Announcement, Starting, Routine,
                  keyboard_vars, ui_vars
    <3>3. QED BY <3>1, <3>2
  <2>3. CASE InitP20
    <3>1. /\ Write1P20 /\ UNCHANGED <<ui_vars, other_id>>
          /\ cpu = "step" /\ stage = "output" /\ cpu' = "main" /\ stage' = "init"
      BY <2>3 DEF InitP20
    <3>2. TypeOK'
      BY <2>3, <3>1, WriteSound DEF InitP20, TypeOK, ui_vars, buffer_vars
    <3>3. IdsOwned' /\ UiWorking' /\ Announcement' /\ Starting' /\ Routine'
      BY <3>1, WriteSound DEF Announcement, Starting, Routine
    <3>4. QED BY <3>2, <3>3
  <2>4. CASE InitBuffer
    <3>1. TypeOK'
      BY <2>4, BufferSizeAssumption DEF InitBuffer, TypeOK, keyboard_vars, ui_vars
    <3>2. IdsOwned' /\ UiWorking' /\ Announcement' /\ Starting' /\ Routine'
      BY <2>4 DEF InitBuffer, IdsOwned, UiWorking, Announcement, Starting, Routine,
                  keyboard_vars, ui_vars
    <3>3. QED BY <3>1, <3>2
  <2>5. QED BY <1>7, <2>1, <2>2, <2>3, <2>4
<1>8. ASSUME TakeIrq PROVE IInv'
  <2>1. TypeOK'
    BY <1>8 DEF TakeIrq, TypeOK, keyboard_vars, ui_vars, buffer_vars
  <2>2. IdsOwned' /\ UiWorking' /\ Announcement' /\ Starting' /\ Routine'
    BY <1>8 DEF TakeIrq, HasInterrupt, IdsOwned, UiWorking, Announcement, Starting, Routine,
                keyboard_vars, ui_vars
  <2>3. QED BY <2>1, <2>2
<1>9. ASSUME TestP21 PROVE IInv'
  <2>1. TypeOK'
    BY <1>9 DEF TestP21, TypeOK, keyboard_vars, ui_vars, buffer_vars
  <2>2. IdsOwned' /\ UiWorking' /\ Announcement' /\ Starting'
    BY <1>9 DEF TestP21, IdsOwned, UiWorking, Announcement, Starting, keyboard_vars, ui_vars
  <2>3. CASE status_high
    \* no id of the keyboard's is outstanding, so one of the other device's is
    <3>1. interrupt_id = NoIrq /\ interrupts # {}
      BY <1>9, <2>3 DEF TestP21, Announcement, Routine
    <3>2. other_id # NoIrq
      BY <3>1 DEF IdsOwned
    <3>3. QED BY <1>9, <2>1, <2>2, <2>3, <3>2 DEF TestP21, Routine, keyboard_vars
  <2>4. CASE ~status_high
    \* before P20 is set the line is active for the keyboard alone
    <3>1. ui = "raise" \/ interrupt_id # NoIrq
      <4>1. CASE stage \in {"start", "output"}
        BY <1>9, <4>1 DEF TestP21, Starting, Routine, IdsOwned
      <4>2. CASE stage \in {"init", "ready"}
        BY <2>4, <4>2 DEF Announcement
      <4>3. QED BY <4>1, <4>2 DEF TypeOK
    <3>2. data # <<>>
      BY <3>1 DEF UiWorking, TypeOK
    <3>3. QED BY <1>9, <2>1, <2>2, <2>4, <3>1, <3>2 DEF TestP21, Routine, keyboard_vars, ui_vars
  <2>5. QED BY <2>3, <2>4
<1>10. ASSUME LoadPort1 PROVE IInv'
  <2>1. port1 = Head(data)
    BY <1>10 DEF LoadPort1, Routine, Announcement, UiWorking
  <2>2. TypeOK'
    BY <1>10 DEF LoadPort1, TypeOK, keyboard_vars, ui_vars, buffer_vars
  <2>3. IdsOwned' /\ UiWorking' /\ Announcement' /\ Starting' /\ Routine'
    BY <1>10, <2>1 DEF LoadPort1, IdsOwned, UiWorking, Announcement, Starting, Routine,
                       keyboard_vars, ui_vars
  <2>4. QED BY <2>2, <2>3
<1>11. ASSUME ClearP20 PROVE IInv'
  <2>1. TypeOK'
    BY <1>11 DEF ClearP20, TypeOK, ui_vars, buffer_vars
  <2>2. IdsOwned' /\ UiWorking' /\ Announcement' /\ Starting' /\ Routine'
    BY <1>11 DEF ClearP20, IdsOwned, UiWorking, Announcement, Starting, Routine, ui_vars
  <2>3. QED BY <2>1, <2>2
<1>12. ASSUME SetP20 PROVE IInv'
  <2>1. /\ Write1P20 /\ UNCHANGED <<ui_vars, stage, other_id>>
        /\ cpu = "set" /\ cpu' = "store"
    BY <1>12 DEF SetP20
  <2>2. TypeOK'
    BY <1>12, <2>1, WriteSound DEF SetP20, TypeOK, ui_vars, buffer_vars
  <2>3. IdsOwned' /\ UiWorking' /\ Announcement' /\ Starting' /\ Routine'
    BY <2>1, WriteSound DEF Announcement, Starting, Routine
  <2>4. QED BY <2>2, <2>3
<1>13. ASSUME StoreByte PROVE IInv'
  <2>1. /\ break_counter' \in 0..PauseLength /\ monitor' \in Nat
        /\ keyboard_buffer' \in [0..BufferSize - 1 -> Byte]
        /\ wr_ptr' \in 0..BufferSize - 1
    BY <1>13, BufferSizeAssumption, SMTT(40) DEF StoreByte, TypeOK, PauseLength
  <2>2. TypeOK'
    BY <1>13, <2>1 DEF StoreByte, TypeOK, keyboard_vars, ui_vars
  <2>3. IdsOwned' /\ UiWorking' /\ Announcement' /\ Starting' /\ Routine'
    BY <1>13 DEF StoreByte, IdsOwned, UiWorking, Announcement, Starting, Routine, keyboard_vars, ui_vars
  <2>4. QED BY <2>2, <2>3
<1>14. ASSUME Chain PROVE IInv'
  <2>1. /\ other_id # NoIrq /\ other_id' = NoIrq /\ cpu' = "main"
        /\ interrupts' = interrupts \ {other_id}
    BY <1>14 DEF Chain, Routine
  <2>2. TypeOK'
    BY <1>14, <2>1 DEF Chain, TypeOK, ui_vars, buffer_vars
  <2>3. IdsOwned'
    BY <1>14, <2>1 DEF Chain, IdsOwned
  <2>4. UiWorking' /\ Announcement' /\ Starting' /\ Routine'
    BY <1>14, <2>1 DEF Chain, UiWorking, Announcement, Starting, Routine, ui_vars
  <2>5. QED BY <2>2, <2>3, <2>4
<1>15. ASSUME GetChar PROVE IInv'
  <2>1. rd_ptr' \in 0..BufferSize - 1
    BY <1>15, BufferSizeAssumption DEF GetChar, TypeOK
  <2>2. TypeOK'
    BY <1>15, <2>1 DEF GetChar, TypeOK, keyboard_vars, ui_vars
  <2>3. IdsOwned' /\ UiWorking' /\ Announcement' /\ Starting' /\ Routine'
    BY <1>15 DEF GetChar, IdsOwned, UiWorking, Announcement, Starting, Routine, keyboard_vars, ui_vars
  <2>4. QED BY <2>2, <2>3
<1>16. ASSUME OtherRaise PROVE IInv'
  <2>1. PICK fresh \in FreshIds({"other"}) :
          /\ other_id' = fresh["other"]
          /\ interrupts' = interrupts \cup {fresh["other"]}
    BY <1>16 DEF OtherRaise
  <2>2. fresh["other"] \in IrqIds /\ fresh["other"] \notin interrupts
    BY DEF FreshIds
  <2>3. TypeOK'
    BY <1>16, <2>1, <2>2 DEF OtherRaise, TypeOK, ui_vars, buffer_vars
  <2>4. IdsOwned'
    BY <1>16, <2>1, <2>2, NoIrqAssumption DEF OtherRaise, IdsOwned
  <2>5. UiWorking' /\ Announcement' /\ Starting' /\ Routine'
    BY <1>16, <2>1, <2>2, NoIrqAssumption
       DEF OtherRaise, UiWorking, Announcement, Starting, Routine, ui_vars
  <2>6. QED BY <2>3, <2>4, <2>5
<1>17. CASE UNCHANGED vars
  <2>1. TypeOK'
    BY <1>17 DEF vars, TypeOK, keyboard_vars, ui_vars, buffer_vars
  <2>2. IdsOwned' /\ UiWorking' /\ Announcement' /\ Starting' /\ Routine'
    BY <1>17 DEF vars, IdsOwned, UiWorking, Announcement, Starting, Routine, keyboard_vars, ui_vars
  <2>3. QED BY <2>1, <2>2
<1>18. QED
  BY <1>2, <1>3, <1>4, <1>5, <1>6, <1>7, <1>8, <1>9, <1>10, <1>11, <1>12, <1>13,
     <1>14, <1>15, <1>16, <1>17
     DEF Next, UiThread, Firmware

THEOREM Invariance == Spec => []IInv
BY InitIInv, NextIInv, PTL DEF Spec

-------------------------------------------------------------------------------
\* Every variable keeps its type.
THEOREM TypeCorrectness == Spec => []TypeOK
<1>1. IInv => TypeOK
  BY DEF IInv
<1>2. QED BY <1>1, Invariance, PTL

\* handle_keyboard_event() and the port callback announce a waiting byte in all
\* three places, and nothing when there is none.
THEOREM PresentedCorrect == Spec => []Presented
<1>1. IInv => Presented
  <2> SUFFICES ASSUME IInv PROVE Presented
    OBVIOUS
  <2>1. interrupt_id \in interrupts <=> interrupt_id # NoIrq
    BY NoIrqAssumption DEF IInv, IdsOwned, TypeOK
  <2>2. data \in Seq(Byte) /\ status_high \in BOOLEAN
    BY DEF IInv, TypeOK
  <2>3. ASSUME stage \in {"init", "ready"}, MutexFree
        PROVE  /\ data # <<>> <=> interrupt_id # NoIrq
               /\ interrupt_id # NoIrq <=> ~status_high
               /\ interrupt_id # NoIrq => port1 = Head(data)
    BY <2>2, <2>3 DEF IInv, UiWorking, Announcement, MutexFree
  <2>4. QED BY <2>1, <2>3 DEF Presented
<1>2. QED BY <1>1, Invariance, PTL

\* No id is left on the line that nobody can clear.
THEOREM NoLeakedInterrupt == Spec => []IdsOwned
<1>1. IInv => IdsOwned
  BY DEF IInv
<1>2. QED BY <1>1, Invariance, PTL

\* The interrupt chain of monitor.s always finds a device to serve.
THEOREM MonitorOnlyOnBreak == Spec => []NoSpuriousMonitor
<1>1. IInv => NoSpuriousMonitor
  BY DEF IInv, Routine, NoSpuriousMonitor
<1>2. QED BY <1>1, Invariance, PTL

-------------------------------------------------------------------------------
(* The keyboard implements its channel.                                    *)

\* The user does not type before P20 is an output, nor Pause before it is set.
NoEarlyKeys ==
    EarlyKeys \subseteq {<<"output", "key">>, <<"init", "key">>, <<"init", "pause">>}

\* How many bytes of a Pause are still to come after this one, and whether a byte
\* can come when there are n of them.
Pending(byte) == IF byte.pause THEN PauseLength - byte.pos ELSE 0

Follows(byte, n) ==
    IF n = 0 THEN byte.pause => byte.pos = 1
             ELSE byte.pause /\ byte.pos = PauseLength + 1 - n

\* After n bytes of a Pause are owed, s brings them, and whole keys only.
Whole(n, s) ==
    /\ s # <<>> => Follows(s[1], n)
    /\ \A i \in 2..Len(s) : Follows(s[i], Pending(s[i - 1]))
    /\ s # <<>> => Pending(s[Len(s)]) = 0
    /\ s = <<>> => n = 0

\* How many of the bytes will go to the buffer.
Typed(s) == Cardinality({i \in DOMAIN s : ~s[i].pause})

\* The break counter agrees with what is still in flight; Pause comes only when the
\* firmware drops no bytes any more; and what is typed has room in the buffer.
ChannelInv ==
    /\ Whole(break_counter, InFlight)
    /\ stage \in {"start", "output"} => \A i \in DOMAIN InFlight : ~InFlight[i].pause
    /\ stage = "start" => data = <<>> /\ cpu \in {"main", "step"}
    /\ Len(Unread) + Typed(InFlight) < BufferSize

\* Indices of a buffer with wrap-around.
LEMMA ModLemma ==
    ASSUME NEW n \in Nat \ {0}, NEW x \in 0..2 * n - 1
    PROVE  x % n = IF x < n THEN x ELSE x - n
<1>1. CASE x < n
  BY <1>1
<1>2. CASE ~(x < n)
  BY <1>2
<1>3. QED BY <1>1, <1>2

LEMMA WholeTail ==
    ASSUME NEW s \in Seq(Byte), s # <<>>, NEW n, Whole(n, s)
    PROVE  Whole(Pending(Head(s)), Tail(s))
<1>1. Len(s) \in Nat \ {0} /\ Head(s) = s[1]
  BY EmptySeq
<1>2. /\ Tail(s) \in Seq(Byte) /\ Len(Tail(s)) = Len(s) - 1
      /\ \A i \in 1..Len(s) - 1 : Tail(s)[i] = s[i + 1]
  BY HeadTailProperties
<1>3. CASE Len(s) = 1
  <2>1. Len(Tail(s)) = 0
    BY <1>2, <1>3
  <2>2. Tail(s) = <<>>
    BY <1>2, <2>1, EmptySeq
  <2>3. Pending(Head(s)) = 0
    BY <1>1, <1>3 DEF Whole
  <2>4. QED BY <2>1, <2>2, <2>3 DEF Whole
<1>4. CASE Len(s) > 1
  <2>1. Tail(s) # <<>>
    <3>1. Len(Tail(s)) # 0
      BY <1>1, <1>2, <1>4
    <3>2. QED BY <3>1, EmptySeq, Zenon
  <2>2. Follows(Tail(s)[1], Pending(Head(s)))
    <3>1. 2 \in 2..Len(s) /\ 1 \in 1..Len(s) - 1
      BY <1>1, <1>4
    <3>2. Tail(s)[1] = s[2] /\ 2 - 1 = 1
      BY <1>2, <3>1
    <3>3. Follows(s[2], Pending(s[2 - 1]))
      BY <3>1 DEF Whole
    <3>4. QED BY <1>1, <3>2, <3>3
  <2>3. ASSUME NEW i \in 2..Len(Tail(s))
        PROVE  Follows(Tail(s)[i], Pending(Tail(s)[i - 1]))
    <3>1. i + 1 \in 2..Len(s) /\ i \in 1..Len(s) - 1 /\ i - 1 \in 1..Len(s) - 1
      BY <1>1, <1>2
    <3>2. Tail(s)[i] = s[i + 1] /\ Tail(s)[i - 1] = s[i] /\ (i + 1) - 1 = i
      BY <1>2, <3>1
    <3>3. Follows(s[i + 1], Pending(s[(i + 1) - 1]))
      BY <3>1 DEF Whole
    <3>4. QED BY <3>2, <3>3
  <2>4. Pending(Tail(s)[Len(Tail(s))]) = 0
    <3>1. Tail(s)[Len(Tail(s))] = s[Len(s)]
      BY <1>1, <1>2, <1>4
    <3>2. QED BY <3>1 DEF Whole
  <2>5. QED BY <2>1, <2>2, <2>3, <2>4 DEF Whole
<1>5. Len(s) = 1 \/ Len(s) > 1
  BY <1>1
<1>6. QED BY <1>3, <1>4, <1>5

LEMMA WholeConcat ==
    ASSUME NEW s \in Seq(Byte), NEW t \in Seq(Byte), NEW n, Whole(n, s), Whole(0, t)
    PROVE  Whole(n, s \o t)
<1> DEFINE u == s \o t
<1>1. /\ u \in Seq(Byte) /\ Len(u) = Len(s) + Len(t)
      /\ \A i \in 1..Len(s) + Len(t) : u[i] = IF i <= Len(s) THEN s[i] ELSE t[i - Len(s)]
      /\ Len(s) \in Nat /\ Len(t) \in Nat
  BY ConcatProperties, LenProperties
<1>2. CASE s = <<>>
  BY <1>2, ConcatEmptySeq DEF Whole
<1>3. CASE t = <<>>
  BY <1>3, ConcatEmptySeq DEF Whole
<1>4. CASE s # <<>> /\ t # <<>>
  <2>1. Len(s) > 0 /\ Len(t) > 0 /\ u # <<>>
    BY <1>1, <1>4, EmptySeq
  <2>2. Follows(u[1], n)
    <3>1. u[1] = s[1]
      BY <1>1, <2>1
    <3>2. QED BY <1>4, <3>1 DEF Whole
  <2>3. Pending(u[Len(u)]) = 0
    <3>1. u[Len(u)] = t[Len(t)]
      BY <1>1, <2>1
    <3>2. QED BY <1>4, <3>1 DEF Whole
  <2>4. ASSUME NEW i \in 2..Len(u) PROVE Follows(u[i], Pending(u[i - 1]))
    <3>1. CASE i <= Len(s)
      <4>1. i \in 2..Len(s) /\ u[i] = s[i] /\ u[i - 1] = s[i - 1]
        BY <1>1, <3>1
      <4>2. QED BY <4>1 DEF Whole
    <3>2. CASE i = Len(s) + 1
      <4>1. u[i] = t[1] /\ u[i - 1] = s[Len(s)]
        BY <1>1, <2>1, <3>2
      <4>2. QED BY <1>4, <4>1 DEF Whole
    <3>3. CASE i > Len(s) + 1
      <4> DEFINE j == i - Len(s)
      <4>1. j \in 2..Len(t) /\ u[i] = t[j] /\ u[i - 1] = t[j - 1]
        BY <1>1, <3>3
      <4>2. QED BY <4>1 DEF Whole
    <3>4. QED BY <1>1, <3>1, <3>2, <3>3
  <2>5. QED BY <2>1, <2>2, <2>3, <2>4 DEF Whole
<1>5. QED BY <1>2, <1>3, <1>4

\* The code of a Pause is whole, and that of another key has no byte of one.
(* A sequence of bytes none of which belongs to the Pause sequence stays so  *)
(* when such a sequence is appended or its first byte taken.                 *)
LEMMA KeysConcat ==
    ASSUME NEW s \in Seq(Byte), NEW t \in Seq(Byte),
           \A i \in DOMAIN s : ~s[i].pause, \A i \in DOMAIN t : ~t[i].pause
    PROVE  \A i \in DOMAIN (s \o t) : ~(s \o t)[i].pause
<1> DEFINE u == s \o t
<1>1. u \in Seq(Byte) /\ Len(u) = Len(s) + Len(t)
      /\ \A i \in 1..Len(s) + Len(t) : u[i] = IF i <= Len(s) THEN s[i] ELSE t[i - Len(s)]
  BY ConcatProperties
<1>2. /\ Len(s) \in Nat /\ DOMAIN s = 1..Len(s)
      /\ Len(t) \in Nat /\ DOMAIN t = 1..Len(t)
  BY LenProperties
<1>3. DOMAIN u = 1..Len(u)
  BY <1>1, LenProperties
<1> HIDE DEF u
<1>4. ASSUME NEW i \in DOMAIN u PROVE ~u[i].pause
  <2>1. CASE i <= Len(s)
    <3>1. i \in DOMAIN s /\ u[i] = s[i]
      BY <1>1, <1>2, <1>3, <1>4, <2>1
    <3>2. QED BY <3>1
  <2>2. CASE i > Len(s)
    <3>1. i - Len(s) \in DOMAIN t /\ u[i] = t[i - Len(s)]
      BY <1>1, <1>2, <1>3, <1>4, <2>2
    <3>2. QED BY <3>1
  <2>3. QED BY <1>1, <1>2, <1>3, <1>4, <2>1, <2>2
<1>5. QED BY <1>4 DEF u

LEMMA KeysTail ==
    ASSUME NEW s \in Seq(Byte), s # <<>>, \A i \in DOMAIN s : ~s[i].pause
    PROVE  \A i \in DOMAIN Tail(s) : ~Tail(s)[i].pause
<1> DEFINE u == Tail(s)
<1>1. /\ u \in Seq(Byte) /\ Len(u) = Len(s) - 1
      /\ \A i \in 1..Len(u) : u[i] = s[i + 1]
  BY HeadTailProperties
<1>2. Len(s) \in Nat /\ DOMAIN s = 1..Len(s)
  BY LenProperties
<1>3. DOMAIN u = 1..Len(u)
  BY <1>1, LenProperties
<1> HIDE DEF u
<1>4. ASSUME NEW i \in DOMAIN u PROVE ~u[i].pause
  <2>1. i + 1 \in DOMAIN s /\ u[i] = s[i + 1]
    BY <1>1, <1>2, <1>3, <1>4
  <2>2. QED BY <2>1
<1>5. QED BY <1>4 DEF u

LEMMA WholeCode ==
    ASSUME NEW event \in 0..MaxPresses, NEW length \in 1..PauseLength, NEW pause \in BOOLEAN,
           pause => length = PauseLength
    PROVE  Whole(0, Code(event, length, pause))
<1> DEFINE code == Code(event, length, pause)
<1>1. code \in Seq(Byte) /\ code # <<>>
  BY CodeType
<1>2. /\ DOMAIN code = 1..length /\ Len(code) = length /\ length \in Nat \ {0}
      /\ \A i \in 1..length : code[i].pause = pause /\ code[i].pos = i
  <2>1. length \in Nat \ {0}
    BY DEF PauseLength
  <2>2. DOMAIN code = 1..length /\ \A i \in 1..length : code[i].pause = pause /\ code[i].pos = i
    BY DEF Code
  <2>3. QED BY <1>1, <2>1, <2>2, LenProperties
<1> HIDE DEF code
<1>3. Follows(code[1], 0)
  BY <1>2 DEF Follows
<1>4. ASSUME NEW i \in 2..Len(code) PROVE Follows(code[i], Pending(code[i - 1]))
  <2>1. i \in 1..length /\ i - 1 \in 1..length /\ i \in Nat
    BY <1>2
  <2>2. /\ code[i].pause = pause /\ code[i].pos = i
        /\ code[i - 1].pause = pause /\ code[i - 1].pos = i - 1
    BY <1>2, <2>1
  <2>3. CASE pause
    <3>1. Pending(code[i - 1]) = PauseLength - (i - 1)
      BY <2>2, <2>3 DEF Pending
    <3>2. PauseLength - (i - 1) # 0 /\ PauseLength + 1 - (PauseLength - (i - 1)) = i
      BY <2>1, <2>3 DEF PauseLength
    <3>3. QED BY <2>2, <2>3, <3>1, <3>2 DEF Follows
  <2>4. CASE ~pause
    BY <2>2, <2>4 DEF Follows, Pending
  <2>5. QED BY <2>3, <2>4
<1>5. Pending(code[Len(code)]) = 0
  BY <1>2 DEF Pending, PauseLength
<1>6. QED BY <1>1, <1>3, <1>4, <1>5 DEF Whole, code

\* The indices of typed bytes.
TypedAt(s) == {i \in DOMAIN s : ~s[i].pause}

LEMMA TypedFinite ==
    ASSUME NEW s \in Seq(Byte)
    PROVE  /\ IsFiniteSet(TypedAt(s)) /\ Typed(s) = Cardinality(TypedAt(s))
           /\ Typed(s) \in Nat
<1>1. DOMAIN s = 1..Len(s) /\ Len(s) \in Nat
  BY LenProperties
<1>2. IsFiniteSet(1..Len(s))
  BY <1>1, FS_Interval
<1>3. TypedAt(s) \in SUBSET (1..Len(s))
  BY <1>1 DEF TypedAt
<1>4. IsFiniteSet(TypedAt(s))
  BY <1>2, <1>3, FS_Subset
<1>5. Typed(s) = Cardinality(TypedAt(s))
  BY DEF Typed, TypedAt
<1>6. QED BY <1>4, <1>5, FS_CardinalityType

LEMMA TypedConcat ==
    ASSUME NEW s \in Seq(Byte), NEW t \in Seq(Byte)
    PROVE  Typed(s \o t) = Typed(s) + Typed(t)
<1> DEFINE u == s \o t
           A == TypedAt(s)
           B == TypedAt(t)
           C == {i \in DOMAIN u : ~u[i].pause /\ i > Len(s)}
           shift == [i \in B |-> Len(s) + i]
<1>1. /\ u \in Seq(Byte) /\ Len(u) = Len(s) + Len(t)
      /\ \A i \in 1..Len(s) + Len(t) : u[i] = IF i <= Len(s) THEN s[i] ELSE t[i - Len(s)]
      /\ Len(s) \in Nat /\ Len(t) \in Nat
      /\ DOMAIN s = 1..Len(s) /\ DOMAIN t = 1..Len(t) /\ DOMAIN u = 1..Len(s) + Len(t)
  BY ConcatProperties, LenProperties
<1>2. shift \in [B -> C]
  <2>1. ASSUME NEW i \in B PROVE Len(s) + i \in C
    <3>1. i \in 1..Len(t) /\ ~t[i].pause
      BY <1>1 DEF TypedAt
    <3>2. Len(s) + i \in DOMAIN u /\ Len(s) + i > Len(s)
      BY <1>1, <3>1
    <3>3. u[Len(s) + i] = t[i]
      BY <1>1, <3>1
    <3>4. QED BY <3>1, <3>2, <3>3
  <2>2. QED BY <2>1
<1>3. \A i, j \in B : shift[i] = shift[j] => i = j
  <2>1. B \subseteq Nat
    BY <1>1 DEF TypedAt
  <2>2. QED BY <1>1, <2>1
<1>4. ASSUME NEW k \in C PROVE \E i \in B : shift[i] = k
  <2>1. k \in 1..Len(s) + Len(t) /\ k > Len(s) /\ ~u[k].pause
    BY <1>1
  <2>2. k - Len(s) \in 1..Len(t) /\ u[k] = t[k - Len(s)]
    BY <1>1, <2>1
  <2>3. k - Len(s) \in B
    BY <1>1, <2>1, <2>2 DEF TypedAt
  <2>4. shift[k - Len(s)] = Len(s) + (k - Len(s))
    BY <2>3
  <2>5. Len(s) + (k - Len(s)) = k
    BY <1>1, <2>1
  <2>6. QED BY <2>3, <2>4, <2>5
<1>5. shift \in Bijection(B, C)
  <2> HIDE DEF shift
  <2>1. QED BY <1>2, <1>3, <1>4, Fun_IsBij
<1>6. IsFiniteSet(C) /\ Cardinality(C) = Cardinality(B)
  <2>1. ExistsBijection(B, C)
    BY <1>5 DEF ExistsBijection
  <2>2. IsFiniteSet(B)
    BY TypedFinite
  <2>3. QED BY <2>1, <2>2, FS_Bijection
<1>7. TypedAt(u) = A \cup C
  <2>1. ASSUME NEW i \in DOMAIN u, i <= Len(s)
        PROVE  i \in DOMAIN s /\ u[i] = s[i]
    BY <1>1, <2>1
  <2>2. ASSUME NEW i \in DOMAIN s
        PROVE  i \in DOMAIN u /\ u[i] = s[i]
    BY <1>1, <2>2
  <2>3. ASSUME NEW i \in DOMAIN u PROVE i <= Len(s) \/ i > Len(s)
    BY <1>1, <2>3
  <2>4. QED BY <2>1, <2>2, <2>3 DEF TypedAt
<1>8. A \cap C = {}
  <2>1. \A i \in A : ~(i > Len(s))
    BY <1>1 DEF TypedAt
  <2>2. QED BY <2>1
<1>9. Cardinality(A \cup C) = Cardinality(A) + Cardinality(C)
  <2> HIDE DEF A, C
  <2>1. IsFiniteSet(A) /\ Cardinality(A) \in Nat
    BY TypedFinite DEF A
  <2>2. Cardinality(A \cup C) = Cardinality(A) + Cardinality(C) - Cardinality(A \cap C)
    BY <1>6, <2>1, FS_Union
  <2>3. Cardinality(A \cap C) = 0 /\ Cardinality(C) \in Nat
    BY <1>6, <1>8, FS_EmptySet, FS_CardinalityType
  <2>4. QED BY <2>1, <2>2, <2>3
<1>10. Typed(u) = Cardinality(TypedAt(u))
  BY <1>1, TypedFinite
<1>11. Typed(s) = Cardinality(A) /\ Typed(t) = Cardinality(B)
  BY TypedFinite
<1>12. QED BY <1>6, <1>7, <1>9, <1>10, <1>11

LEMMA HeadThenTail ==
    ASSUME NEW s \in Seq(Byte), s # <<>>
    PROVE  /\ Head(s) \in Byte /\ Tail(s) \in Seq(Byte)
           /\ <<Head(s)>> \in Seq(Byte) /\ <<Head(s)>> \o Tail(s) = s
<1>1. Len(s) \in Nat \ {0} /\ Head(s) \in Byte /\ Tail(s) \in Seq(Byte)
  BY EmptySeq, HeadTailProperties
<1>2. 1 \in 1..Len(s) /\ Len(s) \in 1..Len(s)
  BY <1>1
<1>3. SubSeq(s, 1, Len(s)) = <<s[1]>> \o SubSeq(s, 1 + 1, Len(s))
  BY <1>2, SubSeqRecursiveFirst
<1>4. Tail(s) = SubSeq(s, 2, Len(s)) /\ SubSeq(s, 1, Len(s)) = s
  BY TailIsSubSeq, SubSeqFull
<1>5. <<Head(s)>> \in Seq(Byte)
  BY <1>1
<1>6. QED BY <1>1, <1>3, <1>4, <1>5

LEMMA TypedTail ==
    ASSUME NEW s \in Seq(Byte), s # <<>>
    PROVE  /\ Typed(Tail(s)) \in Nat
           /\ Head(s).pause => Typed(s) = Typed(Tail(s))
           /\ ~Head(s).pause => Typed(s) = Typed(Tail(s)) + 1
<1>1. /\ Head(s) \in Byte /\ Tail(s) \in Seq(Byte) /\ <<Head(s)>> \in Seq(Byte)
      /\ <<Head(s)>> \o Tail(s) = s
  BY HeadThenTail
<1>2. Typed(s) = Typed(<<Head(s)>>) + Typed(Tail(s))
  BY <1>1, TypedConcat
<1>3. Typed(Tail(s)) \in Nat /\ Typed(<<Head(s)>>) = Cardinality(TypedAt(<<Head(s)>>))
  BY <1>1, TypedFinite
<1>4. Head(s).pause => TypedAt(<<Head(s)>>) = {}
  BY DEF TypedAt
<1>5. ~Head(s).pause => TypedAt(<<Head(s)>>) = {1}
  BY DEF TypedAt
<1>6. Cardinality({}) = 0 /\ Cardinality({1}) = 1
  BY FS_EmptySet, FS_Singleton, Zenon
<1>7. ASSUME Head(s).pause PROVE Typed(s) = Typed(Tail(s))
  <2>1. Typed(<<Head(s)>>) = 0
    BY <1>3, <1>4, <1>6, <1>7
  <2>2. QED BY <1>2, <1>3, <2>1
<1>8. ASSUME ~Head(s).pause PROVE Typed(s) = Typed(Tail(s)) + 1
  <2>1. Typed(<<Head(s)>>) = 1
    BY <1>3, <1>5, <1>6, <1>8
  <2>2. QED BY <1>2, <1>3, <2>1
<1>9. QED BY <1>3, <1>7, <1>8

LEMMA TypedCode ==
    ASSUME NEW event \in 0..MaxPresses, NEW length \in 1..PauseLength, NEW pause \in BOOLEAN
    PROVE  Typed(Code(event, length, pause)) = IF pause THEN 0 ELSE length
<1> DEFINE code == Code(event, length, pause)
<1>1. DOMAIN code = 1..length /\ \A i \in 1..length : code[i].pause = pause
  BY DEF Code
<1>2. Typed(code) = Cardinality(TypedAt(code))
  BY CodeType, TypedFinite
<1>3. CASE pause
  <2>1. TypedAt(code) = {}
    BY <1>1, <1>3 DEF TypedAt
  <2>2. QED BY <1>2, <1>3, <2>1, FS_EmptySet
<1>4. CASE ~pause
  <2>1. TypedAt(code) = 1..length
    BY <1>1, <1>4 DEF TypedAt
  <2>2. Cardinality(1..length) = length
    <3>1. length \in Int /\ ~(1 > length) /\ length - 1 + 1 = length
      BY DEF PauseLength
    <3>2. QED BY <3>1, FS_Interval
  <2>3. QED BY <1>2, <1>4, <2>1, <2>2
<1>5. QED BY <1>3, <1>4

\* Unread as a function of the buffer and its pointers.
Queue(buffer, wr, rd) ==
    [i \in 1..((wr + BufferSize - rd) % BufferSize) |-> buffer[(rd + i - 1) % BufferSize]]

Buffers == [0..BufferSize - 1 -> Byte]
Pointers == 0..BufferSize - 1

LEMMA QueueElements ==
    ASSUME NEW buffer \in Buffers, NEW wr \in Pointers, NEW rd \in Pointers
    PROVE  LET n == IF wr >= rd THEN wr - rd ELSE wr + BufferSize - rd
           IN  /\ Queue(buffer, wr, rd) \in Seq(Byte)
               /\ n \in Pointers /\ Len(Queue(buffer, wr, rd)) = n
               /\ \A i \in 1..n : Queue(buffer, wr, rd)[i] =
                     buffer[IF rd + i - 1 < BufferSize THEN rd + i - 1 ELSE rd + i - 1 - BufferSize]
<1> DEFINE n == IF wr >= rd THEN wr - rd ELSE wr + BufferSize - rd
           place(i) == IF rd + i - 1 < BufferSize THEN rd + i - 1 ELSE rd + i - 1 - BufferSize
<1> USE BufferSizeAssumption DEF Pointers
<1>1. n \in 0..BufferSize - 1
  OBVIOUS
<1>2. (wr + BufferSize - rd) % BufferSize = n
  <2> DEFINE x == wr + BufferSize - rd
  <2>1. x \in 0..2 * BufferSize - 1 /\ (IF x < BufferSize THEN x ELSE x - BufferSize) = n
    OBVIOUS
  <2> HIDE DEF x, n
  <2>2. x % BufferSize = n
    BY <2>1, ModLemma
  <2>3. QED BY <2>2 DEF x
<1>3. ASSUME NEW i \in 1..n
      PROVE  (rd + i - 1) % BufferSize = place(i) /\ place(i) \in 0..BufferSize - 1
  <2> DEFINE x == rd + i - 1
  <2>1. /\ x \in 0..2 * BufferSize - 1 /\ (IF x < BufferSize THEN x ELSE x - BufferSize) = place(i)
        /\ place(i) \in 0..BufferSize - 1
    BY <1>1
  <2> HIDE DEF x, place
  <2>2. x % BufferSize = place(i)
    BY <2>1, ModLemma
  <2>3. QED BY <2>1, <2>2 DEF x
<1> HIDE DEF n
<1>4. Queue(buffer, wr, rd) = [i \in 1..n |-> buffer[(rd + i - 1) % BufferSize]]
  BY <1>2 DEF Queue
<1>5. \A i \in 1..n : Queue(buffer, wr, rd)[i] = buffer[place(i)] /\ buffer[place(i)] \in Byte
  <2> HIDE DEF place
  <2>1. QED BY <1>3, <1>4 DEF Buffers
<1>6. Queue(buffer, wr, rd) \in [1..n -> Byte]
  <2> HIDE DEF place
  <2>1. QED BY <1>3, <1>4, <1>5 DEF Buffers
<1>7. Queue(buffer, wr, rd) \in Seq(Byte) /\ Len(Queue(buffer, wr, rd)) = n
  BY <1>1, <1>6
<1>8. QED BY <1>1, <1>5, <1>7 DEF n

\* A byte stored in a buffer that is not full comes after those that were there.
LEMMA QueueStore ==
    ASSUME NEW buffer \in Buffers, NEW wr \in Pointers, NEW rd \in Pointers, NEW byte \in Byte,
           Len(Queue(buffer, wr, rd)) + 1 < BufferSize
    PROVE  Queue([buffer EXCEPT ![wr] = byte], (wr + 1) % BufferSize, rd)
             = Append(Queue(buffer, wr, rd), byte)
<1> DEFINE next == (wr + 1) % BufferSize
           stored == [buffer EXCEPT ![wr] = byte]
           old == Queue(buffer, wr, rd)
           new == Queue(stored, next, rd)
           n == IF wr >= rd THEN wr - rd ELSE wr + BufferSize - rd
           m == IF next >= rd THEN next - rd ELSE next + BufferSize - rd
           place(i) == IF rd + i - 1 < BufferSize THEN rd + i - 1 ELSE rd + i - 1 - BufferSize
<1>1. next = IF wr + 1 < BufferSize THEN wr + 1 ELSE wr + 1 - BufferSize
  <2> DEFINE x == wr + 1
  <2>1. x \in 0..2 * BufferSize - 1 /\ next = x % BufferSize
    BY BufferSizeAssumption DEF Pointers
  <2> HIDE DEF x, next
  <2>2. next = IF x < BufferSize THEN x ELSE x - BufferSize
    BY <2>1, BufferSizeAssumption, ModLemma
  <2>3. QED BY <2>2, BufferSizeAssumption DEF x, Pointers
<1>2. next \in Pointers /\ stored \in Buffers
  BY <1>1, BufferSizeAssumption DEF Pointers, Buffers
<1>3. /\ old \in Seq(Byte) /\ n \in Pointers /\ Len(old) = n
      /\ \A i \in 1..n : old[i] = buffer[place(i)]
  BY QueueElements
<1>4. /\ new \in Seq(Byte) /\ m \in Pointers /\ Len(new) = m
      /\ \A i \in 1..m : new[i] = stored[place(i)]
  BY <1>2, QueueElements, ZenonT(40)
<1>5. n \in Nat /\ n + 1 < BufferSize
  <2> HIDE DEF n
  <2>1. QED BY <1>3 DEF Pointers
<1> HIDE DEF next, old, new
<1>6. m = n + 1
  BY <1>1, <1>5, BufferSizeAssumption DEF Pointers
<1>7. ASSUME NEW i \in 1..n
      PROVE  new[i] = old[i]
  <2>1. place(i) \in 0..BufferSize - 1 /\ place(i) # wr
    BY <1>3, BufferSizeAssumption DEF Pointers
  <2>2. i \in 1..m
    BY <1>3, <1>5, <1>6 DEF Pointers
  <2> HIDE DEF place, m, n
  <2>3. QED BY <1>3, <1>4, <2>1, <2>2 DEF Buffers
<1>8. new[n + 1] = byte
  <2>1. place(n + 1) = wr
    BY BufferSizeAssumption DEF Pointers
  <2> HIDE DEF place, m, n
  <2>2. n + 1 \in 1..m
    BY <1>5, <1>6
  <2>3. QED BY <1>4, <2>1, <2>2 DEF Buffers, Pointers
<1> HIDE DEF place, m, n
<1>9. /\ Append(old, byte) \in Seq(Byte) /\ Len(Append(old, byte)) = n + 1
      /\ \A i \in 1..n : Append(old, byte)[i] = old[i]
      /\ Append(old, byte)[n + 1] = byte
  BY <1>3, AppendProperties
<1>10. \A i \in 1..n + 1 : new[i] = Append(old, byte)[i]
  BY <1>5, <1>7, <1>8, <1>9
<1>11. new = Append(old, byte)
  BY <1>4, <1>5, <1>6, <1>9, <1>10, SeqEqual
<1>12. QED BY <1>11 DEF new, old, next

\* The program takes the oldest byte.
LEMMA QueueRead ==
    ASSUME NEW buffer \in Buffers, NEW wr \in Pointers, NEW rd \in Pointers, rd # wr
    PROVE  /\ Queue(buffer, wr, rd) # <<>>
           /\ Queue(buffer, wr, (rd + 1) % BufferSize) = Tail(Queue(buffer, wr, rd))
<1> DEFINE next == (rd + 1) % BufferSize
           old == Queue(buffer, wr, rd)
           new == Queue(buffer, wr, next)
           n == IF wr >= rd THEN wr - rd ELSE wr + BufferSize - rd
           m == IF wr >= next THEN wr - next ELSE wr + BufferSize - next
           place(i) == IF rd + i - 1 < BufferSize THEN rd + i - 1 ELSE rd + i - 1 - BufferSize
           placed(i) == IF next + i - 1 < BufferSize THEN next + i - 1
                                                     ELSE next + i - 1 - BufferSize
<1>1. next = IF rd + 1 < BufferSize THEN rd + 1 ELSE rd + 1 - BufferSize
  <2> DEFINE x == rd + 1
  <2>1. x \in 0..2 * BufferSize - 1 /\ next = x % BufferSize
    BY BufferSizeAssumption DEF Pointers
  <2> HIDE DEF x, next
  <2>2. next = IF x < BufferSize THEN x ELSE x - BufferSize
    BY <2>1, BufferSizeAssumption, ModLemma
  <2>3. QED BY <2>2, BufferSizeAssumption DEF x, Pointers
<1>2. next \in Pointers
  BY <1>1, BufferSizeAssumption DEF Pointers
<1>3. /\ old \in Seq(Byte) /\ n \in Pointers /\ Len(old) = n
      /\ \A i \in 1..n : old[i] = buffer[place(i)]
  BY QueueElements
<1>4. /\ new \in Seq(Byte) /\ m \in Pointers /\ Len(new) = m
      /\ \A i \in 1..m : new[i] = buffer[placed(i)]
  BY <1>2, QueueElements
<1> HIDE DEF next, old, new
<1>5. n > 0 /\ m = n - 1
  BY <1>1, <1>3, BufferSizeAssumption DEF Pointers
<1>6. old # <<>>
  <2>1. Len(old) # 0
    BY <1>3, <1>5
  <2>2. QED BY <2>1, EmptySeq, Zenon
<1>7. /\ Tail(old) \in Seq(Byte) /\ Len(Tail(old)) = n - 1
      /\ \A i \in 1..n - 1 : Tail(old)[i] = old[i + 1]
  BY <1>3, <1>6, HeadTailProperties
<1>8. ASSUME NEW i \in 1..m PROVE new[i] = Tail(old)[i]
  <2>1. placed(i) = place(i + 1) /\ i + 1 \in 1..n /\ i \in 1..n - 1
    BY <1>1, <1>3, <1>5, BufferSizeAssumption DEF Pointers
  <2> HIDE DEF place, placed, m, n
  <2>2. new[i] = buffer[placed(i)] /\ old[i + 1] = buffer[place(i + 1)]
    BY <1>3, <1>4, <2>1
  <2>3. QED BY <1>7, <2>1, <2>2
<1> HIDE DEF place, placed, m, n
<1>9. new = Tail(old)
  BY <1>4, <1>5, <1>7, <1>8, SeqEqual
<1>10. QED BY <1>6, <1>9 DEF new, old, next

\* InFlight as a function of what it depends on.
Flight(where, byte, line) == IF where = "store" THEN <<byte>> \o line ELSE line

LEMMA FlightLemma ==
    ASSUME NEW where, NEW byte \in Byte, NEW line \in Seq(Byte)
    PROVE  /\ Flight(where, byte, line) \in Seq(Byte)
           /\ where # "store" => Flight(where, byte, line) = line
           /\ Flight("store", byte, line) # <<>>
           /\ Head(Flight("store", byte, line)) = byte
           /\ Tail(Flight("store", byte, line)) = line
<1>1. <<byte>> \in Seq(Byte) /\ Len(<<byte>>) = 1 /\ <<byte>>[1] = byte
  OBVIOUS
<1> DEFINE s == <<byte>> \o line
<1>2. /\ s \in Seq(Byte) /\ Len(s) = 1 + Len(line) /\ Len(line) \in Nat
      /\ \A i \in 1..1 + Len(line) : s[i] = IF i <= 1 THEN <<byte>>[i] ELSE line[i - 1]
  BY <1>1, ConcatProperties, LenProperties
<1>3. Flight("store", byte, line) = s
  BY DEF Flight
<1> HIDE DEF s
<1>4. s # <<>>
  <2>1. Len(s) # 0
    BY <1>2
  <2>2. QED BY <2>1, EmptySeq, Zenon
<1>5. Head(s) = byte
  BY <1>1, <1>2
<1>6. /\ Tail(s) \in Seq(Byte) /\ Len(Tail(s)) = Len(s) - 1
      /\ \A i \in 1..Len(s) - 1 : Tail(s)[i] = s[i + 1]
  BY <1>2, <1>4, HeadTailProperties
<1>7. Tail(s) = line
  <2>1. Len(Tail(s)) = Len(line)
    BY <1>2, <1>6
  <2>2. \A i \in 1..Len(line) : Tail(s)[i] = line[i]
    BY <1>2, <1>6
  <2>3. QED BY <1>6, <2>1, <2>2, SeqEqual
<1>8. Flight(where, byte, line) \in Seq(Byte) /\ (where # "store" => Flight(where, byte, line) = line)
  BY <1>2 DEF Flight, s
<1>9. QED BY <1>3, <1>4, <1>5, <1>7, <1>8

\* What the refinement needs to know of a state.
ChannelTypeOK ==
    /\ InFlight = Flight(cpu, a, data) /\ InFlight \in Seq(Byte)
    /\ cpu # "store" => InFlight = data
    /\ Unread = Queue(keyboard_buffer, wr_ptr, rd_ptr) /\ Unread \in Seq(Byte)
    /\ Len(Unread) \in Nat /\ Typed(InFlight) \in Nat
    /\ keyboard_buffer \in Buffers /\ wr_ptr \in Pointers /\ rd_ptr \in Pointers

LEMMA ChannelTypes == IInv => ChannelTypeOK
<1> SUFFICES ASSUME IInv PROVE ChannelTypeOK
  OBVIOUS
<1>1. /\ a \in Byte /\ data \in Seq(Byte)
      /\ keyboard_buffer \in Buffers /\ wr_ptr \in Pointers /\ rd_ptr \in Pointers
  BY DEF IInv, TypeOK, Buffers, Pointers
<1>2. InFlight = Flight(cpu, a, data)
  BY DEF InFlight, Flight
<1>3. InFlight \in Seq(Byte) /\ (cpu # "store" => InFlight = data)
  BY <1>1, <1>2, FlightLemma
<1>4. Unread = Queue(keyboard_buffer, wr_ptr, rd_ptr)
  BY DEF Unread, Queue
<1>5. Unread \in Seq(Byte)
  BY <1>1, <1>4, QueueElements
<1>6. Len(Unread) \in Nat /\ Typed(InFlight) \in Nat
  BY <1>3, <1>5, LenProperties, TypedFinite
<1>7. QED BY <1>1, <1>2, <1>3, <1>4, <1>5, <1>6 DEF ChannelTypeOK

LEMMA ChannelTypesNext == IInv' => ChannelTypeOK'
BY ChannelTypes, PTL

LEMMA InitChannel == Init => ChannelInv /\ Channel!Init
<1> SUFFICES ASSUME Init PROVE ChannelInv /\ Channel!Init
  OBVIOUS
<1>1. IInv
  BY InitIInv
<1>2. InFlight = <<>> /\ Unread = <<>>
  <2>1. InFlight = <<>>
    BY DEF Init, InFlight
  <2>2. Len(Unread) = 0
    BY <1>1, ChannelTypes, QueueElements DEF Init, ChannelTypeOK
  <2>3. QED BY <1>1, <2>1, <2>2, ChannelTypes, EmptySeq DEF ChannelTypeOK
<1>3. Typed(<<>>) = 0
  <2>1. TypedAt(<<>>) = {}
    BY DEF TypedAt
  <2>2. QED BY <2>1, FS_EmptySet DEF Typed, TypedAt
<1>4. Len(Unread) + Typed(InFlight) < BufferSize
  BY <1>2, <1>3, BufferSizeAssumption
<1>5. Whole(break_counter, InFlight)
  BY <1>2 DEF Init, Whole
<1>6. ChannelInv
  BY <1>2, <1>4, <1>5 DEF ChannelInv, Init
<1>7. QED BY <1>2, <1>6 DEF Channel!Init, Init

\* Each step of the two threads is one of the channel, or none.
LEMMA NextChannel ==
    ASSUME NoEarlyKeys, IInv, IInv', ChannelInv, [Next]_vars
    PROVE  ChannelInv' /\ [Channel!Next]_(Channel!vars)
<1> DEFINE Goal == ChannelInv' /\ [Channel!Next]_(Channel!vars)
<1>1. ChannelTypeOK /\ ChannelTypeOK'
  BY ChannelTypes, ChannelTypesNext
<1>2. /\ Whole(break_counter, InFlight)
      /\ stage \in {"start", "output"} => \A i \in DOMAIN InFlight : ~InFlight[i].pause
      /\ stage = "start" => data = <<>> /\ cpu \in {"main", "step"}
      /\ Len(Unread) + Typed(InFlight) < BufferSize
  BY DEF ChannelInv
<1> USE DEF ChannelTypeOK
\* Most steps are none of the channel's.
<1>3. ASSUME UNCHANGED <<data, stage, buffer_vars>>,
             InFlight' = InFlight,
             stage = "start" => cpu' \in {"main", "step"}
      PROVE  Goal
  <2>1. UNCHANGED <<break_counter, keyboard_buffer, wr_ptr, rd_ptr, monitor>>
    BY <1>3 DEF buffer_vars
  <2>2. Unread' = Unread
    BY <2>1 DEF Unread
  <2>3. ChannelInv'
    BY <1>2, <1>3, <2>1, <2>2 DEF ChannelInv
  <2>4. UNCHANGED Channel!vars
    BY <1>3, <2>1, <2>2 DEF Channel!vars
  <2>5. QED BY <2>3, <2>4
<1>4. ASSUME NEW key \in {"key", "pause"}, NEW length \in 1..PauseLength, Press(key, length),
             key = "pause" => length = PauseLength
      PROVE  Goal
  <2> DEFINE code == Code(presses', length, key = "pause")
  <2>1. presses' \in 0..MaxPresses
    BY DEF IInv, TypeOK
  <2>2. /\ code \in Seq(Byte) /\ code # <<>> /\ Whole(0, code)
        /\ Typed(code) = IF key = "pause" THEN 0 ELSE length
        /\ Len(code) = length /\ \A i \in DOMAIN code : code[i].pause = (key = "pause")
    <3>1. code \in Seq(Byte) /\ code # <<>>
      BY <2>1, CodeType
    <3>2. Whole(0, code)
      BY <1>4, <2>1, WholeCode
    <3>3. Typed(code) = IF key = "pause" THEN 0 ELSE length
      BY <2>1, TypedCode
    <3>4. DOMAIN code = 1..length /\ \A i \in DOMAIN code : code[i].pause = (key = "pause")
      BY DEF Code
    <3>5. Len(code) = length
      <4>1. DOMAIN code = 1..Len(code) /\ Len(code) \in Nat /\ length \in Nat
        BY <3>1, LenProperties DEF PauseLength
      <4>2. QED BY <3>4, <4>1
    <3>6. QED BY <3>1, <3>2, <3>3, <3>4, <3>5
  <2>3. data' = data \o code
    BY <1>4 DEF Press
  <2> HIDE DEF code
  <2>4. /\ UNCHANGED <<stage, cpu, a, buffer_vars>>
        /\ stage = "ready" \/ <<stage, key>> \in EarlyKeys
        /\ key = "key" => KeepsUp(length)
    BY <1>4 DEF Press
  <2>5. stage # "start" /\ (stage = "output" => key = "key")
    BY <2>4 DEF NoEarlyKeys
  <2>6. UNCHANGED <<break_counter, Unread, monitor>>
    BY <2>4 DEF buffer_vars, Unread
  <2>7. InFlight' = InFlight \o code
    <3>1. CASE cpu = "store"
      <4>1. InFlight = <<a>> \o data /\ InFlight' = <<a>> \o (data \o code)
        BY <2>3, <2>4, <3>1 DEF InFlight
      <4>2. <<a>> \in Seq(Byte) /\ data \in Seq(Byte)
        BY DEF IInv, TypeOK
      <4>3. QED BY <2>2, <4>1, <4>2, ConcatAssociative
    <3>2. CASE cpu # "store"
      BY <2>3, <2>4, <3>2 DEF InFlight
    <3>3. QED BY <3>1, <3>2
  <2>8. Whole(break_counter, InFlight)'
    BY <1>1, <1>2, <2>2, <2>6, <2>7, WholeConcat
  <2>9. Typed(InFlight') = Typed(InFlight) + Typed(code)
    BY <1>1, <2>2, <2>7, TypedConcat
  <2>10. Len(Unread') + Typed(InFlight') < BufferSize
    <3>1. CASE key = "key"
      <4>1. Len(Unread) + Typed(InFlight) + length < BufferSize
        BY <2>4, <3>1 DEF KeepsUp, Typed
      <4>2. length \in Nat
        BY DEF PauseLength
      <4>3. QED BY <1>1, <2>2, <2>6, <2>9, <3>1, <4>1, <4>2
    <3>2. CASE key = "pause"
      BY <1>1, <1>2, <2>2, <2>6, <2>9, <3>2
    <3>3. QED BY <3>1, <3>2
  <2>11. ASSUME stage = "output" PROVE \A i \in DOMAIN InFlight' : ~InFlight'[i].pause
    <3>1. \A i \in DOMAIN InFlight : ~InFlight[i].pause
      BY <1>2, <2>11
    <3>2. \A i \in DOMAIN code : ~code[i].pause
      BY <2>2, <2>5, <2>11
    <3>3. \A i \in DOMAIN (InFlight \o code) : ~(InFlight \o code)[i].pause
      BY <1>1, <2>2, <3>1, <3>2, KeysConcat
    <3>4. QED BY <2>7, <3>3
  <2>12. ChannelInv'
    BY <2>4, <2>5, <2>8, <2>10, <2>11 DEF ChannelInv
  <2>13. Channel!Press
    <3>1. /\ Len(InFlight') = Len(InFlight) + length
          /\ Len(InFlight) \in Nat /\ length \in Nat \ {0}
      BY <1>1, <2>2, <2>7, ConcatProperties, LenProperties DEF PauseLength
    <3>2. InFlight = SubSeq(InFlight', 1, Len(InFlight') - length)
      <4>1. Len(InFlight') - length = Len(InFlight)
        BY <3>1
      <4>2. CASE InFlight = <<>>
        <5>1. Len(InFlight) < 1
          BY <4>2
        <5>2. SubSeq(InFlight', 1, Len(InFlight)) = <<>>
          BY <3>1, <5>1, SubSeqEmpty
        <5>3. QED BY <4>1, <4>2, <5>2
      <4>3. CASE InFlight # <<>>
        <5>1. Len(InFlight) \in Nat \ {0}
          BY <1>1, <4>3, EmptySeq
        <5>2. 1 \in 1..Len(InFlight) /\ Len(InFlight) \in 1..Len(InFlight)
          BY <5>1
        <5>3. SubSeq(InFlight \o code, 1, Len(InFlight)) = SubSeq(InFlight, 1, Len(InFlight))
          BY <1>1, <2>2, <5>2, SubSeqOfConcat1
        <5>4. SubSeq(InFlight, 1, Len(InFlight)) = InFlight
          BY <1>1, SubSeqFull
        <5>5. QED BY <2>7, <4>1, <5>3, <5>4
      <4>4. QED BY <4>2, <4>3
    <3>3. length \in 1..Len(InFlight')
      BY <3>1
    <3>4. \E n \in 1..Len(InFlight') : InFlight = SubSeq(InFlight', 1, Len(InFlight') - n)
      BY <3>2, <3>3
    <3>5. QED BY <2>4, <2>6, <3>4 DEF Channel!Press
  <2>14. QED BY <2>12, <2>13 DEF Channel!Next
<1>5. CASE PressKey
  <2>1. PICK length \in KeyLengths : Press("key", length)
    BY <1>5 DEF PressKey
  <2>2. length \in 1..PauseLength
    BY KeyLengthsAssumption DEF PauseLength
  <2>3. QED BY <1>4, <2>1, <2>2
<1>6. CASE PressPause
  BY <1>4, <1>6 DEF PressPause, PauseLength
<1>7. CASE UiPresent \/ UiStatus \/ UiRaise
  <2>1. UNCHANGED <<data, stage, cpu, a, buffer_vars>>
    BY <1>7 DEF UiPresent, UiStatus, UiRaise
  <2>2. QED BY <1>2, <1>3, <2>1 DEF InFlight
<1>8. CASE Fetch
  <2>1. UNCHANGED <<data, stage, buffer_vars>> /\ cpu = "main" /\ cpu' = "step"
    BY <1>8 DEF Fetch, keyboard_vars
  <2>2. QED BY <1>3, <2>1 DEF InFlight
<1>9. CASE SetDDR2
  <2>1. /\ UNCHANGED <<data, buffer_vars>> /\ cpu = "step" /\ cpu' = "main"
        /\ stage = "start" /\ stage' = "output"
    BY <1>9 DEF SetDDR2, keyboard_vars
  <2>2. UNCHANGED <<InFlight, Unread, break_counter, monitor>>
    BY <2>1 DEF InFlight, Unread, buffer_vars
  <2>3. ChannelInv'
    BY <1>2, <2>1, <2>2 DEF ChannelInv
  <2>4. UNCHANGED Channel!vars
    BY <2>1, <2>2 DEF Channel!vars
  <2>5. QED BY <2>3, <2>4
<1>10. CASE InitP20
  <2>1. /\ UNCHANGED buffer_vars /\ cpu = "step" /\ cpu' = "main"
        /\ stage = "output" /\ stage' = "init" /\ Write1P20
    BY <1>10 DEF InitP20
  <2>2. UNCHANGED <<Unread, break_counter, monitor>> /\ InFlight = data /\ InFlight' = data'
    BY <2>1 DEF InFlight, Unread, buffer_vars
  <2>3. CASE data' = data
    <3>1. ChannelInv'
      BY <1>2, <2>1, <2>2, <2>3 DEF ChannelInv
    <3>2. UNCHANGED Channel!vars
      BY <2>1, <2>2, <2>3 DEF Channel!vars
    <3>3. QED BY <3>1, <3>2
  <2>4. CASE data' # data
    <3>1. data' = Rest
      BY <2>1, <2>4 DEF Write1P20, Acknowledge, keyboard_vars
    <3>2. data # <<>> /\ data' = Tail(data)
      BY <2>4, <3>1 DEF Rest
    <3>3. ~Head(data).pause
      <4>1. 1 \in DOMAIN data /\ Head(data) = data[1]
        BY <1>1, <2>2, <3>2, EmptySeq, LenProperties
      <4>2. QED BY <1>2, <2>1, <2>2, <4>1
    <3>4. Whole(0, data')
      <4>1. Pending(Head(data)) = 0
        BY <3>3 DEF Pending
      <4>2. QED BY <1>1, <1>2, <2>2, <3>2, <4>1, WholeTail
    <3>5. break_counter = 0
      <4>1. Head(data) = data[1]
        BY <1>1, <2>2, <3>2
      <4>2. QED BY <1>2, <2>2, <3>2, <3>3, <4>1 DEF Whole, Follows
    <3>6. Len(Unread') + Typed(InFlight') < BufferSize
      <4>1. Typed(data) = Typed(Tail(data)) + 1 /\ Typed(Tail(data)) \in Nat
        BY <1>1, <2>2, <3>2, <3>3, TypedTail
      <4>2. QED BY <1>1, <1>2, <2>2, <3>2, <4>1, BufferSizeAssumption
    <3>7. ChannelInv'
      BY <2>1, <2>2, <3>4, <3>5, <3>6 DEF ChannelInv
    <3>8. Channel!Drop
      BY <2>1, <2>2, <3>2 DEF Channel!Drop
    <3>9. QED BY <3>7, <3>8 DEF Channel!Next
  <2>5. QED BY <2>3, <2>4
<1>11. CASE InitBuffer
  <2>1. /\ UNCHANGED <<data, break_counter, monitor>> /\ cpu = "step" /\ cpu' = "main"
        /\ stage = "init" /\ stage' = "ready" /\ wr_ptr' = 0 /\ rd_ptr' = 0
    BY <1>11 DEF InitBuffer, keyboard_vars
  <2>2. UNCHANGED InFlight
    BY <2>1 DEF InFlight
  <2>3. Len(Unread') = 0 /\ Unread' = <<>>
    <3>1. Len(Unread') = 0
      BY <1>1, <2>1, QueueElements
    <3>2. QED BY <1>1, <3>1, EmptySeq
  <2>4. Len(Unread') + Typed(InFlight') < BufferSize
    BY <1>1, <1>2, <2>2, <2>3, BufferSizeAssumption
  <2>5. ChannelInv'
    BY <1>2, <2>1, <2>2, <2>4 DEF ChannelInv
  <2>6. Channel!Start
    BY <2>1, <2>2, <2>3 DEF Channel!Start
  <2>7. QED BY <2>5, <2>6 DEF Channel!Next
<1>12. CASE TakeIrq
  <2>1. /\ UNCHANGED <<data, stage, buffer_vars>> /\ cpu \in {"main", "unhandled"}
        /\ cpu' = "test" /\ interrupts # {}
    BY <1>12 DEF TakeIrq, keyboard_vars, HasInterrupt
  <2>2. stage # "start"
    BY <1>2, <2>1 DEF IInv, IdsOwned, UiWorking, Starting
  <2>3. QED BY <1>3, <2>1, <2>2 DEF InFlight
<1>13. CASE TestP21 \/ LoadPort1 \/ ClearP20
  <2>1. /\ UNCHANGED <<data, stage, buffer_vars>> /\ cpu \in {"test", "load", "clear"}
        /\ cpu' # "store"
    BY <1>13 DEF TestP21, LoadPort1, ClearP20, keyboard_vars
  <2>2. stage # "start"
    BY <1>2, <2>1
  <2>3. QED BY <1>3, <2>1, <2>2 DEF InFlight
<1>14. CASE SetP20
  <2>1. /\ UNCHANGED <<stage, a, buffer_vars>> /\ cpu = "set" /\ cpu' = "store" /\ Write1P20
    BY <1>14 DEF SetP20
  <2>2. stage # "start" /\ ~interrupt_clear /\ data # <<>> /\ a = Head(data)
    BY <1>2, <2>1 DEF IInv, Routine
  <2>3. data' = Tail(data)
    BY <2>1, <2>2 DEF Write1P20, Acknowledge, Rest
  <2>4. InFlight = data /\ InFlight' = <<Head(data)>> \o Tail(data)
    BY <2>1, <2>2, <2>3 DEF InFlight
  <2>5. InFlight' = InFlight
    BY <1>1, <2>2, <2>4, HeadThenTail
  <2>6. UNCHANGED <<Unread, break_counter, monitor>>
    BY <2>1 DEF Unread, buffer_vars
  <2>7. ChannelInv'
    BY <1>2, <2>1, <2>2, <2>5, <2>6 DEF ChannelInv
  <2>8. UNCHANGED Channel!vars
    BY <2>1, <2>5, <2>6 DEF Channel!vars
  <2>9. QED BY <2>7, <2>8
<1>15. CASE StoreByte
  <2>1. /\ UNCHANGED <<data, stage, rd_ptr>> /\ cpu = "store" /\ cpu' = "main"
    BY <1>15 DEF StoreByte, keyboard_vars
  <2>2. /\ InFlight # <<>> /\ Head(InFlight) = a /\ Tail(InFlight) = data /\ InFlight' = data
    <3>1. a \in Byte /\ data \in Seq(Byte)
      BY DEF IInv, TypeOK
    <3>2. QED BY <1>1, <2>1, <3>1, FlightLemma
  <2>3. Whole(Pending(a), InFlight')
    BY <1>1, <1>2, <2>2, WholeTail
  <2>4. Follows(a, break_counter)
    <3>1. Head(InFlight) = InFlight[1]
      BY <1>1, <2>2
    <3>2. QED BY <1>2, <2>2, <3>1 DEF Whole
  <2>5. stage # "start"
    BY <1>2, <2>1
  <2>6. /\ Typed(InFlight') \in Nat
        /\ a.pause => Typed(InFlight) = Typed(InFlight')
        /\ ~a.pause => Typed(InFlight) = Typed(InFlight') + 1
    BY <1>1, <2>2, TypedTail
  <2>7. ASSUME stage \in {"start", "output"} PROVE \A i \in DOMAIN InFlight' : ~InFlight'[i].pause
    <3>1. \A i \in DOMAIN InFlight : ~InFlight[i].pause
      BY <1>2, <2>7
    <3>2. \A i \in DOMAIN Tail(InFlight) : ~Tail(InFlight)[i].pause
      BY <1>1, <2>2, <3>1, KeysTail
    <3>3. QED BY <2>2, <3>2
  <2>8. break_counter \in 0..PauseLength /\ a.pause \in BOOLEAN /\ a.pos \in 0..PauseLength
    BY DEF IInv, TypeOK, Byte
  <2>9. CASE a.pause
    <3> DEFINE count == IF break_counter = 0 /\ IsE1(a) THEN PauseLength ELSE break_counter
    <3>1. count # 0 /\ count - 1 = Pending(a) /\ (count = 1 <=> a.pos = PauseLength)
      BY <2>4, <2>8, <2>9 DEF Follows, Pending, IsE1, PauseLength
    <3>2. /\ break_counter' = count - 1 /\ monitor' = IF count = 1 THEN monitor + 1 ELSE monitor
          /\ UNCHANGED <<keyboard_buffer, wr_ptr>>
      BY <1>15, <3>1 DEF StoreByte
    <3> HIDE DEF count
    <3>3. UNCHANGED Unread
      BY <2>1, <3>2 DEF Unread
    <3>4. ChannelInv'
      BY <1>2, <2>1, <2>3, <2>5, <2>6, <2>7, <2>9, <3>1, <3>2, <3>3 DEF ChannelInv
    <3>5. Channel!ReceivePause
      BY <2>1, <2>2, <2>9, <3>1, <3>2, <3>3
      DEF Channel!ReceivePause, Channel!PauseLength, PauseLength
    <3>6. QED BY <3>4, <3>5 DEF Channel!Next
  <2>10. CASE ~a.pause
    <3>1. break_counter = 0 /\ ~IsE1(a) /\ Pending(a) = 0
      BY <2>4, <2>10 DEF Follows, Pending, IsE1
    <3>2. /\ keyboard_buffer' = [keyboard_buffer EXCEPT ![wr_ptr] = a]
          /\ wr_ptr' = (wr_ptr + 1) % BufferSize
          /\ UNCHANGED <<break_counter, monitor>>
      BY <1>15, <3>1 DEF StoreByte
    <3>3. Len(Unread) + 1 < BufferSize
      BY <1>1, <1>2, <2>6, <2>10, BufferSizeAssumption
    <3>4. Unread' = Append(Unread, a)
      <4>1. a \in Byte
        BY DEF IInv, TypeOK
      <4>2. QED BY <1>1, <2>1, <3>2, <3>3, <4>1, QueueStore, ZenonT(40)
    <3>5. Len(Unread') = Len(Unread) + 1
      <4>1. a \in Byte
        BY DEF IInv, TypeOK
      <4>2. QED BY <1>1, <3>4, <4>1, AppendProperties
    <3>6. Len(Unread') + Typed(InFlight') < BufferSize
      BY <1>1, <1>2, <2>6, <2>10, <3>5
    <3>7. ChannelInv'
      BY <2>1, <2>3, <2>5, <2>7, <3>1, <3>2, <3>6 DEF ChannelInv
    <3>8. Channel!ReceiveKey
      BY <2>1, <2>2, <2>10, <3>2, <3>4 DEF Channel!ReceiveKey
    <3>9. QED BY <3>7, <3>8 DEF Channel!Next
  <2>11. QED BY <2>8, <2>9, <2>10
<1>16. CASE Chain
  <2>1. UNCHANGED <<data, stage, buffer_vars>> /\ cpu = "chain" /\ cpu' \in {"main", "unhandled"}
    BY <1>16 DEF Chain
  <2>2. stage # "start"
    BY <1>2, <2>1
  <2>3. QED BY <1>3, <2>1, <2>2 DEF InFlight
<1>17. CASE GetChar
  <2>1. /\ UNCHANGED <<data, stage, cpu, a, break_counter, keyboard_buffer, wr_ptr, monitor>>
        /\ rd_ptr # wr_ptr /\ rd_ptr' = (rd_ptr + 1) % BufferSize /\ stage = "ready"
    BY <1>17 DEF GetChar, keyboard_vars
  <2>2. UNCHANGED InFlight
    BY <2>1 DEF InFlight
  <2>3. Unread # <<>> /\ Unread' = Tail(Unread)
    BY <1>1, <2>1, QueueRead
  <2>4. Len(Unread') = Len(Unread) - 1
    BY <1>1, <2>3, HeadTailProperties
  <2>5. ChannelInv'
    <3>1. Len(Unread') + Typed(InFlight') < BufferSize
      BY <1>1, <1>2, <2>2, <2>4, BufferSizeAssumption
    <3>2. QED BY <1>2, <2>1, <2>2, <3>1 DEF ChannelInv
  <2>6. Channel!Read
    BY <2>1, <2>2, <2>3 DEF Channel!Read
  <2>7. QED BY <2>5, <2>6 DEF Channel!Next
<1>18. CASE OtherRaise
  <2>1. UNCHANGED <<data, stage, cpu, a, buffer_vars>>
    BY <1>18 DEF OtherRaise
  <2>2. QED BY <1>2, <1>3, <2>1 DEF InFlight
<1>19. CASE UNCHANGED vars
  <2>1. UNCHANGED <<data, stage, cpu, a, buffer_vars>>
    BY <1>19 DEF vars, keyboard_vars
  <2>2. QED BY <1>2, <1>3, <2>1 DEF InFlight
<1>20. QED
  BY <1>5, <1>6, <1>7, <1>8, <1>9, <1>10, <1>11, <1>12, <1>13, <1>14, <1>15, <1>16, <1>17,
     <1>18, <1>19
  DEF Next, UiThread, Firmware

\* The controller and its interrupt routine are the channel that KeyChannel describes,
\* for any number of keys, any code lengths and any buffer: every byte arrives once and
\* in order, and every Pause invokes the monitor once and leaves nothing in the buffer.
\* A key typed before start has made P20 an output would be read twice, and a Pause
\* before it has set P20 would lose its first byte: hence the assumption.
THEOREM ChannelImplemented ==
    ASSUME NoEarlyKeys
    PROVE  Spec => ImplementsChannel
<1>1. IInv /\ IInv' /\ ChannelInv /\ [Next]_vars => ChannelInv' /\ [Channel!Next]_(Channel!vars)
  BY NextChannel
<1>2. QED
  BY <1>1, InitChannel, Invariance, PTL DEF Spec, ImplementsChannel, Channel!Spec
=============================================================================
