--------------------------- MODULE PS2Keyboard6301 ---------------------------
(***************************************************************************)
(* The keyboard on the ports of the 6301 board: the emulated controller    *)
(* (emulator/ps2_keyboard_6301.cc) and the firmware that serves it: start  *)
(* in asm/monitor.s as far as it concerns the keyboard, and                *)
(* keyboard_6301_irq in asm/include/keyboard_6301.inc, called from irq.    *)
(* The CPU comes out of reset with interrupts enabled, so a key pressed    *)
(* while start runs is served by a routine that is not set up yet.         *)
(*                                                                         *)
(* Two threads act.  The UI thread queues the bytes of a key and, when no  *)
(* interrupt is outstanding, presents the first one: all under mutex_, but *)
(* the CPU reads port 1, pin P21 and the interrupt line without it, so     *)
(* each of those writes is a step.  The emulator thread runs the CPU, an   *)
(* instruction of the interrupt routine per step; its write to port 2      *)
(* calls back into the controller and waits for mutex_ there.              *)
(*                                                                         *)
(* A byte is a record: the number of the key press, its position in the    *)
(* key's code, and whether the key is Pause, whose code has eight bytes    *)
(* with $E1 in positions 1 and 4.                                          *)
(***************************************************************************)
EXTENDS IrqLine, Sequences

CONSTANTS
    KeyLengths,     \* the lengths of the codes of ordinary keys
    EarlyKeys,      \* which keys are pressed at which stage of start
    BufferSize,     \* bytes in keyboard_buffer: 256
    MaxPresses      \* bound: how many keys are pressed

ASSUME KeyLengthsAssumption == KeyLengths \subseteq 1..8
\* Pause before the stack is set up would abandon start: not modelled.
ASSUME EarlyKeysAssumption ==
    EarlyKeys \subseteq ({"start", "output", "init"} \X {"key", "pause"})
                        \ {<<"start", "pause">>}
ASSUME BufferSizeAssumption == BufferSize \in Nat \ {0}
ASSUME MaxPressesAssumption == MaxPresses \in Nat

VARIABLES
    data,               \* data_, the bytes not yet acknowledged
    interrupt_id,       \* interrupt_id_
    interrupt_clear,    \* interrupt_clear_, the level of P20 last seen
    status_high,        \* P21: low while a byte waits, low at power-on
    port1,              \* the input register of port 1
    ui,                 \* the UI thread: idle, or what it does next under mutex_
    presses,            \* number of keys pressed
    stage,              \* how far start has got: P20 is an output, P20 is set,
                        \* the buffer is initialised
    cpu,                \* main program, an instruction of start, or the routine
    a,                  \* accumulator A in the interrupt routine
    break_counter,
    keyboard_buffer, wr_ptr, rd_ptr,
    monitor,            \* how often break invoked the monitor
    other_id            \* the id another device holds on the line

keyboard_vars == <<data, interrupt_id, interrupt_clear, status_high, port1, interrupts>>
ui_vars == <<ui, presses>>
buffer_vars == <<break_counter, keyboard_buffer, wr_ptr, rd_ptr, monitor>>
vars == <<keyboard_vars, ui_vars, stage, cpu, a, buffer_vars, other_id>>

PauseLength == 8

Byte == [event : 0..MaxPresses, pos : 0..PauseLength, pause : BOOLEAN]
NoByte == [event |-> 0, pos |-> 0, pause |-> FALSE]

Code(event, length, pause) ==
    [i \in 1..length |-> [event |-> event, pos |-> i, pause |-> pause]]

IsE1(byte) == byte.pause /\ byte.pos \in {1, 4}

\* The bytes between rd_ptr and wr_ptr, both of which wrap at 8 bits.
Unread == [i \in 1..((wr_ptr + BufferSize - rd_ptr) % BufferSize) |->
              keyboard_buffer[(rd_ptr + i - 1) % BufferSize]]

\* The bytes the firmware has not yet dealt with.
InFlight == IF cpu = "store" THEN <<a>> \o data ELSE data

TypeOK ==
    /\ interrupts \subseteq IrqIds
    /\ data \in Seq(Byte)
    /\ interrupt_id \in IrqIds \cup {NoIrq}
    /\ interrupt_clear \in BOOLEAN /\ status_high \in BOOLEAN
    /\ port1 \in Byte
    /\ ui \in {"idle", "present", "status", "raise"}
    /\ presses \in 0..MaxPresses
    /\ stage \in {"start", "output", "init", "ready"}
    /\ cpu \in {"main", "step", "test", "load", "clear", "set", "store", "chain", "unhandled"}
    /\ a \in Byte
    /\ break_counter \in 0..PauseLength
    /\ keyboard_buffer \in [0..BufferSize - 1 -> Byte]
    /\ wr_ptr \in 0..BufferSize - 1 /\ rd_ptr \in 0..BufferSize - 1
    /\ monitor \in Nat
    /\ other_id \in IrqIds \cup {NoIrq}

\* The emulator is created with the CPU stopped, interrupts enabled (a cleared
\* status register) and port 2 reading 0 and all inputs.
Init ==
    /\ interrupts = {}
    /\ data = <<>> /\ interrupt_id = NoIrq
    /\ interrupt_clear = FALSE /\ status_high = FALSE
    /\ port1 = NoByte
    /\ ui = "idle" /\ presses = 0
    /\ stage = "start" /\ cpu = "main" /\ a = NoByte
    /\ break_counter = 0
    /\ keyboard_buffer = [i \in 0..BufferSize - 1 |-> NoByte]
    /\ wr_ptr = 0 /\ rd_ptr = 0
    /\ monitor = 0
    /\ other_id = NoIrq

-------------------------------------------------------------------------------
(* The UI thread: handle_keyboard_event(). *)

MutexFree == ui = "idle"

\* The assumption on the user: keyboard_6301_irq does not look whether the buffer
\* is full, so nobody types further ahead of the program than it holds.
KeepsUp(n) ==
    Len(Unread) + Cardinality({i \in DOMAIN InFlight : ~InFlight[i].pause}) + n < BufferSize

\* Takes the mutex and queues the code.  If an interrupt is outstanding, the
\* queue will be served by its acknowledgement.
Press(key, length) ==
    /\ MutexFree
    /\ presses < MaxPresses
    /\ stage = "ready" \/ <<stage, key>> \in EarlyKeys
    /\ key = "key" => KeepsUp(length)
    /\ presses' = presses + 1
    /\ data' = data \o Code(presses', length, key = "pause")
    /\ ui' = IF interrupt_id = NoIrq THEN "present" ELSE "idle"
    /\ UNCHANGED <<interrupt_id, interrupt_clear, status_high, port1, interrupts,
                   stage, cpu, a, buffer_vars, other_id>>

PressKey == \E length \in KeyLengths : Press("key", length)
PressPause == Press("pause", PauseLength)

\* A slip: the interrupt is raised before P21 is pulled low.
UiPresentRaising ==
    /\ ui = "present"
    /\ port1' = Head(data)
    /\ \E fresh \in FreshIds({"keyboard"}) :
          /\ interrupt_id' = fresh["keyboard"]
          /\ interrupts' = interrupts \cup {fresh["keyboard"]}
    /\ ui' = "status"
    /\ UNCHANGED <<data, interrupt_clear, status_high, presses,
                   stage, cpu, a, buffer_vars, other_id>>

UiPresent ==
    /\ ui = "present"
    /\ port1' = Head(data)
    /\ ui' = "status"
    /\ UNCHANGED <<data, interrupt_id, interrupt_clear, status_high, interrupts,
                   presses, stage, cpu, a, buffer_vars, other_id>>

UiStatus ==
    /\ ui = "status"
    /\ status_high' = FALSE
    /\ ui' = "raise"
    /\ UNCHANGED <<data, interrupt_id, interrupt_clear, port1, interrupts,
                   presses, stage, cpu, a, buffer_vars, other_id>>

\* A slip: the id is not kept.
UiRaiseForgets ==
    /\ ui = "raise"
    /\ \E fresh \in FreshIds({"keyboard"}) : interrupts' = interrupts \cup {fresh["keyboard"]}
    /\ ui' = "idle"
    /\ UNCHANGED <<data, interrupt_id, interrupt_clear, status_high, port1,
                   presses, stage, cpu, a, buffer_vars, other_id>>

\* Raises the interrupt and releases the mutex.
UiRaise ==
    /\ ui = "raise"
    /\ \E fresh \in FreshIds({"keyboard"}) :
          /\ interrupt_id' = fresh["keyboard"]
          /\ interrupts' = interrupts \cup {fresh["keyboard"]}
    /\ ui' = "idle"
    /\ UNCHANGED <<data, interrupt_clear, status_high, port1, presses,
                   stage, cpu, a, buffer_vars, other_id>>

-------------------------------------------------------------------------------
(* The callback on a write to port 2, under mutex_. *)

Rest == IF data = <<>> THEN <<>> ELSE Tail(data)

\* A slip: the next byte waits for the next key.
AcknowledgeOnly ==
    /\ MutexFree
    /\ interrupt_clear' = TRUE
    /\ data' = Rest
    /\ status_high' = TRUE
    /\ interrupt_id' = NoIrq
    /\ interrupts' = interrupts \ {interrupt_id}
    /\ UNCHANGED port1

\* A slip: P21 and the line announce the next byte, port 1 keeps the last one.
AcknowledgeStale ==
    /\ MutexFree
    /\ interrupt_clear' = TRUE
    /\ data' = Rest
    /\ status_high' = (Rest = <<>>)
    /\ IF Rest # <<>>
         THEN \E fresh \in FreshIds({"keyboard"}) :
                /\ interrupt_id' = fresh["keyboard"]
                /\ interrupts' = (interrupts \ {interrupt_id}) \cup {fresh["keyboard"]}
         ELSE /\ interrupt_id' = NoIrq
              /\ interrupts' = interrupts \ {interrupt_id}
    /\ UNCHANGED port1

\* P20 goes from 0 to 1: the interrupt is cleared, the byte is popped, and the
\* next one, if any, is presented.
Acknowledge ==
    /\ MutexFree
    /\ interrupt_clear' = TRUE
    /\ data' = Rest
    /\ status_high' = (Rest = <<>>)
    /\ IF Rest # <<>>
         THEN /\ port1' = Head(Rest)
              /\ \E fresh \in FreshIds({"keyboard"}) :
                    /\ interrupt_id' = fresh["keyboard"]
                    /\ interrupts' = (interrupts \ {interrupt_id}) \cup {fresh["keyboard"]}
         ELSE /\ interrupt_id' = NoIrq
              /\ interrupts' = interrupts \ {interrupt_id}
              /\ UNCHANGED port1

\* What the callback sees of a pin that is not an output is 0.  A write of 1 to
\* P20 is an edge only after a 0 was seen.
Write1P20 ==
    CASE stage = "start" -> /\ MutexFree
                            /\ interrupt_clear' = FALSE
                            /\ UNCHANGED <<data, interrupt_id, status_high, port1, interrupts>>
      [] stage # "start" /\ interrupt_clear -> MutexFree /\ UNCHANGED keyboard_vars
      [] stage # "start" /\ ~interrupt_clear -> Acknowledge

-------------------------------------------------------------------------------
(* The CPU: the instructions of start that concern the keyboard. *)

\* Between two instructions the CPU finds no interrupt and executes the next.
Fetch ==
    /\ cpu = "main" /\ stage # "ready"
    /\ ~HasInterrupt
    /\ cpu' = "step"
    /\ UNCHANGED <<keyboard_vars, ui_vars, stage, a, buffer_vars, other_id>>

\* keyboard_6301_init makes P20 an output.  This is not a write to port 2.
SetDDR2 ==
    /\ cpu = "step" /\ stage = "start"
    /\ stage' = "output" /\ cpu' = "main"
    /\ UNCHANGED <<keyboard_vars, ui_vars, a, buffer_vars, other_id>>

\* keyboard_6301_init sets P20, for the controller an acknowledgement of a byte
\* that came since the CPU looked at the line.
InitP20 ==
    /\ cpu = "step" /\ stage = "output"
    /\ Write1P20
    /\ stage' = "init" /\ cpu' = "main"
    /\ UNCHANGED <<ui_vars, a, buffer_vars, other_id>>

\* keyboard_init: start goes on to the monitor or to a program.
InitBuffer ==
    /\ cpu = "step" /\ stage = "init"
    /\ wr_ptr' = 0 /\ rd_ptr' = 0
    /\ stage' = "ready" /\ cpu' = "main"
    /\ UNCHANGED <<keyboard_vars, ui_vars, a, break_counter, keyboard_buffer,
                   monitor, other_id>>

-------------------------------------------------------------------------------
(* The interrupt routine and the program. *)

\* The CPU tests the line between two instructions; interrupts are masked from
\* here to rti.
TakeIrq ==
    /\ cpu \in {"main", "unhandled"}
    /\ HasInterrupt
    /\ cpu' = "test"
    /\ UNCHANGED <<keyboard_vars, ui_vars, stage, a, buffer_vars, other_id>>

TestP21 ==
    /\ cpu = "test"
    /\ cpu' = IF status_high THEN "chain" ELSE "load"
    /\ UNCHANGED <<keyboard_vars, ui_vars, stage, a, buffer_vars, other_id>>

LoadPort1 ==
    /\ cpu = "load"
    /\ a' = port1
    /\ cpu' = "clear"
    /\ UNCHANGED <<keyboard_vars, ui_vars, stage, buffer_vars, other_id>>

ClearP20 ==
    /\ cpu = "clear"
    /\ MutexFree
    /\ interrupt_clear' = FALSE
    /\ cpu' = "set"
    /\ UNCHANGED <<data, interrupt_id, status_high, port1, interrupts,
                   ui_vars, stage, a, buffer_vars, other_id>>

SetP20 ==
    /\ cpu = "set"
    /\ Write1P20
    /\ cpu' = "store"
    /\ UNCHANGED <<ui_vars, stage, a, buffer_vars, other_id>>

\* A slip: every $E1 starts the count again.
StoreByteRestarting ==
    /\ cpu = "store"
    /\ LET count == IF IsE1(a) THEN PauseLength ELSE break_counter
       IN  IF count = 0
             THEN /\ keyboard_buffer' = [keyboard_buffer EXCEPT ![wr_ptr] = a]
                  /\ wr_ptr' = (wr_ptr + 1) % BufferSize
                  /\ UNCHANGED <<break_counter, monitor>>
             ELSE /\ break_counter' = count - 1
                  /\ monitor' = IF count = 1 THEN monitor + 1 ELSE monitor
                  /\ UNCHANGED <<keyboard_buffer, wr_ptr>>
    /\ cpu' = "main"
    /\ UNCHANGED <<keyboard_vars, ui_vars, stage, a, rd_ptr, other_id>>

\* The byte belongs to a break sequence that is being counted or begins with
\* it, or goes to the buffer.  The last byte of the sequence invokes the monitor.
StoreByte ==
    /\ cpu = "store"
    /\ LET count == IF break_counter = 0 /\ IsE1(a) THEN PauseLength ELSE break_counter
       IN  IF count = 0
             THEN /\ keyboard_buffer' = [keyboard_buffer EXCEPT ![wr_ptr] = a]
                  /\ wr_ptr' = (wr_ptr + 1) % BufferSize
                  /\ UNCHANGED <<break_counter, monitor>>
             ELSE /\ break_counter' = count - 1
                  /\ monitor' = IF count = 1 THEN monitor + 1 ELSE monitor
                  /\ UNCHANGED <<keyboard_buffer, wr_ptr>>
    /\ cpu' = "main"
    /\ UNCHANGED <<keyboard_vars, ui_vars, stage, a, rd_ptr, other_id>>

\* Not a keyboard interrupt: io_irq acknowledges the other device, or nobody
\* knows the interrupt and the monitor is invoked, with interrupts enabled again.
Chain ==
    /\ cpu = "chain"
    /\ IF other_id # NoIrq
         THEN /\ interrupts' = interrupts \ {other_id}
              /\ other_id' = NoIrq
              /\ cpu' = "main"
         ELSE cpu' = "unhandled" /\ UNCHANGED <<interrupts, other_id>>
    /\ UNCHANGED <<data, interrupt_id, interrupt_clear, status_high, port1,
                   ui_vars, stage, a, buffer_vars>>

\* keyboard_getchar takes a byte from the buffer.
GetChar ==
    /\ cpu = "main" /\ stage = "ready"
    /\ rd_ptr # wr_ptr
    /\ rd_ptr' = (rd_ptr + 1) % BufferSize
    /\ UNCHANGED <<keyboard_vars, ui_vars, stage, cpu, a, break_counter, keyboard_buffer,
                   wr_ptr, monitor, other_id>>

\* Another device on the line wants service.  Those that interrupt are started
\* after keyboard_6301_init.
OtherRaise ==
    /\ stage \in {"init", "ready"}
    /\ other_id = NoIrq
    /\ \E fresh \in FreshIds({"other"}) :
          /\ other_id' = fresh["other"]
          /\ interrupts' = interrupts \cup {fresh["other"]}
    /\ UNCHANGED <<data, interrupt_id, interrupt_clear, status_high, port1,
                   ui_vars, stage, cpu, a, buffer_vars>>

-------------------------------------------------------------------------------
UiThread == UiPresent \/ UiStatus \/ UiRaise

Firmware ==
    \/ Fetch \/ SetDDR2 \/ InitP20 \/ InitBuffer \/ TakeIrq \/ TestP21 \/ LoadPort1 \/ ClearP20 \/ SetP20
    \/ StoreByte \/ Chain

Next == PressKey \/ PressPause \/ UiThread \/ Firmware \/ GetChar \/ OtherRaise

\* The UI thread leaves its critical section, and the CPU runs.  The user, the program and the other device owe nothing.
Fairness == WF_vars(UiThread) /\ WF_vars(Firmware)

Spec == Init /\ [][Next]_vars /\ Fairness

-------------------------------------------------------------------------------
(* What the two threads must agree on. *)

\* Once keyboard_6301_init is done and the UI thread is outside its critical section, a
\* waiting byte is announced in all three places, the line, P21 and port 1, and
\* nothing is announced when no byte waits.
Presented ==
    stage \in {"init", "ready"} /\ MutexFree =>
        /\ data # <<>> <=> interrupt_id \in interrupts
        /\ data # <<>> <=> ~status_high
        /\ data # <<>> => port1 = Head(data)

\* Every id on the line is one that the controller or the other device knows.
IdsOwned ==
    /\ interrupts = {interrupt_id, other_id} \ {NoIrq}
    /\ interrupt_id = other_id => other_id = NoIrq

\* "Invoke the monitor on an unexpected unhandled interrupt" (monitor.s) never
\* happens: whenever the line is active the CPU finds whose interrupt it is,
\* although it looks at P21 while the UI thread is between its writes.
NoSpuriousMonitor == cpu # "unhandled"

\* The controller and its interrupt routine together are the channel.
Channel == INSTANCE KeyChannel WITH
    line <- InFlight, buffer <- Unread, ready <- (stage = "ready"), monitor <- monitor

\* Every byte pressed arrives once and in order, and every Pause invokes the
\* monitor once, whatever the interleaving of threads and other interrupts.
ImplementsChannel == Channel!Spec

\* No byte waits for ever: one that the UI thread queued behind an outstanding
\* interrupt is presented by the acknowledgement of its predecessor.
EveryByteArrives ==
    \A event \in 1..MaxPresses, pos \in 1..PauseLength :
        (\E i \in DOMAIN InFlight : InFlight[i].event = event /\ InFlight[i].pos = pos)
            ~> (\A i \in DOMAIN InFlight : InFlight[i].event # event \/ InFlight[i].pos # pos)

\* "Toggle P20 to clear Keyboard interrupt" (keyboard_6301.inc:36): when the
\* routine has written 0 and 1 to P20, the interrupt it serves is off the line.
ToggleClearsInterrupt ==
    [][cpu = "set" /\ cpu' = "store" => interrupt_id \notin interrupts']_vars
=============================================================================
