------------------------------ MODULE CpuTimer ------------------------------
(***************************************************************************)
(* The timer of the HD6301 as emulator/timer.cc implements it: a counter   *)
(* that sets an overflow flag when it wraps, and an interrupt that is      *)
(* given back when the counter is read after a status register in which    *)
(* the flag was set.  The timer is a value, and its operations are         *)
(* operators on it; who calls them, and when, is EmulatorLoop's.           *)
(*                                                                         *)
(* All software accesses the counter with 16-bit instructions, whose two   *)
(* byte accesses have no tick between them (AddressSpace::get16, set16):   *)
(* the latches of the low and the high byte are back in their initial      *)
(* state at the end of each, and what they carry over is the value itself. *)
(* The timer is the only device on its interrupt line, so the line is      *)
(* active exactly while the timer holds an id.                             *)
(***************************************************************************)
EXTENDS Naturals

CONSTANTS
    CounterMod,     \* 2^16
    Reload          \* what timer_irq writes to the counter, 2^16 - 50000

ASSUME CounterAssumption == CounterMod \in Nat /\ Reload \in 0..CounterMod - 1

Timer == [counter : 0..CounterMod - 1,
          overflow : BOOLEAN,       \* kTimerOverflow in status_register_
          enabled : BOOLEAN,        \* kTimerInterruptEnable in status_register_
          armed : BOOLEAN,          \* counter_read_clears_interrupt_
          held : BOOLEAN]           \* interrupt_id_ # 0

InitialTimer == [counter |-> 0, overflow |-> FALSE, enabled |-> FALSE,
                 armed |-> FALSE, held |-> FALSE]

Overflows(timer, cycles) == timer.counter + cycles >= CounterMod

\* Whether the timer calls set_interrupt() within the next so many calls of tick().
\* An instruction is shorter than a round of the counter.
Fires(timer, cycles) == Overflows(timer, cycles) /\ timer.enabled /\ ~timer.held

Ticked(timer, cycles) ==
    [timer EXCEPT !.counter = (@ + cycles) % CounterMod,
                  !.overflow = @ \/ Overflows(timer, cycles),
                  !.held = @ \/ Fires(timer, cycles)]

\* A slip: the status is read without a look at the flag.
ReadStatusOnly(timer) == timer

ReadStatus(timer) == [timer EXCEPT !.armed = @ \/ timer.overflow]

\* The overflow flag is among the bits that are written.  timer_init writes TCSR_ETOI.
WriteStatus(timer, enable) == [timer EXCEPT !.overflow = FALSE, !.enabled = enable]

\* A slip: the counter is read, the flag cleared, and the interrupt forgotten.
ReadCounterOnly(timer) ==
    IF timer.armed THEN [timer EXCEPT !.armed = FALSE, !.overflow = FALSE] ELSE timer

ReadCounter(timer) ==
    IF timer.armed
      THEN [timer EXCEPT !.armed = FALSE, !.overflow = FALSE, !.held = FALSE]
      ELSE timer

WriteCounter(timer, value) == [timer EXCEPT !.counter = value]
=============================================================================
