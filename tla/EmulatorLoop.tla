---------------------------- MODULE EmulatorLoop ----------------------------
(***************************************************************************)
(* The emulator's two threads: HD6301Thing::emulator_loop(), which runs    *)
(* the CPU in slices of about one millisecond, and the UI, which pauses,   *)
(* steps, resets and resumes it.  They share cpu_running_ and              *)
(* emulator_running_, which are atomic, and the CPU itself, behind         *)
(* emulator_mutex_.                                                        *)
(*                                                                         *)
(* The CPU is Cpu6301::tick(): before each instruction it tests the        *)
(* interrupts and then the breakpoint, it ticks the devices once for each  *)
(* cycle of the instruction, and executes it.  Of the firmware the model   *)
(* keeps the path from start through timer_init to a program, the timer's  *)
(* interrupt routine, and an interrupt routine of another device.          *)
(***************************************************************************)
EXTENDS Integers, CpuTimer

CONSTANTS
    TicksPerMs,     \* ticks_per_ms_
    MaxCycles,      \* the cycles of the longest instruction
    EntryCycles,    \* the cycles of entering an interrupt routine
    Breakpoints,    \* the addresses at which the UI sets a breakpoint
    MaxRequests,    \* bounds the interrupts of the other device
    QuietResets     \* whether a reset always meets a quiet timer, see Quiet

NoBreakpoint == "none"
Start == {"start", "write_TCSR", "cli"}
TimerIrq == {"read_TCSR", "read_TCH", "write_TCH", "inc_ticks"}
Addresses == Start \cup {"program", "program_end"} \cup TimerIrq \cup {"irq", "rti"}

ASSUME CyclesAssumption ==
    /\ TicksPerMs \in Nat \ {0}
    /\ MaxCycles \in Nat \ {0} /\ MaxCycles < CounterMod
    /\ EntryCycles \in Nat
    /\ Breakpoints \subseteq Addresses
    /\ MaxRequests \in Nat
    /\ QuietResets \in BOOLEAN

VARIABLES
    timer,              \* Timer
    cpu,                \* pc, sr.I and the pc on the stack
    breakpoint,         \* Cpu6301::breakpoint_
    request,            \* the other device's interrupt is outstanding
    requests,           \* how many there have been
    cpu_running,
    emulator_running,
    loop,               \* where emulator_loop() is
    extra_ticks,
    cycles_run,         \* of the slice that is running
    ui,                 \* where the UI thread is
    seen,               \* the UI's copy of cpu_running, from the start of its frame
    last,               \* history: the cycles of the slice before, at first those it should have
    stale,              \* history: the slices begun since the CPU was stopped
    owed                \* history: the timer's interrupts that timer_ticks has not counted,
                        \* -1 when it has counted more than there were

cpu_vars == <<timer, cpu, request, owed>>
loop_vars == <<loop, extra_ticks, cycles_run, last, stale>>
ui_vars == <<ui, seen, breakpoint, emulator_running>>
vars == <<cpu_vars, requests, cpu_running, loop_vars, ui_vars>>

Init ==
    /\ timer = InitialTimer
    /\ cpu = [pc |-> "start", I |-> FALSE, return |-> "start"]
    /\ breakpoint = NoBreakpoint
    /\ request = FALSE /\ requests = 0
    /\ cpu_running = FALSE /\ emulator_running = TRUE
    /\ loop = "while" /\ extra_ticks = 0 /\ cycles_run = 0
    /\ ui = "frame" /\ seen = FALSE
    /\ last = TicksPerMs /\ stale = 0 /\ owed = 0

One(condition) == IF condition THEN 1 ELSE 0

-------------------------------------------------------------------------------
(* Cpu6301::tick(): one round of its loop.  What is on the stack below the return *)
(* address is of no interest, and "start" stands for an empty stack.             *)

\* The CPU after the tests for interrupts.  Entering one masks the others.
Interrupted == (request \/ timer.held) /\ ~cpu.I
Entered ==
    IF Interrupted
      THEN [pc |-> IF request THEN "irq" ELSE "read_TCSR", I |-> TRUE, return |-> cpu.pc]
      ELSE cpu
CyclesToEnter == IF Interrupted THEN EntryCycles ELSE 0

NextAddress ==
    [a \in Addresses \ {"rti"} |->
        CASE a = "start" -> "write_TCSR"
          [] a = "write_TCSR" -> "cli"
          [] a = "cli" -> "program"
          [] a = "program" -> "program_end"
          [] a = "program_end" -> "program"
          [] a = "read_TCSR" -> "read_TCH"
          [] a = "read_TCH" -> "write_TCH"
          [] a = "write_TCH" -> "inc_ticks"
          [] a \in {"inc_ticks", "irq"} -> "rti"]

\* What the instruction at an address does to the CPU and to the timer.
Executed(at) ==
    CASE at.pc = "rti" -> [pc |-> at.return, I |-> FALSE, return |-> "start"]
      [] at.pc = "cli" -> [at EXCEPT !.pc = NextAddress[at.pc], !.I = FALSE]
      [] OTHER -> [at EXCEPT !.pc = NextAddress[at.pc]]
TimerAfter(address, ticked) ==
    CASE address = "write_TCSR" -> WriteStatus(ticked, TRUE)
      [] address = "read_TCSR" -> ReadStatus(ticked)
      [] address = "read_TCH" -> ReadCounter(ticked)
      [] address = "write_TCH" -> WriteCounter(ticked, Reload)
      [] OTHER -> ticked

\* All cycles of an instruction are ticked before it is executed.
Instruction(at, cycles) ==
    /\ cpu' = Executed(at)
    /\ timer' = TimerAfter(at.pc, Ticked(timer, cycles))
    /\ request' = (request /\ at.pc # "irq")
    /\ owed' = IF at.pc = "inc_ticks" /\ owed < 0
                 THEN owed
                 ELSE owed + One(Fires(timer, cycles)) - One(at.pc = "inc_ticks")

\* Cpu6301::reset() sets the program counter and nothing else.  On the way from there
\* timer_init clears timer_ticks: a count under way is forgotten.
Restart(at) ==
    /\ cpu' = [at EXCEPT !.pc = "start", !.return = "start"]
    /\ owed' = One(timer.held)
    /\ UNCHANGED <<timer, request>>

\* The timer does not overflow on the way from start to the end of timer_init, which
\* takes two instructions and those of the interrupt routines in between.
Quiet ==
    \/ ~timer.enabled
    \/ /\ ~timer.held /\ ~timer.overflow
       /\ timer.counter + (2 + 2 * MaxRequests) * MaxCycles < CounterMod
MayRestart == QuietResets => Quiet

\* A program may run into an illegal instruction, which ticks no device.
Round(cycles) ==
    \/ Instruction(Entered, cycles)
    \/ Entered.pc = "program" /\ cycles = 1 /\ MayRestart /\ Restart(Entered)

-------------------------------------------------------------------------------
(* The emulator thread. *)

Budget == TicksPerMs - extra_ticks

\* Slips: a loop that does not look at emulator_running_, one that does not look at
\* cpu_running_, and a slice whose surplus is forgotten.
WhileTrue ==
    /\ loop = "while"
    /\ loop' = "if"
    /\ UNCHANGED <<cpu_vars, requests, cpu_running, extra_ticks, cycles_run, last, stale, ui_vars>>
AlwaysRunning ==
    /\ loop = "if"
    /\ loop' = "lock"
    /\ UNCHANGED <<cpu_vars, requests, cpu_running, extra_ticks, cycles_run, last, stale, ui_vars>>
EndSliceForgets(run) ==
    /\ extra_ticks' = 0
    /\ last' = run
    /\ cycles_run' = 0
    /\ loop' = "while"

While ==
    /\ loop = "while"
    /\ loop' = IF emulator_running THEN "if" ELSE "done"
    /\ UNCHANGED <<cpu_vars, requests, cpu_running, extra_ticks, cycles_run, last, stale, ui_vars>>

\* The test of cpu_running_, without the mutex.
TestRunning ==
    /\ loop = "if"
    /\ loop' = IF cpu_running THEN "lock" ELSE "while"
    /\ UNCHANGED <<cpu_vars, requests, cpu_running, extra_ticks, cycles_run, last, stale, ui_vars>>

\* The UI holds the mutex only within its steps.
Lock ==
    /\ loop = "lock"
    /\ loop' = "slice"
    /\ cycles_run' = 0
    /\ stale' = IF cpu_running THEN 0 ELSE stale + 1
    /\ UNCHANGED <<cpu_vars, requests, cpu_running, extra_ticks, last, ui_vars>>

AtBreakpoint == Entered.pc = breakpoint

RunRound ==
    /\ loop = "slice" /\ cycles_run < Budget
    /\ ~AtBreakpoint
    /\ \E cycles \in 1..MaxCycles :
          /\ Round(cycles)
          /\ cycles_run' = cycles_run + CyclesToEnter + cycles
    /\ UNCHANGED <<requests, cpu_running, loop, extra_ticks, last, stale, ui_vars>>

\* The slice is over: what it ran beyond a millisecond is taken off the next one.
EndSlice(run) ==
    /\ extra_ticks' = run - TicksPerMs
    /\ last' = run
    /\ cycles_run' = 0
    /\ loop' = "while"

SliceDone ==
    /\ loop = "slice" /\ cycles_run >= Budget
    /\ EndSlice(cycles_run)
    /\ UNCHANGED <<cpu_vars, requests, cpu_running, stale, ui_vars>>

\* An interrupt may have been entered before the breakpoint is looked at.
HitBreakpoint ==
    /\ loop = "slice" /\ cycles_run < Budget
    /\ AtBreakpoint
    /\ cpu' = Entered
    /\ EndSlice(cycles_run + CyclesToEnter)
    /\ cpu_running' = FALSE
    /\ UNCHANGED <<timer, request, owed, requests, stale, ui_vars>>

Emulator == While \/ TestRunning \/ Lock \/ RunRound \/ SliceDone \/ HitBreakpoint

-------------------------------------------------------------------------------
(* The UI thread: emulator.cc's main loop.  The mutex is free outside a slice. *)

MutexFree == loop # "slice"

Frame ==
    /\ ui = "frame"
    /\ seen' = cpu_running
    /\ UNCHANGED <<cpu_vars, requests, cpu_running, loop_vars, ui, breakpoint, emulator_running>>

Pause ==
    /\ ui = "frame" /\ seen
    /\ cpu_running' = FALSE /\ seen' = FALSE
    /\ UNCHANGED <<cpu_vars, requests, loop_vars, ui, breakpoint, emulator_running>>

\* Cpu6301::tick(1, true): one round.
Tick1 == MutexFree /\ \E cycles \in 1..MaxCycles : Round(cycles)

Step ==
    /\ ui = "frame" /\ ~seen
    /\ Tick1
    /\ UNCHANGED <<requests, cpu_running, loop_vars, ui_vars>>

\* The Run button first moves past a breakpoint, then lets the CPU go.
RunTick ==
    /\ ui = "frame" /\ ~seen
    /\ Tick1
    /\ ui' = "run"
    /\ UNCHANGED <<requests, cpu_running, loop_vars, seen, breakpoint, emulator_running>>
Run ==
    /\ ui = "run"
    /\ ui' = "frame"
    /\ cpu_running' = TRUE /\ seen' = TRUE
    /\ stale' = 0
    /\ UNCHANGED <<cpu_vars, requests, loop, extra_ticks, cycles_run, last,
                   breakpoint, emulator_running>>

SetBreakpoint ==
    /\ ui = "frame" /\ ~seen /\ MutexFree
    /\ breakpoint' \in Breakpoints \cup {NoBreakpoint}
    /\ UNCHANGED <<cpu_vars, requests, cpu_running, loop_vars, ui, seen, emulator_running>>

Reset ==
    /\ ui = "frame" /\ ~seen /\ MutexFree /\ MayRestart
    /\ Restart(cpu)
    /\ UNCHANGED <<requests, cpu_running, loop_vars, ui_vars>>

\* ~HD6301Thing.
Quit ==
    /\ ui = "frame"
    /\ emulator_running' = FALSE /\ ui' = "join"
    /\ UNCHANGED <<cpu_vars, requests, cpu_running, loop_vars, seen, breakpoint>>
Join ==
    /\ ui = "join" /\ loop = "done"
    /\ ui' = "gone"
    /\ UNCHANGED <<cpu_vars, requests, cpu_running, loop_vars, seen, breakpoint, emulator_running>>

UI == Frame \/ Pause \/ Step \/ RunTick \/ Run \/ SetBreakpoint \/ Reset \/ Quit \/ Join

\* Another device asks for an interrupt, from a thread of its own.
OtherRequest ==
    /\ ~request /\ requests < MaxRequests
    /\ request' = TRUE /\ requests' = requests + 1
    /\ UNCHANGED <<timer, cpu, owed, cpu_running, loop_vars, ui_vars>>

Next == Emulator \/ UI \/ OtherRequest

\* The emulator thread only ever waits for the mutex, and the destructor for that thread.
Spec == Init /\ [][Next]_vars /\ WF_vars(Emulator) /\ WF_vars(Join)

-------------------------------------------------------------------------------

Overshoot == EntryCycles + MaxCycles - 1

\* Every variable has its type.  In particular extra_ticks_ stays bounded although each
\* slice computes it anew without looking at the one before: no slice is asked
\* for more than two milliseconds (hd6301_thing.cc:232-233).
TypeOK ==
    /\ timer \in Timer
    /\ cpu \in [pc : Addresses, I : BOOLEAN, return : Addresses]
    /\ breakpoint \in Breakpoints \cup {NoBreakpoint}
    /\ request \in BOOLEAN /\ requests \in 0..MaxRequests
    /\ cpu_running \in BOOLEAN /\ emulator_running \in BOOLEAN
    /\ loop \in {"while", "if", "lock", "slice", "done"}
    /\ extra_ticks \in -TicksPerMs..TicksPerMs + Overshoot
    /\ cycles_run \in 0..2 * TicksPerMs + Overshoot
    /\ ui \in {"frame", "run", "join", "gone"} /\ seen \in BOOLEAN
    /\ last \in 0..2 * TicksPerMs + Overshoot
    /\ stale \in Nat /\ owed \in Int

\* The emulated clock keeps pace: any two consecutive slices together run
\* two milliseconds' worth of cycles and at most the overshoot of one instruction more,
\* whatever the overshoots before; less only if a breakpoint cuts the second short.
Paced ==
    [][ /\ SliceDone \/ HitBreakpoint => last + last' <= 2 * TicksPerMs + Overshoot
        /\ SliceDone => last + last' >= 2 * TicksPerMs ]_vars

\* After the CPU was stopped, by the UI or at a breakpoint, at most one more slice runs:
\* the one whose test of cpu_running_ had already been made (hd6301_thing.cc:230-231).
OneSliceAtMost == stale <= 1

\* Every interrupt of the timer is counted in timer_ticks exactly once: one that is
\* outstanding is still to be counted, and so is one that timer_irq has just
\* cleared (timer.inc:25-32), however slices, steps and other interrupts fall in between.
CountedOnce ==
    owed = One(timer.held) + One(cpu.pc \in {"write_TCH", "inc_ticks"})

\* An interrupt of the timer is served unless the CPU is stopped: neither the mask, nor
\* the other device, nor the way the flag is cleared keeps it outstanding for ever.
TimerServed ==
    (timer.held /\ cpu_running /\ emulator_running)
        ~> (~timer.held \/ ~cpu_running \/ ~emulator_running)

\* The destructor returns: the emulator thread ends whatever it was doing.
ShutdownJoins == ui = "join" ~> ui = "gone"

\* timer_irq's comment (timer.inc:25): reading the register and the counter
\* clears the overflow, and with it the interrupt.
ReadClears ==
    [][cpu.pc = "read_TCH" /\ cpu'.pc = "write_TCH" => ~timer'.held]_vars
=============================================================================
