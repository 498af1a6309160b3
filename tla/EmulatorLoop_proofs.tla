------------------------ MODULE EmulatorLoop_proofs ------------------------
(***************************************************************************)
(* Proofs about the emulator's loop, for every length of a slice, of the   *)
(* instructions and of the entry of an interrupt: extra_ticks_ stays       *)
(* bounded, consecutive slices keep pace with the clock, and a stopped CPU *)
(* runs one more slice at most.                                            *)
(***************************************************************************)
EXTENDS EmulatorLoop, TLAPS

\* extra_ticks_ is the surplus of the slice before, and a slice that is running has not
\* exceeded its budget by more than its last round can.
PaceInv ==
    /\ last = extra_ticks + TicksPerMs
    /\ loop = "slice" => cycles_run = 0 \/ cycles_run <= Budget + Overshoot

\* The loop finds the CPU running before it goes for the mutex, and a running CPU
\* has no stale slice.
StaleInv ==
    /\ cpu_running \/ loop = "lock" => stale = 0
    /\ OneSliceAtMost

IInv == TypeOK /\ PaceInv /\ StaleInv

-------------------------------------------------------------------------------
\* A round of tick() leaves the CPU and the timer well-formed.
LEMMA RemainderRange ==
    ASSUME NEW a \in Nat, NEW b \in Nat \ {0}
    PROVE  a % b \in 0..b - 1
OBVIOUS

LEMMA TickedType ==
    ASSUME NEW t \in Timer, NEW cycles \in 1..MaxCycles
    PROVE  Ticked(t, cycles) \in Timer
<1>1. CounterMod \in Nat \ {0} /\ t.counter + cycles \in Nat
  BY CounterAssumption, CyclesAssumption DEF Timer
<1>2. (t.counter + cycles) % CounterMod \in 0..CounterMod - 1
  BY <1>1, RemainderRange
<1>3. Overflows(t, cycles) \in BOOLEAN /\ Fires(t, cycles) \in BOOLEAN
  BY DEF Overflows, Fires, Timer
<1>4. QED
  BY <1>2, <1>3 DEF Ticked, Timer

LEMMA TimerAfterType ==
    ASSUME NEW t \in Timer, NEW address \in Addresses
    PROVE  TimerAfter(address, t) \in Timer
BY CounterAssumption DEF TimerAfter, Timer, WriteStatus, ReadStatus, ReadCounter, WriteCounter

LEMMA ExecutedType ==
    ASSUME NEW at \in [pc : Addresses, I : BOOLEAN, return : Addresses]
    PROVE  Executed(at) \in [pc : Addresses, I : BOOLEAN, return : Addresses]
<1>1. \A a \in Addresses \ {"rti"} : NextAddress[a] \in Addresses
  BY DEF NextAddress, Addresses, Start, TimerIrq
<1>2. "start" \in Addresses
  BY DEF Addresses, Start
<1>3. QED
  BY <1>1, <1>2 DEF Executed

LEMMA EnteredType ==
    ASSUME TypeOK
    PROVE  /\ Entered \in [pc : Addresses, I : BOOLEAN, return : Addresses]
           /\ CyclesToEnter \in 0..EntryCycles
BY CyclesAssumption DEF TypeOK, Entered, CyclesToEnter, Addresses, Start, TimerIrq

LEMMA RoundType ==
    ASSUME TypeOK, NEW cycles \in 1..MaxCycles, Round(cycles)
    PROVE  /\ timer' \in Timer
           /\ cpu' \in [pc : Addresses, I : BOOLEAN, return : Addresses]
           /\ request' \in BOOLEAN
           /\ owed' \in Int
<1>1. CASE Instruction(Entered, cycles)
  <2>1. Entered.pc \in Addresses
    BY EnteredType
  <2>2. timer' \in Timer
    BY <1>1, <2>1, TickedType, TimerAfterType DEF Instruction, TypeOK
  <2>3. cpu' \in [pc : Addresses, I : BOOLEAN, return : Addresses]
    BY <1>1, EnteredType, ExecutedType DEF Instruction
  <2>4. owed' \in Int
    BY <1>1 DEF Instruction, TypeOK, One
  <2>5. QED
    BY <1>1, <2>2, <2>3, <2>4 DEF Instruction, TypeOK
<1>2. CASE Restart(Entered)
  <2>1. "start" \in Addresses
    BY DEF Addresses, Start
  <2>2. cpu' = [Entered EXCEPT !.pc = "start", !.return = "start"]
    BY <1>2 DEF Restart
  <2>3. cpu' \in [pc : Addresses, I : BOOLEAN, return : Addresses]
    BY <2>1, <2>2, EnteredType
  <2>4. timer' = timer /\ request' = request /\ owed' \in Int
    BY <1>2 DEF Restart, One
  <2>5. QED
    BY <2>3, <2>4 DEF TypeOK
<1>3. QED
  BY <1>1, <1>2 DEF Round

-------------------------------------------------------------------------------
LEMMA InitInv == Init => IInv
<1> SUFFICES ASSUME Init PROVE IInv
  OBVIOUS
<1>1. InitialTimer \in Timer
  BY CounterAssumption, CyclesAssumption DEF InitialTimer, Timer
<1>2. "start" \in Addresses
  BY DEF Addresses, Start
<1>3. TypeOK
  <2>1. cpu \in [pc : Addresses, I : BOOLEAN, return : Addresses]
    BY <1>2 DEF Init
  <2>2. TicksPerMs \in Nat \ {0} /\ Overshoot \in Nat /\ MaxRequests \in Nat
    BY CyclesAssumption DEF Overshoot
  <2>3. /\ extra_ticks \in -TicksPerMs..TicksPerMs + Overshoot
        /\ cycles_run \in 0..2 * TicksPerMs + Overshoot
        /\ last \in 0..2 * TicksPerMs + Overshoot
        /\ requests \in 0..MaxRequests
        /\ stale \in Nat /\ owed \in Int
    BY <2>2 DEF Init
  <2>4. timer \in Timer
    BY <1>1 DEF Init
  <2>5. QED
    BY <2>1, <2>3, <2>4 DEF Init, TypeOK
<1>4. PaceInv /\ StaleInv
  BY CyclesAssumption DEF Init, PaceInv, StaleInv, OneSliceAtMost
<1>5. QED
  BY <1>3, <1>4 DEF IInv

\* The end of a slice: what it ran is within the bounds of Paced.
LEMMA EndSliceSound ==
    ASSUME IInv, NEW run \in Nat, loop = "slice",
           run = 0 \/ run <= Budget + Overshoot,
           EndSlice(run)
    PROVE  /\ extra_ticks' \in -TicksPerMs..TicksPerMs + Overshoot
           /\ cycles_run' \in 0..2 * TicksPerMs + Overshoot
           /\ last' \in 0..2 * TicksPerMs + Overshoot
           /\ loop' = "while"
           /\ PaceInv'
           /\ last + last' <= 2 * TicksPerMs + Overshoot
           /\ run >= Budget => last + last' >= 2 * TicksPerMs
<1>1. /\ TicksPerMs \in Nat /\ Overshoot \in Nat
      /\ extra_ticks \in Int /\ -TicksPerMs <= extra_ticks /\ extra_ticks <= TicksPerMs + Overshoot
      /\ last = extra_ticks + TicksPerMs
      /\ Budget = TicksPerMs - extra_ticks
  BY CyclesAssumption DEF IInv, TypeOK, PaceInv, Overshoot, Budget
<1>2. /\ extra_ticks' = run - TicksPerMs /\ last' = run /\ cycles_run' = 0 /\ loop' = "while"
  BY DEF EndSlice
<1>3. run <= 2 * TicksPerMs + Overshoot
  BY <1>1
<1>4. QED
  BY <1>1, <1>2, <1>3 DEF PaceInv

\* The variables of the loop when a step leaves them alone.
LEMMA LoopUnchanged ==
    ASSUME IInv, UNCHANGED loop_vars
    PROVE  PaceInv'
BY DEF IInv, PaceInv, loop_vars, Budget

LEMMA StepInv == IInv /\ [Next]_vars => IInv'
<1> SUFFICES ASSUME IInv, [Next]_vars PROVE IInv'
  OBVIOUS
<1> USE DEF IInv
<1>1. CASE While
  <2>1. TypeOK'
    BY <1>1 DEF While, TypeOK, cpu_vars, ui_vars
  <2>2. PaceInv'
    BY <1>1 DEF While, PaceInv
  <2>3. StaleInv'
    BY <1>1 DEF While, StaleInv, OneSliceAtMost
  <2>4. QED BY <2>1, <2>2, <2>3
<1>2. CASE TestRunning
  <2>1. TypeOK'
    BY <1>2 DEF TestRunning, TypeOK, cpu_vars, ui_vars
  <2>2. PaceInv'
    BY <1>2 DEF TestRunning, PaceInv
  <2>3. StaleInv'
    BY <1>2 DEF TestRunning, StaleInv, OneSliceAtMost
  <2>4. QED BY <2>1, <2>2, <2>3
<1>3. CASE Lock
  <2>1. stale = 0 /\ stale' \in {0, 1} /\ (cpu_running => stale' = 0) /\ loop' = "slice"
    BY <1>3 DEF Lock, StaleInv
  <2>2. TypeOK'
    BY <1>3, <2>1, CyclesAssumption DEF Lock, TypeOK, Overshoot, cpu_vars, ui_vars
  <2>3. PaceInv'
    BY <1>3 DEF Lock, PaceInv
  <2>4. StaleInv'
    BY <1>3, <2>1 DEF Lock, StaleInv, OneSliceAtMost
  <2>5. QED BY <2>2, <2>3, <2>4
<1>4. CASE RunRound
  <2>1. PICK cycles \in 1..MaxCycles :
          Round(cycles) /\ cycles_run' = cycles_run + CyclesToEnter + cycles
    BY <1>4 DEF RunRound
  <2>2. CyclesToEnter \in 0..EntryCycles
    BY EnteredType
  <2>3. cycles_run' \in Nat /\ cycles_run' <= Budget + Overshoot
    BY <1>4, <2>1, <2>2, CyclesAssumption DEF RunRound, TypeOK, Budget, Overshoot
  <2>4. cycles_run' \in 0..2 * TicksPerMs + Overshoot
    BY <2>3, CyclesAssumption DEF TypeOK, Budget, Overshoot
  <2>5. TypeOK'
    BY <1>4, <2>1, <2>4, RoundType DEF RunRound, TypeOK, ui_vars
  <2>6. PaceInv'
    BY <1>4, <2>3 DEF RunRound, PaceInv, Budget
  <2>7. StaleInv'
    BY <1>4 DEF RunRound, StaleInv, OneSliceAtMost
  <2>8. QED BY <2>5, <2>6, <2>7
<1>5. CASE SliceDone
  <2>1. cycles_run \in Nat /\ (cycles_run = 0 \/ cycles_run <= Budget + Overshoot)
    BY <1>5 DEF SliceDone, TypeOK, PaceInv
  <2>2. EndSlice(cycles_run) /\ loop = "slice"
    BY <1>5 DEF SliceDone
  <2>3. PaceInv' /\ loop' = "while"
    BY <2>1, <2>2, EndSliceSound
  <2>4. TypeOK'
    BY <1>5, <2>1, <2>2, EndSliceSound DEF SliceDone, TypeOK, cpu_vars, ui_vars
  <2>5. StaleInv'
    BY <1>5, <2>3 DEF SliceDone, StaleInv, OneSliceAtMost
  <2>6. QED BY <2>3, <2>4, <2>5
<1>6. CASE HitBreakpoint
  <2>1. CyclesToEnter \in 0..EntryCycles
    BY EnteredType
  <2>2. /\ cycles_run + CyclesToEnter \in Nat
        /\ cycles_run + CyclesToEnter <= Budget + Overshoot
    BY <1>6, <2>1, CyclesAssumption DEF HitBreakpoint, TypeOK, Budget, Overshoot
  <2>3. EndSlice(cycles_run + CyclesToEnter) /\ loop = "slice"
    BY <1>6 DEF HitBreakpoint
  <2>4. PaceInv' /\ loop' = "while"
    BY <2>2, <2>3, EndSliceSound
  <2>5. TypeOK'
    BY <1>6, <2>2, <2>3, EndSliceSound, EnteredType DEF HitBreakpoint, TypeOK, ui_vars
  <2>6. StaleInv'
    BY <1>6, <2>4 DEF HitBreakpoint, StaleInv, OneSliceAtMost
  <2>7. QED BY <2>4, <2>5, <2>6
<1>7. CASE Step \/ RunTick
  <2>1. PICK cycles \in 1..MaxCycles : Round(cycles)
    BY <1>7 DEF Step, RunTick, Tick1
  <2>2. TypeOK'
    BY <1>7, <2>1, RoundType DEF Step, RunTick, TypeOK, loop_vars, ui_vars
  <2>3. PaceInv'
    BY <1>7, LoopUnchanged DEF Step, RunTick
  <2>4. StaleInv'
    BY <1>7 DEF Step, RunTick, StaleInv, OneSliceAtMost, loop_vars
  <2>5. QED BY <2>2, <2>3, <2>4
<1>8. CASE Run
  <2>1. TypeOK'
    BY <1>8 DEF Run, TypeOK, cpu_vars
  <2>2. PaceInv'
    BY <1>8 DEF Run, PaceInv, Budget
  <2>3. StaleInv'
    BY <1>8 DEF Run, StaleInv, OneSliceAtMost
  <2>4. QED BY <2>1, <2>2, <2>3
<1>9. CASE Reset
  <2>1. cpu' \in [pc : Addresses, I : BOOLEAN, return : Addresses]
    BY <1>9 DEF Reset, Restart, TypeOK, Addresses, Start
  <2>2. owed' \in Int /\ timer' = timer /\ request' = request
    BY <1>9 DEF Reset, Restart, One
  <2>3. TypeOK'
    BY <1>9, <2>1, <2>2 DEF Reset, TypeOK, loop_vars, ui_vars
  <2>4. PaceInv'
    BY <1>9, LoopUnchanged DEF Reset
  <2>5. StaleInv'
    BY <1>9 DEF Reset, StaleInv, OneSliceAtMost, loop_vars
  <2>6. QED BY <2>3, <2>4, <2>5
<1>10. CASE Frame \/ Pause \/ SetBreakpoint \/ Quit \/ Join \/ OtherRequest
  <2>1. TypeOK'
    <3>1. CASE Frame \/ Pause \/ Quit \/ Join
      BY <3>1 DEF Frame, Pause, Quit, Join, TypeOK, cpu_vars, loop_vars
    <3>2. CASE SetBreakpoint
      BY <3>2 DEF SetBreakpoint, TypeOK, cpu_vars, loop_vars
    <3>3. CASE OtherRequest
      <4>1. requests' \in 0..MaxRequests
        BY <3>3, CyclesAssumption DEF OtherRequest, TypeOK
      <4>2. QED
        BY <3>3, <4>1 DEF OtherRequest, TypeOK, loop_vars, ui_vars
    <3>4. QED
      BY <1>10, <3>1, <3>2, <3>3
  <2>2. UNCHANGED loop_vars
    BY <1>10 DEF Frame, Pause, SetBreakpoint, Quit, Join, OtherRequest
  <2>3. PaceInv'
    BY <2>2, LoopUnchanged
  <2>4. cpu_running' => cpu_running
    BY <1>10 DEF Frame, Pause, SetBreakpoint, Quit, Join, OtherRequest
  <2>5. StaleInv'
    BY <2>2, <2>4 DEF StaleInv, OneSliceAtMost, loop_vars
  <2>6. QED BY <2>1, <2>3, <2>5
<1>11. CASE UNCHANGED vars
  <2>1. UNCHANGED loop_vars
    BY <1>11 DEF vars
  <2>2. PaceInv'
    BY <2>1, LoopUnchanged
  <2>3. TypeOK' /\ StaleInv'
    BY <1>11 DEF vars, cpu_vars, loop_vars, ui_vars, TypeOK, StaleInv, OneSliceAtMost
  <2>4. QED BY <2>2, <2>3
<1>12. QED
  BY <1>1, <1>2, <1>3, <1>4, <1>5, <1>6, <1>7, <1>8, <1>9, <1>10, <1>11 DEF Next, Emulator, UI

LEMMA Invariance == Spec => []IInv
BY InitInv, StepInv, PTL DEF Spec

-------------------------------------------------------------------------------
\* Every variable keeps its type: the surplus of a slice stays within a millisecond and
\* one instruction, although emulator_loop computes it without regard to the one before.
THEOREM TypeCorrectness == Spec => []TypeOK
<1>1. IInv => TypeOK
  BY DEF IInv
<1>2. QED BY <1>1, Invariance, PTL

\* A stopped CPU runs at most the one slice whose test had been made before.
THEOREM StopsAfterOneSlice == Spec => []OneSliceAtMost
<1>1. IInv => OneSliceAtMost
  BY DEF IInv, StaleInv
<1>2. QED BY <1>1, Invariance, PTL

\* Two consecutive slices run two milliseconds' worth of cycles and no more than the
\* overshoot of one instruction on top.
THEOREM KeepsPace == Spec => Paced
<1>1. ASSUME IInv, [Next]_vars
      PROVE  [ /\ SliceDone \/ HitBreakpoint => last + last' <= 2 * TicksPerMs + Overshoot
               /\ SliceDone => last + last' >= 2 * TicksPerMs ]_vars
  <2>1. ASSUME SliceDone
        PROVE  last + last' <= 2 * TicksPerMs + Overshoot /\ last + last' >= 2 * TicksPerMs
    <3>1. /\ cycles_run \in Nat /\ (cycles_run = 0 \/ cycles_run <= Budget + Overshoot)
          /\ cycles_run >= Budget
      BY <1>1, <2>1 DEF SliceDone, IInv, TypeOK, PaceInv
    <3>2. EndSlice(cycles_run) /\ loop = "slice"
      BY <2>1 DEF SliceDone
    <3>3. QED
      BY <1>1, <3>1, <3>2, EndSliceSound
  <2>2. ASSUME HitBreakpoint
        PROVE  last + last' <= 2 * TicksPerMs + Overshoot
    <3>1. CyclesToEnter \in 0..EntryCycles
      BY <1>1, EnteredType DEF IInv
    <3>2. /\ cycles_run + CyclesToEnter \in Nat
          /\ cycles_run + CyclesToEnter <= Budget + Overshoot
      BY <1>1, <2>2, <3>1, CyclesAssumption DEF HitBreakpoint, IInv, TypeOK, Budget, Overshoot
    <3>3. EndSlice(cycles_run + CyclesToEnter) /\ loop = "slice"
      BY <2>2 DEF HitBreakpoint
    <3>4. QED
      BY <1>1, <3>2, <3>3, EndSliceSound
  <2>3. QED
    BY <2>1, <2>2
<1>2. QED
  BY <1>1, Invariance, PTL DEF Spec, Paced

-------------------------------------------------------------------------------
(* That timer_ticks counts every interrupt once needs more: why the interrupt is      *)
(* always outstanding with its flag set.  The parts of the invariant are operators    *)
(* on the state of the CPU, since a round of tick() first enters an interrupt and     *)
(* then executes an instruction, and each half preserves them.                        *)

Boot == {"start", "write_TCSR"}
Routines == TimerIrq \cup {"irq", "rti"}

\* Where the CPU is once the routine of the other device has returned.
Home(c) == IF c.pc \in {"irq", "rti"} THEN c.return ELSE c.pc

\* The instructions until the write to TCSR, when n requests have been made: a request
\* costs the two of its routine.
Distance(c, pending, n) ==
    One(Home(c) = "start") + 1 + One(c.pc = "rti") + 2 * (MaxRequests - n + One(pending))

\* On the way to timer_init the timer, if it was ever enabled, cannot overflow.
BootSafe(c, t, pending, n) ==
    Home(c) \in Boot /\ t.enabled =>
        ~t.held /\ ~t.overflow /\ t.counter + Distance(c, pending, n) * MaxCycles < CounterMod

\* Interrupt routines run masked and return to where no routine is.
Masked(c, pending) ==
    /\ c.pc \in Routines => c.I
    /\ c.return \notin Routines
    /\ c.pc \in TimerIrq => c.return \notin Boot
    /\ c.pc = "irq" => pending

\* The interrupt is outstanding only with its flag set, and until timer_irq clears it.
Flagged(c, t) ==
    /\ t.held => t.overflow /\ t.enabled
    /\ c.pc \in {"read_TCSR", "read_TCH"} => t.held
    /\ c.pc = "read_TCH" => t.armed

Counted(c, t, n) == n = One(t.held) + One(c.pc \in {"write_TCH", "inc_ticks"})

CountParts(c, t, pending, n) == BootSafe(c, t, pending, n) /\ Masked(c, pending) /\ Flagged(c, t)
CountInv ==
    /\ CountParts(cpu, timer, request, requests) /\ Counted(cpu, timer, owed)
    /\ request => requests > 0

Cpu == [pc : Addresses, I : BOOLEAN, return : Addresses]

\* Entering an interrupt.
LEMMA EnterKeeps ==
    ASSUME TypeOK, CountInv
    PROVE  CountParts(Entered, timer, request, requests) /\ Counted(Entered, timer, owed)
<1> USE DEF CountInv, CountParts
<1>1. CASE ~Interrupted
  BY <1>1 DEF Entered
<1>2. CASE Interrupted
  <2>1. ~cpu.I /\ cpu.pc \notin Routines /\ (request \/ timer.held)
    BY <1>2 DEF Interrupted, Masked
  <2>2. Home(cpu) = cpu.pc /\ cpu.pc \notin {"write_TCH", "inc_ticks"} /\ cpu.pc # "rti"
    BY <2>1 DEF Home, Routines, TimerIrq
  <2>3. CASE request
    <3>1. Entered.pc = "irq" /\ Entered.I /\ Entered.return = cpu.pc
      BY <1>2, <2>3 DEF Entered
    <3>2. Home(Entered) = Home(cpu)
      BY <2>2, <3>1 DEF Home
    <3>3. Distance(Entered, request, requests) = Distance(cpu, request, requests)
      BY <2>2, <3>1, <3>2 DEF Distance
    <3>4. BootSafe(Entered, timer, request, requests)
      BY <3>2, <3>3 DEF BootSafe
    <3>5. Masked(Entered, request)
      BY <2>1, <2>3, <3>1 DEF Masked, Routines, TimerIrq
    <3>6. Flagged(Entered, timer) /\ Counted(Entered, timer, owed)
      BY <2>2, <3>1 DEF Flagged, Counted
    <3>7. QED BY <3>4, <3>5, <3>6
  <2>4. CASE ~request
    <3>1. Entered.pc = "read_TCSR" /\ Entered.I /\ Entered.return = cpu.pc /\ timer.held
      BY <1>2, <2>1, <2>4 DEF Entered
    <3>2. cpu.pc \notin Boot
      BY <2>2, <3>1 DEF BootSafe, Flagged
    <3>3. BootSafe(Entered, timer, request, requests)
      BY <3>1 DEF BootSafe, Home, Boot
    <3>4. Masked(Entered, request)
      BY <2>1, <3>1, <3>2 DEF Masked, Routines, TimerIrq
    <3>5. Flagged(Entered, timer) /\ Counted(Entered, timer, owed)
      BY <2>2, <3>1 DEF Flagged, Counted, One
    <3>6. QED BY <3>3, <3>4, <3>5
  <2>5. QED BY <2>3, <2>4
<1>3. QED BY <1>1, <1>2

\* What the ticks of an instruction do to the timer.
LEMMA TickedParts ==
    ASSUME NEW t \in Timer, NEW cycles \in 1..MaxCycles
    PROVE  /\ Ticked(t, cycles).enabled = t.enabled
           /\ Ticked(t, cycles).armed = t.armed
           /\ Ticked(t, cycles).overflow = (t.overflow \/ Overflows(t, cycles))
           /\ Ticked(t, cycles).held = (t.held \/ Fires(t, cycles))
           /\ ~Overflows(t, cycles) => Ticked(t, cycles).counter = t.counter + cycles
           /\ One(Ticked(t, cycles).held) = One(t.held) + One(Fires(t, cycles))
<1>1. t.counter \in Nat /\ cycles \in Nat /\ CounterMod \in Nat
  BY CounterAssumption, CyclesAssumption DEF Timer
<1>2. ~Overflows(t, cycles) => (t.counter + cycles) % CounterMod = t.counter + cycles
  BY <1>1 DEF Overflows
<1>3. /\ Ticked(t, cycles).enabled = t.enabled
      /\ Ticked(t, cycles).armed = t.armed
      /\ Ticked(t, cycles).overflow = (t.overflow \/ Overflows(t, cycles))
      /\ Ticked(t, cycles).held = (t.held \/ Fires(t, cycles))
      /\ Ticked(t, cycles).counter = (t.counter + cycles) % CounterMod
  BY DEF Ticked, Timer
<1>4. Fires(t, cycles) => ~t.held
  BY DEF Fires
<1>5. One(Ticked(t, cycles).held) = One(t.held) + One(Fires(t, cycles))
  <2>1. t.held \in BOOLEAN /\ Fires(t, cycles) \in BOOLEAN
    BY DEF Timer, Fires
  <2>2. CASE Fires(t, cycles)
    <3>1. Ticked(t, cycles).held = TRUE /\ t.held = FALSE /\ Fires(t, cycles) = TRUE
      BY <1>3, <1>4, <2>1, <2>2
    <3>2. One(TRUE) = 1 /\ One(FALSE) = 0
      BY DEF One
    <3>3. One(Ticked(t, cycles).held) = 1 /\ One(t.held) = 0 /\ One(Fires(t, cycles)) = 1
      BY <3>1, <3>2, Zenon
    <3>4. QED BY <3>3
  <2>3. CASE ~Fires(t, cycles)
    BY <1>3, <2>1, <2>3 DEF One
  <2>4. QED BY <2>1, <2>2, <2>3
<1>6. QED
  BY <1>2, <1>3, <1>5

\* What executing an instruction does to the registers.
LEMMA ExecutedParts ==
    ASSUME NEW at \in Cpu
    PROVE  /\ at.pc = "rti" => Executed(at).pc = at.return /\ Executed(at).return = "start"
           /\ at.pc # "rti" => Executed(at).pc = NextAddress[at.pc] /\ Executed(at).return = at.return
           /\ at.pc \notin {"rti", "cli"} => (Executed(at).I <=> at.I)
BY DEF Executed, Cpu

LEMMA NextAddresses ==
    /\ NextAddress["start"] = "write_TCSR"
    /\ NextAddress["write_TCSR"] = "cli"
    /\ NextAddress["cli"] = "program"
    /\ NextAddress["program"] = "program_end"
    /\ NextAddress["program_end"] = "program"
    /\ NextAddress["read_TCSR"] = "read_TCH"
    /\ NextAddress["read_TCH"] = "write_TCH"
    /\ NextAddress["write_TCH"] = "inc_ticks"
    /\ NextAddress["inc_ticks"] = "rti"
    /\ NextAddress["irq"] = "rti"
BY DEF NextAddress, Addresses, Start, TimerIrq

\* Executing an instruction at a state of the CPU that may just have entered a routine.
LEMMA InstructionKeeps ==
    ASSUME TypeOK, CyclesAssumption, NEW at \in Cpu, NEW cycles \in 1..MaxCycles,
           CountParts(at, timer, request, requests), Counted(at, timer, owed),
           request => requests > 0,
           Instruction(at, cycles), requests' = requests
    PROVE  CountInv'
<1> DEFINE t == Ticked(timer, cycles)
<1>1. /\ cpu' = Executed(at) /\ timer' = TimerAfter(at.pc, t)
      /\ request' = (request /\ at.pc # "irq")
      /\ owed' = IF at.pc = "inc_ticks" /\ owed < 0
                   THEN owed
                   ELSE owed + One(Fires(timer, cycles)) - One(at.pc = "inc_ticks")
  BY DEF Instruction
<1>2. /\ timer \in Timer /\ t \in Timer /\ request \in BOOLEAN /\ requests \in 0..MaxRequests
      /\ MaxRequests \in Nat /\ MaxCycles \in Nat /\ CounterMod \in Nat /\ owed \in Int
  BY TickedType, CounterAssumption DEF TypeOK
<1>3. /\ t.enabled = timer.enabled /\ t.armed = timer.armed
      /\ t.overflow = (timer.overflow \/ Overflows(timer, cycles))
      /\ t.held = (timer.held \/ Fires(timer, cycles))
      /\ ~Overflows(timer, cycles) => t.counter = timer.counter + cycles
      /\ One(t.held) = One(timer.held) + One(Fires(timer, cycles))
  BY <1>2, TickedParts
<1>4. (request => requests > 0)'
  BY <1>1
<1>5. /\ at.pc = "rti" => cpu'.pc = at.return /\ cpu'.return = "start"
      /\ at.pc # "rti" => cpu'.pc = NextAddress[at.pc] /\ cpu'.return = at.return
  BY <1>1, ExecutedParts
<1>6. at.pc \in {"start", "write_TCSR", "cli", "program", "program_end", "read_TCSR", "read_TCH",
                "write_TCH", "inc_ticks", "irq", "rti"}
  BY DEF Cpu, Addresses, Start, TimerIrq
<1>7. Home(at) \in Boot /\ timer.enabled => ~Overflows(timer, cycles)
  <2>1. ASSUME Home(at) \in Boot, timer.enabled PROVE ~Overflows(timer, cycles)
    <3>1. timer.counter + Distance(at, request, requests) * MaxCycles < CounterMod
      BY <2>1 DEF CountParts, BootSafe
    <3>2. Distance(at, request, requests) \in Nat \ {0}
      BY <1>2 DEF Distance, One
    <3>3. Distance(at, request, requests) * MaxCycles >= MaxCycles
      BY <1>2, <3>2
    <3>4. timer.counter \in Nat
      BY <1>2 DEF Timer
    <3>5. QED BY <1>2, <3>1, <3>2, <3>3, <3>4 DEF Overflows
  <2>2. QED BY <2>1
<1>8. at.pc = "write_TCSR" => ~t.held
  <2>1. at.pc = "write_TCSR" => Home(at) \in Boot
    BY DEF Home, Boot
  <2>2. QED
    BY <1>3, <1>7, <2>1 DEF Fires, CountParts, BootSafe, Flagged
<1>9. Masked(cpu, request)'
  <2>1. CASE at.pc = "rti"
    BY <1>5, <2>1 DEF CountParts, Masked, Routines, TimerIrq
  <2>2. CASE at.pc # "rti"
    <3>1. at.pc # "cli" => (cpu'.I <=> at.I)
      BY <1>1, <2>2, ExecutedParts
    <3>2. cpu'.pc \in Routines => at.pc \in Routines /\ at.pc # "cli"
      BY <1>5, <1>6, <2>2, NextAddresses DEF Routines, TimerIrq
    <3>3. cpu'.pc \in TimerIrq => at.pc \in TimerIrq
      BY <1>5, <1>6, <2>2, NextAddresses DEF TimerIrq
    <3>4. cpu'.pc # "irq" /\ cpu'.return = at.return
      BY <1>5, <1>6, <2>2, NextAddresses
    <3>5. QED
      BY <3>1, <3>2, <3>3, <3>4 DEF CountParts, Masked
  <2>3. QED BY <2>1, <2>2
<1>10. Flagged(cpu, timer)'
  <2>1. t.held => t.overflow /\ t.enabled
    BY <1>3 DEF Fires, CountParts, Flagged
  <2>2. CASE at.pc = "write_TCSR"
    BY <1>1, <1>2, <1>5, <1>8, <2>2, NextAddresses DEF TimerAfter, WriteStatus, Timer, Flagged
  <2>3. CASE at.pc = "read_TCSR"
    <3>1. t.held
      BY <1>3, <2>3 DEF CountParts, Flagged
    <3>2. timer' = [t EXCEPT !.armed = @ \/ t.overflow] /\ cpu'.pc = "read_TCH"
      BY <1>1, <1>5, <2>3, NextAddresses DEF TimerAfter, ReadStatus
    <3>3. timer'.armed /\ timer'.held /\ timer'.overflow /\ timer'.enabled
      BY <1>2, <2>1, <3>1, <3>2 DEF Timer
    <3>4. QED BY <3>3 DEF Flagged
  <2>4. CASE at.pc = "read_TCH"
    <3>1. t.armed
      BY <1>3, <2>4 DEF CountParts, Flagged
    <3>2. ~timer'.held /\ cpu'.pc = "write_TCH"
      BY <1>1, <1>2, <1>5, <2>4, <3>1, NextAddresses, ZenonT(40) DEF TimerAfter, ReadCounter, Timer
    <3>3. QED BY <3>2 DEF Flagged
  <2>5. CASE at.pc = "write_TCH"
    <3>1. timer'.held = t.held /\ timer'.overflow = t.overflow /\ timer'.enabled = t.enabled
      BY <1>1, <1>2, <2>5 DEF TimerAfter, WriteCounter, Timer
    <3>2. cpu'.pc = "inc_ticks"
      BY <1>5, <2>5, NextAddresses
    <3>3. QED BY <2>1, <3>1, <3>2 DEF Flagged
  <2>6. CASE at.pc \notin {"write_TCSR", "read_TCSR", "read_TCH", "write_TCH"}
    <3>1. timer' = t
      BY <1>1, <2>6 DEF TimerAfter
    <3>2. cpu'.pc \notin {"read_TCSR", "read_TCH"}
      BY <1>5, <1>6, <2>6, NextAddresses DEF CountParts, Masked, Routines, TimerIrq
    <3>3. QED BY <2>1, <3>1, <3>2 DEF Flagged
  <2>7. QED BY <2>2, <2>3, <2>4, <2>5, <2>6
<1>11. Counted(cpu, timer, owed)'
  <2>1. owed = One(timer.held) + One(at.pc \in {"write_TCH", "inc_ticks"})
    BY DEF Counted
  <2>2. CASE at.pc = "read_TCH"
    <3>1. timer.held /\ t.armed
      BY <1>3, <2>2 DEF CountParts, Flagged
    <3>2. ~timer'.held /\ cpu'.pc = "write_TCH"
      BY <1>1, <1>2, <1>5, <2>2, <3>1, NextAddresses, ZenonT(40) DEF TimerAfter, ReadCounter, Timer
    <3>3. owed' = 1
      BY <1>1, <2>1, <2>2, <3>1 DEF One, Fires
    <3>4. QED BY <3>2, <3>3 DEF Counted, One
  <2>3. CASE at.pc # "read_TCH"
    <3>1. timer'.held = t.held
      BY <1>1, <1>2, <2>3 DEF TimerAfter, WriteStatus, ReadStatus, WriteCounter, Timer
    <3>2. owed >= 0
      BY <2>1 DEF One
    <3>3. owed' = One(t.held) + One(at.pc \in {"write_TCH", "inc_ticks"}) - One(at.pc = "inc_ticks")
      BY <1>1, <1>2, <1>3, <2>1, <3>2 DEF One
    <3>4. cpu'.pc \in {"write_TCH", "inc_ticks"} <=> at.pc = "write_TCH"
      BY <1>5, <1>6, <2>3, NextAddresses DEF CountParts, Masked, Routines, TimerIrq
    <3>5. One(at.pc \in {"write_TCH", "inc_ticks"}) - One(at.pc = "inc_ticks")
            = One(cpu'.pc \in {"write_TCH", "inc_ticks"})
      BY <3>4 DEF One
    <3>6. One(t.held) \in Int /\ \A b \in BOOLEAN : One(b) \in Int
      BY DEF One
    <3>7. owed' = One(t.held) + One(cpu'.pc \in {"write_TCH", "inc_ticks"})
      BY <3>3, <3>5, <3>6
    <3>8. QED BY <3>1, <3>7 DEF Counted
  <2>4. QED BY <2>2, <2>3
<1>12. BootSafe(cpu, timer, request, requests)'
  <2> SUFFICES ASSUME Home(cpu') \in Boot, timer'.enabled
               PROVE  /\ ~timer'.held /\ ~timer'.overflow
                      /\ timer'.counter + Distance(cpu', request', requests) * MaxCycles < CounterMod
    BY DEF BootSafe, Home, Distance
  <2>1. at.pc \in {"start", "irq", "rti"} /\ Home(at) \in Boot
    BY <1>5, <1>6, NextAddresses DEF Home, Boot, CountParts, Masked, Routines, TimerIrq
  <2>2. timer' = t
    BY <1>1, <2>1 DEF TimerAfter
  <2>3. Distance(at, request, requests) = Distance(cpu', request', requests) + 1
    <3>1. CASE at.pc = "start"
      BY <1>1, <1>2, <1>5, <3>1, NextAddresses DEF Distance, Home, One
    <3>2. CASE at.pc = "irq"
      <4>1. request = TRUE /\ request' = FALSE
        BY <1>1, <1>2, <3>2 DEF CountParts, Masked
      <4>2. cpu'.pc = "rti" /\ Home(cpu') = Home(at)
        BY <1>5, <3>2, NextAddresses DEF Home
      <4>3. One(TRUE) = 1 /\ One(FALSE) = 0
        BY DEF One
      <4>4. One(Home(at) = "start") \in Int
        BY DEF One
      <4>5. Distance(at, request, requests)
              = One(Home(at) = "start") + 1 + 0 + 2 * (MaxRequests - requests + 1)
        BY <3>2, <4>1, <4>3 DEF Distance
      <4>6. Distance(cpu', request', requests)
              = One(Home(at) = "start") + 1 + 1 + 2 * (MaxRequests - requests + 0)
        BY <4>1, <4>2, <4>3 DEF Distance
      <4>7. QED BY <1>2, <4>4, <4>5, <4>6
    <3>3. CASE at.pc = "rti"
      BY <1>1, <1>2, <1>5, <3>3 DEF Distance, Home, One, CountParts, Masked, Routines
    <3>4. QED BY <2>1, <3>1, <3>2, <3>3
  <2>4. /\ ~timer.held /\ ~timer.overflow /\ timer.enabled
        /\ timer.counter + Distance(at, request, requests) * MaxCycles < CounterMod
    BY <1>3, <2>1, <2>2 DEF CountParts, BootSafe
  <2>5. ~Overflows(timer, cycles)
    BY <1>7, <2>1, <2>4
  <2>6. /\ ~timer'.held /\ ~timer'.overflow /\ timer'.counter = timer.counter + cycles
    BY <1>3, <2>2, <2>4, <2>5 DEF Fires
  <2>7. Distance(cpu', request', requests) \in Nat /\ timer.counter \in Nat
    BY <1>2 DEF Distance, One, Timer
  <2>8. (Distance(cpu', request', requests) + 1) * MaxCycles
          = Distance(cpu', request', requests) * MaxCycles + MaxCycles
    BY <1>2, <2>7
  <2>9. Distance(cpu', request', requests) * MaxCycles \in Nat
    BY <1>2, <2>7
  <2>10. timer.counter + Distance(cpu', request', requests) * MaxCycles + MaxCycles < CounterMod
    BY <1>2, <2>3, <2>4, <2>7, <2>8, <2>9
  <2>11. QED
    BY <1>2, <2>6, <2>7, <2>9, <2>10
<1>13. QED
  BY <1>4, <1>9, <1>10, <1>11, <1>12 DEF CountInv, CountParts

\* A reset that meets a quiet timer.
LEMMA RestartKeeps ==
    ASSUME TypeOK, CountInv, QuietResets, MayRestart, NEW at \in Cpu, Restart(at),
           requests' = requests
    PROVE  CountInv'
<1>1. /\ cpu'.pc = "start" /\ cpu'.return = "start"
      /\ timer' = timer /\ request' = request /\ owed' = One(timer.held)
  BY DEF Restart, Cpu
<1>2. /\ timer \in Timer /\ request \in BOOLEAN /\ requests \in 0..MaxRequests
      /\ MaxRequests \in Nat /\ MaxCycles \in Nat /\ CounterMod \in Nat
  BY CounterAssumption, CyclesAssumption DEF TypeOK
<1>3. Masked(cpu, request)' /\ Flagged(cpu, timer)'
  BY <1>1 DEF CountInv, CountParts, Masked, Flagged, Routines, TimerIrq
<1>4. Counted(cpu, timer, owed)'
  <2>1. One(FALSE) = 0 /\ One(timer.held) \in Int
    BY DEF One
  <2>2. (cpu'.pc \in {"write_TCH", "inc_ticks"}) = FALSE
    BY <1>1
  <2>3. One(cpu'.pc \in {"write_TCH", "inc_ticks"}) = 0
    BY <2>1, <2>2, Zenon
  <2>4. QED BY <1>1, <2>1, <2>3 DEF Counted
<1>5. BootSafe(cpu, timer, request, requests)'
  <2> SUFFICES ASSUME timer.enabled
               PROVE  /\ ~timer.held /\ ~timer.overflow
                      /\ timer.counter + Distance(cpu', request, requests) * MaxCycles < CounterMod
    BY <1>1 DEF BootSafe, Distance, Home
  <2>1. /\ ~timer.held /\ ~timer.overflow
        /\ timer.counter + (2 + 2 * MaxRequests) * MaxCycles < CounterMod
    BY DEF MayRestart, Quiet
  <2>2. Distance(cpu', request, requests) \in Nat /\ Distance(cpu', request, requests) <= 2 + 2 * MaxRequests
    BY <1>1, <1>2 DEF Distance, Home, One, CountInv
  <2>3. Distance(cpu', request, requests) * MaxCycles <= (2 + 2 * MaxRequests) * MaxCycles
    BY <1>2, <2>2
  <2>4. /\ timer.counter \in Nat
        /\ Distance(cpu', request, requests) * MaxCycles \in Nat
        /\ (2 + 2 * MaxRequests) * MaxCycles \in Nat
    BY <1>2, <2>2 DEF Timer
  <2>5. QED BY <1>2, <2>1, <2>3, <2>4
<1>6. QED
  BY <1>1, <1>3, <1>4, <1>5 DEF CountInv, CountParts

\* Steps that touch neither the CPU nor the timer.
LEMMA CountUnchanged ==
    ASSUME CountInv, UNCHANGED <<cpu_vars, requests>>
    PROVE  CountInv'
BY DEF CountInv, CountParts, BootSafe, Masked, Flagged, Counted, Distance, Home, cpu_vars

LEMMA RoundKeeps ==
    ASSUME TypeOK, CountInv, QuietResets, NEW cycles \in 1..MaxCycles, Round(cycles),
           requests' = requests
    PROVE  CountInv'
<1>1. PICK at : at = Entered
  OBVIOUS
<1>2. at \in Cpu
  BY <1>1, EnteredType DEF Cpu
<1>3. /\ CountParts(at, timer, request, requests) /\ Counted(at, timer, owed)
      /\ request => requests > 0
  BY <1>1, EnterKeeps DEF CountInv
<1>4. CASE Instruction(Entered, cycles)
  <2>1. Instruction(at, cycles)
    BY <1>1, <1>4
  <2>2. QED
    BY <1>2, <1>3, <2>1, CyclesAssumption, InstructionKeeps
<1>5. CASE MayRestart /\ Restart(Entered)
  <2>1. Restart(at)
    BY <1>1, <1>5
  <2>2. QED
    BY <1>2, <1>5, <2>1, RestartKeeps
<1>6. QED
  BY <1>4, <1>5 DEF Round

LEMMA CountInit == Init => CountInv
<1> SUFFICES ASSUME Init PROVE CountInv
  OBVIOUS
<1>1. /\ cpu.pc = "start" /\ cpu.return = "start" /\ ~request /\ owed = 0
      /\ ~timer.enabled /\ ~timer.held
  BY DEF Init, InitialTimer
<1>2. Counted(cpu, timer, owed)
  BY <1>1 DEF Counted, One
<1>3. QED
  BY <1>1, <1>2 DEF CountInv, CountParts, BootSafe, Masked, Flagged, Routines, TimerIrq

LEMMA CountStep ==
    ASSUME QuietResets, TypeOK, CountInv, [Next]_vars
    PROVE  CountInv'
<1>1. CASE RunRound \/ Step \/ RunTick
  <2>1. PICK cycles \in 1..MaxCycles : Round(cycles)
    BY <1>1 DEF RunRound, Step, RunTick, Tick1
  <2>2. requests' = requests
    BY <1>1 DEF RunRound, Step, RunTick
  <2>3. QED
    BY <2>1, <2>2, RoundKeeps
<1>2. CASE HitBreakpoint
  <2>1. cpu' = Entered /\ UNCHANGED <<timer, request, owed, requests>>
    BY <1>2 DEF HitBreakpoint
  <2>2. PICK at : at = Entered
    OBVIOUS
  <2>3. CountParts(at, timer, request, requests) /\ Counted(at, timer, owed)
    BY <2>2, EnterKeeps
  <2>4. QED
    BY <2>1, <2>2, <2>3
       DEF CountInv, CountParts, BootSafe, Masked, Flagged, Counted, Distance, Home
<1>3. CASE Reset
  <2>1. PICK at : at = cpu
    OBVIOUS
  <2>2. at \in Cpu /\ Restart(at) /\ MayRestart /\ requests' = requests
    BY <1>3, <2>1 DEF Reset, TypeOK, Cpu
  <2>3. QED
    BY <2>2, RestartKeeps
<1>4. CASE OtherRequest
  <2>1. /\ request = FALSE /\ request' = TRUE /\ requests' = requests + 1
        /\ requests \in Nat /\ MaxRequests \in Nat /\ UNCHANGED <<timer, cpu, owed>>
    BY <1>4, CyclesAssumption DEF OtherRequest, TypeOK
  <2>2. One(TRUE) = 1 /\ One(FALSE) = 0
    BY DEF One
  <2>3. Distance(cpu, request, requests)' = Distance(cpu, request, requests)
    <3>1. Distance(cpu', request', requests')
            = One(Home(cpu) = "start") + 1 + One(cpu.pc = "rti") + 2 * (MaxRequests - (requests + 1) + 1)
      BY <2>1, <2>2 DEF Distance
    <3>2. Distance(cpu, request, requests)
            = One(Home(cpu) = "start") + 1 + One(cpu.pc = "rti") + 2 * (MaxRequests - requests + 0)
      BY <2>1, <2>2 DEF Distance
    <3>3. 2 * (MaxRequests - (requests + 1) + 1) = 2 * (MaxRequests - requests + 0)
      BY <2>1
    <3>4. Distance(cpu', request', requests') = Distance(cpu, request, requests)
      BY <3>1, <3>2, <3>3, Zenon
    <3>5. QED BY <3>4 DEF Distance, Home
  <2>4. BootSafe(cpu, timer, request, requests)'
    BY <2>1, <2>3 DEF CountInv, CountParts, BootSafe, Home
  <2>5. Masked(cpu, request)' /\ Flagged(cpu, timer)' /\ Counted(cpu, timer, owed)'
    BY <2>1 DEF CountInv, CountParts, Masked, Flagged, Counted
  <2>6. requests' > 0
    BY <2>1
  <2>7. QED
    BY <2>4, <2>5, <2>6 DEF CountInv, CountParts
<1>5. CASE While \/ TestRunning \/ Lock \/ SliceDone \/ Frame \/ Pause \/ Run \/ SetBreakpoint
            \/ Quit \/ Join \/ UNCHANGED vars
  <2>1. UNCHANGED <<cpu_vars, requests>>
    BY <1>5 DEF While, TestRunning, Lock, SliceDone, Frame, Pause, Run, SetBreakpoint, Quit, Join, vars
  <2>2. QED
    BY <2>1, CountUnchanged
<1>6. QED
  BY <1>1, <1>2, <1>3, <1>4, <1>5 DEF Next, Emulator, UI

\* With resets that meet a quiet timer, timer_ticks counts every interrupt exactly once.
THEOREM CountsOnce == ASSUME QuietResets PROVE Spec => []CountedOnce
<1>1. TypeOK /\ CountInv /\ [Next]_vars => CountInv'
  BY CountStep
<1>2. CountInv => CountedOnce
  BY DEF CountInv, Counted, CountedOnce
<1>3. QED
  BY <1>1, <1>2, CountInit, TypeCorrectness, PTL DEF Spec
=============================================================================
