------------------------------- MODULE IrqLine -------------------------------
(***************************************************************************)
(* The interrupt line of emulator/interrupt.h (class Interrupt), shared by *)
(* every device that drives it.  A device that wants the line low gets an  *)
(* id from set_interrupt() and gives it back with clear_interrupt(id); the *)
(* line is active while some id is outstanding.                            *)
(*                                                                         *)
(* The class hands out ids from an int that is incremented under a mutex   *)
(* and skips 0.  Its own comment leaves the wrap-around after 2^32 ids out *)
(* of consideration; until then an id is only ever distinct from the       *)
(* outstanding ones, which is all a device can observe, and is all that    *)
(* FreshIds keeps.  NoIrq is the sentinel 0 ("no interrupt set").          *)
(***************************************************************************)
EXTENDS Naturals, FiniteSets

CONSTANTS
    IrqIds,     \* the values set_interrupt() can return
    NoIrq       \* the sentinel a device stores when it holds no interrupt

ASSUME NoIrqAssumption == NoIrq \notin IrqIds

VARIABLE interrupts     \* Interrupt::interrupts_, the outstanding ids

\* The ways set_interrupt() can answer one call for each member of callers:
\* pairwise different ids, none of them outstanding.
FreshIds(callers) ==
    {id \in [callers -> IrqIds \ interrupts] :
        \A c, d \in callers : id[c] = id[d] => c = d}

\* Interrupt::has_interrupt(), what the CPU tests before each instruction.
HasInterrupt == interrupts # {}
=============================================================================
