-------------------------------- MODULE W65C22 --------------------------------
(***************************************************************************)
(* The interrupt logic of the 65C22 emulation (emulator/w65c22.cc): the    *)
(* flag register IFR, the enable register IER, and the id each source      *)
(* holds on the shared interrupt line.                                     *)
(*                                                                         *)
(* Two threads act.  The emulator thread runs tick() and the bus accesses, *)
(* one after the other.  The thread that drives CA1 runs ca1_transition(): *)
(* the class comment promises that "CA1 edge detection is thread-safe".    *)
(* The flag state is guarded by irq_flag_mutex_, so a step below is one    *)
(* critical section: a write to IER is two of them, and a CA1 edge is one  *)
(* step that samples the edge and one that sets the flag.                  *)
(*                                                                         *)
(* What makes a timer or the shift register expire (counters, latches,     *)
(* clock edges) is left to the modules that extend this one; here an       *)
(* expiry may come at any time.                                            *)
(***************************************************************************)
EXTENDS IrqLine

VARIABLES
    irq_flag_register,      \* IFR bits 0..6, as the set of flagged sources
    irq_any,                \* IFR bit 7, kept by the code as a stored bit
    irq_enable_register,    \* IER, as the set of enabled sources
    interrupt_id,           \* the four *_interrupt_id_ members
    ier_write,              \* the IER write in progress: what its second
                            \* critical section will be
    ca1_rising,             \* ca1_is_rising_edge_sensitive_
    prev_ca1_level,         \* the CA1 level the last callback saw
    ca1_callback,           \* the CA1 thread: idle, or its edge decided
    other_id                \* the id another device holds on the line

flag_vars == <<irq_flag_register, irq_any, interrupt_id, interrupts>>
ca1_vars == <<prev_ca1_level, ca1_callback>>
via_vars == <<flag_vars, ca1_vars, irq_enable_register, ier_write, ca1_rising, other_id>>

Sources == {"T1", "T2", "SR", "CA1"}

\* The sources tick() can flag.
Ticked == Sources \ {"CA1"}

EnabledFlags == irq_flag_register \cap irq_enable_register

Held == {s \in Sources : interrupt_id[s] # NoIrq}

ViaTypeOK ==
    /\ interrupts \subseteq IrqIds
    /\ irq_flag_register \subseteq Sources
    /\ irq_any \in BOOLEAN
    /\ irq_enable_register \subseteq Sources
    /\ interrupt_id \in [Sources -> IrqIds \cup {NoIrq}]
    /\ ier_write \in {"none", "set", "clear"}
    /\ ca1_rising \in BOOLEAN
    /\ prev_ca1_level \in BOOLEAN
    /\ ca1_callback \in {"idle", "edge"}
    /\ other_id \in IrqIds \cup {NoIrq}

ViaInit ==
    /\ interrupts = {}
    /\ irq_flag_register = {}
    /\ irq_any = FALSE
    /\ irq_enable_register = {}
    /\ interrupt_id = [s \in Sources |-> NoIrq]
    /\ ier_write = "none"
    /\ ca1_rising = FALSE
    /\ prev_ca1_level = FALSE
    /\ ca1_callback = "idle"
    /\ other_id = NoIrq

-------------------------------------------------------------------------------
\* A slip: an id is taken although one is already held.
FiringAgain(flags) == flags \cap irq_enable_register

\* The sources set_irq_flag() asks an id for: flagged, enabled, none held yet.
Firing(flags) == {s \in flags \cap irq_enable_register : interrupt_id[s] = NoIrq}

\* set_irq_flag(mask): one critical section.  It never resets bit 7.
SetIrqFlag(mask) ==
    LET flags == irq_flag_register \cup mask
        firing == Firing(flags)
    IN  /\ irq_flag_register' = flags
        /\ irq_any' = (irq_any \/ flags \cap irq_enable_register # {})
        /\ \E fresh \in FreshIds(firing) :
              /\ interrupt_id' = [s \in Sources |->
                                    IF s \in firing THEN fresh[s] ELSE interrupt_id[s]]
              /\ interrupts' = interrupts \cup {fresh[s] : s \in firing}

\* The sources whose id clear_irq_flag() gives back: it looks at the flag
\* alone, never at the enable register.
Released(flags) == Held \ flags

\* A slip: bit 7 is cleared and not computed again.
ClearIrqFlagLosesAny(mask) ==
    LET flags == irq_flag_register \ mask
        released == Released(flags)
    IN  /\ irq_flag_register' = flags
        /\ irq_any' = FALSE
        /\ interrupt_id' = [s \in Sources |->
                              IF s \in released THEN NoIrq ELSE interrupt_id[s]]
        /\ interrupts' = interrupts \ {interrupt_id[s] : s \in released}

\* A slip: the id is given back and not reset to the sentinel.
ClearIrqFlagKeepsId(mask) ==
    LET flags == irq_flag_register \ mask
    IN  /\ irq_flag_register' = flags
        /\ irq_any' = (flags \cap irq_enable_register # {})
        /\ interrupts' = interrupts \ {interrupt_id[s] : s \in Released(flags)}
        /\ UNCHANGED interrupt_id

\* clear_irq_flag(mask): one critical section.
ClearIrqFlag(mask) ==
    LET flags == irq_flag_register \ mask
        released == Released(flags)
    IN  /\ irq_flag_register' = flags
        /\ irq_any' = (flags \cap irq_enable_register # {})
        /\ interrupt_id' = [s \in Sources |->
                              IF s \in released THEN NoIrq ELSE interrupt_id[s]]
        /\ interrupts' = interrupts \ {interrupt_id[s] : s \in released}

-------------------------------------------------------------------------------
(* The emulator thread: each operation starts when no IER write is half done. *)

\* tick(): a timer reaches zero while active, or the eighth shift ends.
Expire(s) ==
    /\ ier_write = "none"
    /\ SetIrqFlag({s})
    /\ UNCHANGED <<ca1_vars, irq_enable_register, ier_write, ca1_rising, other_id>>

\* A bus access that acknowledges one source: T1C_L read or T1C_H, T1L_H write;
\* T2 counter read or T2C_H write; SR read or write; ORA read or write.
Acknowledge(s) ==
    /\ ier_write = "none"
    /\ ClearIrqFlag({s})
    /\ UNCHANGED <<ca1_vars, irq_enable_register, ier_write, ca1_rising, other_id>>

\* A write to IFR clears every flag whose bit is 1.
WriteIFR(mask) ==
    /\ ier_write = "none"
    /\ ClearIrqFlag(mask)
    /\ UNCHANGED <<ca1_vars, irq_enable_register, ier_write, ca1_rising, other_id>>

\* A write to IER with bit 7 set, first critical section.
EnableIER(mask) ==
    /\ ier_write = "none"
    /\ irq_enable_register' = irq_enable_register \cup mask
    /\ ier_write' = "set"
    /\ UNCHANGED <<flag_vars, ca1_vars, ca1_rising, other_id>>

\* A write to IER with bit 7 clear, first critical section.
DisableIER(mask) ==
    /\ ier_write = "none"
    /\ irq_enable_register' = irq_enable_register \ mask
    /\ ier_write' = "clear"
    /\ UNCHANGED <<flag_vars, ca1_vars, ca1_rising, other_id>>

\* A slip: an enable recomputes bit 7 and fires nothing.
FinishIERQuietly ==
    /\ ier_write # "none"
    /\ ClearIrqFlag({})
    /\ ier_write' = "none"
    /\ UNCHANGED <<ca1_vars, irq_enable_register, ca1_rising, other_id>>

\* The second critical section of an IER write: set_irq_flag(0) after an
\* enable, clear_irq_flag(0) after a disable.
FinishIER ==
    /\ ier_write # "none"
    /\ IF ier_write = "set" THEN SetIrqFlag({}) ELSE ClearIrqFlag({})
    /\ ier_write' = "none"
    /\ UNCHANGED <<ca1_vars, irq_enable_register, ca1_rising, other_id>>

\* A write to PCR selects the CA1 edge (an atomic_bool: no lock is taken).
WritePCR(rising) ==
    /\ ier_write = "none"
    /\ ca1_rising' = rising
    /\ UNCHANGED <<flag_vars, ca1_vars, irq_enable_register, ier_write, other_id>>

-------------------------------------------------------------------------------
(* The thread that drives CA1. *)

IsActiveEdge(level) == IF ca1_rising THEN ~prev_ca1_level /\ level
                                     ELSE prev_ca1_level /\ ~level

\* ca1_transition() up to its decision.  prev_ca1_level belongs to this thread
\* alone, so storing it here or after set_irq_flag() is the same.
Ca1Sample(level) ==
    /\ ca1_callback = "idle"
    /\ ca1_callback' = IF IsActiveEdge(level) THEN "edge" ELSE "idle"
    /\ prev_ca1_level' = level
    /\ UNCHANGED <<flag_vars, irq_enable_register, ier_write, ca1_rising, other_id>>

\* set_irq_flag(kIrqCA1) on an active edge.
Ca1Flag ==
    /\ ca1_callback = "edge"
    /\ SetIrqFlag({"CA1"})
    /\ ca1_callback' = "idle"
    /\ UNCHANGED <<prev_ca1_level, irq_enable_register, ier_write, ca1_rising, other_id>>

-------------------------------------------------------------------------------
(* Another device on the same line (TL16C2550, PS2Keyboard6301): it holds at *)
(* most one id.                                                              *)

OtherSet ==
    /\ other_id = NoIrq
    /\ \E fresh \in FreshIds({"other"}) :
          /\ other_id' = fresh["other"]
          /\ interrupts' = interrupts \cup {fresh["other"]}
    /\ UNCHANGED <<irq_flag_register, irq_any, interrupt_id, ca1_vars,
                   irq_enable_register, ier_write, ca1_rising>>

OtherClear ==
    /\ other_id # NoIrq
    /\ interrupts' = interrupts \ {other_id}
    /\ other_id' = NoIrq
    /\ UNCHANGED <<irq_flag_register, irq_any, interrupt_id, ca1_vars,
                   irq_enable_register, ier_write, ca1_rising>>

-------------------------------------------------------------------------------
ViaEmulator ==
    \/ \E s \in Ticked : Expire(s)
    \/ \E s \in Sources : Acknowledge(s)
    \/ \E mask \in SUBSET Sources : WriteIFR(mask) \/ EnableIER(mask) \/ DisableIER(mask)
    \/ FinishIER
    \/ \E rising \in BOOLEAN : WritePCR(rising)

Ca1Thread == Ca1Flag \/ \E level \in BOOLEAN : Ca1Sample(level)

ViaNext == ViaEmulator \/ Ca1Thread \/ OtherSet \/ OtherClear

ViaSpec == ViaInit /\ [][ViaNext]_via_vars

-------------------------------------------------------------------------------
(* What the two threads must agree on. *)

\* IFR bit 7, which io_irq tests to decide whether an interrupt is the VIA's
\* own, is 1 exactly when an enabled source is flagged, whenever no IER write
\* is half done.
AnyBitExact == ier_write = "none" => (irq_any <=> EnabledFlags # {})

\* No interrupt is lost: a source that is flagged and enabled holds the line
\* active, in whatever order the CA1 thread's edges and the two halves of an
\* IER write come.
EnabledFlagFires ==
    ier_write = "none" =>
        \A s \in EnabledFlags : interrupt_id[s] \in interrupts

\* Nothing else keeps the line active: every outstanding id is held by one
\* source, or by the other device, and by no two of them.
ViaIdsOwned ==
    /\ interrupts = {interrupt_id[s] : s \in Held} \cup ({other_id} \ {NoIrq})
    /\ \A s, t \in Held : interrupt_id[s] = interrupt_id[t] => s = t
    /\ \A s \in Held : interrupt_id[s] # other_id

\* A source gives its id back with its flag: what it holds after the flag is
\* gone could never be cleared by an acknowledgement.
HeldOnlyWhileFlagged == Held \subseteq irq_flag_register

\* The VIA never drops another device's interrupt, nor that device the VIA's:
\* an id leaves the line only in the step in which its owner forgets it.
OwnerForgets(id) ==
    \/ \E s \in Held : id = interrupt_id[s] /\ interrupt_id'[s] = NoIrq
                       /\ s \notin irq_flag_register'
    \/ id = other_id /\ other_id' = NoIrq

DropsOnlyOwn == [][\A id \in interrupts \ interrupts' : OwnerForgets(id)]_via_vars

\* "Clear any IRQs that are no longer enabled" (w65c22.cc:302): once a write to
\* IER is complete, a disabled source no longer holds the line active.
DisabledSourceReleased == ier_write = "none" => Held \subseteq irq_enable_register
=============================================================================
