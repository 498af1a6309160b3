----------------------------- MODULE KeyChannel -----------------------------
(***************************************************************************)
(* What the keyboard of the 6301 board promises the program: the bytes of  *)
(* the keys pressed arrive in its buffer once each and in order, a Pause   *)
(* key invokes the monitor once and leaves nothing in the buffer.  Only    *)
(* while the firmware starts bytes may be dropped.                         *)
(***************************************************************************)
EXTENDS Naturals, Sequences

VARIABLES
    line,       \* bytes sent and not yet received, oldest first
    buffer,     \* bytes received and not yet read by the program
    ready,      \* the firmware has started
    monitor     \* how often the monitor was invoked

vars == <<line, buffer, ready, monitor>>

PauseLength == 8

Init == line = <<>> /\ buffer = <<>> /\ ready = FALSE /\ monitor = 0

\* The bytes of one key follow what was sent before.
Press ==
    /\ \E n \in 1..Len(line') : line = SubSeq(line', 1, Len(line') - n)
    /\ UNCHANGED <<buffer, ready, monitor>>

Drop ==
    /\ ~ready
    /\ line # <<>>
    /\ line' = Tail(line)
    /\ UNCHANGED <<buffer, ready, monitor>>

Start ==
    /\ ~ready
    /\ ready' = TRUE
    /\ buffer' = <<>>
    /\ UNCHANGED <<line, monitor>>

ReceiveKey ==
    /\ line # <<>> /\ ~Head(line).pause
    /\ line' = Tail(line)
    /\ buffer' = Append(buffer, Head(line))
    /\ UNCHANGED <<ready, monitor>>

ReceivePause ==
    /\ line # <<>> /\ Head(line).pause
    /\ line' = Tail(line)
    /\ monitor' = IF Head(line).pos = PauseLength THEN monitor + 1 ELSE monitor
    /\ UNCHANGED <<buffer, ready>>

Read ==
    /\ buffer # <<>>
    /\ buffer' = Tail(buffer)
    /\ UNCHANGED <<line, ready, monitor>>

Next == Press \/ Drop \/ Start \/ ReceiveKey \/ ReceivePause \/ Read

Spec == Init /\ [][Next]_vars
=============================================================================
