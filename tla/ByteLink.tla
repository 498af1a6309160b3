------------------------------- MODULE ByteLink -------------------------------
(***************************************************************************)
(* What the shift register, the glue logic and the SPI adapter promise the *)
(* driver together: each byte loaded is exchanged once against the byte    *)
(* that the card offers, and the driver reads the bytes it wants once each *)
(* and in order.  SdCard is written in terms of such exchanges.            *)
(***************************************************************************)
EXTENDS Naturals, Sequences

CONSTANTS
    Byte,
    Ones,           \* the byte a card offers after a change of chip select
    None            \* no byte

VARIABLES
    selected,       \* the card is
    in_flight,      \* the byte on its way to the card, and whether the driver
                    \* wants the one that comes back; or None
    offered,        \* the byte the card gives in the next exchange
    unread,         \* bytes that have come back and are wanted
    taken,          \* output: the byte the card takes in this step, or None
    received        \* output: the byte the driver reads in this step, or None

vars == <<selected, in_flight, offered, unread, taken, received>>

Init ==
    /\ selected = FALSE /\ in_flight = None /\ offered = Ones /\ unread = <<>>
    /\ taken = None /\ received = None

Quiet == taken' = None /\ received' = None

Load ==
    /\ in_flight = None
    /\ in_flight' \in [byte : Byte, wanted : BOOLEAN]
    /\ Quiet
    /\ UNCHANGED <<selected, offered, unread>>

Exchange ==
    /\ in_flight # None
    /\ in_flight' = None
    /\ taken' = in_flight.byte
    /\ offered' \in Byte
    /\ unread' = IF in_flight.wanted THEN Append(unread, offered) ELSE unread
    /\ received' = None
    /\ UNCHANGED selected

Read ==
    /\ unread # <<>>
    /\ received' = Head(unread)
    /\ unread' = Tail(unread)
    /\ taken' = None
    /\ UNCHANGED <<selected, in_flight, offered>>

Select ==
    /\ in_flight = None
    /\ selected' = ~selected
    /\ offered' = Ones
    /\ Quiet
    /\ UNCHANGED <<in_flight, unread>>

\* The driver starts anew; the byte in flight still arrives.
Abandon ==
    /\ unread' = <<>>
    /\ in_flight' = IF in_flight = None THEN None ELSE [in_flight EXCEPT !.wanted = FALSE]
    /\ Quiet
    /\ UNCHANGED <<selected, offered>>

\* Outputs are there for one step.
Rest == Quiet /\ UNCHANGED <<selected, in_flight, offered, unread>>

Next == Load \/ Exchange \/ Read \/ Select \/ Abandon \/ Rest

Spec == Init /\ [][Next]_vars
=============================================================================
