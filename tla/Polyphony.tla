------------------------------ MODULE Polyphony ------------------------------
(***************************************************************************)
(* What the MIDI synthesizer promises (asm/include/midi.inc, "supports     *)
(* MIDI channels 1..16 with one instrument per channel and up to 18 notes  *)
(* polyphony across all channels"): a bag of sounding notes of bounded     *)
(* size, an instrument for each channel, and requests that are served one  *)
(* at a time.  It says nothing of bytes or voices.                         *)
(***************************************************************************)
EXTENDS Naturals, FiniteSets

CONSTANTS
    Requests,   \* records of an operation, a channel and its data
    NoRequest,
    Rhythm,     \* the channel that plays percussion
    Keys,       \* <<channel, note>> pairs that can sound
    Capacity    \* how many notes sound at a time

VARIABLES
    sounding,   \* how often each key sounds
    program,    \* each channel's instrument, 0 at first
    request     \* the request being served, or NoRequest

vars == <<sounding, program, request>>

Channels == {r.channel : r \in Requests}
Silent == [k \in Keys |-> 0]

\* How many notes sound: each key as often as it does.
Count == Cardinality({note \in Keys \X (1..Capacity) : note[2] <= sounding[note[1]]})
Without(c) == [k \in Keys |-> IF k[1] = c THEN 0 ELSE sounding[k]]

Init == sounding = Silent /\ program = [c \in Channels |-> 0] /\ request = NoRequest

Ask ==
    /\ request = NoRequest
    /\ request' \in Requests
    /\ UNCHANGED <<sounding, program>>

\* A note beyond the capacity is dropped.
Play(k) ==
    /\ sounding' = IF Count < Capacity THEN [sounding EXCEPT ![k] = @ + 1] ELSE sounding
    /\ UNCHANGED program

\* One of the notes of that key ends, if one sounds.
Stop(k) ==
    /\ sounding' = IF sounding[k] > 0 THEN [sounding EXCEPT ![k] = @ - 1] ELSE sounding
    /\ UNCHANGED program

\* A channel that changes its instrument falls silent, except for percussion.
Change(c, p) ==
    /\ program' = [program EXCEPT ![c] = p]
    /\ sounding' = IF c = Rhythm THEN sounding ELSE Without(c)

Silence(c) == sounding' = Without(c) /\ UNCHANGED program

Serve ==
    /\ request # NoRequest
    /\ \/ request.op = "play" /\ Play(<<request.channel, request.data>>)
       \/ request.op = "stop" /\ Stop(<<request.channel, request.data>>)
       \/ request.op \in {"program", "instrument"} /\ Change(request.channel, request.data)
       \/ request.op = "silence" /\ Silence(request.channel)
       \/ /\ request.op \notin {"play", "stop", "program", "instrument", "silence"}
          /\ UNCHANGED <<sounding, program>>
    /\ request' = NoRequest

Restart == sounding' = Silent /\ program' = [c \in Channels |-> 0] /\ request' = NoRequest

Next == Ask \/ Serve \/ Restart

Spec == Init /\ [][Next]_vars
=============================================================================
