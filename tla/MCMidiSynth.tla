---------------------------- MODULE MCMidiSynth ----------------------------
(* MidiSynth with two voices, one in each register array, two melodic    *)
(* channels and one drum; each message changes what another one meets:   *)
(* a voice taken, set up for somebody else, or set up for nobody.        *)
EXTENDS MidiSynth, TLC

M(op, channel, data) == [op |-> op, channel |-> channel, data |-> data]

MCMessages ==
    {M(op, c, 60) : op \in {"play", "stop"}, c \in {0, 1}}
    \cup {M(op, 9, 35) : op \in {"play", "stop"}}
    \cup {M("program", 0, 1), M("instrument", 0, 0), M("pressure", 1, 0),
          M("silence", 0, 0), M("silence", 9, 0)}

MCDrumNote == 35 :> 36
=============================================================================
