-------------------------- MODULE MCPS2Keyboard6301 --------------------------
(* PS2Keyboard6301 with three key presses of one or two bytes, or of the eight *)
(* of Pause, and a buffer of four bytes, so that its pointers wrap.  An        *)
(* acknowledgement may hold one id and take another while the other device has *)
(* a third.                                                                    *)
EXTENDS PS2Keyboard6301

\* Nobody types before P20 is an output, nor Pause before it is set.
MCEarlyKeys == {<<"output", "key">>, <<"init", "key">>, <<"init", "pause">>}

\* Somebody types as soon as the emulator runs.
MCAnyTime == {<<"start", "key">>} \cup MCEarlyKeys
=============================================================================
