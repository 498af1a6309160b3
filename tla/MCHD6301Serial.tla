--------------------------- MODULE MCHD6301Serial ---------------------------
(* HD6301Serial with an id for each of the transmitter and the receiver, and   *)
(* with ticks counted in units of 32: a frame is 5 units, a countdown 3 bits.  *)
(* The control words are serial_init's, with and without TIE, and the receiver *)
(* switched off, alone or with the transmitter.                                *)
EXTENDS HD6301Serial

MCControlWords == {{}, {"TE"}, {"TE", "RE", "RIE"}, {"TE", "TIE", "RE", "RIE"}}
=============================================================================
