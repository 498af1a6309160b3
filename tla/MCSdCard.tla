------------------------------- MODULE MCSdCard -------------------------------
(* SdCard with two blocks of two bytes, an address beyond them, and two       *)
(* resets.  The data is made of bytes the protocol uses as tokens.  The card  *)
(* needs two tries of each loop.                                              *)
EXTENDS SdCard
=============================================================================
