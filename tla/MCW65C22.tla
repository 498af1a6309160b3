------------------------------ MODULE MCW65C22 ------------------------------
(* W65C22 with five interchangeable ids: one for each of the four sources *)
(* and one for the other device, so that no call ever finds none left.    *)
EXTENDS W65C22, TLC

Symmetric == Permutations(IrqIds)
=============================================================================
