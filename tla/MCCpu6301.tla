----------------------------- MODULE MCCpu6301 -----------------------------
(* The programs start with the words whose bytes are 0, 127, 128 and 255: zero, the *)
(* largest and the smallest with sign, and the largest without; and with numbers at *)
(* the limits of the file system: 2 and 254 clusters, 254 sectors, 2047 entries.    *)
EXTENDS Cpu6301

MCOperands ==
    {high * 256 + low : high \in {0, 127, 128, 255}, low \in {0, 127, 128, 255}}
    \cup {2, 254, 2047}
=============================================================================
