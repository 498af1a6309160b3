--------------------------- MODULE MCDisassembler ---------------------------
(* All programs of three bytes, between a byte of address space that has no *)
(* data and a byte that is no code; then another one without data, and one  *)
(* vector.  An opcode is illegal, falls through, returns, branches or jumps, *)
(* with the lengths it can have.  Three bytes of data share a line, so that  *)
(* it may end in the gap or reach across it.                                *)
EXTENDS Disassembler

Op(length, next, target) == [length |-> length, next |-> next, target |-> target]
Illegal == Op(0, FALSE, Nowhere)

Opcodes ==
    {Illegal, Op(1, TRUE, Nowhere), Op(1, FALSE, Nowhere), Op(2, TRUE, Nowhere)}
    \cup {Op(2, TRUE, t) : t \in {1, 3, 4}} \cup {Op(3, FALSE, t) : t \in {0, 1}}

MCVectors == <<6>>
MCMemories ==
    {[program |-> [a \in Data |-> CASE a \in 1..3 -> code[a]
                                    [] a = 4 -> Op(1, FALSE, Nowhere)
                                    [] OTHER -> Illegal],
      vector |-> [v \in {6} |-> start]] : code \in [1..3 -> Opcodes], start \in {0, 1, 3}}
=============================================================================
