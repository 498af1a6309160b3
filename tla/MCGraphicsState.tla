--------------------------- MODULE MCGraphicsState ---------------------------
(* GraphicsState with three rows of two cells, whose colours take a word of    *)
(* four places each: like the 100 columns of the card, half a word more than a *)
(* multiple of a word, so that the lines are padded.  Every cell is treated    *)
(* alike, so it is enough to follow two that are not blank.                    *)
EXTENDS GraphicsState, FiniteSets

MCDeltas == {-4, 1}

Marked == {p \in Positions :
              \/ charbuf[p] # Space
              \/ Given(p) # [fg |-> White, bg |-> Black]}

FewMarks == Cardinality(Marked) <= 2
=============================================================================
