------------------------------ MODULE Terminal ------------------------------
(***************************************************************************)
(* The terminal that the graphics card promises: a screen of cells in the  *)
(* order they are seen, from the top left to the bottom right, a cursor,   *)
(* and the colours software has given each cell.  There is no row roll, no *)
(* swapped colour under the cursor and no layout of the colour buffer:     *)
(* those are the implementation's.                                         *)
(***************************************************************************)
EXTENDS Integers

CONSTANTS
    Columns, Rows,
    Chars, Space,           \* Space is the character of a cleared cell
    Colors, White, Black,   \* White on Black is what clearing leaves
    Deltas                  \* the distances of relative moves

VARIABLES
    screen,     \* [cell -> character and colours]
    cursor,     \* the cell the cursor is on
    shown       \* the cursor is visible

vars == <<screen, cursor, shown>>

Size == Rows * Columns
Cells == 0..Size - 1
Blank == [char |-> Space, color |-> [fg |-> White, bg |-> Black]]

Column(cell) == cell % Columns
RowOf(cell) == {c \in Cells : c \div Columns = cell \div Columns}
Last == Size - 1

Init ==
    /\ screen = [c \in Cells |-> Blank]
    /\ cursor = 0
    /\ shown \in BOOLEAN

\* The rows move up by one and the top row comes back at the bottom.
Scrolled(cells) == [c \in Cells |-> cells[(c + Columns) % Size]]

\* The character goes to the cursor, which moves on; after the last cell the
\* screen scrolls.
PutChar(char) ==
    LET written == [screen EXCEPT ![cursor].char = char]
    IN  /\ IF cursor = Last
             THEN screen' = Scrolled(written) /\ cursor' = Size - Columns
             ELSE screen' = written /\ cursor' = cursor + 1
        /\ UNCHANGED shown

PutCharRaw(char) ==
    /\ screen' = [screen EXCEPT ![cursor].char = char]
    /\ UNCHANGED <<cursor, shown>>

ClearScreen ==
    /\ screen' = [c \in Cells |-> Blank]
    /\ cursor' = 0
    /\ UNCHANGED shown

ClearRow ==
    /\ cursor' = cursor - Column(cursor)
    /\ screen' = [c \in Cells |-> IF c \in RowOf(cursor) THEN Blank ELSE screen[c]]
    /\ UNCHANGED shown

\* A new line: the next row is cleared, and below the last one there is always
\* another.
ClearNextRow ==
    LET last_row == cursor \in RowOf(Last)
        next == IF last_row THEN Size - Columns ELSE cursor - Column(cursor) + Columns
        cells == IF last_row THEN Scrolled(screen) ELSE screen
    IN  /\ cursor' = next
        /\ screen' = [c \in Cells |-> IF c \in RowOf(next) THEN Blank ELSE cells[c]]
        /\ UNCHANGED shown

\* A relative move wraps around at either end of the screen.
MoveCursor(delta) ==
    /\ cursor' = (cursor + delta) % Size
    /\ UNCHANGED <<screen, shown>>

SetColumn(column) ==
    /\ cursor' = cursor - Column(cursor) + column
    /\ UNCHANGED <<screen, shown>>

\* Rows are numbered as they lie in memory: which one is seen depends on how
\* often the screen has scrolled.  The column stays.
SetRow ==
    /\ cursor' \in {c \in Cells : Column(c) = Column(cursor)}
    /\ UNCHANGED <<screen, shown>>

SetPosition ==
    /\ cursor' \in Cells
    /\ UNCHANGED <<screen, shown>>

ShowCursor(visible) ==
    /\ shown' = visible
    /\ UNCHANGED <<screen, cursor>>

\* Colours the cell under the cursor; an advance wraps and does not scroll.
SetColor(plane, color, advance) ==
    /\ screen' = IF plane = "fg" THEN [screen EXCEPT ![cursor].color.fg = color]
                                 ELSE [screen EXCEPT ![cursor].color.bg = color]
    /\ cursor' = IF advance THEN (cursor + 1) % Size ELSE cursor
    /\ UNCHANGED shown

Next ==
    \/ \E char \in Chars : PutChar(char) \/ PutCharRaw(char)
    \/ ClearScreen \/ ClearRow \/ ClearNextRow
    \/ \E delta \in Deltas : MoveCursor(delta)
    \/ \E column \in 0..Columns - 1 : SetColumn(column)
    \/ SetRow \/ SetPosition
    \/ \E visible \in BOOLEAN : ShowCursor(visible)
    \/ \E plane \in {"fg", "bg"}, color \in Colors, advance \in BOOLEAN :
          SetColor(plane, color, advance)

Spec == Init /\ [][Next]_vars
=============================================================================
