---------------------------- MODULE GraphicsState ----------------------------
(***************************************************************************)
(* The state of the graphics card (graphics_state/graphics_state.cc),      *)
(* which the emulator and the firmware of the Pico share.  Software writes *)
(* one command byte after another; each is one action.                     *)
(*                                                                         *)
(* The screen scrolls by turning row_roll_ instead of moving memory, and   *)
(* the cursor is shown by swapping the two colours of its cell in the      *)
(* colour buffer itself, so that every command has to undo the swap at the *)
(* cell it leaves and do it at the cell it reaches.                        *)
(***************************************************************************)
EXTENDS Integers

CONSTANTS
    Columns, Rows,          \* kNumColumns, kNumRows: 100 and 40
    WordCells,              \* cells whose colours share a 32-bit word: 8
    DataSize,               \* values of a data byte: 256
    Deltas,                 \* the signed bytes software moves the cursor by
    Chars, Space,
    Colors, White, Black,
    Planes                  \* the planes software colours: "fg", "bg"

ASSUME SizesAssumption ==
    /\ Columns \in Nat \ {0} /\ Rows \in Nat \ {0} /\ WordCells \in Nat \ {0}
    /\ DataSize \in Nat \ {0}
\* The padding of a line, half a word or none on the card, lies within its last word.
ASSUME PaddingAssumption == 2 * (Columns % WordCells) <= WordCells
ASSUME DeltasAssumption == Deltas \subseteq -128..127
ASSUME CharsAssumption == Space \in Chars
ASSUME PlanesAssumption == Planes \subseteq {"fg", "bg"}
ASSUME ColorsAssumption == White \in Colors /\ Black \in Colors

VARIABLES
    charbuf,            \* charbuf_
    colorbuf,           \* colorbuf_: the colours at each place of a plane
    cursor_pos,         \* cursor_pos_
    cursor_pos_high,    \* cursor_pos_high_
    cursor_hidden,      \* cursor_hidden_
    row_roll            \* row_roll_: 0, or down to 1 - Rows

vars == <<charbuf, colorbuf, cursor_pos, cursor_pos_high, cursor_hidden, row_roll>>

CharBufSize == Rows * Columns
Positions == 0..CharBufSize - 1

\* kColorPlaneLineWords: a line begins with a new word.
LineWords == Columns \div WordCells + (IF Columns % WordCells > 0 THEN 1 ELSE 0)
Places == 0..LineWords * WordCells * Rows - 1

\* Where the colours of a position are: word_index and bit_index of the code.
Place(position) == position + (position \div Columns) * (Columns % WordCells)

\* Division and remainder of C++ round towards zero: row_roll_ - 1 is negative.
RollUp(roll) == IF roll - 1 = -Rows THEN 0 ELSE roll - 1

RowStart(position) == position - (position % Columns)

TypeOK ==
    /\ charbuf \in [Positions -> Chars]
    /\ colorbuf \in [Places -> [fg : Colors, bg : Colors]]
    /\ cursor_pos \in Positions
    /\ cursor_pos_high \in 0..DataSize - 1
    /\ cursor_hidden \in BOOLEAN
    /\ row_roll \in 1 - Rows..0

\* CursorColorFlip(): the buffer with the colours at the cursor swapped, unless
\* the cursor is hidden.
CursorColorFlip(buf, position, hidden) ==
    IF hidden THEN buf
    ELSE [buf EXCEPT ![Place(position)] = [fg |-> @.bg, bg |-> @.fg]]

\* What most commands do: they undo the swap, move, and swap again.
MoveTo(position) ==
    /\ cursor_pos' = position
    /\ colorbuf' = CursorColorFlip(CursorColorFlip(colorbuf, cursor_pos, cursor_hidden),
                                   position, cursor_hidden)

\* memset of both buffers.  The colour pattern 0x33 is White on Black.
AllSpaces == [p \in Positions |-> Space]
AllWhiteOnBlack == [p \in Places |-> [fg |-> White, bg |-> Black]]

\* SetColor() over the row that begins at start.
RowWhiteOnBlack(buf, start) ==
    [p \in Places |-> IF \E column \in 0..Columns - 1 : p = Place(start + column)
                        THEN [fg |-> White, bg |-> Black] ELSE buf[p]]

RowSpaces(start) ==
    [p \in Positions |-> IF p \in start..start + Columns - 1 THEN Space ELSE charbuf[p]]

\* graphics_init (asm/include/graphics.inc) shows the cursor and clears the
\* screen first, as does the Pico's main().
Init ==
    /\ charbuf = AllSpaces
    /\ cursor_hidden = FALSE
    /\ colorbuf = CursorColorFlip(AllWhiteOnBlack, 0, FALSE)
    /\ cursor_pos = 0
    /\ cursor_pos_high = 0
    /\ row_roll = 0

-------------------------------------------------------------------------------
(* HandleCommand(), one action for each command. *)

\* A slip: the roll is looked for one row too late.
Command0RollsLate(char) ==
    LET next == (cursor_pos + 1) % CharBufSize
    IN  /\ charbuf' = [charbuf EXCEPT ![cursor_pos] = char]
        /\ MoveTo(next)
        /\ row_roll' = IF next % Columns = 0 /\ next \div Columns = (-row_roll + 1) % Rows
                         THEN RollUp(row_roll) ELSE row_roll
        /\ UNCHANGED <<cursor_pos_high, cursor_hidden>>

\* 0: write a character and advance; past the last row seen, the screen rolls.
Command0(char) ==
    LET next == (cursor_pos + 1) % CharBufSize
    IN  /\ charbuf' = [charbuf EXCEPT ![cursor_pos] = char]
        /\ MoveTo(next)
        /\ row_roll' = IF next % Columns = 0 /\ next \div Columns = (Rows - row_roll) % Rows
                         THEN RollUp(row_roll) ELSE row_roll
        /\ UNCHANGED <<cursor_pos_high, cursor_hidden>>

\* 1, 0: clear the screen.
Command1Screen ==
    /\ charbuf' = AllSpaces
    /\ colorbuf' = CursorColorFlip(AllWhiteOnBlack, 0, cursor_hidden)
    /\ cursor_pos' = 0
    /\ row_roll' = 0
    /\ UNCHANGED <<cursor_pos_high, cursor_hidden>>

\* 1, 1: clear the row of the cursor.
Command1Row ==
    LET start == RowStart(cursor_pos)
    IN  /\ charbuf' = RowSpaces(start)
        /\ colorbuf' = CursorColorFlip(RowWhiteOnBlack(colorbuf, start), start, cursor_hidden)
        /\ cursor_pos' = start
        /\ UNCHANGED <<cursor_pos_high, cursor_hidden, row_roll>>

\* 1, 2: clear the next row; below the last one seen, the screen rolls.
Command1NextRow ==
    LET start == (RowStart(cursor_pos) + Columns) % CharBufSize
        left == CursorColorFlip(colorbuf, cursor_pos, cursor_hidden)
    IN  /\ row_roll' = IF cursor_pos \div Columns = (Rows - 1 - row_roll) % Rows
                         THEN RollUp(row_roll) ELSE row_roll
        /\ charbuf' = RowSpaces(start)
        /\ colorbuf' = CursorColorFlip(RowWhiteOnBlack(left, start), start, cursor_hidden)
        /\ cursor_pos' = start
        /\ UNCHANGED <<cursor_pos_high, cursor_hidden>>

\* 2: move the cursor by a signed byte.  The remainder may be negative and is
\* then corrected, which is what % is here.
Command2(delta) ==
    /\ MoveTo((cursor_pos + delta) % CharBufSize)
    /\ UNCHANGED <<charbuf, cursor_pos_high, cursor_hidden, row_roll>>

\* 3: write a character and stay.
Command3(char) ==
    /\ charbuf' = [charbuf EXCEPT ![cursor_pos] = char]
    /\ UNCHANGED <<colorbuf, cursor_pos, cursor_pos_high, cursor_hidden, row_roll>>

\* 4: set the column.
Command4(data) ==
    /\ MoveTo(RowStart(cursor_pos) + (data % Columns))
    /\ UNCHANGED <<charbuf, cursor_pos_high, cursor_hidden, row_roll>>

\* 5: set the row, of the buffer.
Command5(data) ==
    /\ MoveTo((data % Rows) * Columns + (cursor_pos % Columns))
    /\ UNCHANGED <<charbuf, cursor_pos_high, cursor_hidden, row_roll>>

\* 6: the high byte of a position.
Command6(data) ==
    /\ cursor_pos_high' = data
    /\ UNCHANGED <<charbuf, colorbuf, cursor_pos, cursor_hidden, row_roll>>

\* 7: the low byte, and the move.  The code does not check the position, and
\* beyond the buffer its behaviour is undefined: software sends no such one.
Command7(data) ==
    /\ cursor_pos_high * DataSize + data \in Positions
    /\ MoveTo(cursor_pos_high * DataSize + data)
    /\ UNCHANGED <<charbuf, cursor_pos_high, cursor_hidden, row_roll>>

\* 8: hide or show the cursor: a flip before and one after, of which none, one
\* or both take effect.
Command8(data) ==
    /\ cursor_hidden' = (data # 0)
    /\ colorbuf' = CursorColorFlip(CursorColorFlip(colorbuf, cursor_pos, cursor_hidden),
                                   cursor_pos, cursor_hidden')
    /\ UNCHANGED <<charbuf, cursor_pos, cursor_pos_high, row_roll>>

\* 9: set a colour of the cell at the cursor, and perhaps advance.
Command9(plane, color, advance) ==
    LET next == IF advance THEN (cursor_pos + 1) % CharBufSize ELSE cursor_pos
        left == CursorColorFlip(colorbuf, cursor_pos, cursor_hidden)
        set == IF plane = "fg" THEN [left EXCEPT ![Place(cursor_pos)].fg = color]
                               ELSE [left EXCEPT ![Place(cursor_pos)].bg = color]
    IN  /\ colorbuf' = CursorColorFlip(set, next, cursor_hidden)
        /\ cursor_pos' = next
        /\ UNCHANGED <<charbuf, cursor_pos_high, cursor_hidden, row_roll>>

Data == 0..DataSize - 1

Next ==
    \/ \E char \in Chars : Command0(char) \/ Command3(char)
    \/ Command1Screen \/ Command1Row \/ Command1NextRow
    \/ \E delta \in Deltas : Command2(delta)
    \/ \E data \in Data :
          Command4(data) \/ Command5(data) \/ Command6(data) \/ Command7(data) \/ Command8(data)
    \/ \E plane \in Planes, color \in Colors, advance \in BOOLEAN :
          Command9(plane, color, advance)

Spec == Init /\ [][Next]_vars

-------------------------------------------------------------------------------
(* What the commands add up to. *)

\* The position that is seen at a cell: draw_character() of the emulator and the
\* scanline callback of the Pico subtract the roll the same way.
Seen(cell) == (cell - row_roll * Columns) % CharBufSize

\* The colours software gave a position: those at the cursor are swapped back.
Given(position) ==
    LET place == colorbuf[Place(position)]
    IN  IF position = cursor_pos /\ ~cursor_hidden
          THEN [fg |-> place.bg, bg |-> place.fg] ELSE place

Screen == [cell \in Positions |-> [char |-> charbuf[Seen(cell)], color |-> Given(Seen(cell))]]
Cursor == (cursor_pos + row_roll * Columns) % CharBufSize

T == INSTANCE Terminal WITH screen <- Screen, cursor <- Cursor, shown <- ~cursor_hidden

\* Every sequence of commands leaves the screen, the colours and the cursor that
\* the terminal has: rolls, swaps and the colour layout never show.
ImplementsTerminal == T!Spec
=============================================================================
