----------------------------- MODULE Pico_proofs -----------------------------
(***************************************************************************)
(* Proofs about what runs on the two Picos: the graphics state (which the  *)
(* emulator has too), and the in-circuit programmer.                       *)
(*                                                                         *)
(* Graphics: the screen that a position of the buffers shows is found by   *)
(* rows and columns; each command is followed through the row roll and the *)
(* padded colour lines.                                                    *)
(*                                                                         *)
(* Programmer: the invariant has two parts.  Completing says what the      *)
(* latches, the memory and the answers will be when the pin operations     *)
(* that are left are done; no step of them changes that.  Writes and Reads *)
(* then relate this outcome to the place the programmer has reached among  *)
(* the bytes of the session.                                               *)
(***************************************************************************)
EXTENDS GraphicsState, Programmer, SequenceTheorems, TLAPS

-------------------------------------------------------------------------------
(* The graphics state. *)

LEMMA Sizes ==
    /\ Columns \in Nat \ {0} /\ Rows \in Nat \ {0} /\ WordCells \in Nat \ {0}
    /\ CharBufSize \in Nat \ {0}
  BY SizesAssumption DEF CharBufSize

\* Division of what is a multiple and a rest.
LEMMA Divided ==
    ASSUME NEW n \in Nat \ {0}, NEW q \in Int, NEW r \in 0..n - 1
    PROVE  (n * q + r) \div n = q /\ (n * q + r) % n = r
  OBVIOUS

CellAt(row, column) == Columns * row + column
RowIds == 0..Rows - 1
ColumnIds == 0..Columns - 1

LEMMA CellBounds ==
    ASSUME NEW row \in Int, NEW column \in ColumnIds
    PROVE  /\ CellAt(row, column) \in Int
           /\ row \in RowIds => CellAt(row, column) \in Positions
           /\ row < 0 => CellAt(row, column) < 0
           /\ row >= Rows => CellAt(row, column) >= CharBufSize
  <1> DEFINE c == Columns
  <1>1. c \in Nat \ {0} /\ Rows \in Nat \ {0} /\ column \in 0..c - 1 /\ CharBufSize = Rows * c
    BY Sizes DEF ColumnIds, CharBufSize
  <1> HIDE DEF c
  <1>2. CellAt(row, column) = c * row + column
    BY DEF CellAt, c
  <1>3. c * row \in Int
    BY <1>1
  <1>4. ASSUME row >= 0 PROVE c * row >= 0
    BY <1>1, <1>4
  <1>5. ASSUME row <= Rows - 1 PROVE c * row <= c * Rows - c
    <2>1. Rows - 1 - row \in Nat
      BY <1>1, <1>5
    <2>2. c * (Rows - 1 - row) \in Nat
      BY <1>1, <2>1
    <2> QED BY <1>1, <2>2
  <1>6. ASSUME row >= Rows PROVE c * row >= c * Rows
    <2>1. row - Rows \in Nat
      BY <1>1, <1>6
    <2>2. c * (row - Rows) \in Nat
      BY <1>1, <2>1
    <2> QED BY <1>1, <2>2
  <1>7. ASSUME row < 0 PROVE c * row <= -c
    <2>1. -1 - row \in Nat
      BY <1>7
    <2>2. c * (-1 - row) \in Nat
      BY <1>1, <2>1
    <2> QED BY <1>1, <2>2
  <1> QED
    BY <1>1, <1>2, <1>3, <1>4, <1>5, <1>6, <1>7 DEF RowIds, Positions

LEMMA CellsCover ==
    ASSUME NEW p \in Positions
    PROVE  \E row \in RowIds, column \in ColumnIds : p = CellAt(row, column)
  <1> DEFINE c == Columns
  <1> DEFINE row == p \div c
  <1> DEFINE column == p % c
  <1>1. c \in Nat \ {0} /\ p \in Nat /\ p < CharBufSize /\ p \in Int
    BY Sizes DEF Positions
  <1>2. row \in Int /\ column \in 0..c - 1 /\ p = c * row + column
    BY <1>1
  <1> HIDE DEF row, column
  <1>3. p = CellAt(row, column) /\ column \in ColumnIds
    BY <1>2 DEF CellAt, ColumnIds
  <1>4. Rows \in Int
    BY Sizes
  <1>5. ~(row < 0) /\ ~(row >= Rows)
    <2>1. CharBufSize \in Int
      BY Sizes
    <2>2. /\ row < 0 => CellAt(row, column) < 0
          /\ row >= Rows => CellAt(row, column) >= CharBufSize
      BY <1>2, <1>3, CellBounds
    <2> QED
      BY <1>1, <1>3, <2>1, <2>2
  <1>6. row \in RowIds
    BY <1>2, <1>4, <1>5 DEF RowIds
  <1> QED
    BY <1>3, <1>6

\* The parts of a cell are unique.
LEMMA CellParts ==
    ASSUME NEW row \in RowIds, NEW column \in ColumnIds
    PROVE  /\ CellAt(row, column) \in Positions
           /\ CellAt(row, column) \div Columns = row
           /\ CellAt(row, column) % Columns = column
           /\ RowStart(CellAt(row, column)) = CellAt(row, 0)
  <1>1. Columns \in Nat \ {0} /\ row \in Int /\ column \in 0..Columns - 1
    BY Sizes DEF RowIds, ColumnIds
  <1>2. CellAt(row, column) \in Positions
    BY <1>1, CellBounds
  <1>3. (Columns * row + column) \div Columns = row /\ (Columns * row + column) % Columns = column
    BY <1>1, Divided
  <1>4. RowStart(CellAt(row, column)) = CellAt(row, 0)
    <2>1. CellAt(row, column) % Columns = column
      BY <1>3 DEF CellAt
    <2>2. RowStart(CellAt(row, column)) = CellAt(row, column) - column
      BY <2>1 DEF RowStart
    <2> DEFINE before == Columns * row
    <2>3. CellAt(row, column) = before + column /\ CellAt(row, 0) = before + 0 /\ before \in Int
      BY <1>1 DEF CellAt
    <2> HIDE DEF before
    <2>4. CellAt(row, column) - column = CellAt(row, 0)
      BY <1>1, <2>3
    <2> QED
      BY <2>2, <2>4
  <1> QED
    BY <1>2, <1>3, <1>4 DEF CellAt

LEMMA Wrapped ==
    ASSUME NEW n \in Nat \ {0}, NEW x \in Int
    PROVE  /\ x \in 0..n - 1 => x % n = x
           /\ x \in -n..-1 => x % n = x + n
           /\ x \in n..2 * n - 1 => x % n = x - n
  <1>1. ASSUME x \in 0..n - 1 PROVE x % n = x
    BY <1>1
  <1>2. ASSUME x \in -n..-1 PROVE x % n = x + n
    BY <1>2
  <1>3. ASSUME x \in n..2 * n - 1 PROVE x % n = x - n
    BY <1>3
  <1> QED
    BY <1>1, <1>2, <1>3

\* A row is moved by rows, and the screen is a ring of them.
LEMMA CellMoved ==
    ASSUME NEW row \in Int, NEW by \in Int, NEW column \in ColumnIds
    PROVE  /\ CellAt(row, column) + by * Columns = CellAt(row + by, column)
           /\ row \in RowIds => CellAt(row, column) % CharBufSize = CellAt(row, column)
           /\ row + Rows \in RowIds => CellAt(row, column) % CharBufSize = CellAt(row + Rows, column)
           /\ row - Rows \in RowIds => CellAt(row, column) % CharBufSize = CellAt(row - Rows, column)
  <1> DEFINE c == Columns
  <1> DEFINE n == CharBufSize
  <1>1. c \in Nat \ {0} /\ n \in Nat \ {0} /\ n = Rows * c /\ Rows \in Nat /\ column \in Int
    BY Sizes DEF ColumnIds, CharBufSize
  <1>2. CellAt(row, column) = c * row + column /\ CellAt(row + by, column) = c * (row + by) + column
        /\ CellAt(row + Rows, column) = c * (row + Rows) + column
        /\ CellAt(row - Rows, column) = c * (row - Rows) + column
    BY DEF CellAt
  <1> HIDE DEF c, n
  <1>3. c * (row + by) = c * row + by * c /\ c * (row + Rows) = c * row + n
        /\ c * (row - Rows) = c * row - n /\ c * row \in Int /\ by * c \in Int
    BY <1>1
  <1>4. CellAt(row, column) + by * c = CellAt(row + by, column)
    BY <1>1, <1>2, <1>3
  <1>5. CellAt(row, column) \in Int
        /\ CellAt(row + Rows, column) = CellAt(row, column) + n
        /\ CellAt(row - Rows, column) = CellAt(row, column) - n
    BY <1>1, <1>2, <1>3
  <1>6. ASSUME row \in RowIds PROVE CellAt(row, column) % n = CellAt(row, column)
    <2>1. CellAt(row, column) \in 0..n - 1
      BY <1>6, CellBounds DEF Positions, n
    <2> QED
      BY <1>1, <1>5, <2>1, Wrapped
  <1>7. ASSUME row + Rows \in RowIds PROVE CellAt(row, column) % n = CellAt(row + Rows, column)
    <2>1. CellAt(row + Rows, column) \in 0..n - 1
      BY <1>1, <1>7, CellBounds DEF Positions, n
    <2>2. CellAt(row, column) \in -n..-1
      BY <1>1, <1>5, <2>1
    <2> QED
      BY <1>1, <1>5, <2>2, Wrapped
  <1>8. ASSUME row - Rows \in RowIds PROVE CellAt(row, column) % n = CellAt(row - Rows, column)
    <2>1. CellAt(row - Rows, column) \in 0..n - 1
      BY <1>1, <1>8, CellBounds DEF Positions, n
    <2>2. CellAt(row, column) \in n..2 * n - 1
      BY <1>1, <1>5, <2>1
    <2> QED
      BY <1>1, <1>5, <2>2, Wrapped
  <1> QED
    BY <1>4, <1>6, <1>7, <1>8 DEF c, n

-------------------------------------------------------------------------------
(* Where the colours are. *)

LEMMA PlaceBounds ==
    ASSUME NEW row \in RowIds, NEW column \in ColumnIds
    PROVE  /\ Place(CellAt(row, column)) = (Columns + (Columns % WordCells)) * row + column
           /\ Place(CellAt(row, column)) \in Places
  <1> DEFINE c == Columns
  <1> DEFINE w == WordCells
  <1> DEFINE pad == c % w
  <1> DEFINE stride == c + pad
  <1> DEFINE width == LineWords * w
  <1>1. c \in Nat \ {0} /\ w \in Nat \ {0} /\ Rows \in Nat \ {0} /\ row \in 0..Rows - 1 /\ column \in 0..c - 1
    BY Sizes DEF RowIds, ColumnIds
  <1>2. pad \in 0..w - 1 /\ c \div w \in Nat /\ c = w * (c \div w) + pad /\ 2 * pad <= w
    BY <1>1, PaddingAssumption
  <1>3. width = w * (c \div w) + (IF pad > 0 THEN w ELSE 0)
    <2>1. LineWords = c \div w + (IF pad > 0 THEN 1 ELSE 0)
      BY DEF LineWords
    <2> HIDE DEF pad
    <2> QED
      BY <1>1, <1>2, <2>1
  <1>4. stride \in Nat \ {0} /\ stride >= c /\ width \in Nat /\ stride <= width
    <2> HIDE DEF pad, width
    <2>1. w * (c \div w) \in Nat
      BY <1>1, <1>2
    <2> QED
      BY <1>1, <1>2, <1>3, <2>1
  <1>5. Place(CellAt(row, column)) = c * row + column + row * pad
    BY CellParts DEF Place, CellAt
  <1> HIDE DEF pad
  <1>6. Place(CellAt(row, column)) = stride * row + column
    BY <1>1, <1>2, <1>5
  <1>7. stride * row \in Nat /\ stride * row + stride <= width * Rows
    <2> HIDE DEF stride, width
    <2>1. row \in Nat /\ Rows - 1 - row \in Nat
      BY <1>1
    <2>2. stride * row \in Nat /\ stride * (Rows - 1 - row) \in Nat
      BY <1>4, <2>1
    <2>3. stride * row + stride <= stride * Rows
      BY <1>1, <1>4, <2>2
    <2>4. (width - stride) * Rows \in Nat
      <3>1. width - stride \in Nat /\ Rows \in Nat
        BY <1>1, <1>4
      <3> QED
        BY <3>1
    <2>5. stride * Rows <= width * Rows
      BY <1>1, <1>4, <2>4
    <2>6. stride * Rows \in Int /\ width * Rows \in Int
      BY <1>1, <1>4
    <2> QED
      BY <1>4, <2>2, <2>3, <2>5, <2>6
  <1>8. Place(CellAt(row, column)) \in 0..width * Rows - 1
    <2> HIDE DEF stride, width
    <2>1. width * Rows \in Int
      BY <1>1, <1>4
    <2> QED
      BY <1>1, <1>4, <1>6, <1>7, <2>1
  <1> QED
    BY <1>6, <1>8 DEF Places, pad

\* No two positions have their colours in one place.
LEMMA PlaceUnique ==
    ASSUME NEW p \in Positions, NEW q \in Positions
    PROVE  Place(p) \in Places /\ (Place(p) = Place(q) => p = q)
  <1>1. PICK row \in RowIds, column \in ColumnIds : p = CellAt(row, column)
    BY CellsCover
  <1>2. PICK row2 \in RowIds, column2 \in ColumnIds : q = CellAt(row2, column2)
    BY CellsCover
  <1> DEFINE stride == Columns + (Columns % WordCells)
  <1>3. Place(p) = stride * row + column /\ Place(q) = stride * row2 + column2 /\ Place(p) \in Places
    BY <1>1, <1>2, PlaceBounds
  <1>4. stride \in Nat \ {0} /\ column \in 0..stride - 1 /\ column2 \in 0..stride - 1
        /\ row \in Int /\ row2 \in Int
    BY Sizes DEF RowIds, ColumnIds
  <1> HIDE DEF stride
  <1>5. Place(p) \div stride = row /\ Place(p) % stride = column
    BY <1>3, <1>4, Divided
  <1>6. Place(q) \div stride = row2 /\ Place(q) % stride = column2
    BY <1>3, <1>4, Divided
  <1> QED
    BY <1>1, <1>2, <1>3, <1>5, <1>6

-------------------------------------------------------------------------------
(* The roll. *)

Rolls == 1 - Rows..0
SeenFrom(roll, cell) == (cell - roll * Columns) % CharBufSize
ShownAt(roll, position) == (position + roll * Columns) % CharBufSize

\* A row of the buffer is seen as a row of the screen, and the other way round.
SeenRow(roll, row) == IF row - roll < Rows THEN row - roll ELSE row - roll - Rows
ShownRow(roll, row) == IF row + roll >= 0 THEN row + roll ELSE row + roll + Rows

LEMMA RowsRolled ==
    ASSUME NEW roll \in Rolls, NEW row \in RowIds, NEW column \in ColumnIds
    PROVE  /\ SeenFrom(roll, CellAt(row, column)) = CellAt(SeenRow(roll, row), column)
           /\ ShownAt(roll, CellAt(row, column)) = CellAt(ShownRow(roll, row), column)
           /\ SeenRow(roll, row) \in RowIds /\ ShownRow(roll, row) \in RowIds
           /\ SeenRow(roll, ShownRow(roll, row)) = row
           /\ ShownRow(roll, SeenRow(roll, row)) = row
  <1>1. Rows \in Nat \ {0} /\ row \in Int /\ roll \in Int /\ Columns \in Nat /\ CellAt(row, column) \in Int
    BY Sizes, CellBounds DEF RowIds, Rolls
  <1>2. /\ SeenRow(roll, row) \in RowIds /\ ShownRow(roll, row) \in RowIds
        /\ SeenRow(roll, ShownRow(roll, row)) = row
        /\ ShownRow(roll, SeenRow(roll, row)) = row
    BY <1>1 DEF RowIds, Rolls, SeenRow, ShownRow
  <1>3. SeenFrom(roll, CellAt(row, column)) = CellAt(SeenRow(roll, row), column)
    <2> DEFINE by == -roll
    <2>1. by \in Int /\ row + by = row - roll /\ row - roll \in Int
          /\ CellAt(row, column) - roll * Columns = CellAt(row, column) + by * Columns
      BY <1>1
    <2> HIDE DEF by
    <2>2. CellAt(row, column) + by * Columns = CellAt(row + by, column)
      BY <1>1, <2>1, CellMoved
    <2>3. CellAt(row, column) - roll * Columns = CellAt(row - roll, column)
      BY <2>1, <2>2
    <2>4. CASE row - roll < Rows
      <3>1. row - roll \in RowIds
        BY <1>2, <2>4 DEF SeenRow
      <3> QED
        BY <2>1, <2>3, <2>4, <3>1, CellMoved DEF SeenFrom, SeenRow
    <2>5. CASE ~(row - roll < Rows)
      <3>1. row - roll - Rows \in RowIds
        BY <1>2, <2>5 DEF SeenRow
      <3> QED
        BY <2>1, <2>3, <2>5, <3>1, CellMoved DEF SeenFrom, SeenRow
    <2> QED
      BY <2>4, <2>5
  <1>4. ShownAt(roll, CellAt(row, column)) = CellAt(ShownRow(roll, row), column)
    <2>1. CellAt(row, column) + roll * Columns = CellAt(row + roll, column)
      BY <1>1, CellMoved
    <2>2. row + roll \in Int
      BY <1>1
    <2>3. CASE row + roll >= 0
      <3>1. row + roll \in RowIds
        BY <1>2, <2>3 DEF ShownRow
      <3> QED
        BY <2>1, <2>2, <2>3, <3>1, CellMoved DEF ShownAt, ShownRow
    <2>4. CASE ~(row + roll >= 0)
      <3>1. row + roll + Rows \in RowIds
        BY <1>2, <2>4 DEF ShownRow
      <3> QED
        BY <2>1, <2>2, <2>4, <3>1, CellMoved DEF ShownAt, ShownRow
    <2> QED
      BY <2>3, <2>4
  <1> QED
    BY <1>2, <1>3, <1>4

LEMMA Ring ==
    ASSUME NEW roll \in Rolls, NEW p \in Positions
    PROVE  /\ SeenFrom(roll, p) \in Positions /\ ShownAt(roll, p) \in Positions
           /\ SeenFrom(roll, ShownAt(roll, p)) = p /\ ShownAt(roll, SeenFrom(roll, p)) = p
  <1>1. PICK row \in RowIds, column \in ColumnIds : p = CellAt(row, column)
    BY CellsCover
  <1>2. /\ SeenFrom(roll, p) = CellAt(SeenRow(roll, row), column)
        /\ ShownAt(roll, p) = CellAt(ShownRow(roll, row), column)
        /\ SeenRow(roll, row) \in RowIds /\ ShownRow(roll, row) \in RowIds
        /\ SeenRow(roll, ShownRow(roll, row)) = row
        /\ ShownRow(roll, SeenRow(roll, row)) = row
    BY <1>1, RowsRolled
  <1>3. SeenFrom(roll, CellAt(ShownRow(roll, row), column)) = CellAt(row, column)
    BY <1>2, RowsRolled
  <1>4. ShownAt(roll, CellAt(SeenRow(roll, row), column)) = CellAt(row, column)
    BY <1>2, RowsRolled
  <1> QED
    BY <1>1, <1>2, <1>3, <1>4, CellParts

-------------------------------------------------------------------------------
(* The colours without the cursor. *)

Pair == [fg : Colors, bg : Colors]
Buffers == [Places -> Pair]
Swapped(pair) == [fg |-> pair.bg, bg |-> pair.fg]

LEMMA FlipAt ==
    ASSUME NEW buf \in Buffers, NEW position \in Positions, NEW hidden \in BOOLEAN
    PROVE  LET flipped == CursorColorFlip(buf, position, hidden)
           IN  /\ flipped \in Buffers
               /\ CursorColorFlip(flipped, position, hidden) = buf
               /\ \A place \in Places :
                     flipped[place] = IF place = Place(position) /\ ~hidden
                                        THEN Swapped(buf[place]) ELSE buf[place]
  <1>1. CASE hidden
    BY <1>1 DEF CursorColorFlip
  <1>2. CASE ~hidden
    <2> DEFINE at == Place(position)
    <2> DEFINE flipped == [buf EXCEPT ![at] = Swapped(buf[at])]
    <2>1. at \in Places
      BY PlaceUnique
    <2> HIDE DEF at
    <2>2. buf[at] \in Pair /\ Swapped(buf[at]) \in Pair /\ Swapped(Swapped(buf[at])) = buf[at]
      BY <2>1 DEF Buffers, Pair, Swapped
    <2>3. flipped \in Buffers /\ flipped[at] = Swapped(buf[at])
      BY <2>1, <2>2 DEF Buffers
    <2>4. [flipped EXCEPT ![at] = Swapped(flipped[at])] = buf
      BY <2>1, <2>2, <2>3 DEF Buffers
    <2>5. \A place \in Places : flipped[place] = IF place = at THEN Swapped(buf[place]) ELSE buf[place]
      BY <2>1 DEF Buffers
    <2>6. CursorColorFlip(buf, position, hidden) = flipped
      BY <1>2 DEF CursorColorFlip, at, Swapped
    <2>7. CursorColorFlip(flipped, position, hidden) = [flipped EXCEPT ![at] = Swapped(flipped[at])]
      BY <1>2 DEF CursorColorFlip, at, Swapped
    <2> HIDE DEF flipped
    <2> QED
      BY <1>2, <2>3, <2>4, <2>5, <2>6, <2>7 DEF at
  <1> QED
    BY <1>1, <1>2

\* The colour buffer as it is when the cursor is lifted.
Plain == CursorColorFlip(colorbuf, cursor_pos, cursor_hidden)

ScreenOf(chars, colors, roll) ==
    [cell \in Positions |-> [char |-> chars[SeenFrom(roll, cell)],
                             color |-> colors[Place(SeenFrom(roll, cell))]]]

\* The screen of the refinement, of these parts of the state.
ScreenShown(chars, buf, position, hidden, roll) ==
    [cell \in Positions |->
       [char |-> chars[SeenFrom(roll, cell)],
        color |-> LET place == buf[Place(SeenFrom(roll, cell))]
                  IN  IF SeenFrom(roll, cell) = position /\ ~hidden
                        THEN [fg |-> place.bg, bg |-> place.fg] ELSE place]]

\* The changes a terminal makes to its screen.
CharPut(screen, cell, char) == [screen EXCEPT ![cell].char = char]
ColorPut(screen, cell, plane, color) ==
    IF plane = "fg" THEN [screen EXCEPT ![cell].color.fg = color]
                    ELSE [screen EXCEPT ![cell].color.bg = color]
RolledUp(screen) == [c \in Positions |-> screen[(c + Columns) % CharBufSize]]
RowBlank(screen, row) == [c \in Positions |-> IF c \div Columns = row THEN T!Blank ELSE screen[c]]

\* What is seen is the buffer without the cursor, turned by the roll.
LEMMA ScreenSeen ==
    ASSUME NEW chars, NEW buf \in Buffers, NEW position \in Positions, NEW hidden \in BOOLEAN,
           NEW roll \in Rolls
    PROVE  ScreenShown(chars, buf, position, hidden, roll)
           = ScreenOf(chars, CursorColorFlip(buf, position, hidden), roll)
  <1> DEFINE flipped == CursorColorFlip(buf, position, hidden)
  <1> DEFINE given(p) == IF p = position /\ ~hidden THEN Swapped(buf[Place(p)]) ELSE buf[Place(p)]
  <1>1. \A p \in Positions : flipped[Place(p)] = given(p)
    <2> TAKE p \in Positions
    <2>1. Place(p) \in Places /\ (Place(p) = Place(position) <=> p = position)
      BY PlaceUnique
    <2> QED
      BY <2>1, FlipAt
  <1>2. \A cell \in Positions : SeenFrom(roll, cell) \in Positions
    BY Ring
  <1> HIDE DEF flipped, given
  <1>3. \A cell \in Positions : flipped[Place(SeenFrom(roll, cell))] = given(SeenFrom(roll, cell))
    BY <1>1, <1>2
  <1>4. [cell \in Positions |-> [char |-> chars[SeenFrom(roll, cell)], color |-> given(SeenFrom(roll, cell))]]
        = ScreenOf(chars, flipped, roll)
    BY <1>3 DEF ScreenOf
  <1> QED
    BY <1>4 DEF flipped, given, ScreenShown, Swapped

LEMMA Written ==
    ASSUME NEW chars \in [Positions -> Chars], NEW colors, NEW roll \in Rolls,
           NEW p \in Positions, NEW char \in Chars
    PROVE  ScreenOf([chars EXCEPT ![p] = char], colors, roll)
           = CharPut(ScreenOf(chars, colors, roll), ShownAt(roll, p), char)
  <1> DEFINE at == ShownAt(roll, p)
  <1>1. at \in Positions
    BY Ring
  <1>2. \A cell \in Positions : SeenFrom(roll, cell) \in Positions /\ (SeenFrom(roll, cell) = p <=> cell = at)
    BY Ring
  <1> HIDE DEF at
  <1> QED
    BY <1>1, <1>2 DEF ScreenOf, CharPut, at

\* A colour is set at a position.
ColorSet(buf, position, plane, color) ==
    IF plane = "fg" THEN [buf EXCEPT ![Place(position)].fg = color]
                    ELSE [buf EXCEPT ![Place(position)].bg = color]

LEMMA Coloured ==
    ASSUME NEW chars, NEW colors \in Buffers, NEW roll \in Rolls,
           NEW p \in Positions, NEW plane, NEW color \in Colors
    PROVE  /\ ColorSet(colors, p, plane, color) \in Buffers
           /\ ScreenOf(chars, ColorSet(colors, p, plane, color), roll)
              = ColorPut(ScreenOf(chars, colors, roll), ShownAt(roll, p), plane, color)
  <1> DEFINE at == ShownAt(roll, p)
  <1> DEFINE here == Place(p)
  <1>1. at \in Positions /\ here \in Places
    BY Ring, PlaceUnique
  <1>2. \A cell \in Positions : Place(SeenFrom(roll, cell)) \in Places
                                /\ (Place(SeenFrom(roll, cell)) = here <=> cell = at)
    BY Ring, PlaceUnique
  <1> HIDE DEF at, here
  <1>3. [colors EXCEPT ![here].fg = color] \in Buffers /\ [colors EXCEPT ![here].bg = color] \in Buffers
    BY <1>1 DEF Buffers, Pair
  <1>4. ScreenOf(chars, [colors EXCEPT ![here].fg = color], roll)
        = [ScreenOf(chars, colors, roll) EXCEPT ![at].color.fg = color]
    BY <1>1, <1>2 DEF ScreenOf, Buffers, Pair
  <1>5. ScreenOf(chars, [colors EXCEPT ![here].bg = color], roll)
        = [ScreenOf(chars, colors, roll) EXCEPT ![at].color.bg = color]
    BY <1>1, <1>2 DEF ScreenOf, Buffers, Pair
  <1> QED
    BY <1>3, <1>4, <1>5 DEF ColorPut, ColorSet, at, here

-------------------------------------------------------------------------------
(* Rows. *)

\* The row below, around the ring.
Below(row) == IF row + 1 = Rows THEN 0 ELSE row + 1

LEMMA RowsBelow ==
    ASSUME NEW row \in RowIds, NEW column \in ColumnIds
    PROVE  /\ Below(row) \in RowIds
           /\ ((CellAt(row, column) + Columns) % CharBufSize) = CellAt(Below(row), column)
           /\ column < Columns - 1 =>
                 /\ column + 1 \in ColumnIds
                 /\ CellAt(row, column) + 1 = CellAt(row, column + 1)
                 /\ ((CellAt(row, column) + 1) % CharBufSize) = CellAt(row, column + 1)
           /\ column = Columns - 1 =>
                 /\ CellAt(row, column) + 1 = CellAt(row + 1, 0)
                 /\ ((CellAt(row, column) + 1) % CharBufSize) = CellAt(Below(row), 0)
  <1>1. Rows \in Nat \ {0} /\ Columns \in Nat \ {0} /\ row \in Int /\ column \in Int
        /\ 1 \in Int /\ 0 \in ColumnIds /\ CellAt(row, column) \in Int /\ 1 * Columns = Columns
    BY Sizes, CellBounds DEF RowIds, ColumnIds
  <1>2. Below(row) \in RowIds
    BY <1>1 DEF Below, RowIds
  <1>3. row + 1 \in Int /\ (row + 1 = Rows => row + 1 - Rows = 0) /\ (row + 1 # Rows => row + 1 \in RowIds)
        /\ 0 \in RowIds
    BY <1>1 DEF RowIds
  <1>4. ASSUME NEW at \in ColumnIds PROVE (CellAt(row + 1, at) % CharBufSize) = CellAt(Below(row), at)
    <2>1. CASE row + 1 = Rows
      <3>1. row + 1 - Rows = 0
        BY <1>3, <2>1
      <3>2. row + 1 - Rows \in RowIds => (CellAt(row + 1, at) % CharBufSize) = CellAt(row + 1 - Rows, at)
        BY <1>1, <1>3, CellMoved
      <3> QED
        BY <1>3, <2>1, <3>1, <3>2 DEF Below
    <2>2. CASE row + 1 # Rows
      <3>1. (CellAt(row + 1, at) % CharBufSize) = CellAt(row + 1, at)
        BY <1>1, <1>3, <2>2, CellMoved
      <3> QED
        BY <2>2, <3>1 DEF Below
    <2> QED
      BY <2>1, <2>2
  <1>5. ((CellAt(row, column) + Columns) % CharBufSize) = CellAt(Below(row), column)
    <2>1. CellAt(row, column) + 1 * Columns = CellAt(row + 1, column)
      BY <1>1, CellMoved
    <2> QED
      BY <1>1, <1>4, <2>1
  <1>6. ASSUME column < Columns - 1
        PROVE  /\ column + 1 \in ColumnIds
               /\ CellAt(row, column) + 1 = CellAt(row, column + 1)
               /\ ((CellAt(row, column) + 1) % CharBufSize) = CellAt(row, column + 1)
    <2>1. column + 1 \in ColumnIds
      BY <1>1, <1>6 DEF ColumnIds
    <2> DEFINE before == Columns * row
    <2>2. CellAt(row, column) = before + column /\ CellAt(row, column + 1) = before + (column + 1) /\ before \in Int
      BY <1>1 DEF CellAt
    <2> HIDE DEF before
    <2>3. CellAt(row, column) + 1 = CellAt(row, column + 1)
      BY <1>1, <2>2
    <2>4. (CellAt(row, column + 1) % CharBufSize) = CellAt(row, column + 1)
      BY <1>1, <2>1, CellMoved
    <2> QED
      BY <2>1, <2>3, <2>4
  <1>7. ASSUME column = Columns - 1
        PROVE  /\ CellAt(row, column) + 1 = CellAt(row + 1, 0)
               /\ ((CellAt(row, column) + 1) % CharBufSize) = CellAt(Below(row), 0)
    <2> DEFINE c == Columns
    <2>1. CellAt(row, column) = c * row + column /\ CellAt(row + 1, 0) = c * (row + 1) + 0 /\ column = c - 1 /\ c \in Nat
      BY <1>1, <1>7 DEF CellAt
    <2> HIDE DEF c
    <2>2. c * (row + 1) = c * row + c /\ c * row \in Int
      BY <1>1, <2>1
    <2>3. CellAt(row, column) + 1 = CellAt(row + 1, 0)
      BY <1>1, <2>1, <2>2
    <2> QED
      BY <1>1, <1>4, <2>3
  <1> QED
    BY <1>2, <1>5, <1>6, <1>7

\* What a roll does to the rows, and where it is due.
LEMMA RowsRollUp ==
    ASSUME NEW roll \in Rolls, NEW row \in RowIds
    PROVE  /\ RollUp(roll) \in Rolls
           /\ SeenRow(RollUp(roll), row) = SeenRow(roll, Below(row))
           /\ Below(ShownRow(RollUp(roll), row)) = ShownRow(roll, row)
           /\ ShownRow(roll, Below(row)) = Below(ShownRow(roll, row))
           /\ ShownRow(RollUp(roll), Below(row)) = ShownRow(roll, row)
           /\ ShownRow(roll, row) = Rows - 1 <=> Below(row) = ((Rows - roll) % Rows)
           /\ ShownRow(roll, row) = Rows - 1 <=> row = ((Rows - 1 - roll) % Rows)
  <1>1. Rows \in Nat \ {0} /\ row \in 0..Rows - 1 /\ roll \in 1 - Rows..0 /\ roll \in Int
    BY Sizes DEF RowIds, Rolls
  <1>2. ((Rows - roll) % Rows) = IF roll = 0 THEN 0 ELSE -roll
    <2>1. roll = 0 => ((Rows - roll) % Rows) = 0
      BY <1>1
    <2>2. roll # 0 => ((Rows - roll) % Rows) = Rows - roll - Rows
      <3>1. Rows - roll \in Int /\ (roll # 0 => Rows - roll \in Rows..2 * Rows - 1)
        BY <1>1
      <3> QED
        BY <1>1, <3>1, Wrapped
    <2> QED
      BY <1>1, <2>1, <2>2
  <1>3. ((Rows - 1 - roll) % Rows) = IF roll = 0 THEN Rows - 1 ELSE -roll - 1
    <2>1. Rows - 1 - roll \in Int
      BY <1>1
    <2>2. CASE roll = 0
      <3>1. Rows - 1 - roll \in 0..Rows - 1
        BY <1>1, <2>2
      <3> QED
        BY <1>1, <2>1, <2>2, <3>1, Wrapped
    <2>3. CASE roll # 0
      <3> DEFINE x == Rows - 1 - roll
      <3>1. x \in Int /\ x \in Rows..2 * Rows - 1 /\ x - Rows = -roll - 1
        BY <1>1, <2>3
      <3> HIDE DEF x
      <3>2. (x % Rows) = -roll - 1
        BY <1>1, <3>1, Wrapped
      <3> QED
        BY <2>3, <3>2 DEF x
    <2> QED
      BY <2>2, <2>3
  <1>4. RollUp(roll) \in Rolls
    BY <1>1 DEF RollUp, Rolls
  <1>5. SeenRow(RollUp(roll), row) = SeenRow(roll, Below(row))
    BY <1>1 DEF RollUp, SeenRow, Below
  <1>6. Below(ShownRow(RollUp(roll), row)) = ShownRow(roll, row)
    BY <1>1 DEF RollUp, ShownRow, Below
  <1>7. ShownRow(roll, Below(row)) = Below(ShownRow(roll, row))
    BY <1>1 DEF ShownRow, Below
  <1>8. ShownRow(RollUp(roll), Below(row)) = ShownRow(roll, row)
    BY <1>1 DEF RollUp, ShownRow, Below
  <1>9. ShownRow(roll, row) = Rows - 1 <=> Below(row) = IF roll = 0 THEN 0 ELSE -roll
    BY <1>1 DEF ShownRow, Below
  <1>10. ShownRow(roll, row) = Rows - 1 <=> row = IF roll = 0 THEN Rows - 1 ELSE -roll - 1
    BY <1>1 DEF ShownRow
  <1> QED
    BY <1>2, <1>3, <1>4, <1>5, <1>6, <1>7, <1>8, <1>9, <1>10

\* Rolling up is scrolling.
LEMMA Scrolls ==
    ASSUME NEW chars, NEW colors, NEW roll \in Rolls
    PROVE  ScreenOf(chars, colors, RollUp(roll))
           = RolledUp(ScreenOf(chars, colors, roll))
  <1>1. ASSUME NEW c \in Positions
        PROVE  /\ ((c + Columns) % CharBufSize) \in Positions
               /\ SeenFrom(RollUp(roll), c) = SeenFrom(roll, (c + Columns) % CharBufSize)
    <2>1. PICK row \in RowIds, column \in ColumnIds : c = CellAt(row, column)
      BY CellsCover
    <2>2. ((c + Columns) % CharBufSize) = CellAt(Below(row), column) /\ Below(row) \in RowIds
      BY <2>1, RowsBelow
    <2>3. SeenFrom(roll, CellAt(Below(row), column)) = CellAt(SeenRow(roll, Below(row)), column)
      BY <2>2, RowsRolled
    <2>4. SeenFrom(RollUp(roll), c) = CellAt(SeenRow(RollUp(roll), row), column)
      BY <2>1, RowsRollUp, RowsRolled
    <2>5. SeenRow(RollUp(roll), row) = SeenRow(roll, Below(row))
      BY RowsRollUp
    <2> QED
      BY <2>2, <2>3, <2>4, <2>5, CellParts
  <1> QED
    BY <1>1 DEF ScreenOf, RolledUp

\* The positions of a row.
LEMMA RowSpan ==
    ASSUME NEW row \in RowIds, NEW r \in RowIds, NEW column \in ColumnIds
    PROVE  /\ CellAt(r, column) \in CellAt(row, 0)..CellAt(row, 0) + Columns - 1 <=> r = row
           /\ CellAt(row, 0) + column = CellAt(row, column)
  <1>1. Columns \in Nat \ {0} /\ row \in Int /\ r \in Int /\ column \in 0..Columns - 1 /\ 0 \in ColumnIds
    BY Sizes DEF RowIds, ColumnIds
  <1>2. CellAt(row, 0) \in Int /\ CellAt(r, column) \in Int
    BY <1>1, CellBounds
  <1>3. ASSUME NEW at \in ColumnIds PROVE CellAt(row, 0) + at = CellAt(row, at)
    <2> DEFINE before == Columns * row
    <2>1. CellAt(row, 0) = before + 0 /\ CellAt(row, at) = before + at /\ before \in Int /\ at \in Int
      BY <1>1 DEF CellAt, ColumnIds
    <2> HIDE DEF before
    <2> QED
      BY <2>1
  <1>4. ASSUME r = row PROVE CellAt(r, column) \in CellAt(row, 0)..CellAt(row, 0) + Columns - 1
    BY <1>1, <1>2, <1>3, <1>4
  <1>5. ASSUME CellAt(r, column) \in CellAt(row, 0)..CellAt(row, 0) + Columns - 1 PROVE r = row
    <2> DEFINE at == CellAt(r, column) - CellAt(row, 0)
    <2>1. at \in ColumnIds /\ CellAt(row, 0) + at = CellAt(r, column)
      BY <1>1, <1>2, <1>5 DEF ColumnIds
    <2>2. CellAt(r, column) = CellAt(row, at)
      BY <1>3, <2>1
    <2> HIDE DEF at
    <2> QED
      BY <2>1, <2>2, CellParts
  <1> QED
    BY <1>3, <1>4, <1>5

LEMMA PlacesOfRow ==
    ASSUME NEW row \in RowIds, NEW r \in RowIds, NEW column \in ColumnIds
    PROVE  r = row <=> \E at \in 0..Columns - 1 : Place(CellAt(r, column)) = Place(CellAt(row, 0) + at)
  <1>1. \A at \in ColumnIds : CellAt(row, 0) + at = CellAt(row, at) /\ CellAt(row, at) \in Positions
    BY RowSpan, CellParts
  <1>2. \A at \in ColumnIds : Place(CellAt(r, column)) = Place(CellAt(row, at)) => CellAt(r, column) = CellAt(row, at)
    BY <1>1, PlaceUnique, CellParts
  <1>3. \A at \in ColumnIds : CellAt(r, column) = CellAt(row, at) => r = row
    BY CellParts
  <1> QED
    BY <1>1, <1>2, <1>3 DEF ColumnIds

\* A row of both buffers is cleared.
LEMMA Cleared ==
    ASSUME NEW chars \in [Positions -> Chars], NEW colors \in Buffers, NEW roll \in Rolls, NEW row \in RowIds
    PROVE  LET start == CellAt(row, 0)
               spaces == [p \in Positions |-> IF p \in start..start + Columns - 1 THEN Space ELSE chars[p]]
           IN  /\ spaces \in [Positions -> Chars]
               /\ RowWhiteOnBlack(colors, start) \in Buffers
               /\ ScreenOf(spaces, RowWhiteOnBlack(colors, start), roll)
                  = RowBlank(ScreenOf(chars, colors, roll), ShownRow(roll, row))
  <1> DEFINE start == CellAt(row, 0)
  <1> DEFINE spaces == [p \in Positions |-> IF p \in start..start + Columns - 1 THEN Space ELSE chars[p]]
  <1> DEFINE white == RowWhiteOnBlack(colors, start)
  <1>1. spaces \in [Positions -> Chars]
    BY CharsAssumption
  <1>2. white \in Buffers
    BY ColorsAssumption DEF RowWhiteOnBlack, Buffers, Pair
  <1>3. ASSUME NEW c \in Positions
        PROVE  LET p == SeenFrom(roll, c)
               IN  /\ p \in Positions /\ Place(p) \in Places
                   /\ p \in start..start + Columns - 1 <=> c \div Columns = ShownRow(roll, row)
                   /\ (\E at \in 0..Columns - 1 : Place(p) = Place(start + at))
                      <=> c \div Columns = ShownRow(roll, row)
    <2>1. PICK r \in RowIds, column \in ColumnIds : c = CellAt(r, column)
      BY CellsCover
    <2>2. SeenFrom(roll, c) = CellAt(SeenRow(roll, r), column) /\ SeenRow(roll, r) \in RowIds
          /\ ShownRow(roll, SeenRow(roll, r)) = r /\ SeenRow(roll, ShownRow(roll, row)) = row
      BY <2>1, RowsRolled
    <2>3. c \div Columns = r
      BY <2>1, CellParts
    <2>4. SeenRow(roll, r) = row <=> c \div Columns = ShownRow(roll, row)
      BY <2>2, <2>3
    <2>5. SeenFrom(roll, c) \in start..start + Columns - 1 <=> SeenRow(roll, r) = row
      BY <2>2, RowSpan
    <2>6. (\E at \in 0..Columns - 1 : Place(SeenFrom(roll, c)) = Place(start + at)) <=> SeenRow(roll, r) = row
      BY <2>2, PlacesOfRow
    <2>7. SeenFrom(roll, c) \in Positions /\ Place(SeenFrom(roll, c)) \in Places
      BY Ring, PlaceUnique
    <2> HIDE DEF start
    <2> QED
      BY <2>4, <2>5, <2>6, <2>7
  <1>4. \A c \in Positions :
           /\ spaces[SeenFrom(roll, c)] = IF c \div Columns = ShownRow(roll, row) THEN Space ELSE chars[SeenFrom(roll, c)]
           /\ white[Place(SeenFrom(roll, c))] = IF c \div Columns = ShownRow(roll, row)
                                                 THEN [fg |-> White, bg |-> Black]
                                                 ELSE colors[Place(SeenFrom(roll, c))]
    <2> HIDE DEF start
    <2> QED
      BY <1>3 DEF RowWhiteOnBlack
  <1> HIDE DEF spaces, white, start
  <1>5. ScreenOf(spaces, white, roll)
        = [c \in Positions |-> IF c \div Columns = ShownRow(roll, row)
                                 THEN T!Blank ELSE ScreenOf(chars, colors, roll)[c]]
    BY <1>4 DEF ScreenOf, T!Blank
  <1> QED
    BY <1>1, <1>2, <1>5 DEF RowBlank, spaces, white, start

\* The flip at a cell of the row does not survive its clearing.
LEMMA ClearedFlip ==
    ASSUME NEW buf \in Buffers, NEW row \in RowIds, NEW column \in ColumnIds, NEW hidden \in BOOLEAN
    PROVE  RowWhiteOnBlack(buf, CellAt(row, 0))
           = RowWhiteOnBlack(CursorColorFlip(buf, CellAt(row, column), hidden), CellAt(row, 0))
  <1> DEFINE flipped == CursorColorFlip(buf, CellAt(row, column), hidden)
  <1>1. \E at \in 0..Columns - 1 : Place(CellAt(row, column)) = Place(CellAt(row, 0) + at)
    BY PlacesOfRow
  <1>2. \A p \in Places : p # Place(CellAt(row, column)) => flipped[p] = buf[p]
    BY FlipAt, CellParts
  <1> HIDE DEF flipped
  <1>3. \A p \in Places : ~(\E at \in 0..Columns - 1 : p = Place(CellAt(row, 0) + at)) => flipped[p] = buf[p]
    BY <1>1, <1>2
  <1>4. RowWhiteOnBlack(buf, CellAt(row, 0)) = RowWhiteOnBlack(flipped, CellAt(row, 0))
    BY <1>3 DEF RowWhiteOnBlack
  <1> QED
    BY <1>4 DEF flipped

-------------------------------------------------------------------------------
(* The types. *)

LEMMA TypesGiven ==
    TypeOK <=>
      /\ charbuf \in [Positions -> Chars] /\ colorbuf \in Buffers
      /\ cursor_pos \in Positions /\ cursor_pos_high \in 0..DataSize - 1
      /\ cursor_hidden \in BOOLEAN /\ row_roll \in Rolls
  BY DEF TypeOK, Buffers, Pair, Rolls

\* Clearing the screen gives buffers.
LEMMA Spaces ==
    /\ AllSpaces \in [Positions -> Chars] /\ AllWhiteOnBlack \in Buffers
    /\ 0 \in Positions /\ 0 \in Rolls
  BY Sizes, CharsAssumption, ColorsAssumption
     DEF AllSpaces, AllWhiteOnBlack, Buffers, Pair, Positions, Rolls

\* A move stays in the buffers and does not show in the colours.
LEMMA Moved ==
    ASSUME TypeOK, NEW position \in Positions, MoveTo(position)
    PROVE  /\ cursor_pos' = position
           /\ colorbuf' = CursorColorFlip(Plain, position, cursor_hidden)
           /\ colorbuf' \in Buffers /\ Plain \in Buffers
           /\ CursorColorFlip(colorbuf', position, cursor_hidden) = Plain
  <1>1. colorbuf \in Buffers /\ cursor_pos \in Positions /\ cursor_hidden \in BOOLEAN
    BY TypesGiven
  <1>2. Plain \in Buffers
    BY <1>1, FlipAt DEF Plain
  <1>3. colorbuf' = CursorColorFlip(Plain, position, cursor_hidden)
    BY DEF MoveTo, Plain
  <1> HIDE DEF Plain
  <1> QED
    BY <1>1, <1>2, <1>3, FlipAt DEF MoveTo

\* Where the moves go.
LEMMA Targets ==
    ASSUME NEW p \in Positions
    PROVE  /\ ((p + 1) % CharBufSize) \in Positions
           /\ \A delta \in Int : ((p + delta) % CharBufSize) \in Positions
           /\ RowStart(p) \in Positions
           /\ ((RowStart(p) + Columns) % CharBufSize) \in Positions
           /\ \A data \in Nat : /\ RowStart(p) + (data % Columns) \in Positions
                                /\ (data % Rows) * Columns + (p % Columns) \in Positions
  <1>1. PICK row \in RowIds, column \in ColumnIds : p = CellAt(row, column)
    BY CellsCover
  <1>2. Rows \in Nat \ {0} /\ Columns \in Nat \ {0} /\ CharBufSize \in Nat \ {0} /\ 0 \in ColumnIds /\ p \in Int
    BY Sizes DEF ColumnIds, Positions
  <1>3. RowStart(p) = CellAt(row, 0) /\ CellAt(row, 0) \in Positions /\ (p % Columns) = column
    BY <1>1, <1>2, CellParts
  <1>4. ASSUME NEW x \in Int PROVE (x % CharBufSize) \in Positions
    BY <1>2 DEF Positions
  <1>5. \A delta \in Int : p + delta \in Int
    BY <1>2
  <1>6. CellAt(row, 0) + Columns \in Int /\ 1 \in Int
    BY <1>2, <1>3 DEF Positions
  <1>7. ASSUME NEW data \in Nat
        PROVE  /\ RowStart(p) + (data % Columns) \in Positions
               /\ (data % Rows) * Columns + (p % Columns) \in Positions
    <2>1. (data % Columns) \in ColumnIds /\ (data % Rows) \in RowIds
      BY <1>2 DEF ColumnIds, RowIds
    <2>2. RowStart(p) + (data % Columns) = CellAt(row, data % Columns)
      BY <1>3, <2>1, RowSpan
    <2>3. (data % Rows) * Columns + column = CellAt(data % Rows, column)
      <3> DEFINE r == data % Rows
      <3>1. r \in Int /\ Columns \in Int
        BY <1>2
      <3> HIDE DEF r
      <3>2. r * Columns = Columns * r
        BY <3>1
      <3> QED
        BY <3>2 DEF CellAt, r
    <2> QED
      BY <1>3, <2>1, <2>2, <2>3, CellParts
  <1> QED
    BY <1>3, <1>4, <1>5, <1>6, <1>7

LEMMA WholeDeltas == \A delta \in Deltas : delta \in Int
  BY DeltasAssumption

\* Every command keeps the types: above all, the cursor stays in the buffer.
THEOREM TypeCorrect == Spec => []TypeOK
  <1>1. Init => TypeOK
    <2> SUFFICES ASSUME Init PROVE TypeOK
      OBVIOUS
    <2>1. colorbuf \in Buffers
      BY Spaces, FlipAt DEF Init
    <2>2. cursor_pos_high \in 0..DataSize - 1
      BY SizesAssumption DEF Init
    <2> QED
      BY <2>1, <2>2, Spaces, TypesGiven DEF Init
  <1>2. TypeOK /\ [Next]_vars => TypeOK'
    <2> SUFFICES ASSUME TypeOK, [Next]_vars PROVE TypeOK'
      OBVIOUS
    <2>1. /\ charbuf \in [Positions -> Chars] /\ colorbuf \in Buffers
          /\ cursor_pos \in Positions /\ cursor_pos_high \in 0..DataSize - 1
          /\ cursor_hidden \in BOOLEAN /\ row_roll \in Rolls
          /\ Plain \in Buffers
      BY TypesGiven, FlipAt DEF Plain
    <2> SUFFICES /\ charbuf' \in [Positions -> Chars] /\ colorbuf' \in Buffers
                 /\ cursor_pos' \in Positions /\ cursor_pos_high' \in 0..DataSize - 1
                 /\ cursor_hidden' \in BOOLEAN /\ row_roll' \in Rolls
      BY DEF TypeOK, Buffers, Pair, Rolls
    <2> DEFINE start == RowStart(cursor_pos)
    <2>2. /\ ((cursor_pos + 1) % CharBufSize) \in Positions
          /\ start \in Positions /\ ((start + Columns) % CharBufSize) \in Positions
      BY <2>1, Targets
    <2>3. \A position \in Positions : /\ RowSpaces(position) \in [Positions -> Chars]
                                      /\ RowWhiteOnBlack(colorbuf, position) \in Buffers
                                      /\ RowWhiteOnBlack(Plain, position) \in Buffers
      BY <2>1, CharsAssumption, ColorsAssumption DEF RowSpaces, RowWhiteOnBlack, Buffers, Pair
    <2>4. RollUp(row_roll) \in Rolls
      BY <2>1, Sizes DEF RollUp, Rolls
    <2>5. ASSUME NEW char \in Chars, Command0(char) PROVE TypeOK'
      <3>1. MoveTo((cursor_pos + 1) % CharBufSize)
        BY <2>5 DEF Command0
      <3>2. cursor_pos' \in Positions /\ colorbuf' \in Buffers
        BY <2>2, <3>1, Moved
      <3>3. charbuf' \in [Positions -> Chars] /\ row_roll' \in Rolls
            /\ UNCHANGED <<cursor_pos_high, cursor_hidden>>
        BY <2>1, <2>4, <2>5 DEF Command0
      <3> QED
        BY <2>1, <3>2, <3>3 DEF TypeOK, Buffers, Pair, Rolls
    <2>6. ASSUME NEW char \in Chars, Command3(char) PROVE TypeOK'
      BY <2>1, <2>6 DEF Command3, TypeOK, Buffers, Pair, Rolls
    <2>7. CASE Command1Screen
      <3>1. colorbuf' \in Buffers
        BY <2>1, <2>7, Spaces, FlipAt DEF Command1Screen
      <3> QED
        BY <2>1, <2>7, <3>1, Spaces DEF Command1Screen
    <2>8. CASE Command1Row
      <3>1. colorbuf' \in Buffers
        BY <2>1, <2>2, <2>3, <2>8, FlipAt DEF Command1Row
      <3> QED
        BY <2>1, <2>2, <2>3, <2>8, <3>1 DEF Command1Row
    <2>9. CASE Command1NextRow
      <3> DEFINE then == (start + Columns) % CharBufSize
      <3>1. charbuf' = RowSpaces(then) /\ cursor_pos' = then /\ UNCHANGED <<cursor_pos_high, cursor_hidden>>
            /\ colorbuf' = CursorColorFlip(RowWhiteOnBlack(Plain, then), then, cursor_hidden)
            /\ row_roll' \in Rolls
        BY <2>1, <2>4, <2>9 DEF Command1NextRow, Plain
      <3>2. then \in Positions
        BY <2>2
      <3> HIDE DEF then
      <3>3. colorbuf' \in Buffers
        BY <2>1, <2>3, <3>1, <3>2, FlipAt
      <3> QED
        BY <2>1, <2>3, <3>1, <3>2, <3>3
    <2>10. ASSUME NEW delta \in Deltas, Command2(delta) PROVE TypeOK'
      <3>1. ((cursor_pos + delta) % CharBufSize) \in Positions
        BY <2>1, Targets, WholeDeltas
      <3>2. cursor_pos' \in Positions /\ colorbuf' \in Buffers
        BY <2>10, <3>1, Moved DEF Command2
      <3> QED
        BY <2>1, <2>10, <3>2 DEF Command2, TypeOK, Buffers, Pair, Rolls
    <2>11. ASSUME NEW data \in Data,
                  Command4(data) \/ Command5(data) \/ Command6(data) \/ Command7(data) \/ Command8(data)
           PROVE  TypeOK'
      <3>1. data \in Nat /\ data \in 0..DataSize - 1
        BY SizesAssumption DEF Data
      <3>2. CASE Command4(data)
        <4>1. cursor_pos' \in Positions /\ colorbuf' \in Buffers
          BY <2>1, <3>1, <3>2, Targets, Moved DEF Command4
        <4> QED
          BY <2>1, <3>2, <4>1 DEF Command4, TypeOK, Buffers, Pair, Rolls
      <3>3. CASE Command5(data)
        <4>1. cursor_pos' \in Positions /\ colorbuf' \in Buffers
          BY <2>1, <3>1, <3>3, Targets, Moved DEF Command5
        <4> QED
          BY <2>1, <3>3, <4>1 DEF Command5, TypeOK, Buffers, Pair, Rolls
      <3>4. CASE Command6(data)
        BY <2>1, <3>1, <3>4 DEF Command6, TypeOK, Buffers, Pair, Rolls
      <3>5. CASE Command7(data)
        <4>1. cursor_pos' \in Positions /\ colorbuf' \in Buffers
          BY <3>5, Moved DEF Command7
        <4> QED
          BY <2>1, <3>5, <4>1 DEF Command7, TypeOK, Buffers, Pair, Rolls
      <3>6. CASE Command8(data)
        <4>1. colorbuf' = CursorColorFlip(Plain, cursor_pos, cursor_hidden') /\ cursor_hidden' \in BOOLEAN
          BY <3>6 DEF Command8, Plain
        <4>2. colorbuf' \in Buffers
          BY <2>1, <4>1, FlipAt
        <4> QED
          BY <2>1, <3>6, <4>1, <4>2 DEF Command8, TypeOK, Buffers, Pair, Rolls
      <3> QED
        BY <2>11, <3>2, <3>3, <3>4, <3>5, <3>6
    <2>12. ASSUME NEW plane \in Planes, NEW color \in Colors, NEW advance \in BOOLEAN,
                  Command9(plane, color, advance)
           PROVE  TypeOK'
      <3> DEFINE then == IF advance THEN (cursor_pos + 1) % CharBufSize ELSE cursor_pos
      <3> DEFINE set == ColorSet(Plain, cursor_pos, plane, color)
      <3>1. then \in Positions
        BY <2>1, <2>2
      <3>2. set \in Buffers
        BY <2>1, Coloured
      <3>3. colorbuf' = CursorColorFlip(set, then, cursor_hidden) /\ cursor_pos' = then
            /\ UNCHANGED <<charbuf, cursor_pos_high, cursor_hidden, row_roll>>
        BY <2>12 DEF Command9, Plain, ColorSet
      <3> HIDE DEF then, set
      <3>4. colorbuf' \in Buffers
        BY <2>1, <3>1, <3>2, <3>3, FlipAt
      <3> QED
        BY <2>1, <3>1, <3>3, <3>4 DEF TypeOK, Buffers, Pair, Rolls
    <2>13. CASE UNCHANGED vars
      BY <2>1, <2>13 DEF vars
    <2>14. CASE Next
      BY <2>5, <2>6, <2>7, <2>8, <2>9, <2>10, <2>11, <2>12, <2>14
         DEF Next, TypeOK, Buffers, Pair, Rolls
    <2> QED
      BY <2>13, <2>14
  <1> QED
    BY <1>1, <1>2, PTL DEF Spec

-------------------------------------------------------------------------------
(* The terminal. *)

\* Turning and moving a ring commute.
LEMMA ModPlusMod ==
    ASSUME NEW n \in Nat \ {0}, NEW x \in Int, NEW a \in Int, NEW b \in Int
    PROVE  ((((x + a) % n) + b) % n) = ((((x + b) % n) + a) % n)
  <1>1. PICK q \in Int, r \in 0..n - 1 : x + a = n * q + r /\ ((x + a) % n) = r
    <2> DEFINE quotient == (x + a) \div n
    <2> DEFINE rest == (x + a) % n
    <2>1. quotient \in Int /\ rest \in 0..n - 1 /\ x + a = n * quotient + rest
      OBVIOUS
    <2> QED
      BY <2>1
  <1>2. PICK q2 \in Int, r2 \in 0..n - 1 : x + b = n * q2 + r2 /\ ((x + b) % n) = r2
    <2> DEFINE quotient == (x + b) \div n
    <2> DEFINE rest == (x + b) % n
    <2>1. quotient \in Int /\ rest \in 0..n - 1 /\ x + b = n * quotient + rest
      OBVIOUS
    <2> QED
      BY <2>1
  <1>3. \A y \in Int, d \in Int : ((n * d + y) % n) = (y % n)
    <2> TAKE y \in Int, d \in Int
    <2> DEFINE quotient == y \div n
    <2> DEFINE rest == y % n
    <2>1. quotient \in Int /\ rest \in 0..n - 1 /\ y = n * quotient + rest
      OBVIOUS
    <2> HIDE DEF quotient
    <2> HIDE DEF rest
    <2>2. n * d + y = n * (d + quotient) + rest /\ d + quotient \in Int
      BY <2>1
    <2>3. ((n * (d + quotient) + rest) % n) = rest
      BY <2>1, <2>2, Divided
    <2> QED
      BY <2>2, <2>3 DEF rest
  <1> DEFINE d == q2 - q
  <1>4. d \in Int /\ r + b = n * d + (r2 + a) /\ r2 + a \in Int
    <2>1. n * d = n * q2 - n * q /\ n * q \in Int /\ n * q2 \in Int /\ d \in Int
      OBVIOUS
    <2> QED
      BY <1>1, <1>2, <2>1
  <1> HIDE DEF d
  <1>5. ((r + b) % n) = ((r2 + a) % n)
    BY <1>3, <1>4, ZenonT(40)
  <1> QED
    BY <1>1, <1>2, <1>5

LEMMA TerminalGiven ==
    ASSUME TypeOK
    PROVE  /\ Plain \in Buffers
           /\ Screen = ScreenOf(charbuf, Plain, row_roll)
           /\ Cursor = ShownAt(row_roll, cursor_pos)
           /\ Cursor \in Positions
  <1>1. colorbuf \in Buffers /\ cursor_pos \in Positions /\ cursor_hidden \in BOOLEAN /\ row_roll \in Rolls
    BY TypesGiven
  <1>2. Plain \in Buffers
    BY <1>1, FlipAt DEF Plain
  <1>3. Screen = ScreenOf(charbuf, Plain, row_roll)
    <2>1. Screen = ScreenShown(charbuf, colorbuf, cursor_pos, cursor_hidden, row_roll)
      BY DEF Screen, Seen, Given, ScreenShown, SeenFrom
    <2> QED
      BY <1>1, <2>1, ScreenSeen DEF Plain
  <1>4. Cursor = ShownAt(row_roll, cursor_pos)
    BY DEF Cursor, ShownAt
  <1> QED
    BY <1>1, <1>2, <1>3, <1>4, Ring

LEMMA NextTerminalGiven ==
    ASSUME TypeOK'
    PROVE  /\ Screen' = ScreenOf(charbuf', CursorColorFlip(colorbuf', cursor_pos', cursor_hidden'), row_roll')
           /\ Cursor' = ShownAt(row_roll', cursor_pos')
           /\ Cursor' \in Positions
  <1>1. colorbuf' \in Buffers /\ cursor_pos' \in Positions /\ cursor_hidden' \in BOOLEAN /\ row_roll' \in Rolls
    BY DEF TypeOK, Buffers, Pair, Rolls
  <1>2. Screen' = ScreenOf(charbuf', CursorColorFlip(colorbuf', cursor_pos', cursor_hidden'), row_roll')
    <2>1. Screen' = ScreenShown(charbuf', colorbuf', cursor_pos', cursor_hidden', row_roll')
      BY DEF Screen, Seen, Given, ScreenShown, SeenFrom
    <2> QED
      BY <1>1, <2>1, ScreenSeen
  <1>3. Cursor' = ShownAt(row_roll', cursor_pos')
    BY DEF Cursor, ShownAt
  <1> QED
    BY <1>1, <1>2, <1>3, Ring

\* The cells of the terminal are the positions.
LEMMA Cells == T!Cells = Positions /\ T!Size = CharBufSize /\ T!Last = CharBufSize - 1
  BY DEF T!Cells, T!Size, T!Last, Positions, CharBufSize

LEMMA FirstCell == T!Size - Columns = CellAt(Rows - 1, 0) /\ Rows - 1 \in RowIds /\ 0 \in RowIds /\ 0 \in ColumnIds
  <1> DEFINE c == Columns
  <1>1. c \in Nat \ {0} /\ Rows \in Nat \ {0}
    BY Sizes
  <1>2. T!Size = Rows * c /\ CellAt(Rows - 1, 0) = c * (Rows - 1) + 0
    BY DEF T!Size, CellAt
  <1> HIDE DEF c
  <1>3. c * (Rows - 1) = Rows * c - c /\ Rows * c \in Int
    BY <1>1
  <1> QED
    BY <1>1, <1>2, <1>3 DEF RowIds, ColumnIds, c

\* The last cell is in the last row, at its end.
LEMMA LastCell == T!Last = CellAt(Rows - 1, Columns - 1) /\ Columns - 1 \in ColumnIds
  <1>1. Columns - 1 \in ColumnIds /\ Columns \in Nat \ {0} /\ Rows - 1 \in Int
    BY Sizes DEF ColumnIds
  <1>2. CellAt(Rows - 1, 0) + (Columns - 1) = CellAt(Rows - 1, Columns - 1)
    BY <1>1, FirstCell, RowSpan
  <1>3. CellAt(Rows - 1, 0) \in Int
    BY <1>1, FirstCell, CellBounds
  <1>4. T!Size \in Int
    BY Cells, Sizes
  <1>5. T!Last = T!Size - 1
    BY DEF T!Last
  <1> QED
    BY <1>1, <1>2, <1>3, <1>4, <1>5, FirstCell

\* The cursor, and where it is in its row, on the card and on the terminal.
LEMMA CursorCell ==
    ASSUME TypeOK
    PROVE  \E row \in RowIds, column \in ColumnIds :
              /\ cursor_pos = CellAt(row, column)
              /\ RowStart(cursor_pos) = CellAt(row, 0)
              /\ (cursor_pos % Columns) = column /\ cursor_pos \div Columns = row
              /\ ShownRow(row_roll, row) \in RowIds
              /\ Cursor = CellAt(ShownRow(row_roll, row), column)
              /\ T!Column(Cursor) = column
              /\ Cursor - T!Column(Cursor) = CellAt(ShownRow(row_roll, row), 0)
              /\ Cursor \div Columns = ShownRow(row_roll, row)
              /\ Cursor = T!Last <=> column = Columns - 1 /\ ShownRow(row_roll, row) = Rows - 1
              /\ Cursor \in T!RowOf(T!Last) <=> ShownRow(row_roll, row) = Rows - 1
  <1>1. cursor_pos \in Positions /\ row_roll \in Rolls
    BY TypesGiven
  <1>2. PICK row \in RowIds, column \in ColumnIds : cursor_pos = CellAt(row, column)
    BY <1>1, CellsCover
  <1>3. ShownRow(row_roll, row) \in RowIds /\ Cursor = CellAt(ShownRow(row_roll, row), column)
    BY <1>1, <1>2, TerminalGiven, RowsRolled
  <1>4. RowStart(cursor_pos) = CellAt(row, 0) /\ (cursor_pos % Columns) = column /\ cursor_pos \div Columns = row
    BY <1>2, CellParts
  <1>5. (Cursor % Columns) = column /\ Cursor \div Columns = ShownRow(row_roll, row)
        /\ RowStart(Cursor) = CellAt(ShownRow(row_roll, row), 0)
    BY <1>3, CellParts
  <1>6. T!Column(Cursor) = column /\ Cursor - T!Column(Cursor) = CellAt(ShownRow(row_roll, row), 0)
    BY <1>5 DEF T!Column, RowStart
  <1>7. T!Last \div Columns = Rows - 1 /\ T!Last \in Positions /\ (T!Last % Columns) = Columns - 1
    BY LastCell, FirstCell, CellParts
  <1>8. Cursor = T!Last <=> column = Columns - 1 /\ ShownRow(row_roll, row) = Rows - 1
    BY <1>3, <1>5, <1>7, LastCell
  <1>9. Cursor \in T!RowOf(T!Last) <=> ShownRow(row_roll, row) = Rows - 1
    BY <1>5, <1>7, Cells, TerminalGiven DEF T!RowOf
  <1> QED
    BY <1>2, <1>3, <1>4, <1>5, <1>6, <1>8, <1>9

LEMMA WrittenAtCursor ==
    ASSUME TypeOK, NEW char \in Chars
    PROVE  ScreenOf([charbuf EXCEPT ![cursor_pos] = char], Plain, row_roll) = CharPut(Screen, Cursor, char)
  <1>1. charbuf \in [Positions -> Chars] /\ cursor_pos \in Positions /\ row_roll \in Rolls
    BY TypesGiven
  <1>2. ScreenOf([charbuf EXCEPT ![cursor_pos] = char], Plain, row_roll)
        = CharPut(ScreenOf(charbuf, Plain, row_roll), ShownAt(row_roll, cursor_pos), char)
    BY <1>1, Written
  <1> QED
    BY <1>2, TerminalGiven

\* 0: a character, and a roll after the last cell of the screen.
LEMMA Command0PutsChar ==
    ASSUME TypeOK, TypeOK', NEW char \in Chars, Command0(char)
    PROVE  T!PutChar(char)
  <1>1. PICK row \in RowIds, column \in ColumnIds :
              /\ cursor_pos = CellAt(row, column)
              /\ ShownRow(row_roll, row) \in RowIds
              /\ Cursor = CellAt(ShownRow(row_roll, row), column)
              /\ Cursor = T!Last <=> column = Columns - 1 /\ ShownRow(row_roll, row) = Rows - 1
    BY CursorCell
  <1>2. charbuf \in [Positions -> Chars] /\ cursor_pos \in Positions /\ row_roll \in Rolls
    BY TypesGiven
  <1> DEFINE then == (cursor_pos + 1) % CharBufSize
  <1> DEFINE shown == ShownRow(row_roll, row)
  <1> DEFINE written == CharPut(Screen, Cursor, char)
  <1>3. then \in Positions /\ MoveTo(then) /\ charbuf' = [charbuf EXCEPT ![cursor_pos] = char]
        /\ UNCHANGED <<cursor_pos_high, cursor_hidden>>
    BY <1>2, Targets DEF Command0
  <1>4. row_roll' = IF (then % Columns) = 0 /\ then \div Columns = ((Rows - row_roll) % Rows)
                      THEN RollUp(row_roll) ELSE row_roll
    BY DEF Command0
  <1> HIDE DEF then
  <1>5. cursor_pos' = then /\ Plain \in Buffers
        /\ CursorColorFlip(colorbuf', cursor_pos', cursor_hidden') = Plain
    BY <1>3, Moved
  <1>6. Screen' = ScreenOf(charbuf', Plain, row_roll') /\ Cursor' = ShownAt(row_roll', then)
    BY <1>5, NextTerminalGiven
  <1>7. ScreenOf(charbuf', Plain, row_roll) = written
    BY <1>3, WrittenAtCursor
  <1>8. Columns \in Nat \ {0} /\ Rows \in Nat \ {0} /\ column \in 0..Columns - 1 /\ row \in Int /\ shown \in Int
        /\ 0 \in ColumnIds
    BY <1>1, Sizes DEF ColumnIds, RowIds
  <1>9. CASE column < Columns - 1
    <2>1. then = CellAt(row, column + 1) /\ column + 1 \in ColumnIds
          /\ CellAt(shown, column) + 1 = CellAt(shown, column + 1)
      BY <1>1, <1>9, RowsBelow DEF then
    <2>2. (then % Columns) = column + 1 /\ column + 1 # 0
      BY <1>8, <2>1, CellParts
    <2>3. row_roll' = row_roll
      BY <1>4, <2>2
    <2>4. Screen' = written
      BY <1>6, <1>7, <2>3
    <2>5. Cursor' = Cursor + 1
      BY <1>1, <1>2, <1>6, <2>1, <2>3, RowsRolled
    <2>6. Cursor # T!Last
      BY <1>1, <1>8, <1>9
    <2> QED
      BY <1>3, <2>4, <2>5, <2>6 DEF T!PutChar, CharPut
  <1>10. CASE column = Columns - 1
    <2>1. then = CellAt(Below(row), 0) /\ Below(row) \in RowIds
          /\ CellAt(shown, column) + 1 = CellAt(shown + 1, 0)
      BY <1>1, <1>10, RowsBelow DEF then
    <2>2. (then % Columns) = 0 /\ then \div Columns = Below(row)
      BY <1>8, <2>1, CellParts
    <2>3. shown = Rows - 1 <=> Below(row) = ((Rows - row_roll) % Rows)
      BY <1>2, RowsRollUp
    <2>4. CASE shown = Rows - 1
      <3>1. row_roll' = RollUp(row_roll) /\ row_roll' \in Rolls
        BY <1>2, <1>4, <2>2, <2>3, <2>4, RowsRollUp
      <3>2. Screen' = T!Scrolled(written)
        <4>1. Screen' = RolledUp(written)
          BY <1>2, <1>6, <1>7, <3>1, Scrolls
        <4> QED
          BY <4>1, Cells DEF T!Scrolled, RolledUp
      <3>3. ShownRow(RollUp(row_roll), Below(row)) = shown
        BY <1>2, RowsRollUp
      <3>4. Cursor' = CellAt(Rows - 1, 0)
        <4>1. ShownAt(row_roll', CellAt(Below(row), 0)) = CellAt(ShownRow(row_roll', Below(row)), 0)
          BY <1>8, <2>1, <3>1, RowsRolled
        <4> QED
          BY <1>6, <2>1, <2>4, <3>1, <3>3, <4>1
      <3> QED
        BY <1>1, <1>3, <1>10, <2>4, <3>2, <3>4, FirstCell DEF T!PutChar, CharPut
    <2>5. CASE shown # Rows - 1
      <3>1. row_roll' = row_roll
        BY <1>4, <2>2, <2>3, <2>5
      <3>2. Screen' = written
        BY <1>6, <1>7, <3>1
      <3>3. ShownRow(row_roll, Below(row)) = Below(shown)
        BY <1>2, RowsRollUp
      <3>4. Below(shown) = shown + 1
        <4> HIDE DEF shown
        <4> QED
          BY <1>8, <2>5 DEF Below
      <3>5. ShownAt(row_roll, CellAt(Below(row), 0)) = CellAt(ShownRow(row_roll, Below(row)), 0)
        BY <1>2, <1>8, <2>1, RowsRolled
      <3>6. Cursor' = Cursor + 1
        BY <1>1, <1>6, <2>1, <3>1, <3>3, <3>4, <3>5
      <3> QED
        BY <1>1, <1>3, <2>5, <3>2, <3>6 DEF T!PutChar, CharPut
    <2> QED
      BY <2>4, <2>5
  <1> QED
    BY <1>8, <1>9, <1>10

\* 1, 2: the next row, and a roll below the last one of the screen.
LEMMA Command1ClearsNextRow ==
    ASSUME TypeOK, TypeOK', Command1NextRow
    PROVE  T!ClearNextRow
  <1>1. PICK row \in RowIds, column \in ColumnIds :
              /\ RowStart(cursor_pos) = CellAt(row, 0) /\ cursor_pos \div Columns = row
              /\ ShownRow(row_roll, row) \in RowIds
              /\ Cursor - T!Column(Cursor) = CellAt(ShownRow(row_roll, row), 0)
              /\ Cursor \in T!RowOf(T!Last) <=> ShownRow(row_roll, row) = Rows - 1
    BY CursorCell
  <1>2. charbuf \in [Positions -> Chars] /\ row_roll \in Rolls /\ Plain \in Buffers /\ cursor_hidden \in BOOLEAN
    BY TypesGiven, TerminalGiven
  <1> DEFINE start == (RowStart(cursor_pos) + Columns) % CharBufSize
  <1> DEFINE shown == ShownRow(row_roll, row)
  <1> DEFINE white == RowWhiteOnBlack(Plain, start)
  <1> DEFINE now == ShownRow(row_roll', Below(row))
  <1>3. start = CellAt(Below(row), 0) /\ Below(row) \in RowIds /\ start \in Positions /\ 0 \in ColumnIds
    BY <1>1, FirstCell, RowsBelow, CellParts
  <1>4. /\ row_roll' = IF cursor_pos \div Columns = ((Rows - 1 - row_roll) % Rows)
                         THEN RollUp(row_roll) ELSE row_roll
        /\ charbuf' = RowSpaces(start) /\ cursor_pos' = start /\ UNCHANGED <<cursor_pos_high, cursor_hidden>>
        /\ colorbuf' = CursorColorFlip(white, start, cursor_hidden)
    BY DEF Command1NextRow, Plain
  <1> HIDE DEF start
  <1>5. row_roll' = IF shown = Rows - 1 THEN RollUp(row_roll) ELSE row_roll
    BY <1>1, <1>2, <1>4, RowsRollUp
  <1>6. row_roll' \in Rolls
    BY <1>2, <1>5, RowsRollUp
  <1>7. white \in Buffers
    BY <1>2, <1>3, Cleared
  <1>8. Screen' = ScreenOf(RowSpaces(start), white, row_roll') /\ Cursor' = ShownAt(row_roll', start)
    BY <1>2, <1>3, <1>4, <1>7, FlipAt, NextTerminalGiven
  <1>9. RowSpaces(start) = [p \in Positions |-> IF p \in start..start + Columns - 1 THEN Space ELSE charbuf[p]]
    BY DEF RowSpaces
  <1>10. Screen' = RowBlank(ScreenOf(charbuf, Plain, row_roll'), now)
    BY <1>2, <1>3, <1>6, <1>8, <1>9, Cleared
  <1>11. Cursor' = CellAt(now, 0) /\ now \in RowIds /\ CellAt(now, 0) \div Columns = now
    BY <1>3, <1>6, <1>8, RowsRolled, CellParts
  <1>12. shown \in Int /\ Rows \in Int /\ Columns \in Int
    BY <1>1, Sizes DEF RowIds
  <1>13. CASE shown = Rows - 1
    <2>1. row_roll' = RollUp(row_roll) /\ now = Rows - 1
      BY <1>2, <1>5, <1>13, RowsRollUp
    <2>2. Cursor' = T!Size - Columns
      BY <1>11, <2>1, FirstCell
    <2>3. ScreenOf(charbuf, Plain, row_roll') = T!Scrolled(Screen)
      <3>1. ScreenOf(charbuf, Plain, row_roll') = RolledUp(Screen)
        BY <1>2, <2>1, Scrolls, TerminalGiven
      <3> QED
        BY <3>1, Cells DEF T!Scrolled, RolledUp
    <2>4. Cursor \in T!RowOf(T!Last)
      BY <1>1, <1>13
    <2>5. \A c \in Positions : c \in T!RowOf(T!Size - Columns) <=> c \div Columns = now
      BY <1>11, <2>2, Cells DEF T!RowOf
    <2>6. Screen' = [c \in T!Cells |-> IF c \in T!RowOf(T!Size - Columns) THEN T!Blank
                                                                         ELSE T!Scrolled(Screen)[c]]
      BY <1>10, <2>3, <2>5, Cells DEF RowBlank
    <2> QED
      BY <1>4, <2>2, <2>4, <2>6 DEF T!ClearNextRow
  <1>14. CASE shown # Rows - 1
    <2>1. row_roll' = row_roll /\ now = shown + 1
      <3>1. ShownRow(row_roll, Below(row)) = Below(shown)
        BY <1>2, RowsRollUp
      <3> QED
        BY <1>5, <1>12, <1>14, <3>1 DEF Below
    <2> DEFINE then == Cursor - T!Column(Cursor) + Columns
    <2>2. Cursor' = then
      <3>1. CellAt(shown, 0) + 1 * Columns = CellAt(shown + 1, 0) /\ 1 * Columns = Columns
        BY <1>3, <1>12, CellMoved
      <3> QED
        BY <1>1, <1>11, <2>1, <3>1
    <2>3. Cursor \notin T!RowOf(T!Last)
      BY <1>1, <1>14
    <2> HIDE DEF then
    <2>4. \A c \in Positions : c \in T!RowOf(then) <=> c \div Columns = now
      BY <1>11, <2>2, Cells DEF T!RowOf
    <2>5. Screen' = [c \in T!Cells |-> IF c \in T!RowOf(then) THEN T!Blank ELSE Screen[c]]
      BY <1>10, <2>1, <2>4, Cells, TerminalGiven DEF RowBlank
    <2> QED
      BY <1>4, <2>2, <2>3, <2>5 DEF T!ClearNextRow, then
  <1> QED
    BY <1>13, <1>14

\* 1, 1: the row of the cursor.
LEMMA Command1ClearsRow ==
    ASSUME TypeOK, TypeOK', Command1Row
    PROVE  T!ClearRow
  <1>1. PICK row \in RowIds, column \in ColumnIds :
              /\ cursor_pos = CellAt(row, column)
              /\ RowStart(cursor_pos) = CellAt(row, 0)
              /\ ShownRow(row_roll, row) \in RowIds
              /\ Cursor - T!Column(Cursor) = CellAt(ShownRow(row_roll, row), 0)
              /\ Cursor \div Columns = ShownRow(row_roll, row)
    BY CursorCell
  <1>2. charbuf \in [Positions -> Chars] /\ row_roll \in Rolls /\ Plain \in Buffers /\ cursor_hidden \in BOOLEAN
        /\ colorbuf \in Buffers
    BY TypesGiven, TerminalGiven
  <1> DEFINE start == RowStart(cursor_pos)
  <1> DEFINE white == RowWhiteOnBlack(Plain, start)
  <1> DEFINE shown == ShownRow(row_roll, row)
  <1>3. start = CellAt(row, 0) /\ start \in Positions /\ 0 \in ColumnIds
    BY <1>1, FirstCell, CellParts
  <1>4. /\ charbuf' = RowSpaces(start) /\ cursor_pos' = start
        /\ UNCHANGED <<cursor_pos_high, cursor_hidden, row_roll>>
        /\ colorbuf' = CursorColorFlip(white, start, cursor_hidden)
    <2>1. RowWhiteOnBlack(colorbuf, start) = white
      BY <1>1, <1>2, ClearedFlip DEF Plain
    <2> QED
      BY <2>1 DEF Command1Row
  <1> HIDE DEF start
  <1>5. white \in Buffers
    BY <1>2, <1>3, Cleared
  <1>6. Screen' = ScreenOf(RowSpaces(start), white, row_roll) /\ Cursor' = ShownAt(row_roll, start)
    BY <1>2, <1>3, <1>4, <1>5, FlipAt, NextTerminalGiven
  <1>7. RowSpaces(start) = [p \in Positions |-> IF p \in start..start + Columns - 1 THEN Space ELSE charbuf[p]]
    BY DEF RowSpaces
  <1>8. Screen' = RowBlank(Screen, shown)
    BY <1>2, <1>3, <1>6, <1>7, Cleared, TerminalGiven
  <1>9. Cursor' = CellAt(shown, 0)
    BY <1>2, <1>3, <1>6, RowsRolled
  <1>10. Screen' = [c \in T!Cells |-> IF c \in T!RowOf(Cursor) THEN T!Blank ELSE Screen[c]]
    BY <1>1, <1>8, Cells DEF T!RowOf, RowBlank
  <1> QED
    BY <1>1, <1>4, <1>9, <1>10 DEF T!ClearRow

\* 1, 0: the whole screen.
LEMMA Command1ClearsScreen ==
    ASSUME TypeOK, TypeOK', Command1Screen
    PROVE  T!ClearScreen
  <1>1. /\ charbuf' = AllSpaces /\ colorbuf' = CursorColorFlip(AllWhiteOnBlack, 0, cursor_hidden)
        /\ cursor_pos' = 0 /\ row_roll' = 0 /\ UNCHANGED <<cursor_pos_high, cursor_hidden>>
    BY DEF Command1Screen
  <1>2. cursor_hidden \in BOOLEAN
    BY TypesGiven
  <1>3. CursorColorFlip(colorbuf', cursor_pos', cursor_hidden') = AllWhiteOnBlack
    BY <1>1, <1>2, Spaces, FlipAt
  <1>4. Screen' = ScreenOf(AllSpaces, AllWhiteOnBlack, 0) /\ Cursor' = ShownAt(0, 0)
    BY <1>1, <1>3, NextTerminalGiven
  <1>5. Screen' = [c \in Positions |-> T!Blank]
    <2>1. \A c \in Positions : SeenFrom(0, c) \in Positions /\ Place(SeenFrom(0, c)) \in Places
      BY Spaces, Ring, PlaceUnique
    <2> QED
      BY <1>4, <2>1 DEF ScreenOf, AllSpaces, AllWhiteOnBlack, T!Blank
  <1>6. Cursor' = 0
    BY <1>4, Sizes DEF ShownAt
  <1> QED
    BY <1>1, <1>5, <1>6, Cells DEF T!ClearScreen

\* The moves: only the cursor changes.
LEMMA MovesCursor ==
    ASSUME TypeOK, TypeOK', NEW position \in Positions, MoveTo(position),
           UNCHANGED <<charbuf, cursor_pos_high, cursor_hidden, row_roll>>
    PROVE  /\ UNCHANGED <<Screen, ~cursor_hidden>>
           /\ Cursor' = ShownAt(row_roll, position) /\ Cursor' \in Positions
  <1>1. cursor_pos' = position /\ CursorColorFlip(colorbuf', position, cursor_hidden) = Plain
    BY Moved
  <1> QED
    BY <1>1, TerminalGiven, NextTerminalGiven

LEMMA RowRest ==
    ASSUME TypeOK, NEW position \in Positions,
           (position % Columns) = (cursor_pos % Columns)
    PROVE  T!Column(ShownAt(row_roll, position)) = T!Column(Cursor)
  <1>1. row_roll \in Rolls
    BY TypesGiven
  <1>2. PICK row \in RowIds, column \in ColumnIds : position = CellAt(row, column)
    BY CellsCover
  <1>3. (position % Columns) = column
    BY <1>2, CellParts
  <1>4. ShownAt(row_roll, position) = CellAt(ShownRow(row_roll, row), column) /\ ShownRow(row_roll, row) \in RowIds
    BY <1>1, <1>2, RowsRolled
  <1>5. T!Column(ShownAt(row_roll, position)) = column
    BY <1>4, CellParts DEF T!Column
  <1> QED
    BY <1>3, <1>5, CursorCell

\* 2: by a distance, around the screen as around the buffer.
LEMMA Command2Moves ==
    ASSUME TypeOK, TypeOK', NEW delta \in Deltas, Command2(delta)
    PROVE  T!MoveCursor(delta)
  <1> DEFINE n == CharBufSize
  <1> DEFINE turn == row_roll * Columns
  <1>1. cursor_pos \in Positions /\ row_roll \in Rolls /\ delta \in Int
    BY TypesGiven, WholeDeltas
  <1>2. n \in Nat \ {0} /\ cursor_pos \in Int /\ turn \in Int
    BY <1>1, Sizes DEF Positions, Rolls
  <1>3. ((cursor_pos + delta) % n) \in Positions
    BY <1>1, Targets
  <1>4. UNCHANGED <<Screen, ~cursor_hidden>> /\ Cursor' = ShownAt(row_roll, (cursor_pos + delta) % n)
    BY <1>3, MovesCursor DEF Command2
  <1>5. Cursor' = ((((cursor_pos + delta) % n) + turn) % n) /\ Cursor = ((cursor_pos + turn) % n)
    BY <1>4 DEF ShownAt, Cursor
  <1> HIDE DEF n, turn
  <1>6. ((((cursor_pos + delta) % n) + turn) % n) = ((((cursor_pos + turn) % n) + delta) % n)
    BY <1>1, <1>2, ModPlusMod
  <1>7. Cursor' = ((Cursor + delta) % n) /\ n = T!Size
    BY <1>5, <1>6, Cells DEF n
  <1> QED
    BY <1>4, <1>7 DEF T!MoveCursor

\* 4: to a column.
LEMMA Command4SetsColumn ==
    ASSUME TypeOK, TypeOK', NEW data \in Data, Command4(data)
    PROVE  \E column \in 0..Columns - 1 : T!SetColumn(column)
  <1>1. PICK row \in RowIds, at \in ColumnIds :
              /\ cursor_pos = CellAt(row, at)
              /\ RowStart(cursor_pos) = CellAt(row, 0)
              /\ ShownRow(row_roll, row) \in RowIds
              /\ Cursor - T!Column(Cursor) = CellAt(ShownRow(row_roll, row), 0)
    BY CursorCell
  <1> DEFINE column == data % Columns
  <1>2. column \in ColumnIds /\ row_roll \in Rolls
    BY TypesGiven, Sizes, SizesAssumption DEF Data, ColumnIds
  <1>3. RowStart(cursor_pos) + column = CellAt(row, column)
    BY <1>1, <1>2, RowSpan
  <1>4. MoveTo(CellAt(row, column)) /\ UNCHANGED <<charbuf, cursor_pos_high, cursor_hidden, row_roll>>
    BY <1>3 DEF Command4
  <1> HIDE DEF column
  <1>5. UNCHANGED <<Screen, ~cursor_hidden>> /\ Cursor' = ShownAt(row_roll, CellAt(row, column))
    BY <1>2, <1>4, CellParts, MovesCursor
  <1>6. Cursor' = CellAt(ShownRow(row_roll, row), column)
    BY <1>2, <1>5, RowsRolled
  <1>7. CellAt(ShownRow(row_roll, row), 0) + column = CellAt(ShownRow(row_roll, row), column)
    BY <1>1, <1>2, RowSpan
  <1>8. T!SetColumn(column)
    BY <1>1, <1>5, <1>6, <1>7 DEF T!SetColumn
  <1> QED
    BY <1>2, <1>8 DEF ColumnIds

\* 5: to a row of the buffer; the column stays.
LEMMA Command5SetsRow ==
    ASSUME TypeOK, TypeOK', NEW data \in Data, Command5(data)
    PROVE  T!SetRow
  <1> DEFINE position == (data % Rows) * Columns + (cursor_pos % Columns)
  <1>1. cursor_pos \in Positions /\ data \in Nat
    BY TypesGiven, SizesAssumption DEF Data
  <1>2. position \in Positions /\ (position % Columns) = (cursor_pos % Columns)
    <2> DEFINE r == data % Rows
    <2> DEFINE column == cursor_pos % Columns
    <2>1. r \in RowIds /\ column \in ColumnIds
      BY <1>1, Sizes DEF RowIds, ColumnIds, Positions
    <2>2. r \in Int /\ Columns \in Int
      BY <1>1, Sizes
    <2> HIDE DEF r, column
    <2>3. r * Columns = Columns * r
      BY <2>2
    <2>4. position = CellAt(r, column)
      BY <2>3 DEF CellAt, r, column
    <2>5. CellAt(r, column) \in Positions /\ (CellAt(r, column) % Columns) = column
      BY <2>1, CellParts
    <2> HIDE DEF position
    <2> QED
      BY <2>4, <2>5 DEF column
  <1>3. MoveTo(position) /\ UNCHANGED <<charbuf, cursor_pos_high, cursor_hidden, row_roll>>
    BY DEF Command5
  <1> HIDE DEF position
  <1>4. UNCHANGED <<Screen, ~cursor_hidden>> /\ Cursor' = ShownAt(row_roll, position) /\ Cursor' \in Positions
    BY <1>2, <1>3, MovesCursor
  <1>5. T!Column(Cursor') = T!Column(Cursor)
    BY <1>2, <1>4, RowRest
  <1> QED
    BY <1>4, <1>5, Cells DEF T!SetRow

\* 7: to a position.
LEMMA Command7SetsPosition ==
    ASSUME TypeOK, TypeOK', NEW data \in Data, Command7(data)
    PROVE  T!SetPosition
  <1>1. UNCHANGED <<Screen, ~cursor_hidden>> /\ Cursor' \in Positions
    BY MovesCursor DEF Command7
  <1> QED
    BY <1>1, Cells DEF T!SetPosition

\* 8: the cursor is shown or hidden; the colours given stay.
LEMMA Command8Shows ==
    ASSUME TypeOK, TypeOK', NEW data \in Data, Command8(data)
    PROVE  \E visible \in BOOLEAN : T!ShowCursor(visible)
  <1>1. cursor_hidden' = (data # 0) /\ UNCHANGED <<charbuf, cursor_pos, cursor_pos_high, row_roll>>
        /\ colorbuf' = CursorColorFlip(Plain, cursor_pos, cursor_hidden')
    BY DEF Command8, Plain
  <1>2. cursor_pos \in Positions /\ Plain \in Buffers /\ cursor_hidden' \in BOOLEAN
    BY <1>1, TypesGiven, TerminalGiven
  <1>3. CursorColorFlip(colorbuf', cursor_pos', cursor_hidden') = Plain
    BY <1>1, <1>2, FlipAt
  <1>4. UNCHANGED <<Screen, Cursor>>
    BY <1>1, <1>3, TerminalGiven, NextTerminalGiven
  <1>5. CASE data = 0
    BY <1>1, <1>4, <1>5 DEF T!ShowCursor
  <1>6. CASE data # 0
    BY <1>1, <1>4, <1>6 DEF T!ShowCursor
  <1> QED
    BY <1>5, <1>6

\* 3: a character, and the cursor stays.
LEMMA Command3PutsRaw ==
    ASSUME TypeOK, TypeOK', NEW char \in Chars, Command3(char)
    PROVE  T!PutCharRaw(char)
  <1>1. charbuf' = [charbuf EXCEPT ![cursor_pos] = char]
        /\ UNCHANGED <<colorbuf, cursor_pos, cursor_pos_high, cursor_hidden, row_roll>>
    BY DEF Command3
  <1>2. CursorColorFlip(colorbuf', cursor_pos', cursor_hidden') = Plain
    BY <1>1 DEF Plain
  <1>3. Screen' = ScreenOf(charbuf', Plain, row_roll) /\ Cursor' = Cursor
    BY <1>1, <1>2, TerminalGiven, NextTerminalGiven
  <1>4. Screen' = CharPut(Screen, Cursor, char)
    BY <1>1, <1>3, WrittenAtCursor
  <1> QED
    BY <1>1, <1>3, <1>4 DEF T!PutCharRaw, CharPut

\* 9: a colour of the cell at the cursor.
LEMMA Command9SetsColor ==
    ASSUME TypeOK, TypeOK', NEW plane \in Planes, NEW color \in Colors, NEW advance \in BOOLEAN,
           Command9(plane, color, advance)
    PROVE  T!SetColor(plane, color, advance)
  <1> DEFINE then == IF advance THEN (cursor_pos + 1) % CharBufSize ELSE cursor_pos
  <1> DEFINE set == ColorSet(Plain, cursor_pos, plane, color)
  <1> DEFINE n == CharBufSize
  <1> DEFINE turn == row_roll * Columns
  <1>1. cursor_pos \in Positions /\ row_roll \in Rolls /\ Plain \in Buffers /\ cursor_hidden \in BOOLEAN
    BY TypesGiven, TerminalGiven
  <1>2. colorbuf' = CursorColorFlip(set, then, cursor_hidden) /\ cursor_pos' = then
        /\ UNCHANGED <<charbuf, cursor_pos_high, cursor_hidden, row_roll>>
    BY DEF Command9, Plain, ColorSet
  <1>3. then \in Positions
    BY <1>1, Targets
  <1>4. set \in Buffers /\ ScreenOf(charbuf, set, row_roll) = ColorPut(Screen, Cursor, plane, color)
    BY <1>1, Coloured, TerminalGiven
  <1> HIDE DEF set
  <1>5. CursorColorFlip(colorbuf', cursor_pos', cursor_hidden') = set
    BY <1>1, <1>2, <1>3, <1>4, FlipAt
  <1>6. Screen' = ColorPut(Screen, Cursor, plane, color) /\ Cursor' = ShownAt(row_roll, then)
    BY <1>2, <1>4, <1>5, NextTerminalGiven
  <1>7. Cursor' = IF advance THEN (Cursor + 1) % n ELSE Cursor
    <2>1. n \in Nat \ {0} /\ cursor_pos \in Int /\ turn \in Int /\ 1 \in Int
      BY <1>1, Sizes DEF Positions, Rolls
    <2>2. Cursor = ((cursor_pos + turn) % n) /\ ShownAt(row_roll, then) = ((then + turn) % n)
      BY DEF Cursor, ShownAt
    <2>3. then = IF advance THEN (cursor_pos + 1) % n ELSE cursor_pos
      OBVIOUS
    <2> HIDE DEF n, turn, then
    <2>4. ((((cursor_pos + 1) % n) + turn) % n) = ((((cursor_pos + turn) % n) + 1) % n)
      BY <2>1, ModPlusMod
    <2> QED
      BY <1>6, <2>2, <2>3, <2>4
  <1>8. Cursor' = IF advance THEN (Cursor + 1) % T!Size ELSE Cursor
    BY <1>7, Cells
  <1> QED
    BY <1>2, <1>6, <1>8 DEF T!SetColor, ColorPut

\* Every command of the card is the command of the terminal, or, the high byte
\* of a position, nothing to it.
LEMMA StepOnTerminal ==
    ASSUME TypeOK, TypeOK', [Next]_vars
    PROVE  [T!Next]_(T!vars)
  <1>1. CASE UNCHANGED vars
    BY <1>1 DEF vars, T!vars, Screen, Cursor, Seen, Given
  <1>2. ASSUME NEW char \in Chars, Command0(char) \/ Command3(char)
        PROVE  T!Next
    BY <1>2, Command0PutsChar, Command3PutsRaw DEF T!Next
  <1>3. CASE Command1Screen \/ Command1Row \/ Command1NextRow
    BY <1>3, Command1ClearsScreen, Command1ClearsRow, Command1ClearsNextRow DEF T!Next
  <1>4. ASSUME NEW delta \in Deltas, Command2(delta)
        PROVE  T!Next
    BY <1>4, Command2Moves DEF T!Next
  <1>5. ASSUME NEW data \in Data,
               Command4(data) \/ Command5(data) \/ Command7(data) \/ Command8(data)
        PROVE  T!Next
    BY <1>5, Command4SetsColumn, Command5SetsRow, Command7SetsPosition, Command8Shows DEF T!Next
  <1>6. ASSUME NEW data \in Data, Command6(data)
        PROVE  UNCHANGED T!vars
    BY <1>6 DEF Command6, T!vars, Screen, Cursor, Seen, Given
  <1>7. ASSUME NEW plane \in Planes, NEW color \in Colors, NEW advance \in BOOLEAN,
               Command9(plane, color, advance)
        PROVE  T!Next
    BY <1>7, Command9SetsColor, PlanesAssumption DEF T!Next
  <1>8. CASE Next
    BY <1>2, <1>3, <1>4, <1>5, <1>6, <1>7, <1>8 DEF Next
  <1> QED
    BY <1>1, <1>8

LEMMA InitOnTerminal ==
    ASSUME Init, TypeOK
    PROVE  T!Init
  <1>1. cursor_pos = 0 /\ row_roll = 0 /\ charbuf = AllSpaces /\ cursor_hidden = FALSE
        /\ colorbuf = CursorColorFlip(AllWhiteOnBlack, 0, FALSE)
    BY DEF Init
  <1>2. Plain = AllWhiteOnBlack
    BY <1>1, Spaces, FlipAt DEF Plain
  <1>3. Screen = [c \in Positions |-> T!Blank]
    <2>1. \A c \in Positions : SeenFrom(0, c) \in Positions /\ Place(SeenFrom(0, c)) \in Places
      BY Spaces, Ring, PlaceUnique
    <2> QED
      BY <1>1, <1>2, <2>1, TerminalGiven DEF ScreenOf, AllSpaces, AllWhiteOnBlack, T!Blank
  <1>4. Cursor = 0
    BY <1>1, Sizes DEF Cursor
  <1> QED
    BY <1>1, <1>3, <1>4, Cells DEF T!Init

\* The card implements the terminal: rolls, the swap under the cursor and the
\* layout of the colours never show, on a screen of any size.
THEOREM TerminalImplemented == Spec => ImplementsTerminal
  <1>1. Init /\ TypeOK => T!Init
    BY InitOnTerminal
  <1>2. TypeOK /\ TypeOK' /\ [Next]_vars => [T!Next]_(T!vars)
    BY StepOnTerminal
  <1>3. Spec => []TypeOK
    BY TypeCorrect
  <1> QED
    BY <1>1, <1>2, <1>3, PTL DEF Spec, ImplementsTerminal, T!Spec

\* What is left of s, up to its element q, when p are taken.
Window(s, p, q) == [i \in 1..q - p |-> s[p + i]]

Rest(s, n) == Window(s, n, Len(s))

-------------------------------------------------------------------------------
(* The pin operations that are left. *)

Reading(a) == SetAddress(a) \o ReadCycle

\* The data latch drives the bus in standby, and, when nothing has been read
\* outside it (tidy), only there.
DataLatch(up, tidy) == (up => pins.data_latch) /\ (tidy /\ ~up => ~pins.data_latch)

Resting == ~pins.write /\ ~pins.clk /\ pins.drives /\ ~pins.buffer

Bus(up, tidy) == pins.standby = up /\ pins.latches = up /\ DataLatch(up, tidy)

Idle(up, latch, mem, rep, tidy) ==
    /\ steps = <<>> /\ Resting /\ Bus(up, tidy)
    /\ latch = pins.latch /\ mem = memory /\ rep = replies

Entering(up, latch, mem, rep, tidy, n) ==
    /\ n \in 0..3 /\ steps = Rest(EnterStandby, n) /\ Resting /\ up
    /\ n <= 1 => Bus(pins.standby, tidy)
    /\ n = 2 => pins.standby
    /\ n = 3 => Bus(TRUE, tidy)
    /\ latch = pins.latch /\ mem = memory /\ rep = replies

Leaving(up, latch, mem, rep, tidy, n) ==
    /\ n \in 0..2 /\ steps = Rest(ExitStandby, n) /\ Resting /\ ~up
    /\ n = 0 => Bus(pins.standby, tidy)
    /\ n >= 1 => ~pins.latches /\ ~pins.data_latch
    /\ n = 2 => ~pins.standby
    /\ latch = pins.latch /\ mem = memory /\ rep = replies

MemoryWritten == [memory EXCEPT ![Selected] = pins.latch["data"]]

Writing(up, latch, mem, rep, tidy, n) ==
    /\ n \in 0..4 /\ steps = Rest(WriteCycle, n) /\ Bus(up, tidy)
    /\ pins.drives /\ ~pins.buffer
    /\ pins.write <=> n \in 1..3
    /\ pins.clk <=> n = 2
    /\ mem = IF up /\ n <= 2 THEN MemoryWritten ELSE memory
    /\ latch = pins.latch /\ rep = replies

Setting(up, latch, mem, rep, tidy, n, l, byte) ==
    /\ n \in 0..2 /\ steps = Rest(SetLatch(l, byte), n) /\ Resting /\ Bus(up, tidy)
    /\ l \in Latches /\ byte \in Byte
    /\ n = 1 => pins.data = byte
    /\ latch = IF n = 2 THEN pins.latch ELSE [pins.latch EXCEPT ![l] = byte]
    /\ mem = memory /\ rep = replies

Addressed(latch, a) == [latch EXCEPT !["low"] = Low(a), !["high"] = High(a)]

Fetched(up, mem, rep, a) == Append(rep, IF up THEN mem[a] ELSE NoByte)

Fetching(up, latch, mem, rep, tidy, n, a) ==
    /\ n \in 0..14 /\ steps = Rest(Reading(a), n) /\ a \in Address
    /\ pins.standby = up /\ pins.latches = up /\ (tidy => up)
    /\ n < 7 => DataLatch(up, tidy)
    /\ n \in 7..12 => ~pins.data_latch
    /\ n >= 13 => pins.data_latch
    /\ ~pins.write
    /\ pins.clk <=> n \in 9..10
    /\ pins.drives <=> n \notin 6..13
    /\ pins.buffer <=> n \in 8..11
    /\ n = 1 => pins.data = Low(a)
    /\ n >= 2 => pins.latch["low"] = Low(a)
    /\ n = 3 => pins.data = High(a)
    /\ n >= 4 => pins.latch["high"] = High(a)
    /\ latch = Addressed(pins.latch, a)
    /\ mem = memory
    /\ rep = IF n < 10 THEN Fetched(up, memory, replies, a) ELSE replies

Completing(up, latch, mem, rep, tidy) ==
    \/ Idle(up, latch, mem, rep, tidy)
    \/ \E n \in 0..14 :
         \/ Entering(up, latch, mem, rep, tidy, n)
         \/ Leaving(up, latch, mem, rep, tidy, n)
         \/ Writing(up, latch, mem, rep, tidy, n)
         \/ \E l \in Latches, byte \in Byte : Setting(up, latch, mem, rep, tidy, n, l, byte)
         \/ \E a \in Address : Fetching(up, latch, mem, rep, tidy, n, a)

-------------------------------------------------------------------------------
(* The session. *)

\* No argument has ever been given up.
Clean == ~reported /\ NoByte \notin Range(args)

Orderly == MaxStalls <= 1 \/ Clean

IsWriting(s) == \A i \in 2..Len(s) - 1 : s[i].op = "write"
IsReading(s) == Len(s) = 3 /\ s[2].op = "read"

Frame(r) == <<Code["l"], Low(r.at), Code["h"], High(r.at), Code["d"], r.byte, Code["w"]>>

\* The bytes of a session of writes are those of enter, a frame of seven for
\* each write, and that of exit.
WriteStream(s, b) ==
    /\ Len(b) = 7 * Len(s) - 12
    /\ b[1] = Code["s"] /\ b[7 * Len(s) - 12] = Code["x"]
    /\ \A f \in 0..Len(s) - 3, o \in 1..7 : b[7 * f + 1 + o] = Frame(s[f + 2])[o]

ReadStream(s, b) ==
    b = <<Code["s"], Code["r"], Low(s[2].at), High(s[2].at), Low(s[2].end), High(s[2].end),
          Code["x"]>>

\* How many bytes the first k requests are.
WriteAsked(s, k) == IF k = 0 THEN 0 ELSE IF k < Len(s) THEN 7 * k - 6 ELSE 7 * Len(s) - 12
ReadAsked(k) == CASE k = 0 -> 0 [] k = 1 -> 1 [] k = 2 -> 6 [] OTHER -> 7

\* The programmer has taken p of the bytes of the first k requests.
StreamPlace(s, b, k, p, asked) ==
    /\ k \in 0..Len(s) /\ todo = Window(s, k, Len(s))
    /\ p \in 0..asked /\ wire = Window(b, p, asked)

\* p is at offset o of frame f; enter counts as the end of a frame before the
\* first, exit as the beginning of one after the last.
FramePlace(s, p, f, o) ==
    /\ f \in -1..Len(s) - 2 /\ o \in 0..6 /\ p = 7 * f + 1 + o
    /\ f = -1 => o = 6
    /\ f = Len(s) - 2 => o <= 1

AfterLast(s, f, o) == f = Len(s) - 2 /\ o = 1

LetterAt(o) == CASE o = 1 -> "l" [] o = 3 -> "h" [] OTHER -> "d"

\* The command in progress is the one whose bytes were taken last.
Aligned(s, f, o) ==
    \/ command = "none" /\ (o \in {0, 2, 4, 6} \/ AfterLast(s, f, o))
    \/ /\ o \in {1, 3, 5} /\ ~AfterLast(s, f, o)
       /\ command = LetterAt(o) /\ args = <<>>
    \/ /\ o \in {2, 4, 6} /\ f >= 0
       /\ command = LetterAt(o - 1) /\ args = <<Frame(s[f + 2])[o]>>

\* The latches hold what has been taken of frame f.
Latched(s, f, o, latch) ==
    LET w == s[f + 2]
    IN  /\ o >= 3 \/ (o = 2 /\ command = "none") => latch["low"] = Low(w.at)
        /\ o >= 5 \/ (o = 4 /\ command = "none") => latch["high"] = High(w.at)
        /\ o = 6 /\ command = "none" => latch["data"] = w.byte

WriteTo(s, i, a) == s[i].op = "write" /\ s[i].at = a

\* What is meant and what is there differ only by the writes on their way.
UpTo(s, first, k, mem) ==
    \A a \in Address :
      /\ (\A i \in first..k : ~WriteTo(s, i, a)) => mem[a] = intended[a]
      /\ \A i \in first..k :
           /\ WriteTo(s, i, a)
           /\ \A j \in i + 1..k : ~WriteTo(s, j, a)
           => intended[a] = s[i].byte

\* Off standby the frames are in step, and no further argument can be given up.
InStep(s, f, o, up) ==
    /\ Aligned(s, f, o) \/ (up /\ stalls >= 1)
    /\ \/ up
       \/ /\ Aligned(s, f, o)
          /\ \/ command = "none" /\ (f = -1 \/ AfterLast(s, f, o))
             \/ stalls >= MaxStalls /\ ~stalled

WrittenSoFar(s, k, f, o, up, latch, mem, rep) ==
    /\ Aligned(s, f, o)
    /\ f >= 0 /\ ~AfterLast(s, f, o) => up
    /\ f >= 0 /\ f < Len(s) - 2 => Latched(s, f, o, latch)
    /\ UpTo(s, f + 2, k, mem)
    /\ rep = <<>> /\ answers = <<>>

WriteSession(s, k, p, f, o, up, latch, mem, rep) ==
    /\ FramePlace(s, p, f, o)
    /\ awaits = 0
    /\ Orderly => InStep(s, f, o, up)
    /\ Clean => WrittenSoFar(s, k, f, o, up, latch, mem, rep)

\* The first m bytes that a read returns, after its letter.
ReadOut(r, m) == <<Code["r"]>> \o [i \in 1..m |-> intended[r.at + i - 1]]
Size(r) == r.end - r.at + 1

\* The read begins in standby: off it four bytes are not left to come.
ReadInStandby(p, up) ==
    \/ up
    \/ p = 0 /\ command = "none"
    \/ /\ p >= 3 /\ command # "reading"
       /\ command = "r" /\ NoByte \notin Range(args) => p - Len(args) >= 4

ReadSoFar(s, b, p, rep) ==
    \/ p <= 1 /\ command = "none" /\ rep = <<>>
    \/ p \in 2..6 /\ command = "r" /\ args = Window(b, 2, p) /\ rep = <<>>
    \/ /\ p = 6 /\ command = "reading" /\ end = s[2].end
       /\ \E m \in 0..Size(s[2]) : next = (s[2].at + m) % MemorySize /\ rep = ReadOut(s[2], m)
    \/ p >= 6 /\ command = "none" /\ rep = ReadOut(s[2], Size(s[2]))

ReadSession(s, b, k, p, up, mem, rep) ==
    /\ k = 2 \/ awaits = 0
    /\ ReadInStandby(p, up)
    /\ Clean =>
         /\ mem = intended
         /\ answers = IF k >= 2 THEN ReadOut(s[2], Size(s[2])) ELSE <<>>
         /\ ReadSoFar(s, b, p, rep)
         /\ p \in 1..6 => up

Writes(s, b, k, p, up, latch, mem, rep) ==
    /\ IsWriting(s) /\ WriteStream(s, b)
    /\ StreamPlace(s, b, k, p, WriteAsked(s, k))
    /\ \E f \in -1..Len(s) - 2, o \in 0..6 : WriteSession(s, k, p, f, o, up, latch, mem, rep)

Reads(s, b, k, p, up, mem, rep) ==
    /\ IsReading(s) /\ ReadStream(s, b)
    /\ StreamPlace(s, b, k, p, ReadAsked(k))
    /\ ReadSession(s, b, k, p, up, mem, rep)

Session(s, b, k, p, up, latch, mem, rep) ==
    \/ Writes(s, b, k, p, up, latch, mem, rep)
    \/ Reads(s, b, k, p, up, mem, rep)

Outcome(up, latch, mem, rep) ==
    /\ up \in BOOLEAN /\ latch \in [Latches -> Byte]
    /\ mem \in [Address -> Byte] /\ rep \in Seq(Byte \cup {NoByte})

\* Where the programmer is, s being the session of which it takes the bytes b.
At(s, b, k, p, up, latch, mem, rep, tidy) ==
    /\ IsSession(s) /\ b \in Seq(Byte)
    /\ Outcome(up, latch, mem, rep) /\ tidy \in BOOLEAN
    /\ Completing(up, latch, mem, rep, tidy)
    /\ Orderly => tidy
    /\ Session(s, b, k, p, up, latch, mem, rep)

ArgsOK ==
    /\ command \in {"none", "reading"} => args = <<>>
    /\ command \notin {"s", "x", "w"}
    /\ Len(args) <= ArgumentsOf(command)
    /\ stalled => stalls >= 1

Typed == ProgrammerTypeOK /\ ArgsOK

Holding == \E s, b, k, p, up, latch, mem, rep, tidy : At(s, b, k, p, up, latch, mem, rep, tidy)

IInv == Typed /\ Holding

-------------------------------------------------------------------------------
(* Lemmas about what is left of a sequence. *)

LEMMA WindowType ==
    ASSUME NEW S, NEW s \in Seq(S), NEW p \in Nat, NEW q \in 0..Len(s)
    PROVE  /\ Window(s, p, q) \in Seq(S)
           /\ Len(Window(s, p, q)) = IF p <= q THEN q - p ELSE 0
           /\ \A i \in 1..q - p : Window(s, p, q)[i] = s[p + i]
           /\ Window(s, p, q) = <<>> <=> q <= p
<1> DEFINE n == IF p <= q THEN q - p ELSE 0
<1>1. n \in Nat /\ 1..n = 1..q - p
  OBVIOUS
<1>2. Window(s, p, q) = [i \in 1..n |-> s[p + i]]
  BY <1>1 DEF Window
<1>3. \A i \in 1..n : s[p + i] \in S
  BY <1>1
<1>4. Window(s, p, q) \in Seq(S) /\ Len(Window(s, p, q)) = n
  BY <1>1, <1>2, <1>3
<1>5. \A i \in 1..q - p : Window(s, p, q)[i] = s[p + i]
  BY <1>1, <1>2
<1>6. QED BY <1>1, <1>4, <1>5

LEMMA WindowTake ==
    ASSUME NEW S, NEW s \in Seq(S), NEW p \in Nat, NEW q \in 0..Len(s), p < q
    PROVE  /\ Window(s, p, q) # <<>>
           /\ Head(Window(s, p, q)) = s[p + 1] /\ s[p + 1] \in S
           /\ Tail(Window(s, p, q)) = Window(s, p + 1, q)
<1> DEFINE now == Window(s, p, q)
           then == Window(s, p + 1, q)
<1>1. now \in Seq(S)
  BY WindowType
<1>2. Len(now) = q - p
  BY WindowType
<1>3. \A i \in 1..q - p : now[i] = s[p + i]
  BY WindowType
<1>4. then \in Seq(S)
  BY WindowType
<1>5. Len(then) = q - (p + 1)
  BY WindowType
<1>6. \A i \in 1..q - (p + 1) : then[i] = s[p + 1 + i]
  BY WindowType
<1> HIDE DEF now, then
<1>7. now # <<>> /\ Head(now) = s[p + 1] /\ s[p + 1] \in S
  BY <1>1, <1>2, <1>3
<1>8. /\ Tail(now) \in Seq(S) /\ Len(Tail(now)) = q - p - 1
      /\ \A i \in 1..q - p - 1 : Tail(now)[i] = now[i + 1]
  BY <1>1, <1>2, <1>7, HeadTailProperties
<1>9. \A i \in 1..q - p - 1 : Tail(now)[i] = then[i]
  BY <1>3, <1>6, <1>8, SMTT(60)
<1>10. Tail(now) = then
  BY <1>4, <1>5, <1>8, <1>9, SeqEqual
<1>11. QED BY <1>7, <1>10 DEF now, then

LEMMA WindowExtend ==
    ASSUME NEW S, NEW s \in Seq(S), NEW t \in Seq(S), NEW p \in Nat, NEW q \in Nat,
           p <= q, q + Len(t) <= Len(s),
           \A i \in 1..Len(t) : t[i] = s[q + i]
    PROVE  Window(s, p, q) \o t = Window(s, p, q + Len(t))
<1> DEFINE now == Window(s, p, q)
           then == Window(s, p, q + Len(t))
<1> q \in 0..Len(s) /\ q + Len(t) \in 0..Len(s)
  OBVIOUS
<1>1. now \in Seq(S)
  BY WindowType
<1>2. Len(now) = q - p
  BY WindowType
<1>3. \A i \in 1..q - p : now[i] = s[p + i]
  BY WindowType, SMTT(60)
<1>4. then \in Seq(S)
  BY WindowType
<1>5. Len(then) = q + Len(t) - p
  BY WindowType
<1>6. \A i \in 1..q + Len(t) - p : then[i] = s[p + i]
  BY WindowType
<1> HIDE DEF now, then
<1>7. /\ now \o t \in Seq(S)
      /\ Len(now \o t) = q + Len(t) - p
      /\ \A i \in 1..q + Len(t) - p :
           (now \o t)[i] = IF i <= q - p THEN now[i] ELSE t[i - (q - p)]
  <2>1. /\ now \o t \in Seq(S)
        /\ Len(now \o t) = Len(now) + Len(t)
        /\ \A i \in 1..Len(now) + Len(t) :
             (now \o t)[i] = IF i <= Len(now) THEN now[i] ELSE t[i - Len(now)]
    BY <1>1, ConcatProperties
  <2>2. QED BY <1>2, <2>1
<1>8. ASSUME NEW i \in 1..q + Len(t) - p
      PROVE  (now \o t)[i] = then[i]
  <2>1. CASE i <= q - p
    BY <1>3, <1>6, <1>7, <2>1
  <2>2. CASE ~(i <= q - p)
    <3>1. i - (q - p) \in 1..Len(t) /\ q + (i - (q - p)) = p + i
      BY <2>2
    <3>2. t[i - (q - p)] = s[p + i]
      BY <3>1
    <3>3. QED BY <1>6, <1>7, <2>2, <3>2
  <2>3. QED BY <2>1, <2>2
<1>9. now \o t = then
  BY <1>4, <1>5, <1>7, <1>8, SeqEqual
<1>10. QED BY <1>9 DEF now, then

LEMMA WholeRest ==
    ASSUME NEW S, NEW s \in Seq(S)
    PROVE  Rest(s, 0) = s /\ Rest(s, Len(s)) = <<>>
<1> DEFINE whole == Window(s, 0, Len(s))
<1>1. whole \in Seq(S)
  BY WindowType
<1>2. Len(whole) = Len(s)
  BY WindowType
<1>3. \A i \in 1..Len(s) : whole[i] = s[i]
  BY DEF Window
<1> HIDE DEF whole
<1>4. whole = s
  BY <1>1, <1>2, <1>3, SeqEqual
<1>5. Window(s, Len(s), Len(s)) = <<>>
  BY WindowType
<1>6. QED BY <1>4, <1>5 DEF Rest, whole

-------------------------------------------------------------------------------
(* The pin operations of the commands. *)

IsProgram(P, n) == Len(P) = n /\ \E S : P \in Seq(S)

LEMMA Halves ==
    \A a \in Address : /\ Low(a) \in Byte /\ High(a) \in Byte
                       /\ Low(a) + ByteSize * High(a) = a
<1> SUFFICES ASSUME NEW a \in Address
             PROVE  /\ Low(a) \in Byte /\ High(a) \in Byte
                    /\ Low(a) + ByteSize * High(a) = a
  OBVIOUS
<1> DEFINE low == a % ByteSize
           high == a \div ByteSize
<1>1. ByteSize \in Nat /\ ByteSize > 0
  BY ByteSizeAssumption
<1>2. a \in Nat /\ a < ByteSize * ByteSize
  BY <1>1 DEF Address, MemorySize
<1>3. low \in 0..ByteSize - 1 /\ high \in Int /\ a = ByteSize * high + low
  BY <1>1, <1>2
<1> HIDE DEF low, high
<1>4. high >= 0
  <2>1. SUFFICES ASSUME high <= -1 PROVE FALSE
    BY <1>3
  <2>2. ByteSize * high <= ByteSize * (-1)
    BY <1>1, <1>3, <2>1
  <2>3. QED BY <1>1, <1>2, <1>3, <2>2
<1>5. high < ByteSize
  <2>1. SUFFICES ASSUME high >= ByteSize PROVE FALSE
    BY <1>1, <1>3
  <2>2. ByteSize * high >= ByteSize * ByteSize
    BY <1>1, <1>3, <2>1
  <2>3. QED BY <1>1, <1>2, <1>3, <2>2
<1>6. QED BY <1>1, <1>3, <1>4, <1>5 DEF Low, High, low, high, Byte

LEMMA EnterProgram ==
    /\ IsProgram(EnterStandby, 3)
    /\ EnterStandby[1] = Put("buffer", FALSE)
    /\ EnterStandby[2] = Put("standby", TRUE)
    /\ EnterStandby[3] = Put("all_latches", TRUE)
<1>1. EnterStandby \in Seq({EnterStandby[1], EnterStandby[2], EnterStandby[3]})
  BY DEF EnterStandby
<1>2. Len(EnterStandby) = 3
  BY DEF EnterStandby
<1>3. QED BY <1>1, <1>2 DEF EnterStandby, IsProgram

LEMMA ExitProgram ==
    /\ IsProgram(ExitStandby, 2)
    /\ ExitStandby[1] = Put("all_latches", FALSE)
    /\ ExitStandby[2] = Put("standby", FALSE)
<1>1. ExitStandby \in Seq({ExitStandby[1], ExitStandby[2]})
  BY DEF ExitStandby
<1>2. Len(ExitStandby) = 2
  BY DEF ExitStandby
<1>3. QED BY <1>1, <1>2 DEF ExitStandby, IsProgram

LEMMA WriteProgram ==
    /\ IsProgram(WriteCycle, 4)
    /\ WriteCycle[1] = Put("write", TRUE)
    /\ WriteCycle[2] = Put("clk", TRUE)
    /\ WriteCycle[3] = Put("clk", FALSE)
    /\ WriteCycle[4] = Put("write", FALSE)
<1>1. WriteCycle \in Seq({WriteCycle[1], WriteCycle[2], WriteCycle[3], WriteCycle[4]})
  BY DEF WriteCycle
<1>2. Len(WriteCycle) = 4
  BY DEF WriteCycle
<1>3. QED BY <1>1, <1>2 DEF WriteCycle, IsProgram

LEMMA LatchProgram ==
    ASSUME NEW l, NEW byte
    PROVE  /\ IsProgram(SetLatch(l, byte), 2)
           /\ SetLatch(l, byte)[1] = Put("data", byte)
           /\ SetLatch(l, byte)[2] = Put("latch", l)
<1>1. SetLatch(l, byte) \in Seq({SetLatch(l, byte)[1], SetLatch(l, byte)[2]})
  BY DEF SetLatch
<1>2. Len(SetLatch(l, byte)) = 2
  BY DEF SetLatch
<1>3. QED BY <1>1, <1>2 DEF SetLatch, IsProgram

Joined(P, Q, R, m, n, k) ==
    /\ IsProgram(R, k)
    /\ \A i \in 1..m : R[i] = P[i]
    /\ \A i \in m + 1..k : R[i] = Q[i - m]

LEMMA ConcatPrograms ==
    ASSUME NEW P, NEW Q, NEW R, NEW m \in Nat, NEW n \in Nat, NEW k \in Nat,
           IsProgram(P, m), IsProgram(Q, n), R = P \o Q, k = m + n
    PROVE  Joined(P, Q, R, m, n, k)
<1>1. PICK S : P \in Seq(S)
  BY DEF IsProgram
<1>2. PICK U : Q \in Seq(U)
  BY DEF IsProgram
<1>3. P \in Seq(S \cup U) /\ Q \in Seq(S \cup U)
  BY <1>1, <1>2, SeqMonotonic
<1>4. /\ R \in Seq(S \cup U)
      /\ Len(R) = Len(P) + Len(Q)
      /\ \A i \in 1..Len(P) + Len(Q) :
           R[i] = IF i <= Len(P) THEN P[i] ELSE Q[i - Len(P)]
  BY <1>3, ConcatProperties
<1>5. Len(P) = m /\ Len(Q) = n
  BY DEF IsProgram
<1>6. QED BY <1>4, <1>5 DEF IsProgram, Joined

LEMMA ReadCycleProgram ==
    /\ IsProgram(ReadCycle, 10)
    /\ ReadCycle[1] = Put("write", FALSE)
    /\ ReadCycle[2] = Put("drives", FALSE)
    /\ ReadCycle[3] = Put("data_latch", FALSE)
    /\ ReadCycle[4] = Put("buffer", TRUE)
    /\ ReadCycle[5] = Put("clk", TRUE)
    /\ ReadCycle[6] = Put("sample", TRUE)
    /\ ReadCycle[7] = Put("clk", FALSE)
    /\ ReadCycle[8] = Put("buffer", FALSE)
    /\ ReadCycle[9] = Put("data_latch", TRUE)
    /\ ReadCycle[10] = Put("drives", TRUE)
<1>1. ReadCycle \in Seq({ReadCycle[1], ReadCycle[2], ReadCycle[3], ReadCycle[4], ReadCycle[5],
                         ReadCycle[6], ReadCycle[7], ReadCycle[8], ReadCycle[9], ReadCycle[10]})
  BY DEF ReadCycle
<1>2. Len(ReadCycle) = 10
  BY DEF ReadCycle
<1>3. QED BY <1>1, <1>2 DEF ReadCycle, IsProgram

LEMMA ReadProgram ==
    ASSUME NEW a
    PROVE  /\ IsProgram(Reading(a), 14)
           /\ Reading(a)[1] = Put("data", Low(a))
           /\ Reading(a)[2] = Put("latch", "low")
           /\ Reading(a)[3] = Put("data", High(a))
           /\ Reading(a)[4] = Put("latch", "high")
           /\ Reading(a)[5] = Put("write", FALSE)
           /\ Reading(a)[6] = Put("drives", FALSE)
           /\ Reading(a)[7] = Put("data_latch", FALSE)
           /\ Reading(a)[8] = Put("buffer", TRUE)
           /\ Reading(a)[9] = Put("clk", TRUE)
           /\ Reading(a)[10] = Put("sample", TRUE)
           /\ Reading(a)[11] = Put("clk", FALSE)
           /\ Reading(a)[12] = Put("buffer", FALSE)
           /\ Reading(a)[13] = Put("data_latch", TRUE)
           /\ Reading(a)[14] = Put("drives", TRUE)
<1> DEFINE low == SetLatch("low", Low(a))
           high == SetLatch("high", High(a))
<1>1. /\ IsProgram(low, 2)
      /\ low[1] = Put("data", Low(a)) /\ low[2] = Put("latch", "low")
  BY LatchProgram
<1>2. /\ IsProgram(high, 2)
      /\ high[1] = Put("data", High(a)) /\ high[2] = Put("latch", "high")
  BY LatchProgram
<1> DEFINE both == low \o high
           whole == both \o ReadCycle
<1>3. Reading(a) = whole
  BY DEF Reading, SetAddress, Low, High
<1>4. PICK two \in Nat, four \in Nat, ten \in Nat, fourteen \in Nat :
         two = 2 /\ four = 4 /\ ten = 10 /\ fourteen = 14
  OBVIOUS
<1>5. /\ IsProgram(low, two) /\ IsProgram(high, two) /\ IsProgram(ReadCycle, ten)
      /\ four = two + two /\ fourteen = four + ten
  BY <1>1, <1>2, <1>4, ReadCycleProgram
<1>6. both = low \o high /\ whole = both \o ReadCycle
  OBVIOUS
<1> HIDE DEF low, high, both, whole
<1>7. Joined(low, high, both, two, two, four)
  BY <1>5, <1>6, ConcatPrograms
<1>8. Joined(both, ReadCycle, whole, four, ten, fourteen)
  <2>1. IsProgram(both, four)
    BY <1>7 DEF Joined
  <2>2. QED BY <1>5, <1>6, <2>1, ConcatPrograms
<1>9. /\ whole[1] = low[1] /\ whole[2] = low[2] /\ whole[3] = high[1] /\ whole[4] = high[2]
  BY <1>4, <1>7, <1>8 DEF Joined
<1>10. /\ whole[5] = ReadCycle[1] /\ whole[6] = ReadCycle[2] /\ whole[7] = ReadCycle[3]
       /\ whole[8] = ReadCycle[4] /\ whole[9] = ReadCycle[5] /\ whole[10] = ReadCycle[6]
       /\ whole[11] = ReadCycle[7] /\ whole[12] = ReadCycle[8] /\ whole[13] = ReadCycle[9]
       /\ whole[14] = ReadCycle[10]
  BY <1>4, <1>8 DEF Joined
<1>11. IsProgram(whole, 14)
  BY <1>4, <1>8 DEF Joined
<1>12. QED BY <1>1, <1>2, <1>3, <1>9, <1>10, <1>11, ReadCycleProgram

LEMMA RestTake ==
    ASSUME NEW P, NEW m \in Nat, IsProgram(P, m), NEW n \in 0..m
    PROVE  /\ Rest(P, 0) = P
           /\ Rest(P, n) = <<>> <=> n = m
           /\ n < m => /\ Rest(P, n) # <<>> /\ Head(Rest(P, n)) = P[n + 1]
                       /\ Tail(Rest(P, n)) = Rest(P, n + 1)
<1>1. PICK S : P \in Seq(S)
  BY DEF IsProgram
<1>2. Len(P) = m /\ m \in 0..Len(P) /\ n \in Nat
  BY DEF IsProgram
<1>3. Rest(P, 0) = P
  BY <1>1, WholeRest
<1>4. Window(P, n, m) = <<>> <=> m <= n
  BY <1>1, <1>2, WindowType
<1>5. n < m => /\ Window(P, n, m) # <<>> /\ Head(Window(P, n, m)) = P[n + 1]
               /\ Tail(Window(P, n, m)) = Window(P, n + 1, m)
  BY <1>1, <1>2, WindowTake
<1>6. QED BY <1>2, <1>3, <1>4, <1>5 DEF Rest

-------------------------------------------------------------------------------
(* One pin operation. *)

Did(step) ==
    /\ Operate(step)
    /\ memory' = IF MemoryTakes(step) THEN MemoryWritten ELSE memory
    /\ replies' = IF step.pin = "sample"
                  THEN Append(replies, IF MemoryDrives THEN memory[Selected] ELSE NoByte)
                  ELSE replies

LEMMA StepOf ==
    ASSUME NEW P, NEW m \in Nat, IsProgram(P, m), NEW n \in 0..m, steps = Rest(P, n), Step
    PROVE  n < m /\ steps' = Rest(P, n + 1) /\ Did(P[n + 1])
<1>1. steps # <<>>
  BY DEF Step
<1>2. n < m /\ Head(steps) = P[n + 1] /\ Tail(steps) = Rest(P, n + 1)
  BY <1>1, RestTake
<1>3. steps' = Tail(steps) /\ Did(Head(steps))
  BY DEF Step, Did, Answer, MemoryWritten
<1>4. QED BY <1>2, <1>3

\* The pins of one field each.
Simple == {"standby", "write", "drives", "buffer", "data_latch"}

LEMMA DidSimple ==
    ASSUME pins \in Pins, NEW pin \in Simple, NEW value \in BOOLEAN, Did(Put(pin, value))
    PROVE  /\ pins' = [pins EXCEPT ![pin] = value]
           /\ memory' = memory /\ replies' = replies
<1> DEFINE step == Put(pin, value)
<1>1. step.pin = pin /\ step.value = value
  BY DEF Put
<1>2. step # Put("clk", FALSE)
  BY DEF Put, Simple
<1> HIDE DEF step
<1>3. pin \notin {"all_latches", "latch", "sample"}
  BY DEF Simple
<1>4. Did(step)
  BY DEF step
<1>5. QED BY <1>1, <1>2, <1>3, <1>4 DEF Did, Operate, MemoryTakes

LEMMA DidData ==
    ASSUME pins \in Pins, NEW byte \in Byte, Did(Put("data", byte))
    PROVE  /\ pins' = [pins EXCEPT !.data = byte]
           /\ memory' = memory /\ replies' = replies
<1> DEFINE step == Put("data", byte)
<1>1. step.pin = "data" /\ step.value = byte
  BY DEF Put
<1>2. step # Put("clk", FALSE)
  BY DEF Put
<1> HIDE DEF step
<1>3. Did(step)
  BY DEF step
<1>4. QED BY <1>1, <1>2, <1>3 DEF Did, Operate, MemoryTakes

LEMMA DidLatch ==
    ASSUME pins \in Pins, NEW l \in Latches, Did(Put("latch", l))
    PROVE  /\ pins' = [pins EXCEPT !.latch[l] = pins.data]
           /\ memory' = memory /\ replies' = replies
<1> DEFINE step == Put("latch", l)
<1>1. step.pin = "latch" /\ step.value = l
  BY DEF Put
<1>2. step # Put("clk", FALSE)
  BY DEF Put
<1> HIDE DEF step
<1>3. Did(step)
  BY DEF step
<1>4. QED BY <1>1, <1>2, <1>3 DEF Did, Operate, MemoryTakes

LEMMA DidAllLatches ==
    ASSUME pins \in Pins, NEW value \in BOOLEAN, Did(Put("all_latches", value))
    PROVE  /\ pins' = [pins EXCEPT !.latches = value, !.data_latch = value]
           /\ memory' = memory /\ replies' = replies
<1> DEFINE step == Put("all_latches", value)
<1>1. step.pin = "all_latches" /\ step.value = value
  BY DEF Put
<1>2. step # Put("clk", FALSE)
  BY DEF Put
<1> HIDE DEF step
<1>3. Did(step)
  BY DEF step
<1>4. QED BY <1>1, <1>2, <1>3 DEF Did, Operate, MemoryTakes

LEMMA DidClk ==
    ASSUME pins \in Pins, NEW value \in BOOLEAN, Did(Put("clk", value))
    PROVE  /\ pins' = [pins EXCEPT !.clk = value] /\ replies' = replies
           /\ memory' = IF ~value /\ pins.standby /\ pins.clk /\ pins.write /\ pins.data_latch
                        THEN MemoryWritten ELSE memory
<1> DEFINE step == Put("clk", value)
<1>1. step.pin = "clk" /\ step.value = value
  BY DEF Put
<1>2. step = Put("clk", FALSE) <=> ~value
  BY DEF Put
<1> HIDE DEF step
<1>3. Did(step)
  BY DEF step
<1>4. QED BY <1>1, <1>2, <1>3 DEF Did, Operate, MemoryTakes

LEMMA DidSample ==
    ASSUME pins \in Pins, Did(Put("sample", TRUE))
    PROVE  /\ pins' = pins /\ memory' = memory
           /\ replies' = Append(replies, IF MemoryDrives THEN memory[Selected] ELSE NoByte)
<1> DEFINE step == Put("sample", TRUE)
<1>1. step.pin = "sample"
  BY DEF Put
<1>2. step # Put("clk", FALSE)
  BY DEF Put
<1> HIDE DEF step
<1>3. Did(step)
  BY DEF step
<1>4. QED BY <1>1, <1>2, <1>3 DEF Did, Operate, MemoryTakes

-------------------------------------------------------------------------------
(* A pin operation changes nothing of what the command will have done. *)

LEMMA EnterStep ==
    ASSUME pins \in Pins, NEW up \in BOOLEAN, NEW tidy \in BOOLEAN, NEW latch, NEW mem, NEW rep,
           NEW n \in 0..14, Entering(up, latch, mem, rep, tidy, n), Step
    PROVE  /\ n + 1 \in 0..14 /\ Entering(up, latch, mem, rep, tidy, n + 1)'
           /\ pins' \in Pins /\ (memory' = memory \/ memory' = MemoryWritten)
<1>1. n \in 0..3 /\ steps = Rest(EnterStandby, n) /\ 3 \in Nat
  BY DEF Entering
<1>2. n < 3 /\ steps' = Rest(EnterStandby, n + 1) /\ Did(EnterStandby[n + 1])
  BY <1>1, StepOf, EnterProgram
<1>3. CASE n = 0
  <2>1. Did(Put("buffer", FALSE))
    <3>1. Did(EnterStandby[1])
      BY <1>2, <1>3
    <3>2. QED BY <3>1, EnterProgram, Zenon
  <2>2. pins' = [pins EXCEPT !.buffer = FALSE] /\ memory' = memory /\ replies' = replies
    BY <2>1, DidSimple, Zenon DEF Simple
  <2>3. /\ pins' \in Pins /\ pins'.standby = pins.standby /\ pins'.write = pins.write
        /\ pins'.clk = pins.clk /\ pins'.drives = pins.drives /\ pins'.data = pins.data
        /\ pins'.latch = pins.latch /\ pins'.latches = pins.latches /\ pins'.data_latch = pins.data_latch
        /\ pins'.buffer = FALSE
    BY <2>2 DEF Pins
  <2>4. QED BY <1>2, <1>3, <2>2, <2>3 DEF Entering, Resting, Bus, DataLatch
<1>4. CASE n = 1
  <2>1. Did(Put("standby", TRUE))
    <3>1. Did(EnterStandby[2])
      BY <1>2, <1>4
    <3>2. QED BY <3>1, EnterProgram, Zenon
  <2>2. pins' = [pins EXCEPT !.standby = TRUE] /\ memory' = memory /\ replies' = replies
    BY <2>1, DidSimple, Zenon DEF Simple
  <2>3. /\ pins' \in Pins /\ pins'.standby = TRUE /\ pins'.write = pins.write
        /\ pins'.clk = pins.clk /\ pins'.drives = pins.drives /\ pins'.data = pins.data
        /\ pins'.latch = pins.latch /\ pins'.latches = pins.latches /\ pins'.data_latch = pins.data_latch
        /\ pins'.buffer = pins.buffer
    BY <2>2 DEF Pins
  <2>4. QED BY <1>2, <1>4, <2>2, <2>3 DEF Entering, Resting, Bus, DataLatch
<1>5. CASE n = 2
  <2>1. Did(Put("all_latches", TRUE))
    <3>1. Did(EnterStandby[3])
      BY <1>2, <1>5
    <3>2. QED BY <3>1, EnterProgram, Zenon
  <2>2. /\ pins' = [pins EXCEPT !.latches = TRUE, !.data_latch = TRUE]
        /\ memory' = memory /\ replies' = replies
    BY <2>1, DidAllLatches, Zenon
  <2>3. /\ pins' \in Pins /\ pins'.standby = pins.standby /\ pins'.write = pins.write
        /\ pins'.clk = pins.clk /\ pins'.drives = pins.drives /\ pins'.data = pins.data
        /\ pins'.latch = pins.latch /\ pins'.latches = TRUE /\ pins'.data_latch = TRUE
        /\ pins'.buffer = pins.buffer
    BY <2>2 DEF Pins
  <2>4. QED BY <1>2, <1>5, <2>2, <2>3 DEF Entering, Resting, Bus, DataLatch
<1>6. QED BY <1>1, <1>2, <1>3, <1>4, <1>5

LEMMA ExitStep ==
    ASSUME pins \in Pins, NEW up \in BOOLEAN, NEW tidy \in BOOLEAN, NEW latch, NEW mem, NEW rep,
           NEW n \in 0..14, Leaving(up, latch, mem, rep, tidy, n), Step
    PROVE  /\ n + 1 \in 0..14 /\ Leaving(up, latch, mem, rep, tidy, n + 1)'
           /\ pins' \in Pins /\ (memory' = memory \/ memory' = MemoryWritten)
<1>1. n \in 0..2 /\ steps = Rest(ExitStandby, n) /\ 2 \in Nat
  BY DEF Leaving
<1>2. n < 2 /\ steps' = Rest(ExitStandby, n + 1) /\ Did(ExitStandby[n + 1])
  BY <1>1, StepOf, ExitProgram
<1>3. CASE n = 0
  <2>1. Did(Put("all_latches", FALSE))
    <3>1. Did(ExitStandby[1])
      BY <1>2, <1>3
    <3>2. QED BY <3>1, ExitProgram, Zenon
  <2>2. /\ pins' = [pins EXCEPT !.latches = FALSE, !.data_latch = FALSE]
        /\ memory' = memory /\ replies' = replies
    BY <2>1, DidAllLatches, Zenon
  <2>3. /\ pins' \in Pins /\ pins'.standby = pins.standby /\ pins'.write = pins.write
        /\ pins'.clk = pins.clk /\ pins'.drives = pins.drives /\ pins'.data = pins.data
        /\ pins'.latch = pins.latch /\ pins'.latches = FALSE /\ pins'.data_latch = FALSE
        /\ pins'.buffer = pins.buffer
    BY <2>2 DEF Pins
  <2>4. QED BY <1>2, <1>3, <2>2, <2>3 DEF Leaving, Resting, Bus, DataLatch
<1>4. CASE n = 1
  <2>1. Did(Put("standby", FALSE))
    <3>1. Did(ExitStandby[2])
      BY <1>2, <1>4
    <3>2. QED BY <3>1, ExitProgram, Zenon
  <2>2. pins' = [pins EXCEPT !.standby = FALSE] /\ memory' = memory /\ replies' = replies
    BY <2>1, DidSimple, Zenon DEF Simple
  <2>3. /\ pins' \in Pins /\ pins'.standby = FALSE /\ pins'.write = pins.write
        /\ pins'.clk = pins.clk /\ pins'.drives = pins.drives /\ pins'.data = pins.data
        /\ pins'.latch = pins.latch /\ pins'.latches = pins.latches /\ pins'.data_latch = pins.data_latch
        /\ pins'.buffer = pins.buffer
    BY <2>2 DEF Pins
  <2>4. QED BY <1>2, <1>4, <2>2, <2>3 DEF Leaving, Resting, Bus, DataLatch
<1>5. QED BY <1>1, <1>2, <1>3, <1>4

LEMMA WriteStep ==
    ASSUME pins \in Pins, NEW up \in BOOLEAN, NEW tidy \in BOOLEAN, NEW latch, NEW mem, NEW rep,
           NEW n \in 0..14, Writing(up, latch, mem, rep, tidy, n), Step
    PROVE  /\ n + 1 \in 0..14 /\ Writing(up, latch, mem, rep, tidy, n + 1)'
           /\ pins' \in Pins /\ (memory' = memory \/ memory' = MemoryWritten)
<1>1. n \in 0..4 /\ steps = Rest(WriteCycle, n) /\ 4 \in Nat
  BY DEF Writing
<1>2. n < 4 /\ steps' = Rest(WriteCycle, n + 1) /\ Did(WriteCycle[n + 1])
  BY <1>1, StepOf, WriteProgram
<1>3. CASE n = 0
  <2>1. Did(Put("write", TRUE))
    <3>1. Did(WriteCycle[1])
      BY <1>2, <1>3
    <3>2. QED BY <3>1, WriteProgram, Zenon
  <2>2. pins' = [pins EXCEPT !.write = TRUE] /\ memory' = memory /\ replies' = replies
    BY <2>1, DidSimple, Zenon DEF Simple
  <2>3. /\ pins' \in Pins /\ pins'.standby = pins.standby /\ pins'.write = TRUE
        /\ pins'.clk = pins.clk /\ pins'.drives = pins.drives /\ pins'.data = pins.data
        /\ pins'.latch = pins.latch /\ pins'.latches = pins.latches /\ pins'.data_latch = pins.data_latch
        /\ pins'.buffer = pins.buffer
    BY <2>2 DEF Pins
  <2>4. MemoryWritten' = MemoryWritten
    BY <2>2, <2>3 DEF MemoryWritten, Selected
  <2>5. QED BY <1>2, <1>3, <2>2, <2>3, <2>4 DEF Writing, Bus, DataLatch
<1>4. CASE n = 1
  <2>1. Did(Put("clk", TRUE))
    <3>1. Did(WriteCycle[2])
      BY <1>2, <1>4
    <3>2. QED BY <3>1, WriteProgram, Zenon
  <2>2. pins' = [pins EXCEPT !.clk = TRUE] /\ memory' = memory /\ replies' = replies
    BY <2>1, DidClk, Zenon
  <2>3. /\ pins' \in Pins /\ pins'.standby = pins.standby /\ pins'.write = pins.write
        /\ pins'.clk = TRUE /\ pins'.drives = pins.drives /\ pins'.data = pins.data
        /\ pins'.latch = pins.latch /\ pins'.latches = pins.latches /\ pins'.data_latch = pins.data_latch
        /\ pins'.buffer = pins.buffer
    BY <2>2 DEF Pins
  <2>4. MemoryWritten' = MemoryWritten
    BY <2>2, <2>3 DEF MemoryWritten, Selected
  <2>5. QED BY <1>2, <1>4, <2>2, <2>3, <2>4 DEF Writing, Bus, DataLatch
<1>5. CASE n = 2
  <2>1. Did(Put("clk", FALSE))
    <3>1. Did(WriteCycle[3])
      BY <1>2, <1>5
    <3>2. QED BY <3>1, WriteProgram, Zenon
  <2>2. /\ pins' = [pins EXCEPT !.clk = FALSE] /\ replies' = replies
        /\ memory' = IF pins.standby /\ pins.clk /\ pins.write /\ pins.data_latch
                     THEN MemoryWritten ELSE memory
    BY <2>1, DidClk, Zenon
  <2>3. /\ pins' \in Pins /\ pins'.standby = pins.standby /\ pins'.write = pins.write
        /\ pins'.clk = FALSE /\ pins'.drives = pins.drives /\ pins'.data = pins.data
        /\ pins'.latch = pins.latch /\ pins'.latches = pins.latches /\ pins'.data_latch = pins.data_latch
        /\ pins'.buffer = pins.buffer
    BY <2>2 DEF Pins
  <2>4. memory' = IF up THEN MemoryWritten ELSE memory
    BY <1>5, <2>2 DEF Writing, Bus, DataLatch
  <2>5. QED BY <1>2, <1>5, <2>2, <2>3, <2>4 DEF Writing, Bus, DataLatch
<1>6. CASE n = 3
  <2>1. Did(Put("write", FALSE))
    <3>1. Did(WriteCycle[4])
      BY <1>2, <1>6
    <3>2. QED BY <3>1, WriteProgram, Zenon
  <2>2. pins' = [pins EXCEPT !.write = FALSE] /\ memory' = memory /\ replies' = replies
    BY <2>1, DidSimple, Zenon DEF Simple
  <2>3. /\ pins' \in Pins /\ pins'.standby = pins.standby /\ pins'.write = FALSE
        /\ pins'.clk = pins.clk /\ pins'.drives = pins.drives /\ pins'.data = pins.data
        /\ pins'.latch = pins.latch /\ pins'.latches = pins.latches /\ pins'.data_latch = pins.data_latch
        /\ pins'.buffer = pins.buffer
    BY <2>2 DEF Pins
  <2>4. QED BY <1>2, <1>6, <2>2, <2>3 DEF Writing, Bus, DataLatch
<1>7. QED BY <1>1, <1>2, <1>3, <1>4, <1>5, <1>6

LEMMA SetStep ==
    ASSUME pins \in Pins, NEW up \in BOOLEAN, NEW tidy \in BOOLEAN, NEW latch, NEW mem, NEW rep,
           NEW n \in 0..14, NEW l \in Latches, NEW byte \in Byte,
           Setting(up, latch, mem, rep, tidy, n, l, byte), Step
    PROVE  /\ n + 1 \in 0..14 /\ Setting(up, latch, mem, rep, tidy, n + 1, l, byte)'
           /\ pins' \in Pins /\ (memory' = memory \/ memory' = MemoryWritten)
<1>1. n \in 0..2 /\ steps = Rest(SetLatch(l, byte), n) /\ 2 \in Nat
  BY DEF Setting
<1>2. n < 2 /\ steps' = Rest(SetLatch(l, byte), n + 1) /\ Did(SetLatch(l, byte)[n + 1])
  BY <1>1, StepOf, LatchProgram
<1>3. CASE n = 0
  <2>1. Did(Put("data", byte))
    <3>1. Did(SetLatch(l, byte)[1])
      BY <1>2, <1>3
    <3>2. QED BY <3>1, LatchProgram, Zenon
  <2>2. pins' = [pins EXCEPT !.data = byte] /\ memory' = memory /\ replies' = replies
    BY <2>1, DidData, Halves
  <2>3. /\ pins' \in Pins /\ pins'.standby = pins.standby /\ pins'.write = pins.write
        /\ pins'.clk = pins.clk /\ pins'.drives = pins.drives /\ pins'.data = byte
        /\ pins'.latch = pins.latch /\ pins'.latches = pins.latches /\ pins'.data_latch = pins.data_latch
        /\ pins'.buffer = pins.buffer
    BY <2>2 DEF Pins
  <2>4. QED BY <1>2, <1>3, <2>2, <2>3 DEF Setting, Resting, Bus, DataLatch
<1>4. CASE n = 1
  <2>1. Did(Put("latch", l))
    <3>1. Did(SetLatch(l, byte)[2])
      BY <1>2, <1>4
    <3>2. QED BY <3>1, LatchProgram, Zenon
  <2>2. pins' = [pins EXCEPT !.latch[l] = pins.data] /\ memory' = memory /\ replies' = replies
    BY <2>1, DidLatch DEF Latches
  <2>3. /\ pins' \in Pins /\ pins'.standby = pins.standby /\ pins'.write = pins.write
        /\ pins'.clk = pins.clk /\ pins'.drives = pins.drives /\ pins'.data = pins.data
        /\ pins'.latch = [pins.latch EXCEPT ![l] = pins.data] /\ pins'.latches = pins.latches /\ pins'.data_latch = pins.data_latch
        /\ pins'.buffer = pins.buffer
    BY <2>2 DEF Pins
  <2>4. pins'.latch = [pins.latch EXCEPT ![l] = byte]
    BY <1>4, <2>3 DEF Setting
  <2>5. QED BY <1>2, <1>4, <2>2, <2>3, <2>4 DEF Setting, Resting, Bus, DataLatch
<1>5. QED BY <1>1, <1>2, <1>3, <1>4

LEMMA AddressedAgain ==
    ASSUME NEW latch \in [Latches -> Byte], NEW a
    PROVE  /\ Addressed([latch EXCEPT !["low"] = Low(a)], a) = Addressed(latch, a)
           /\ Addressed([latch EXCEPT !["high"] = High(a)], a) = Addressed(latch, a)
BY DEF Addressed, Latches

LEMMA FetchStep ==
    ASSUME pins \in Pins, NEW up \in BOOLEAN, NEW tidy \in BOOLEAN, NEW latch, NEW mem, NEW rep,
           NEW n \in 0..14, NEW a \in Address,
           Fetching(up, latch, mem, rep, tidy, n, a), Step
    PROVE  /\ n + 1 \in 0..14 /\ Fetching(up, latch, mem, rep, tidy, n + 1, a)'
           /\ pins' \in Pins /\ (memory' = memory \/ memory' = MemoryWritten)
<1>1. n \in 0..14 /\ steps = Rest(Reading(a), n) /\ 14 \in Nat
  BY DEF Fetching
<1>2. n < 14 /\ steps' = Rest(Reading(a), n + 1) /\ Did(Reading(a)[n + 1])
  BY <1>1, StepOf, ReadProgram
<1>3. CASE n = 0
  <2>1. Did(Put("data", Low(a)))
    <3>1. Did(Reading(a)[1])
      BY <1>2, <1>3
    <3>2. QED BY <3>1, ReadProgram, Zenon
  <2>2. pins' = [pins EXCEPT !.data = Low(a)] /\ memory' = memory /\ replies' = replies
    BY <2>1, DidData, Halves
  <2>3. /\ pins' \in Pins /\ pins'.standby = pins.standby /\ pins'.write = pins.write
        /\ pins'.clk = pins.clk /\ pins'.drives = pins.drives /\ pins'.data = Low(a)
        /\ pins'.latch = pins.latch /\ pins'.latches = pins.latches /\ pins'.data_latch = pins.data_latch
        /\ pins'.buffer = pins.buffer
    BY <2>2, Halves DEF Pins
  <2>4. QED BY <1>2, <1>3, <2>2, <2>3 DEF Fetching, DataLatch
<1>4. CASE n = 1
  <2>1. Did(Put("latch", "low"))
    <3>1. Did(Reading(a)[2])
      BY <1>2, <1>4
    <3>2. QED BY <3>1, ReadProgram, Zenon
  <2>2. pins' = [pins EXCEPT !.latch["low"] = pins.data] /\ memory' = memory /\ replies' = replies
    BY <2>1, DidLatch DEF Latches
  <2>3. /\ pins' \in Pins /\ pins'.standby = pins.standby /\ pins'.write = pins.write
        /\ pins'.clk = pins.clk /\ pins'.drives = pins.drives /\ pins'.data = pins.data
        /\ pins'.latch = [pins.latch EXCEPT !["low"] = pins.data] /\ pins'.latches = pins.latches /\ pins'.data_latch = pins.data_latch
        /\ pins'.buffer = pins.buffer
    BY <2>2 DEF Pins, Latches
  <2>4. pins'.latch["low"] = Low(a) /\ pins'.latch = [pins.latch EXCEPT !["low"] = Low(a)]
    BY <1>4, <2>3 DEF Fetching, Pins, Latches
  <2>5. Addressed(pins'.latch, a) = Addressed(pins.latch, a)
    BY <2>4, AddressedAgain DEF Pins
  <2>7. QED BY <1>2, <1>4, <2>2, <2>3, <2>4, <2>5 DEF Fetching, DataLatch
<1>5. CASE n = 2
  <2>1. Did(Put("data", High(a)))
    <3>1. Did(Reading(a)[3])
      BY <1>2, <1>5
    <3>2. QED BY <3>1, ReadProgram, Zenon
  <2>2. pins' = [pins EXCEPT !.data = High(a)] /\ memory' = memory /\ replies' = replies
    BY <2>1, DidData, Halves
  <2>3. /\ pins' \in Pins /\ pins'.standby = pins.standby /\ pins'.write = pins.write
        /\ pins'.clk = pins.clk /\ pins'.drives = pins.drives /\ pins'.data = High(a)
        /\ pins'.latch = pins.latch /\ pins'.latches = pins.latches /\ pins'.data_latch = pins.data_latch
        /\ pins'.buffer = pins.buffer
    BY <2>2, Halves DEF Pins
  <2>4. QED BY <1>2, <1>5, <2>2, <2>3 DEF Fetching, DataLatch
<1>6. CASE n = 3
  <2>1. Did(Put("latch", "high"))
    <3>1. Did(Reading(a)[4])
      BY <1>2, <1>6
    <3>2. QED BY <3>1, ReadProgram, Zenon
  <2>2. pins' = [pins EXCEPT !.latch["high"] = pins.data] /\ memory' = memory /\ replies' = replies
    BY <2>1, DidLatch DEF Latches
  <2>3. /\ pins' \in Pins /\ pins'.standby = pins.standby /\ pins'.write = pins.write
        /\ pins'.clk = pins.clk /\ pins'.drives = pins.drives /\ pins'.data = pins.data
        /\ pins'.latch = [pins.latch EXCEPT !["high"] = pins.data] /\ pins'.latches = pins.latches /\ pins'.data_latch = pins.data_latch
        /\ pins'.buffer = pins.buffer
    BY <2>2 DEF Pins, Latches
  <2>4. pins'.latch["high"] = High(a) /\ pins'.latch = [pins.latch EXCEPT !["high"] = High(a)]
    BY <1>6, <2>3 DEF Fetching, Pins, Latches
  <2>5. Addressed(pins'.latch, a) = Addressed(pins.latch, a)
    BY <2>4, AddressedAgain DEF Pins
  <2>6. pins'.latch["low"] = pins.latch["low"]
    BY <2>4 DEF Pins, Latches
  <2>7. QED BY <1>2, <1>6, <2>2, <2>3, <2>4, <2>5, <2>6 DEF Fetching, DataLatch
<1>7. CASE n = 4
  <2>1. Did(Put("write", FALSE))
    <3>1. Did(Reading(a)[5])
      BY <1>2, <1>7
    <3>2. QED BY <3>1, ReadProgram, Zenon
  <2>2. pins' = [pins EXCEPT !.write = FALSE] /\ memory' = memory /\ replies' = replies
    BY <2>1, DidSimple, Zenon DEF Simple
  <2>3. /\ pins' \in Pins /\ pins'.standby = pins.standby /\ pins'.write = FALSE
        /\ pins'.clk = pins.clk /\ pins'.drives = pins.drives /\ pins'.data = pins.data
        /\ pins'.latch = pins.latch /\ pins'.latches = pins.latches /\ pins'.data_latch = pins.data_latch
        /\ pins'.buffer = pins.buffer
    BY <2>2 DEF Pins
  <2>4. QED BY <1>2, <1>7, <2>2, <2>3 DEF Fetching, DataLatch
<1>8. CASE n = 5
  <2>1. Did(Put("drives", FALSE))
    <3>1. Did(Reading(a)[6])
      BY <1>2, <1>8
    <3>2. QED BY <3>1, ReadProgram, Zenon
  <2>2. pins' = [pins EXCEPT !.drives = FALSE] /\ memory' = memory /\ replies' = replies
    BY <2>1, DidSimple, Zenon DEF Simple
  <2>3. /\ pins' \in Pins /\ pins'.standby = pins.standby /\ pins'.write = pins.write
        /\ pins'.clk = pins.clk /\ pins'.drives = FALSE /\ pins'.data = pins.data
        /\ pins'.latch = pins.latch /\ pins'.latches = pins.latches /\ pins'.data_latch = pins.data_latch
        /\ pins'.buffer = pins.buffer
    BY <2>2 DEF Pins
  <2>4. QED BY <1>2, <1>8, <2>2, <2>3 DEF Fetching, DataLatch
<1>9. CASE n = 6
  <2>1. Did(Put("data_latch", FALSE))
    <3>1. Did(Reading(a)[7])
      BY <1>2, <1>9
    <3>2. QED BY <3>1, ReadProgram, Zenon
  <2>2. pins' = [pins EXCEPT !.data_latch = FALSE] /\ memory' = memory /\ replies' = replies
    BY <2>1, DidSimple, Zenon DEF Simple
  <2>3. /\ pins' \in Pins /\ pins'.standby = pins.standby /\ pins'.write = pins.write
        /\ pins'.clk = pins.clk /\ pins'.drives = pins.drives /\ pins'.data = pins.data
        /\ pins'.latch = pins.latch /\ pins'.latches = pins.latches /\ pins'.data_latch = FALSE
        /\ pins'.buffer = pins.buffer
    BY <2>2 DEF Pins
  <2>4. QED BY <1>2, <1>9, <2>2, <2>3 DEF Fetching, DataLatch
<1>10. CASE n = 7
  <2>1. Did(Put("buffer", TRUE))
    <3>1. Did(Reading(a)[8])
      BY <1>2, <1>10
    <3>2. QED BY <3>1, ReadProgram, Zenon
  <2>2. pins' = [pins EXCEPT !.buffer = TRUE] /\ memory' = memory /\ replies' = replies
    BY <2>1, DidSimple, Zenon DEF Simple
  <2>3. /\ pins' \in Pins /\ pins'.standby = pins.standby /\ pins'.write = pins.write
        /\ pins'.clk = pins.clk /\ pins'.drives = pins.drives /\ pins'.data = pins.data
        /\ pins'.latch = pins.latch /\ pins'.latches = pins.latches /\ pins'.data_latch = pins.data_latch
        /\ pins'.buffer = TRUE
    BY <2>2 DEF Pins
  <2>4. QED BY <1>2, <1>10, <2>2, <2>3 DEF Fetching, DataLatch
<1>11. CASE n = 8
  <2>1. Did(Put("clk", TRUE))
    <3>1. Did(Reading(a)[9])
      BY <1>2, <1>11
    <3>2. QED BY <3>1, ReadProgram, Zenon
  <2>2. pins' = [pins EXCEPT !.clk = TRUE] /\ memory' = memory /\ replies' = replies
    BY <2>1, DidClk, Zenon
  <2>3. /\ pins' \in Pins /\ pins'.standby = pins.standby /\ pins'.write = pins.write
        /\ pins'.clk = TRUE /\ pins'.drives = pins.drives /\ pins'.data = pins.data
        /\ pins'.latch = pins.latch /\ pins'.latches = pins.latches /\ pins'.data_latch = pins.data_latch
        /\ pins'.buffer = pins.buffer
    BY <2>2 DEF Pins
  <2>4. QED BY <1>2, <1>11, <2>2, <2>3 DEF Fetching, DataLatch
<1>12. CASE n = 9
  <2>1. Did(Put("sample", TRUE))
    <3>1. Did(Reading(a)[10])
      BY <1>2, <1>12
    <3>2. QED BY <3>1, ReadProgram, Zenon
  <2>2. /\ pins' = pins /\ memory' = memory
        /\ replies' = Append(replies, IF MemoryDrives THEN memory[Selected] ELSE NoByte)
    BY <2>1, DidSample
  <2>3. /\ pins' \in Pins /\ pins'.standby = pins.standby /\ pins'.write = pins.write
        /\ pins'.clk = pins.clk /\ pins'.drives = pins.drives /\ pins'.data = pins.data
        /\ pins'.latch = pins.latch /\ pins'.latches = pins.latches /\ pins'.data_latch = pins.data_latch
        /\ pins'.buffer = pins.buffer
    BY <2>2 DEF Pins
  <2>4. MemoryDrives <=> up
    BY <1>12 DEF Fetching, MemoryDrives
  <2>5. Selected = a
    BY <1>12, Halves DEF Fetching, Selected
  <2>6. replies' = rep
    BY <1>12, <2>2, <2>4, <2>5 DEF Fetching, Fetched
  <2>7. QED BY <1>2, <1>12, <2>2, <2>3, <2>6 DEF Fetching, DataLatch
<1>13. CASE n = 10
  <2>1. Did(Put("clk", FALSE))
    <3>1. Did(Reading(a)[11])
      BY <1>2, <1>13
    <3>2. QED BY <3>1, ReadProgram, Zenon
  <2>2. /\ pins' = [pins EXCEPT !.clk = FALSE] /\ replies' = replies
        /\ memory' = IF pins.standby /\ pins.clk /\ pins.write /\ pins.data_latch
                     THEN MemoryWritten ELSE memory
    BY <2>1, DidClk, Zenon
  <2>3. /\ pins' \in Pins /\ pins'.standby = pins.standby /\ pins'.write = pins.write
        /\ pins'.clk = FALSE /\ pins'.drives = pins.drives /\ pins'.data = pins.data
        /\ pins'.latch = pins.latch /\ pins'.latches = pins.latches /\ pins'.data_latch = pins.data_latch
        /\ pins'.buffer = pins.buffer
    BY <2>2 DEF Pins
  <2>4. memory' = memory
    BY <1>13, <2>2 DEF Fetching
  <2>5. QED BY <1>2, <1>13, <2>2, <2>3, <2>4 DEF Fetching, DataLatch
<1>14. CASE n = 11
  <2>1. Did(Put("buffer", FALSE))
    <3>1. Did(Reading(a)[12])
      BY <1>2, <1>14
    <3>2. QED BY <3>1, ReadProgram, Zenon
  <2>2. pins' = [pins EXCEPT !.buffer = FALSE] /\ memory' = memory /\ replies' = replies
    BY <2>1, DidSimple, Zenon DEF Simple
  <2>3. /\ pins' \in Pins /\ pins'.standby = pins.standby /\ pins'.write = pins.write
        /\ pins'.clk = pins.clk /\ pins'.drives = pins.drives /\ pins'.data = pins.data
        /\ pins'.latch = pins.latch /\ pins'.latches = pins.latches /\ pins'.data_latch = pins.data_latch
        /\ pins'.buffer = FALSE
    BY <2>2 DEF Pins
  <2>4. QED BY <1>2, <1>14, <2>2, <2>3 DEF Fetching, DataLatch
<1>15. CASE n = 12
  <2>1. Did(Put("data_latch", TRUE))
    <3>1. Did(Reading(a)[13])
      BY <1>2, <1>15
    <3>2. QED BY <3>1, ReadProgram, Zenon
  <2>2. pins' = [pins EXCEPT !.data_latch = TRUE] /\ memory' = memory /\ replies' = replies
    BY <2>1, DidSimple, Zenon DEF Simple
  <2>3. /\ pins' \in Pins /\ pins'.standby = pins.standby /\ pins'.write = pins.write
        /\ pins'.clk = pins.clk /\ pins'.drives = pins.drives /\ pins'.data = pins.data
        /\ pins'.latch = pins.latch /\ pins'.latches = pins.latches /\ pins'.data_latch = TRUE
        /\ pins'.buffer = pins.buffer
    BY <2>2 DEF Pins
  <2>4. QED BY <1>2, <1>15, <2>2, <2>3 DEF Fetching, DataLatch
<1>16. CASE n = 13
  <2>1. Did(Put("drives", TRUE))
    <3>1. Did(Reading(a)[14])
      BY <1>2, <1>16
    <3>2. QED BY <3>1, ReadProgram, Zenon
  <2>2. pins' = [pins EXCEPT !.drives = TRUE] /\ memory' = memory /\ replies' = replies
    BY <2>1, DidSimple, Zenon DEF Simple
  <2>3. /\ pins' \in Pins /\ pins'.standby = pins.standby /\ pins'.write = pins.write
        /\ pins'.clk = pins.clk /\ pins'.drives = TRUE /\ pins'.data = pins.data
        /\ pins'.latch = pins.latch /\ pins'.latches = pins.latches /\ pins'.data_latch = pins.data_latch
        /\ pins'.buffer = pins.buffer
    BY <2>2 DEF Pins
  <2>4. QED BY <1>2, <1>16, <2>2, <2>3 DEF Fetching, DataLatch
<1>17. QED BY <1>1, <1>2, <1>3, <1>4, <1>5, <1>6, <1>7, <1>8, <1>9, <1>10, <1>11, <1>12, <1>13, <1>14, <1>15, <1>16

LEMMA StepCompletes ==
    ASSUME pins \in Pins, NEW up \in BOOLEAN, NEW tidy \in BOOLEAN, NEW latch, NEW mem, NEW rep,
           Completing(up, latch, mem, rep, tidy), Step
    PROVE  /\ Completing(up, latch, mem, rep, tidy)'
           /\ pins' \in Pins /\ (memory' = memory \/ memory' = MemoryWritten)
<1>1. ~Idle(up, latch, mem, rep, tidy)
  BY DEF Idle, Step
<1>2. PICK n \in 0..14 :
         \/ Entering(up, latch, mem, rep, tidy, n)
         \/ Leaving(up, latch, mem, rep, tidy, n)
         \/ Writing(up, latch, mem, rep, tidy, n)
         \/ \E l \in Latches, byte \in Byte : Setting(up, latch, mem, rep, tidy, n, l, byte)
         \/ \E a \in Address : Fetching(up, latch, mem, rep, tidy, n, a)
  BY <1>1 DEF Completing
<1>3. CASE Entering(up, latch, mem, rep, tidy, n)
  BY <1>3, EnterStep DEF Completing
<1>4. CASE Leaving(up, latch, mem, rep, tidy, n)
  BY <1>4, ExitStep DEF Completing
<1>5. CASE Writing(up, latch, mem, rep, tidy, n)
  BY <1>5, WriteStep DEF Completing
<1>6. CASE \E l \in Latches, byte \in Byte : Setting(up, latch, mem, rep, tidy, n, l, byte)
  BY <1>6, SetStep DEF Completing
<1>7. CASE \E a \in Address : Fetching(up, latch, mem, rep, tidy, n, a)
  BY <1>7, FetchStep DEF Completing
<1>8. QED BY <1>2, <1>3, <1>4, <1>5, <1>6, <1>7

\* At every pin operation no line has two drivers.
LEMMA CompletingSafe ==
    ASSUME pins \in Pins, NEW up \in BOOLEAN, NEW tidy \in BOOLEAN, NEW latch, NEW mem, NEW rep,
           Completing(up, latch, mem, rep, tidy)
    PROVE  /\ ~(pins.drives /\ pins.buffer)
           /\ ~(pins.data_latch /\ MemoryDrives)
           /\ tidy /\ (pins.latches \/ pins.data_latch) => pins.standby
<1>1. CASE Idle(up, latch, mem, rep, tidy)
  BY <1>1 DEF Idle, Resting, Bus, DataLatch, MemoryDrives, Pins
<1>2. ASSUME NEW n \in 0..14, Entering(up, latch, mem, rep, tidy, n)
      PROVE  /\ ~(pins.drives /\ pins.buffer)
             /\ ~(pins.data_latch /\ MemoryDrives)
             /\ tidy /\ (pins.latches \/ pins.data_latch) => pins.standby
  BY <1>2 DEF Entering, Resting, Bus, DataLatch, MemoryDrives, Pins
<1>3. ASSUME NEW n \in 0..14, Leaving(up, latch, mem, rep, tidy, n)
      PROVE  /\ ~(pins.drives /\ pins.buffer)
             /\ ~(pins.data_latch /\ MemoryDrives)
             /\ tidy /\ (pins.latches \/ pins.data_latch) => pins.standby
  BY <1>3 DEF Leaving, Resting, Bus, DataLatch, MemoryDrives, Pins
<1>4. ASSUME NEW n \in 0..14, Writing(up, latch, mem, rep, tidy, n)
      PROVE  /\ ~(pins.drives /\ pins.buffer)
             /\ ~(pins.data_latch /\ MemoryDrives)
             /\ tidy /\ (pins.latches \/ pins.data_latch) => pins.standby
  BY <1>4 DEF Writing, Bus, DataLatch, MemoryDrives, Pins
<1>5. ASSUME NEW n \in 0..14, NEW l \in Latches, NEW byte \in Byte,
             Setting(up, latch, mem, rep, tidy, n, l, byte)
      PROVE  /\ ~(pins.drives /\ pins.buffer)
             /\ ~(pins.data_latch /\ MemoryDrives)
             /\ tidy /\ (pins.latches \/ pins.data_latch) => pins.standby
  BY <1>5 DEF Setting, Resting, Bus, DataLatch, MemoryDrives, Pins
<1>6. ASSUME NEW n \in 0..14, NEW a \in Address, Fetching(up, latch, mem, rep, tidy, n, a)
      PROVE  /\ ~(pins.drives /\ pins.buffer)
             /\ ~(pins.data_latch /\ MemoryDrives)
             /\ tidy /\ (pins.latches \/ pins.data_latch) => pins.standby
  BY <1>6 DEF Fetching, DataLatch, MemoryDrives, Pins
<1>7. QED BY <1>1, <1>2, <1>3, <1>4, <1>5, <1>6 DEF Completing

\* With no operation left, what they will have done is done.
LEMMA Idles ==
    ASSUME pins \in Pins, NEW up \in BOOLEAN, NEW tidy \in BOOLEAN, NEW latch, NEW mem, NEW rep,
           Completing(up, latch, mem, rep, tidy), steps = <<>>
    PROVE  Idle(up, latch, mem, rep, tidy)
<1>1. ASSUME NEW n \in 0..14, Entering(up, latch, mem, rep, tidy, n)
      PROVE  Idle(up, latch, mem, rep, tidy)
  <2>1. n = 3
    <3>1. PICK m \in Nat : m = 3
      OBVIOUS
    <3>2. n \in 0..m /\ Rest(EnterStandby, n) = <<>>
      BY <1>1, <3>1 DEF Entering
    <3>3. IsProgram(EnterStandby, m)
      BY <3>1, EnterProgram
    <3>4. n = m
      BY <3>2, <3>3, RestTake
    <3>5. QED BY <3>1, <3>4
  <2>2. QED BY <1>1, <2>1 DEF Entering, Idle, Bus, DataLatch
<1>2. ASSUME NEW n \in 0..14, Leaving(up, latch, mem, rep, tidy, n)
      PROVE  Idle(up, latch, mem, rep, tidy)
  <2>1. n = 2
    <3>1. PICK m \in Nat : m = 2
      OBVIOUS
    <3>2. n \in 0..m /\ Rest(ExitStandby, n) = <<>>
      BY <1>2, <3>1 DEF Leaving
    <3>3. IsProgram(ExitStandby, m)
      BY <3>1, ExitProgram
    <3>4. n = m
      BY <3>2, <3>3, RestTake
    <3>5. QED BY <3>1, <3>4
  <2>2. QED BY <1>2, <2>1 DEF Leaving, Idle, Bus, DataLatch, Pins
<1>3. ASSUME NEW n \in 0..14, Writing(up, latch, mem, rep, tidy, n)
      PROVE  Idle(up, latch, mem, rep, tidy)
  <2>1. n = 4
    <3>1. PICK m \in Nat : m = 4
      OBVIOUS
    <3>2. n \in 0..m /\ Rest(WriteCycle, n) = <<>>
      BY <1>3, <3>1 DEF Writing
    <3>3. IsProgram(WriteCycle, m)
      BY <3>1, WriteProgram
    <3>4. n = m
      BY <3>2, <3>3, RestTake
    <3>5. QED BY <3>1, <3>4
  <2>2. QED BY <1>3, <2>1 DEF Writing, Idle, Resting
<1>4. ASSUME NEW n \in 0..14, NEW l \in Latches, NEW byte \in Byte,
             Setting(up, latch, mem, rep, tidy, n, l, byte)
      PROVE  Idle(up, latch, mem, rep, tidy)
  <2>1. n = 2
    <3>1. PICK m \in Nat : m = 2
      OBVIOUS
    <3>2. n \in 0..m /\ Rest(SetLatch(l, byte), n) = <<>>
      BY <1>4, <3>1 DEF Setting
    <3>3. IsProgram(SetLatch(l, byte), m)
      BY <3>1, LatchProgram
    <3>4. n = m
      BY <3>2, <3>3, RestTake
    <3>5. QED BY <3>1, <3>4
  <2>2. QED BY <1>4, <2>1 DEF Setting, Idle
<1>5. ASSUME NEW n \in 0..14, NEW a \in Address, Fetching(up, latch, mem, rep, tidy, n, a)
      PROVE  Idle(up, latch, mem, rep, tidy)
  <2>1. n = 14
    <3>1. PICK m \in Nat : m = 14
      OBVIOUS
    <3>2. n \in 0..m /\ Rest(Reading(a), n) = <<>>
      BY <1>5, <3>1 DEF Fetching
    <3>3. IsProgram(Reading(a), m)
      BY <3>1, ReadProgram
    <3>4. n = m
      BY <3>2, <3>3, RestTake
    <3>5. QED BY <3>1, <3>4
  <2>2. pins.latch["low"] = Low(a) /\ pins.latch["high"] = High(a) /\ latch = Addressed(pins.latch, a)
    BY <1>5, <2>1 DEF Fetching
  <2>3. latch = pins.latch
    BY <2>2 DEF Addressed, Pins, Latches
  <2>4. QED BY <1>5, <2>1, <2>3 DEF Fetching, Idle, Resting, Bus, DataLatch
<1>6. QED BY <1>1, <1>2, <1>3, <1>4, <1>5 DEF Completing

Wrote(latch, mem) == [mem EXCEPT ![latch["low"] + ByteSize * latch["high"]] = latch["data"]]

\* What each sequence of operations will do, when it begins.
LEMMA Starts ==
    ASSUME pins \in Pins, NEW up \in BOOLEAN, NEW tidy \in BOOLEAN, NEW latch, NEW mem, NEW rep,
           Idle(up, latch, mem, rep, tidy), UNCHANGED <<pins, memory, replies>>
    PROVE  /\ steps' = <<>> => Completing(up, latch, mem, rep, tidy)'
           /\ steps' = EnterStandby => Completing(TRUE, latch, mem, rep, tidy)'
           /\ steps' = ExitStandby => Completing(FALSE, latch, mem, rep, tidy)'
           /\ steps' = WriteCycle =>
                Completing(up, latch, IF up THEN Wrote(latch, mem) ELSE mem, rep, tidy)'
           /\ \A l \in Latches, byte \in Byte :
                steps' = SetLatch(l, byte) =>
                  Completing(up, [latch EXCEPT ![l] = byte], mem, rep, tidy)'
           /\ \A a \in Address :
                steps' = Reading(a) =>
                  Completing(up, Addressed(latch, a), mem, Fetched(up, mem, rep, a), tidy /\ up)'
<1> USE DEF Idle
<1>1. ASSUME steps' = <<>> PROVE Completing(up, latch, mem, rep, tidy)'
  BY <1>1 DEF Completing, Resting, Bus, DataLatch
<1>2. ASSUME steps' = EnterStandby PROVE Completing(TRUE, latch, mem, rep, tidy)'
  <2>1. steps' = Rest(EnterStandby, 0) /\ 0 \in 0..14
    <3>1. IsProgram(EnterStandby, 3) /\ 3 \in Nat /\ 0 \in 0..3
      BY EnterProgram
    <3>2. QED BY <1>2, <3>1, RestTake
  <2>2. Entering(TRUE, latch, mem, rep, tidy, 0)'
    BY <2>1 DEF Entering, Resting, Bus, DataLatch, Pins
  <2>3. QED BY <2>1, <2>2 DEF Completing
<1>3. ASSUME steps' = ExitStandby PROVE Completing(FALSE, latch, mem, rep, tidy)'
  <2>1. steps' = Rest(ExitStandby, 0) /\ 0 \in 0..14
    <3>1. IsProgram(ExitStandby, 2) /\ 2 \in Nat /\ 0 \in 0..2
      BY ExitProgram
    <3>2. QED BY <1>3, <3>1, RestTake
  <2>2. Leaving(FALSE, latch, mem, rep, tidy, 0)'
    BY <2>1 DEF Leaving, Resting, Bus, DataLatch, Pins
  <2>3. QED BY <2>1, <2>2 DEF Completing
<1>4. ASSUME steps' = WriteCycle
      PROVE  Completing(up, latch, IF up THEN Wrote(latch, mem) ELSE mem, rep, tidy)'
  <2>1. steps' = Rest(WriteCycle, 0) /\ 0 \in 0..14
    <3>1. IsProgram(WriteCycle, 4) /\ 4 \in Nat /\ 0 \in 0..4
      BY WriteProgram
    <3>2. QED BY <1>4, <3>1, RestTake
  <2>2. MemoryWritten' = Wrote(latch, mem)
    BY DEF MemoryWritten, Wrote, Selected
  <2>3. Writing(up, latch, IF up THEN Wrote(latch, mem) ELSE mem, rep, tidy, 0)'
    BY <2>1, <2>2 DEF Writing, Resting, Bus, DataLatch
  <2>4. QED BY <2>1, <2>3 DEF Completing
<1>5. ASSUME NEW l \in Latches, NEW byte \in Byte, steps' = SetLatch(l, byte)
      PROVE  Completing(up, [latch EXCEPT ![l] = byte], mem, rep, tidy)'
  <2>1. steps' = Rest(SetLatch(l, byte), 0) /\ 0 \in 0..14
    <3>1. IsProgram(SetLatch(l, byte), 2) /\ 2 \in Nat /\ 0 \in 0..2
      BY LatchProgram
    <3>2. QED BY <1>5, <3>1, RestTake
  <2>2. Setting(up, [latch EXCEPT ![l] = byte], mem, rep, tidy, 0, l, byte)'
    BY <2>1 DEF Setting, Resting, Bus, DataLatch
  <2>3. QED BY <2>1, <2>2 DEF Completing
<1>6. ASSUME NEW a \in Address, steps' = Reading(a)
      PROVE  Completing(up, Addressed(latch, a), mem, Fetched(up, mem, rep, a), tidy /\ up)'
  <2>1. steps' = Rest(Reading(a), 0) /\ 0 \in 0..14
    <3>1. IsProgram(Reading(a), 14)
      BY ReadProgram
    <3>2. 14 \in Nat /\ 0 \in 0..14
      OBVIOUS
    <3>3. QED BY <1>6, <3>1, <3>2, RestTake
  <2>2. Fetching(up, Addressed(latch, a), mem, Fetched(up, mem, rep, a), tidy /\ up, 0, a)'
    BY <2>1 DEF Fetching, Resting, Bus, DataLatch, Fetched
  <2>3. QED BY <2>1, <2>2 DEF Completing
<1>7. QED BY <1>1, <1>2, <1>3, <1>4, <1>5, <1>6

\* An answer that no pin operation gives, or a port opened anew.
LEMMA Answers ==
    ASSUME NEW up, NEW tidy, NEW latch, NEW mem, NEW rep, NEW new,
           Idle(up, latch, mem, rep, tidy), UNCHANGED <<pins, memory, steps>>, replies' = new
    PROVE  Completing(up, latch, mem, new, tidy)'
BY DEF Idle, Completing, Resting, Bus, DataLatch

LEMMA Undisturbed ==
    ASSUME NEW up, NEW tidy, NEW latch, NEW mem, NEW rep,
           Completing(up, latch, mem, rep, tidy), UNCHANGED <<pins, memory, steps, replies>>
    PROVE  Completing(up, latch, mem, rep, tidy)'
<1>1. Resting' = Resting /\ MemoryWritten' = MemoryWritten
  BY DEF Resting, MemoryWritten, Selected
<1>2. Bus(up, tidy)' = Bus(up, tidy) /\ Bus(TRUE, tidy)' = Bus(TRUE, tidy)
      /\ Bus(pins.standby, tidy)' = Bus(pins.standby, tidy)
      /\ DataLatch(up, tidy)' = DataLatch(up, tidy)
  BY DEF Bus, DataLatch
<1>3. CASE Idle(up, latch, mem, rep, tidy)
  BY <1>1, <1>2, <1>3 DEF Completing, Idle
<1>4. ASSUME NEW n \in 0..14, Entering(up, latch, mem, rep, tidy, n)
      PROVE  Completing(up, latch, mem, rep, tidy)'
  <2>1. Entering(up, latch, mem, rep, tidy, n)'
    BY <1>1, <1>2, <1>4 DEF Entering
  <2>2. QED BY <2>1 DEF Completing
<1>5. ASSUME NEW n \in 0..14, Leaving(up, latch, mem, rep, tidy, n)
      PROVE  Completing(up, latch, mem, rep, tidy)'
  <2>1. Leaving(up, latch, mem, rep, tidy, n)'
    BY <1>1, <1>2, <1>5 DEF Leaving
  <2>2. QED BY <2>1 DEF Completing
<1>6. ASSUME NEW n \in 0..14, Writing(up, latch, mem, rep, tidy, n)
      PROVE  Completing(up, latch, mem, rep, tidy)'
  <2>1. Writing(up, latch, mem, rep, tidy, n)'
    BY <1>1, <1>2, <1>6 DEF Writing
  <2>2. QED BY <2>1 DEF Completing
<1>7. ASSUME NEW n \in 0..14, NEW l \in Latches, NEW byte \in Byte,
             Setting(up, latch, mem, rep, tidy, n, l, byte)
      PROVE  Completing(up, latch, mem, rep, tidy)'
  <2>1. Setting(up, latch, mem, rep, tidy, n, l, byte)'
    BY <1>1, <1>2, <1>7 DEF Setting
  <2>2. QED BY <2>1 DEF Completing
<1>8. ASSUME NEW n \in 0..14, NEW a \in Address, Fetching(up, latch, mem, rep, tidy, n, a)
      PROVE  Completing(up, latch, mem, rep, tidy)'
  <2>1. Fetching(up, latch, mem, rep, tidy, n, a)'
    BY <1>1, <1>2, <1>8 DEF Fetching
  <2>2. QED BY <2>1 DEF Completing
<1>9. QED BY <1>3, <1>4, <1>5, <1>6, <1>7, <1>8 DEF Completing

-------------------------------------------------------------------------------
(* What a session is. *)

LEMMA SessionShape ==
    ASSUME NEW s, IsSession(s)
    PROVE  /\ s \in Seq(Requests) /\ Len(s) \in Nat /\ Len(s) >= 2
           /\ s[1].op = "enter" /\ s[Len(s)].op = "exit"
           /\ \A i \in 1..Len(s) : s[i] \in Requests
           /\ IsWriting(s) \/ IsReading(s)
BY DEF IsSession, IsWriting, IsReading

LEMMA RequestTypes ==
    \A r \in Requests :
      /\ r.op \in {"enter", "exit", "write", "read"}
      /\ r.op = "write" => r.at \in Address /\ r.byte \in Byte
      /\ r.op = "read" => r.at \in Address /\ r.end \in Address
BY DEF Requests

LEMMA FrameType ==
    ASSUME NEW r \in Requests, r.op = "write"
    PROVE  /\ Len(Frame(r)) = 7 /\ Frame(r) \in Seq(Byte)
           /\ \A o \in 1..7 : Frame(r)[o] \in Byte
           /\ Frame(r)[1] = Code["l"] /\ Frame(r)[2] = Low(r.at)
           /\ Frame(r)[3] = Code["h"] /\ Frame(r)[4] = High(r.at)
           /\ Frame(r)[5] = Code["d"] /\ Frame(r)[6] = r.byte
           /\ Frame(r)[7] = Code["w"]
<1>1. r.at \in Address /\ r.byte \in Byte
  BY RequestTypes
<1>2. Low(r.at) \in Byte /\ High(r.at) \in Byte
  BY <1>1, Halves
<1>3. Code["l"] \in Byte /\ Code["h"] \in Byte /\ Code["d"] \in Byte /\ Code["w"] \in Byte
  BY CodeAssumption DEF Letters, Commands
<1>4. Len(Frame(r)) = 7 /\ Frame(r) \in Seq(Byte)
  BY <1>1, <1>2, <1>3 DEF Frame
<1>5. QED BY <1>4 DEF Frame

LEMMA CodesDiffer ==
    /\ \A c, d \in Commands : Code[c] = Code[d] => c = d
    /\ \A c \in Letters : Code[c] \in Byte
    /\ NoByte \notin Byte
BY CodeAssumption, ByteSizeAssumption DEF Letters, Byte, NoByte

\* The programmer takes the next byte.
LEMMA PlaceTake ==
    ASSUME NEW s, NEW b \in Seq(Byte), NEW k, NEW p, NEW asked \in 0..Len(b),
           StreamPlace(s, b, k, p, asked), wire # <<>>, wire' = Tail(wire), todo' = todo
    PROVE  /\ p \in Nat /\ p < asked /\ Head(wire) = b[p + 1] /\ Head(wire) \in Byte
           /\ StreamPlace(s, b, k, p + 1, asked)'
<1>1. p \in 0..asked /\ wire = Window(b, p, asked)
  BY DEF StreamPlace
<1>2. p < asked
  BY <1>1, WindowType
<1>3. Head(wire) = b[p + 1] /\ Head(wire) \in Byte /\ Tail(wire) = Window(b, p + 1, asked)
  BY <1>1, <1>2, WindowTake
<1>4. QED BY <1>1, <1>2, <1>3 DEF StreamPlace

\* It leaves the bytes alone.
LEMMA PlaceStays ==
    ASSUME NEW s, NEW b, NEW k, NEW p, NEW asked, StreamPlace(s, b, k, p, asked),
           wire' = wire, todo' = todo
    PROVE  StreamPlace(s, b, k, p, asked)'
BY DEF StreamPlace

LEMMA NoMoreBytes ==
    ASSUME NEW s, NEW b \in Seq(Byte), NEW k, NEW p, NEW asked \in 0..Len(b),
           StreamPlace(s, b, k, p, asked), wire = <<>>
    PROVE  p = asked
<1>1. p \in 0..asked /\ wire = Window(b, p, asked)
  BY DEF StreamPlace
<1>2. QED BY <1>1, WindowType

LEMMA NoMoreRequests ==
    ASSUME NEW s, IsSession(s), NEW b, NEW k, NEW p, NEW asked,
           StreamPlace(s, b, k, p, asked), todo = <<>>
    PROVE  k = Len(s)
<1>1. k \in 0..Len(s) /\ todo = Window(s, k, Len(s)) /\ s \in Seq(Requests)
  BY SessionShape DEF StreamPlace
<1>2. k \in Nat /\ Len(s) \in 0..Len(s)
  BY <1>1
<1>3. QED BY <1>1, <1>2, WindowType

LEMMA WriteAskedType ==
    ASSUME NEW s, IsSession(s), NEW b \in Seq(Byte), WriteStream(s, b), NEW k \in 0..Len(s)
    PROVE  WriteAsked(s, k) \in 0..Len(b) /\ WriteAsked(s, k) <= 7 * Len(s) - 12
BY SessionShape DEF WriteStream, WriteAsked

LEMMA ReadStreamType ==
    ASSUME NEW s, IsSession(s), IsReading(s), NEW b, ReadStream(s, b)
    PROVE  /\ Len(b) = 7 /\ b \in Seq(Byte)
           /\ b[1] = Code["s"] /\ b[2] = Code["r"] /\ b[3] = Low(s[2].at) /\ b[4] = High(s[2].at)
           /\ b[5] = Low(s[2].end) /\ b[6] = High(s[2].end) /\ b[7] = Code["x"]
           /\ s[2].op = "read" /\ s[2].at \in Address /\ s[2].end \in Address
           /\ s[2].at <= s[2].end /\ (s[2].end + 1) % MemorySize # s[2].at
<1>1. s[2] \in Requests /\ s[2].op = "read"
  BY SessionShape DEF IsReading
<1>2. s[2].at \in Address /\ s[2].end \in Address
  BY <1>1, RequestTypes
<1>3. s[2].at <= s[2].end /\ (s[2].end + 1) % MemorySize # s[2].at
  BY <1>1 DEF IsSession, IsReading
<1>4. /\ Low(s[2].at) \in Byte /\ High(s[2].at) \in Byte
      /\ Low(s[2].end) \in Byte /\ High(s[2].end) \in Byte
  BY <1>2, Halves
<1>5. Code["s"] \in Byte /\ Code["r"] \in Byte /\ Code["x"] \in Byte
  BY CodesDiffer DEF Letters, Commands
<1>6. Len(b) = 7 /\ b \in Seq(Byte)
  BY <1>4, <1>5 DEF ReadStream
<1>7. QED BY <1>1, <1>2, <1>3, <1>6 DEF ReadStream

LEMMA ReadAskedType ==
    ASSUME NEW s, IsReading(s), NEW k \in 0..Len(s)
    PROVE  ReadAsked(k) \in 0..7
BY DEF IsReading, ReadAsked

LEMMA NextPlace ==
    ASSUME NEW s, Len(s) \in Nat, NEW p \in Nat, p < 7 * Len(s) - 12,
           NEW f \in -1..Len(s) - 2, NEW o \in 0..6, FramePlace(s, p, f, o)
    PROVE  /\ o = 6 => FramePlace(s, p + 1, f + 1, 0) /\ f + 1 \in -1..Len(s) - 2
           /\ o < 6 => FramePlace(s, p + 1, f, o + 1) /\ o + 1 \in 0..6
           /\ f = Len(s) - 2 => o = 0
BY DEF FramePlace

\* The byte that is taken next.
LEMMA NextByte ==
    ASSUME NEW s, IsSession(s), IsWriting(s), NEW b, WriteStream(s, b),
           NEW p \in Nat, p < 7 * Len(s) - 12,
           NEW f \in -1..Len(s) - 2, NEW o \in 0..6, FramePlace(s, p, f, o)
    PROVE  /\ f = -1 => b[p + 1] = Code["s"]
           /\ f \in 0..Len(s) - 3 =>
                /\ b[p + 1] = Frame(s[f + 2])[o + 1]
                /\ s[f + 2] \in Requests /\ s[f + 2].op = "write"
           /\ f = Len(s) - 2 => b[p + 1] = Code["x"]
<1> Len(s) \in Nat /\ Len(s) >= 2
  BY SessionShape
<1>1. ASSUME f = -1 PROVE b[p + 1] = Code["s"]
  <2>1. p = 0
    BY <1>1 DEF FramePlace
  <2>2. QED BY <2>1 DEF WriteStream
<1>2. ASSUME f \in 0..Len(s) - 3
      PROVE  /\ b[p + 1] = Frame(s[f + 2])[o + 1]
             /\ s[f + 2] \in Requests /\ s[f + 2].op = "write"
  <2>1. p + 1 = 7 * f + 1 + (o + 1) /\ o + 1 \in 1..7
    BY DEF FramePlace
  <2>2. b[7 * f + 1 + (o + 1)] = Frame(s[f + 2])[o + 1]
    BY <1>2, <2>1 DEF WriteStream
  <2>3. f + 2 \in 2..Len(s) - 1
    BY <1>2
  <2>4. QED BY <2>1, <2>2, <2>3, SessionShape DEF IsWriting
<1>3. ASSUME f = Len(s) - 2 PROVE b[p + 1] = Code["x"]
  <2>1. p + 1 = 7 * Len(s) - 12
    BY <1>3 DEF FramePlace
  <2>2. QED BY <2>1 DEF WriteStream
<1>4. QED BY <1>1, <1>2, <1>3

-------------------------------------------------------------------------------
(* A byte taken for a command. *)

Kept(c) == IF c \in Commands /\ ArgumentsOf(c) # 0 THEN c ELSE "none"
UpAfter(c, up) == CASE c = "s" -> TRUE [] c = "x" -> FALSE [] OTHER -> up
MemAfter(c, up, latch, mem) == IF c = "w" /\ up THEN Wrote(latch, mem) ELSE mem

\* The byte is the letter of c, or, when c is "none", no command's.
LetterIs(byte, c) ==
    \/ c \in Commands /\ Code[c] = byte
    \/ c = "none" /\ \A d \in Commands : Code[d] # byte

LEMMA KeptIs ==
    /\ Kept("none") = "none" /\ Kept("s") = "none" /\ Kept("x") = "none" /\ Kept("w") = "none"
    /\ Kept("d") = "d" /\ Kept("l") = "l" /\ Kept("h") = "h" /\ Kept("r") = "r"
BY DEF Kept, ArgumentsOf, Commands

LEMMA LetterOf ==
    ASSUME NEW byte, NEW c, LetterIs(byte, c), NEW d \in Commands, Code[d] = byte
    PROVE  c = d
BY CodesDiffer DEF LetterIs

LEMMA TakeCommandDoes ==
    ASSUME pins \in Pins, NEW up \in BOOLEAN, NEW tidy \in BOOLEAN, NEW latch, NEW mem, NEW rep,
           Idle(up, latch, mem, rep, tidy), TakeCommand
    PROVE  \E c \in Commands \cup {"none"} :
             /\ LetterIs(Head(wire), c) /\ command' = Kept(c)
             /\ Completing(UpAfter(c, up), latch, MemAfter(c, up, latch, mem), rep, tidy)'
<1> DEFINE known == {c \in Commands : Code[c] = Head(wire)}
<1>1. UNCHANGED <<pins, memory, replies>> /\ command = "none" /\ steps = <<>>
  BY DEF TakeCommand
<1>2. CASE known = {}
  <2>1. UNCHANGED <<command, steps>>
    BY <1>2 DEF TakeCommand
  <2>2. Completing(up, latch, mem, rep, tidy)'
    BY <1>1, <2>1, Starts
  <2>3. UpAfter("none", up) = up /\ MemAfter("none", up, latch, mem) = mem
    BY DEF UpAfter, MemAfter
  <2>4. LetterIs(Head(wire), "none") /\ command' = Kept("none")
    BY <1>1, <1>2, <2>1, KeptIs DEF LetterIs
  <2>5. QED BY <2>2, <2>3, <2>4
<1>3. CASE known # {}
  <2>1. PICK c \in known : /\ steps' = StepsOf(c)
                           /\ command' = IF ArgumentsOf(c) = 0 THEN "none" ELSE c
    BY <1>3 DEF TakeCommand
  <2>2. c \in Commands /\ LetterIs(Head(wire), c) /\ command' = Kept(c)
    BY <2>1 DEF LetterIs, Kept
  <2>3. CASE c = "s"
    <3>1. steps' = EnterStandby /\ UpAfter(c, up) = TRUE /\ MemAfter(c, up, latch, mem) = mem
      BY <2>1, <2>3 DEF StepsOf, UpAfter, MemAfter
    <3>2. Completing(TRUE, latch, mem, rep, tidy)'
      BY <1>1, <3>1, Starts
    <3>3. QED BY <2>2, <3>1, <3>2
  <2>4. CASE c = "x"
    <3>1. steps' = ExitStandby /\ UpAfter(c, up) = FALSE /\ MemAfter(c, up, latch, mem) = mem
      BY <2>1, <2>4 DEF StepsOf, UpAfter, MemAfter
    <3>2. Completing(FALSE, latch, mem, rep, tidy)'
      BY <1>1, <3>1, Starts
    <3>3. QED BY <2>2, <3>1, <3>2
  <2>5. CASE c = "w"
    <3>1. /\ steps' = WriteCycle /\ UpAfter(c, up) = up
          /\ MemAfter(c, up, latch, mem) = IF up THEN Wrote(latch, mem) ELSE mem
      BY <2>1, <2>5 DEF StepsOf, UpAfter, MemAfter
    <3>2. Completing(up, latch, IF up THEN Wrote(latch, mem) ELSE mem, rep, tidy)'
      BY <1>1, <3>1, Starts
    <3>3. QED BY <2>2, <3>1, <3>2
  <2>6. CASE c \notin {"s", "x", "w"}
    <3>1. steps' = <<>> /\ UpAfter(c, up) = up /\ MemAfter(c, up, latch, mem) = mem
      BY <2>1, <2>6 DEF StepsOf, UpAfter, MemAfter
    <3>2. Completing(up, latch, mem, rep, tidy)'
      BY <1>1, <3>1, Starts
    <3>3. QED BY <2>2, <3>1, <3>2
  <2>7. QED BY <2>3, <2>4, <2>5, <2>6
<1>4. QED BY <1>2, <1>3

LEMMA SameCleanness ==
    ASSUME reported' = reported, args' = args
    PROVE  (Clean' <=> Clean) /\ (Orderly' <=> Orderly)
BY DEF Clean, Orderly

LEMMA WroteType ==
    ASSUME NEW latch \in [Latches -> Byte], NEW mem \in [Address -> Byte]
    PROVE  Wrote(latch, mem) \in [Address -> Byte]
BY DEF Wrote, Latches

LEMMA CommandLeaves ==
    ASSUME TakeCommand
    PROVE  /\ command = "none" /\ steps = <<>> /\ wire # <<>> /\ wire' = Tail(wire)
           /\ ~stalled'
           /\ UNCHANGED <<todo, awaits, sessions, intended, answers, args, next, end, pins,
                          replies, memory, reported, stalls>>
BY DEF TakeCommand

LEMMA UpToStays ==
    ASSUME NEW s, NEW first, NEW k, NEW mem, UpTo(s, first, k, mem), intended' = intended
    PROVE  UpTo(s, first, k, mem)'
BY DEF UpTo, WriteTo

\* Of a session of writes.
LEMMA WriteTakesCommand ==
    ASSUME NEW s, IsSession(s), NEW b \in Seq(Byte), NEW k, NEW p \in Nat,
           NEW up \in BOOLEAN, NEW latch \in [Latches -> Byte], NEW mem \in [Address -> Byte], NEW rep,
           IsWriting(s), WriteStream(s, b), k \in 0..Len(s), p < WriteAsked(s, k),
           NEW f \in -1..Len(s) - 2, NEW o \in 0..6,
           WriteSession(s, k, p, f, o, up, latch, mem, rep),
           TakeCommand, args = <<>>, stalled => stalls >= 1, ProgrammerTypeOK,
           NEW c \in Commands \cup {"none"}, LetterIs(b[p + 1], c), command' = Kept(c)
    PROVE  \E f2 \in -1..Len(s) - 2, o2 \in 0..6 :
             WriteSession(s, k, p + 1, f2, o2, UpAfter(c, up), latch,
                          MemAfter(c, up, latch, mem), rep)'
<1> Len(s) \in Nat /\ Len(s) >= 2
  BY SessionShape
<1> p < 7 * Len(s) - 12
  BY WriteAskedType
<1>1. /\ command = "none" /\ ~stalled'
      /\ UNCHANGED <<awaits, intended, answers, args, reported, stalls>>
  BY CommandLeaves
<1>2. FramePlace(s, p, f, o) /\ awaits = 0
  BY DEF WriteSession
<1>3. (Clean' <=> Clean) /\ (Orderly' <=> Orderly)
  BY <1>1, SameCleanness
<1>4. PICK f2 \in -1..Len(s) - 2, o2 \in 0..6 :
         /\ FramePlace(s, p + 1, f2, o2)
         /\ o = 6 => f2 = f + 1 /\ o2 = 0
         /\ o < 6 => f2 = f /\ o2 = o + 1
  <2>1. CASE o = 6
    <3>1. FramePlace(s, p + 1, f + 1, 0) /\ f + 1 \in -1..Len(s) - 2 /\ 0 \in 0..6
      BY <1>2, <2>1, NextPlace
    <3>2. QED BY <2>1, <3>1
  <2>2. CASE o < 6
    <3>1. FramePlace(s, p + 1, f, o + 1) /\ o + 1 \in 0..6
      BY <1>2, <2>2, NextPlace
    <3>2. QED BY <2>2, <3>1
  <2>3. QED BY <2>1, <2>2
<1>5. /\ f = -1 => b[p + 1] = Code["s"] /\ o = 6
      /\ f \in 0..Len(s) - 3 =>
           /\ b[p + 1] = Frame(s[f + 2])[o + 1]
           /\ s[f + 2] \in Requests /\ s[f + 2].op = "write"
      /\ f = Len(s) - 2 => b[p + 1] = Code["x"] /\ o = 0
  <2>1. f = -1 => b[p + 1] = Code["s"]
    BY <1>2, NextByte
  <2>2. f \in 0..Len(s) - 3 =>
           /\ b[p + 1] = Frame(s[f + 2])[o + 1]
           /\ s[f + 2] \in Requests /\ s[f + 2].op = "write"
    BY <1>2, NextByte
  <2>3. f = Len(s) - 2 => b[p + 1] = Code["x"]
    BY <1>2, NextByte
  <2>4. f = Len(s) - 2 => o = 0
    BY <1>2, NextPlace
  <2>5. f = -1 => o = 6
    BY <1>2 DEF FramePlace
  <2>6. QED BY <2>1, <2>2, <2>3, <2>4, <2>5
<1>6. f # -1 /\ f # Len(s) - 2 => f \in 0..Len(s) - 3
  OBVIOUS
\* What the letter is when the frames are in step.
<1>7. Aligned(s, f, o) <=> o \in {0, 2, 4, 6}
  BY <1>1, <1>5 DEF Aligned, AfterLast, LetterAt
<1>8. /\ f = -1 => c = "s"
      /\ f = Len(s) - 2 => c = "x"
      /\ f \in 0..Len(s) - 3 => /\ o = 0 => c = "l"
                                /\ o = 2 => c = "h"
                                /\ o = 4 => c = "d"
                                /\ o = 6 => c = "w"
  <2>1. "s" \in Commands /\ "x" \in Commands /\ "l" \in Commands /\ "h" \in Commands
        /\ "d" \in Commands /\ "w" \in Commands
    BY DEF Commands
  <2>2. ASSUME f \in 0..Len(s) - 3
        PROVE  /\ o = 0 => b[p + 1] = Code["l"]
               /\ o = 2 => b[p + 1] = Code["h"]
               /\ o = 4 => b[p + 1] = Code["d"]
               /\ o = 6 => b[p + 1] = Code["w"]
    <3>1. PICK w \in Requests : w = s[f + 2] /\ w.op = "write" /\ b[p + 1] = Frame(w)[o + 1]
      BY <1>5, <2>2
    <3>2. /\ Frame(w)[1] = Code["l"] /\ Frame(w)[3] = Code["h"]
          /\ Frame(w)[5] = Code["d"] /\ Frame(w)[7] = Code["w"]
      BY <3>1, FrameType
    <3>3. QED BY <3>1, <3>2
  <2>3. QED BY <1>5, <2>1, <2>2, LetterOf
<1>9. ASSUME Aligned(s, f, o)
      PROVE  Aligned(s, f2, o2)'
  BY <1>1, <1>4, <1>5, <1>6, <1>7, <1>8, <1>9, KeptIs DEF Aligned, AfterLast, LetterAt
<1>10. ASSUME Orderly
       PROVE  InStep(s, f2, o2, UpAfter(c, up))'
  <2>1. InStep(s, f, o, up)
    BY <1>10 DEF WriteSession
  <2>2. CASE Aligned(s, f, o)
    <3>1. CASE f = -1
      BY <1>8, <1>9, <2>2, <3>1 DEF InStep, UpAfter
    <3>2. CASE f = Len(s) - 2
      <4>1. AfterLast(s, f2, o2)
        BY <1>4, <1>5, <3>2 DEF AfterLast
      <4>2. command' = "none"
        BY <1>8, <3>2, KeptIs
      <4>3. QED BY <1>9, <2>2, <4>1, <4>2 DEF InStep, AfterLast
    <3>3. CASE f \in 0..Len(s) - 3
      <4>1. c \in {"l", "h", "d", "w"} /\ UpAfter(c, up) = up
        BY <1>7, <1>8, <2>2, <3>3 DEF UpAfter
      <4>2. up \/ (stalls >= MaxStalls /\ ~stalled)
        BY <2>1, <3>3 DEF InStep, AfterLast
      <4>3. QED BY <1>1, <1>9, <2>2, <4>1, <4>2 DEF InStep
    <3>4. QED BY <1>6, <3>1, <3>2, <3>3
  <2>3. CASE ~Aligned(s, f, o)
    <3>1. up /\ stalls >= 1 /\ o \in {1, 3, 5} /\ f \in 0..Len(s) - 3
      BY <1>5, <1>6, <1>7, <2>1, <2>3 DEF InStep
    <3>2. ~Clean
      BY <2>3 DEF WriteSession, WrittenSoFar
    <3>3. MaxStalls <= 1
      BY <1>10, <3>2 DEF Orderly
    <3>4. CASE c = "x"
      <4>1. command' = "none" /\ o2 \in {2, 4, 6}
        BY <1>4, <3>1, <3>4, KeptIs
      <4>2. Aligned(s, f2, o2)'
        BY <4>1 DEF Aligned
      <4>3. stalls' >= MaxStalls /\ ~stalled'
        BY <1>1, <3>1, <3>3, BoundsAssumption DEF ProgrammerTypeOK
      <4>4. QED BY <4>2, <4>3 DEF InStep
    <3>5. CASE c # "x"
      <4>1. UpAfter(c, up) /\ stalls' >= 1
        BY <1>1, <3>1, <3>5 DEF UpAfter
      <4>2. QED BY <4>1 DEF InStep
    <3>6. QED BY <3>4, <3>5
  <2>4. QED BY <2>2, <2>3
<1>11. ASSUME Clean
       PROVE  WrittenSoFar(s, k, f2, o2, UpAfter(c, up), latch, MemAfter(c, up, latch, mem), rep)'
  <2>1. WrittenSoFar(s, k, f, o, up, latch, mem, rep)
    BY <1>11 DEF WriteSession
  <2>2. Aligned(s, f, o) /\ Aligned(s, f2, o2)'
    BY <1>9, <2>1 DEF WrittenSoFar
  <2>3. rep = <<>> /\ answers' = <<>>
    BY <1>1, <2>1 DEF WrittenSoFar
  <2>4. UpTo(s, f + 2, k, mem)
    BY <2>1 DEF WrittenSoFar
  <2>5. CASE f = -1
    <3>1. f2 = 0 /\ o2 = 0 /\ UpAfter(c, up) /\ MemAfter(c, up, latch, mem) = mem
      BY <1>4, <1>5, <1>8, <2>5 DEF UpAfter, MemAfter
    <3>2. Latched(s, f2, o2, latch)'
      BY <3>1 DEF Latched
    <3>3. s[1].op # "write"
      BY SessionShape
    <3>4. UpTo(s, f2 + 2, k, mem)'
      <4>1. f + 2 = 1 /\ f2 + 2 = 2
        BY <2>5, <3>1
      <4>2. UpTo(s, 1, k, mem)
        BY <2>4, <4>1
      <4>3. \A a : ~WriteTo(s, 1, a)
        BY <3>3 DEF WriteTo
      <4>4. UpTo(s, 2, k, mem)'
        <5>1. \A i \in 1..k : i = 1 \/ i \in 2..k
          OBVIOUS
        <5>2. \A i \in 2..k : i \in 1..k
          OBVIOUS
        <5>3. QED BY <1>1, <4>2, <4>3, <5>1, <5>2 DEF UpTo, WriteTo
      <4>5. QED BY <4>1, <4>4
    <3>5. QED BY <2>2, <2>3, <3>1, <3>2, <3>4 DEF WrittenSoFar
  <2>6. CASE f = Len(s) - 2
    <3>1. AfterLast(s, f2, o2) /\ f2 = f /\ MemAfter(c, up, latch, mem) = mem
      BY <1>4, <1>5, <1>8, <2>6 DEF AfterLast, MemAfter
    <3>2. UpTo(s, f2 + 2, k, mem)'
      BY <1>1, <2>4, <3>1 DEF UpTo, WriteTo
    <3>3. QED BY <2>2, <2>3, <2>6, <3>1, <3>2 DEF WrittenSoFar, AfterLast
  <2>7. CASE f \in 0..Len(s) - 3
    <3>1. up /\ Latched(s, f, o, latch) /\ c \in {"l", "h", "d", "w"} /\ UpAfter(c, up)
      BY <1>7, <1>8, <2>1, <2>2, <2>7 DEF WrittenSoFar, AfterLast, UpAfter
    <3>2. CASE o # 6
      <4>1. f2 = f /\ o2 = o + 1 /\ MemAfter(c, up, latch, mem) = mem
        BY <1>4, <1>7, <1>8, <2>2, <2>7, <3>2 DEF MemAfter
      <4>2. UpTo(s, f2 + 2, k, mem)'
        BY <1>1, <2>4, <4>1 DEF UpTo, WriteTo
      <4>3. Latched(s, f2, o2, latch)'
        BY <1>1, <1>7, <2>2, <3>1, <3>2, <4>1 DEF Latched
      <4>4. QED BY <2>2, <2>3, <3>1, <4>1, <4>2, <4>3 DEF WrittenSoFar
    <3>3. CASE o = 6
      <4>1. f2 = f + 1 /\ o2 = 0 /\ MemAfter(c, up, latch, mem) = Wrote(latch, mem)
        BY <1>4, <1>8, <2>7, <3>1, <3>3 DEF MemAfter
      <4>2. Latched(s, f2, o2, latch)'
        BY <4>1 DEF Latched
      <4>3. PICK w \in Requests : w = s[f + 2] /\ w.op = "write" /\ w.at \in Address
        BY <1>5, <2>7, RequestTypes
      <4>4. latch["low"] = Low(w.at) /\ latch["high"] = High(w.at) /\ latch["data"] = w.byte
        BY <1>1, <3>1, <3>3, <4>3 DEF Latched
      <4>5. Wrote(latch, mem) = [mem EXCEPT ![w.at] = w.byte]
        BY <4>3, <4>4, Halves DEF Wrote
      <4>6. UpTo(s, f + 3, k, [mem EXCEPT ![w.at] = w.byte])'
        <5>1. PICK first \in Nat : first = f + 2
          <6>1. f + 2 \in Nat
            BY <2>7
          <6>2. QED BY <6>1
        <5>2. UpTo(s, first, k, mem) /\ s[first] = w
          BY <2>4, <4>3, <5>1
        <5>3. \A a \in Address : WriteTo(s, first, a) <=> a = w.at
          BY <4>3, <5>2 DEF WriteTo
        <5>4. \A i \in first..k : i = first \/ i \in first + 1..k
          BY <5>1
        <5>5. \A i \in first + 1..k : i \in first..k /\ i # first
          BY <5>1
        <5>6. first \notin first + 1..k
          BY <5>1
        <5>7. UpTo(s, first + 1, k, [mem EXCEPT ![w.at] = w.byte])
          <6> DEFINE new == [mem EXCEPT ![w.at] = w.byte]
          <6>1. ASSUME NEW a \in Address, \A i \in first + 1..k : ~WriteTo(s, i, a)
                PROVE  new[a] = intended[a]
            <7>1. CASE a = w.at
              <8>1. first \in first..k
                BY <1>2, <3>3, <5>1 DEF FramePlace, WriteAsked
              <8>2. new[a] = w.byte
                BY <7>1
              <8>3. QED BY <5>2, <5>3, <6>1, <7>1, <8>1, <8>2 DEF UpTo
            <7>2. CASE a # w.at
              <8>1. \A i \in first..k : ~WriteTo(s, i, a)
                BY <5>3, <5>4, <6>1, <7>2
              <8>2. mem[a] = intended[a]
                BY <5>2, <8>1 DEF UpTo
              <8>3. QED BY <7>2, <8>2
            <7>3. QED BY <7>1, <7>2
          <6>2. ASSUME NEW a \in Address, NEW i \in first + 1..k, WriteTo(s, i, a),
                       \A j \in i + 1..k : ~WriteTo(s, j, a)
                PROVE  intended[a] = s[i].byte
            BY <5>2, <5>5, <6>2 DEF UpTo
          <6>3. QED BY <6>1, <6>2 DEF UpTo
        <5>8. first + 1 = f + 3
          BY <5>1
        <5>9. UpTo(s, first + 1, k, [mem EXCEPT ![w.at] = w.byte])'
          BY <1>1, <5>7, UpToStays
        <5>10. QED BY <5>8, <5>9
      <4>7. UpTo(s, f2 + 2, k, Wrote(latch, mem))'
        BY <4>1, <4>5, <4>6
      <4>8. QED BY <2>2, <2>3, <3>1, <4>1, <4>2, <4>7 DEF WrittenSoFar
    <3>4. QED BY <3>2, <3>3
  <2>8. QED BY <1>6, <2>5, <2>6, <2>7
<1>12. QED BY <1>1, <1>2, <1>3, <1>4, <1>10, <1>11 DEF WriteSession

\* Of a read.
LEMMA ReadTakesCommand ==
    ASSUME NEW s, IsSession(s), NEW b, NEW k, NEW p \in Nat, p < 7,
           NEW up \in BOOLEAN, NEW latch, NEW mem, NEW rep,
           IsReading(s), ReadStream(s, b),
           ReadSession(s, b, k, p, up, mem, rep),
           TakeCommand, args = <<>>,
           NEW c \in Commands \cup {"none"}, LetterIs(b[p + 1], c), command' = Kept(c)
    PROVE  ReadSession(s, b, k, p + 1, UpAfter(c, up), MemAfter(c, up, latch, mem), rep)'
<1>1. /\ command = "none"
      /\ UNCHANGED <<awaits, intended, answers, args, next, end, reported>>
  BY CommandLeaves
<1>2. (Clean' <=> Clean) /\ (Orderly' <=> Orderly)
  BY <1>1, SameCleanness
<1>3. /\ p = 0 => c = "s"
      /\ p = 1 => c = "r"
      /\ p = 6 => c = "x"
  <2>1. "s" \in Commands /\ "r" \in Commands /\ "x" \in Commands
    BY DEF Commands
  <2>2. b[1] = Code["s"] /\ b[2] = Code["r"] /\ b[7] = Code["x"]
    BY ReadStreamType
  <2>3. p = 0 => b[p + 1] = Code["s"]
    BY <2>2
  <2>4. p = 1 => b[p + 1] = Code["r"]
    BY <2>2
  <2>5. p = 6 => b[p + 1] = Code["x"]
    BY <2>2
  <2>6. QED BY <2>1, <2>3, <2>4, <2>5, LetterOf
<1>4. ReadInStandby(p + 1, UpAfter(c, up))'
  <2>1. ReadInStandby(p, up)
    BY DEF ReadSession
  <2>2. CASE p = 0
    BY <1>3, <2>2 DEF ReadInStandby, UpAfter
  <2>3. CASE p = 1
    BY <1>3, <2>1, <2>3 DEF ReadInStandby, UpAfter
  <2>4. CASE p >= 2
    <3>1. args' = <<>> /\ command' # "reading" /\ p + 1 >= 3
      BY <1>1, <2>4, KeptIs DEF Commands
    <3>2. CASE up /\ c # "x"
      BY <3>2 DEF ReadInStandby, UpAfter
    <3>3. CASE c = "x"
      BY <3>1, <3>3, KeptIs DEF ReadInStandby
    <3>4. CASE ~up
      <4>1. p >= 3
        BY <2>1, <2>4, <3>4 DEF ReadInStandby
      <4>2. (p + 1) - Len(args') >= 4
        BY <3>1, <4>1
      <4>3. QED BY <3>1, <4>2 DEF ReadInStandby
    <3>5. QED BY <3>2, <3>3, <3>4
  <2>5. QED BY <2>2, <2>3, <2>4
<1>5. ASSUME Clean
      PROVE  /\ MemAfter(c, up, latch, mem) = intended
             /\ ReadSoFar(s, b, p + 1, rep)'
             /\ p + 1 \in 1..6 => UpAfter(c, up)
  <2>1. /\ mem = intended /\ ReadSoFar(s, b, p, rep) /\ (p \in 1..6 => up)
    BY <1>5 DEF ReadSession
  <2>2. CASE p = 0
    <3>1. c = "s" /\ command' = "none" /\ rep = <<>>
      BY <1>3, <2>1, <2>2, KeptIs DEF ReadSoFar
    <3>2. ReadSoFar(s, b, p + 1, rep)'
      BY <2>2, <3>1 DEF ReadSoFar
    <3>3. QED BY <2>1, <3>1, <3>2 DEF MemAfter, UpAfter
  <2>3. CASE p = 1
    <3>1. c = "r" /\ command' = "r" /\ rep = <<>> /\ up
      BY <1>3, <2>1, <2>3, KeptIs DEF ReadSoFar
    <3>2. args' = Window(b, 2, 2)
      <4>1. Len(b) = 7 /\ b \in Seq(Byte)
        BY ReadStreamType
      <4>2. ASSUME NEW q \in 0..Len(b) PROVE Window(b, q, q) = <<>>
        <5>1. q \in Nat /\ q <= q
          BY <4>1
        <5>2. b \in Seq(Byte)
          BY <4>1
        <5>3. QED BY <5>1, <5>2, WindowType
      <4>3. 2 \in 0..Len(b)
        BY <4>1
      <4>4. Window(b, 2, 2) = <<>>
        BY <4>2, <4>3
      <4>5. QED BY <1>1, <4>4
    <3>3. p + 1 = 2 /\ p + 1 \in 2..6
      BY <2>3
    <3>4. ReadSoFar(s, b, p + 1, rep)'
      BY <3>1, <3>2, <3>3 DEF ReadSoFar
    <3>5. QED BY <2>1, <3>1, <3>4 DEF MemAfter, UpAfter
  <2>4. CASE p >= 2
    <3>1. p = 6 /\ rep = ReadOut(s[2], Size(s[2]))
      BY <1>1, <2>1, <2>4 DEF ReadSoFar
    <3>2. c = "x" /\ command' = "none"
      BY <1>3, <3>1, KeptIs
    <3>3. rep = ReadOut(s[2], Size(s[2]))'
      BY <1>1, <3>1 DEF ReadOut
    <3>4. ReadSoFar(s, b, p + 1, rep)'
      BY <3>1, <3>2, <3>3 DEF ReadSoFar
    <3>5. QED BY <2>1, <3>1, <3>2, <3>4 DEF MemAfter
  <2>5. QED BY <2>2, <2>3, <2>4
<1>6. \A m : ReadOut(s[2], m)' = ReadOut(s[2], m)
  BY <1>1 DEF ReadOut
<1>7. QED BY <1>1, <1>2, <1>4, <1>5, <1>6 DEF ReadSession

-------------------------------------------------------------------------------
(* An argument. *)

LEMMA AppendRange ==
    ASSUME NEW S, NEW t \in Seq(S), NEW e \in S
    PROVE  /\ Append(t, e) \in Seq(S) /\ Len(Append(t, e)) = Len(t) + 1
           /\ Append(t, e)[Len(t) + 1] = e
           /\ Range(Append(t, e)) = Range(t) \cup {e}
<1>1. /\ Append(t, e) \in Seq(S) /\ Len(Append(t, e)) = Len(t) + 1
      /\ Append(t, e)[Len(t) + 1] = e
      /\ \A i \in 1..Len(t) : Append(t, e)[i] = t[i]
  BY AppendProperties
<1>2. DOMAIN Append(t, e) = 1..Len(t) + 1 /\ DOMAIN t = 1..Len(t)
  BY <1>1
<1>3. Range(Append(t, e)) = {Append(t, e)[i] : i \in 1..Len(t) + 1}
  BY <1>2 DEF Range
<1>4. Range(t) = {t[i] : i \in 1..Len(t)}
  BY <1>2 DEF Range
<1>5. ASSUME NEW x \in Range(Append(t, e)) PROVE x \in Range(t) \cup {e}
  <2>1. PICK i \in 1..Len(t) + 1 : x = Append(t, e)[i]
    BY <1>3, <1>5
  <2>2. CASE i = Len(t) + 1
    BY <1>1, <2>1, <2>2
  <2>3. CASE i \in 1..Len(t)
    BY <1>1, <1>4, <2>1, <2>3
  <2>4. QED BY <2>1, <2>2, <2>3
<1>6. ASSUME NEW x \in Range(t) \cup {e} PROVE x \in Range(Append(t, e))
  <2>1. CASE x = e
    BY <1>1, <1>3, <2>1
  <2>2. CASE x \in Range(t)
    <3>1. PICK i \in 1..Len(t) : x = t[i]
      BY <1>4, <2>2
    <3>2. i \in 1..Len(t) + 1 /\ Append(t, e)[i] = x
      BY <1>1, <3>1
    <3>3. QED BY <1>3, <3>2
  <2>3. QED BY <1>6, <2>1, <2>2
<1>7. QED BY <1>1, <1>5, <1>6

LEMMA NextArgument ==
    ASSUME ProgrammerTypeOK, NEW e \in Byte \cup {NoByte}, args' = Append(args, e),
           TakesArguments, ArgsOK, command' = command
    PROVE  /\ command \in {"d", "l", "h", "r"} 
           /\ ArgsOK' <=> (stalled' => stalls' >= 1)
           /\ args' \in Seq(Byte \cup {NoByte}) /\ Len(args') = Len(args) + 1
           /\ args'[Len(args) + 1] = e
           /\ Len(args') <= ArgumentsOf(command)
           /\ Range(args') = Range(args) \cup {e}
<1>1. /\ args' \in Seq(Byte \cup {NoByte}) /\ Len(args') = Len(args) + 1
      /\ args'[Len(args) + 1] = e /\ Range(args') = Range(args) \cup {e}
  BY AppendRange DEF ProgrammerTypeOK
<1>2. command \in Commands /\ Len(args) # ArgumentsOf(command)
      /\ Len(args) <= ArgumentsOf(command)
      /\ command \notin {"s", "x", "w"}
  BY DEF TakesArguments, Complete, ArgsOK
<1>3. command \in {"d", "l", "h", "r"}
  BY <1>2 DEF Commands
<1>4. ArgumentsOf(command) \in {1, 4} /\ Len(args) \in Nat
  BY <1>3 DEF ArgumentsOf, ProgrammerTypeOK
<1>5. Len(args') <= ArgumentsOf(command)
  BY <1>1, <1>2, <1>4
<1>6. ArgsOK' <=> (stalled' => stalls' >= 1)
  BY <1>3, <1>5 DEF ArgsOK
<1>7. QED BY <1>1, <1>3, <1>5, <1>6

LEMMA ArgumentLeaves ==
    ASSUME TakeArgument
    PROVE  /\ TakesArguments /\ steps = <<>> /\ wire # <<>> /\ wire' = Tail(wire)
           /\ args' = Append(args, Head(wire)) /\ ~stalled'
           /\ UNCHANGED <<todo, awaits, sessions, intended, answers, command, steps, next, end, pins,
                          replies, memory, reported, stalls>>
BY DEF TakeArgument

LEMMA WriteTakesArgument ==
    ASSUME NEW s, IsSession(s), NEW b \in Seq(Byte), NEW k, NEW p \in Nat,
           NEW up \in BOOLEAN, NEW latch, NEW mem, NEW rep,
           IsWriting(s), WriteStream(s, b), k \in 0..Len(s), p < WriteAsked(s, k),
           NEW f \in -1..Len(s) - 2, NEW o \in 0..6,
           WriteSession(s, k, p, f, o, up, latch, mem, rep),
           TakeArgument, Head(wire) = b[p + 1], Head(wire) \in Byte, ArgsOK, ProgrammerTypeOK
    PROVE  \E f2 \in -1..Len(s) - 2, o2 \in 0..6 :
             WriteSession(s, k, p + 1, f2, o2, up, latch, mem, rep)'
<1> Len(s) \in Nat /\ Len(s) >= 2
  BY SessionShape
<1> p < 7 * Len(s) - 12
  BY WriteAskedType
<1>1. /\ TakesArguments /\ ~stalled' /\ args' = Append(args, b[p + 1])
      /\ UNCHANGED <<awaits, intended, answers, command, reported, stalls>>
  BY ArgumentLeaves
<1>2. /\ command \in {"d", "l", "h", "r"}
      /\ args' \in Seq(Byte \cup {NoByte}) /\ Len(args') = Len(args) + 1
      /\ Range(args') = Range(args) \cup {b[p + 1]}
  BY <1>1, NextArgument
<1>3. (Clean' <=> Clean) /\ (Orderly' <=> Orderly)
  BY <1>1, <1>2, CodesDiffer DEF Clean, Orderly
<1>4. FramePlace(s, p, f, o) /\ awaits = 0
  BY DEF WriteSession
<1>5. PICK f2 \in -1..Len(s) - 2, o2 \in 0..6 :
         /\ FramePlace(s, p + 1, f2, o2)
         /\ o = 6 => f2 = f + 1 /\ o2 = 0
         /\ o < 6 => f2 = f /\ o2 = o + 1
  <2>1. CASE o = 6
    <3>1. FramePlace(s, p + 1, f + 1, 0) /\ f + 1 \in -1..Len(s) - 2 /\ 0 \in 0..6
      BY <1>4, <2>1, NextPlace
    <3>2. QED BY <2>1, <3>1
  <2>2. CASE o < 6
    <3>1. FramePlace(s, p + 1, f, o + 1) /\ o + 1 \in 0..6
      BY <1>4, <2>2, NextPlace
    <3>2. QED BY <2>2, <3>1
  <2>3. QED BY <2>1, <2>2
<1>6. ASSUME Aligned(s, f, o)
      PROVE  /\ o \in {1, 3, 5} /\ f \in 0..Len(s) - 3 /\ f2 = f /\ o2 = o + 1
             /\ Aligned(s, f2, o2)'
  <2>1. o \in {1, 3, 5} \/ (o \in {2, 4, 6} /\ Len(args) = 1 /\ command \in {"l", "h", "d"})
    BY <1>2, <1>6 DEF Aligned, LetterAt
  <2>2. o \in {1, 3, 5} /\ command = LetterAt(o) /\ args = <<>> /\ ~AfterLast(s, f, o)
    <3>1. ASSUME o \in {2, 4, 6}, command = LetterAt(o - 1), args = <<Frame(s[f + 2])[o]>>
          PROVE  FALSE
      <4>1. Len(args) = 1 /\ command \in {"l", "h", "d"}
        BY <3>1 DEF LetterAt
      <4>2. ArgumentsOf(command) = 1
        BY <4>1 DEF ArgumentsOf
      <4>3. QED BY <1>1, <4>1, <4>2 DEF TakesArguments, Complete
    <3>2. QED BY <1>2, <1>6, <3>1 DEF Aligned
  <2>3. f \in 0..Len(s) - 3
    BY <1>4, <2>2 DEF FramePlace, AfterLast
  <2>4. b[p + 1] = Frame(s[f + 2])[o2] /\ f2 = f /\ o2 = o + 1
    BY <1>4, <1>5, <2>2, <2>3, NextByte, SMTT(60)
  <2>5. args' = <<Frame(s[f2 + 2])[o2]>>
    BY <1>1, <2>2, <2>4
  <2>6. o2 \in {2, 4, 6} /\ f2 >= 0 /\ command' = LetterAt(o2 - 1)
    BY <1>1, <2>2, <2>3, <2>4 DEF LetterAt
  <2>7. Aligned(s, f2, o2)'
    BY <2>5, <2>6 DEF Aligned
  <2>8. QED BY <2>2, <2>3, <2>4, <2>7
<1>7. ASSUME Orderly
      PROVE  InStep(s, f2, o2, up)'
  <2>1. InStep(s, f, o, up)
    BY <1>7 DEF WriteSession
  <2>2. CASE Aligned(s, f, o)
    <3>1. up \/ (stalls >= MaxStalls /\ ~stalled)
      BY <1>2, <2>1 DEF InStep
    <3>2. QED BY <1>1, <1>6, <2>2, <3>1 DEF InStep
  <2>3. CASE ~Aligned(s, f, o)
    BY <1>1, <2>1, <2>3 DEF InStep
  <2>4. QED BY <2>2, <2>3
<1>8. ASSUME Clean
      PROVE  WrittenSoFar(s, k, f2, o2, up, latch, mem, rep)'
  <2>1. WrittenSoFar(s, k, f, o, up, latch, mem, rep)
    BY <1>8 DEF WriteSession
  <2>2. /\ Aligned(s, f, o) /\ rep = <<>> /\ answers = <<>>
        /\ UpTo(s, f + 2, k, mem)
    BY <2>1 DEF WrittenSoFar
  <2>3. /\ o \in {1, 3, 5} /\ f \in 0..Len(s) - 3 /\ f2 = f /\ o2 = o + 1
        /\ Aligned(s, f2, o2)'
    BY <1>6, <2>2
  <2>4. up /\ Latched(s, f, o, latch)
    BY <2>1, <2>3 DEF WrittenSoFar, AfterLast
  <2>5. command' # "none"
    BY <1>1, <1>2
  <2>6. Latched(s, f2, o2, latch)'
    BY <2>3, <2>4, <2>5 DEF Latched
  <2>7. UpTo(s, f2 + 2, k, mem)'
    BY <1>1, <2>2, <2>3, UpToStays
  <2>8. QED BY <1>1, <2>2, <2>3, <2>4, <2>6, <2>7 DEF WrittenSoFar
<1>9. QED BY <1>1, <1>3, <1>4, <1>5, <1>7, <1>8 DEF WriteSession

LEMMA ReadTakesArgument ==
    ASSUME NEW s, IsSession(s), NEW b, NEW k, NEW p \in Nat, p < 7,
           NEW up \in BOOLEAN, NEW mem, NEW rep,
           IsReading(s), ReadStream(s, b),
           ReadSession(s, b, k, p, up, mem, rep),
           TakeArgument, Head(wire) = b[p + 1], Head(wire) \in Byte, ArgsOK, ProgrammerTypeOK
    PROVE  ReadSession(s, b, k, p + 1, up, mem, rep)'
<1>1. /\ TakesArguments /\ args' = Append(args, b[p + 1])
      /\ UNCHANGED <<awaits, intended, answers, command, reported, next, end>>
  BY ArgumentLeaves
<1>2. /\ command \in {"d", "l", "h", "r"}
      /\ args' \in Seq(Byte \cup {NoByte}) /\ Len(args') = Len(args) + 1
      /\ Len(args') <= ArgumentsOf(command) /\ Len(args) \in Nat
      /\ Range(args') = Range(args) \cup {b[p + 1]}
  <2>1. Len(args) \in Nat /\ command' = command
    BY <1>1 DEF ProgrammerTypeOK
  <2>2. /\ command \in {"d", "l", "h", "r"}
        /\ args' \in Seq(Byte \cup {NoByte}) /\ Len(args') = Len(args) + 1
        /\ Range(args') = Range(args) \cup {b[p + 1]}
    BY <1>1, NextArgument
  <2>3. Len(args') <= ArgumentsOf(command)
    BY <1>1, NextArgument
  <2>4. QED BY <2>1, <2>2, <2>3
<1>3. (Clean' <=> Clean) /\ (Orderly' <=> Orderly)
  BY <1>1, <1>2, CodesDiffer DEF Clean, Orderly
<1>4. ReadInStandby(p + 1, up)'
  <2>1. ReadInStandby(p, up)
    BY DEF ReadSession
  <2>2. CASE up
    BY <2>2 DEF ReadInStandby
  <2>3. CASE ~up
    <3>1. p >= 3 /\ (command = "r" /\ NoByte \notin Range(args) => p - Len(args) >= 4)
      BY <1>2, <2>1, <2>3 DEF ReadInStandby
    <3>2. (p + 1) - Len(args') = p - Len(args)
      BY <1>2
    <3>3. NoByte \notin Range(args') => NoByte \notin Range(args)
      BY <1>2
    <3>4. QED BY <1>1, <1>2, <3>1, <3>2, <3>3 DEF ReadInStandby
  <2>4. QED BY <2>2, <2>3
<1>5. ASSUME Clean
      PROVE  /\ mem = intended
             /\ ReadSoFar(s, b, p + 1, rep)'
             /\ p + 1 \in 1..6 => up
  <2>1. /\ mem = intended /\ ReadSoFar(s, b, p, rep) /\ (p \in 1..6 => up)
    BY <1>5 DEF ReadSession
  <2>2. p \in 2..6 /\ command = "r" /\ args = Window(b, 2, p) /\ rep = <<>>
    BY <1>2, <2>1 DEF ReadSoFar
  <2>3. Len(b) = 7 /\ b \in Seq(Byte)
    BY ReadStreamType
  <2>4. Len(args) = p - 2
    <3>1. ASSUME NEW n \in Nat, NEW q \in 0..Len(b), n <= q
          PROVE  Len(Window(b, n, q)) = q - n
      <4>1. b \in Seq(Byte)
        BY <2>3
      <4>2. QED BY <3>1, <4>1, WindowType
    <3>2. 2 \in Nat /\ p \in 0..Len(b) /\ 2 <= p
      BY <2>2, <2>3
    <3>3. QED BY <2>2, <3>1, <3>2
  <2>5. p < 6
    BY <1>2, <2>2, <2>4 DEF ArgumentsOf
  <2>6. args' = Window(b, 2, p + 1)
    <3>1. PICK one \in Nat, two \in Nat, t \in Seq(Byte) :
             one = 1 /\ two = 2 /\ t = <<b[p + 1]>>
      <4>1. <<b[p + 1]>> \in Seq(Byte) /\ 1 \in Nat /\ 2 \in Nat
        OBVIOUS
      <4>2. QED BY <4>1
    <3>2. Len(t) = 1 /\ t[1] = b[p + 1]
      BY <3>1
    <3>3. Window(b, two, p) \o t = Window(b, two, p + Len(t))
      <4>1. \A i \in 1..Len(t) : t[i] = b[p + i]
        BY <3>2
      <4>2. two <= p /\ p + Len(t) <= Len(b)
        BY <2>2, <2>3, <3>1, <3>2
      <4>3. QED BY <2>3, <4>1, <4>2, WindowExtend
    <3>4. args' = args \o t
      <4>1. args \in Seq(Byte \cup {NoByte}) /\ t = <<b[p + 1]>>
        BY <3>1 DEF ProgrammerTypeOK
      <4>2. QED BY <1>1, <4>1, AppendIsConcat
    <3>5. QED BY <2>2, <3>1, <3>2, <3>3, <3>4
  <2>7. QED BY <1>1, <2>1, <2>2, <2>5, <2>6 DEF ReadSoFar
<1>6. \A m : ReadOut(s[2], m)' = ReadOut(s[2], m)
  BY <1>1 DEF ReadOut
<1>7. QED BY <1>1, <1>3, <1>4, <1>5, <1>6 DEF ReadSession

-------------------------------------------------------------------------------
(* An argument given up. *)

LEMMA GivingUpLeaves ==
    ASSUME GiveUpArgument
    PROVE  /\ TakesArguments /\ steps = <<>> /\ args' = Append(args, NoByte)
           /\ wire = <<>> \/ stalled \/ stalls < MaxStalls
           /\ stalled' <=> wire # <<>>
           /\ stalls' = IF wire = <<>> \/ stalled THEN stalls ELSE stalls + 1
           /\ UNCHANGED <<todo, wire, awaits, sessions, intended, answers, command, steps, next,
                          end, pins, replies, memory, reported>>
BY DEF GiveUpArgument, host_vars

LEMMA GivingUpStains ==
    ASSUME ProgrammerTypeOK, ArgsOK, GiveUpArgument
    PROVE  /\ ~Clean' /\ (Orderly' => Orderly /\ MaxStalls <= 1)
           /\ command \in {"d", "l", "h", "r"} /\ NoByte \in Range(args')
           /\ stalls' \in Nat /\ stalls' >= stalls /\ ArgsOK'
           /\ stalls' <= MaxStalls
<1>1. /\ TakesArguments /\ args' = Append(args, NoByte) /\ command' = command
      /\ NoByte \in Byte \cup {NoByte}
      /\ wire = <<>> \/ stalled \/ stalls < MaxStalls
      /\ stalls' = IF wire = <<>> \/ stalled THEN stalls ELSE stalls + 1
      /\ stalled' <=> wire # <<>>
  BY GivingUpLeaves
<1>2. command \in {"d", "l", "h", "r"} /\ Range(args') = Range(args) \cup {NoByte}
  BY <1>1, NextArgument
<1>3. ~Clean'
  BY <1>2 DEF Clean
<1>4. Orderly' => Orderly /\ MaxStalls <= 1
  BY <1>3 DEF Orderly
<1>5. stalls \in Nat /\ stalls <= MaxStalls /\ MaxStalls \in Nat /\ (stalled => stalls >= 1)
  BY BoundsAssumption DEF ProgrammerTypeOK, ArgsOK
<1>6. stalls' \in Nat /\ stalls' >= stalls /\ (stalled' => stalls' >= 1) /\ stalls' <= MaxStalls
  BY <1>1, <1>5
<1>7. ArgsOK'
  <2>1. ArgsOK' <=> (stalled' => stalls' >= 1)
    BY <1>1, NextArgument
  <2>2. QED BY <1>6, <2>1
<1>8. QED BY <1>2, <1>3, <1>4, <1>6, <1>7

LEMMA WriteGivesUp ==
    ASSUME NEW s, IsSession(s), NEW b \in Seq(Byte), NEW k, NEW p,
           NEW up \in BOOLEAN, NEW latch, NEW mem, NEW rep,
           IsWriting(s), WriteStream(s, b), StreamPlace(s, b, k, p, WriteAsked(s, k)),
           NEW f \in -1..Len(s) - 2, NEW o \in 0..6,
           WriteSession(s, k, p, f, o, up, latch, mem, rep),
           GiveUpArgument, ArgsOK, ProgrammerTypeOK
    PROVE  WriteSession(s, k, p, f, o, up, latch, mem, rep)'
<1> Len(s) \in Nat /\ Len(s) >= 2
  BY SessionShape
<1>1. /\ ~Clean' /\ (Orderly' => Orderly /\ MaxStalls <= 1)
      /\ command \in {"d", "l", "h", "r"} /\ stalls' \in Nat /\ stalls' >= stalls
  BY GivingUpStains
<1>2. /\ TakesArguments
      /\ wire = <<>> \/ stalled \/ stalls < MaxStalls
      /\ stalls' = IF wire = <<>> \/ stalled THEN stalls ELSE stalls + 1
      /\ UNCHANGED <<awaits, command>>
  BY GivingUpLeaves
<1>3. FramePlace(s, p, f, o) /\ awaits = 0
  BY DEF WriteSession
<1>4. stalls \in Nat /\ (stalled => stalls >= 1) /\ MaxStalls \in Nat
  BY BoundsAssumption DEF ProgrammerTypeOK, ArgsOK
<1>5. ASSUME Orderly'
      PROVE  InStep(s, f, o, up)'
  <2>1. InStep(s, f, o, up)
    BY <1>1, <1>5 DEF WriteSession
  <2>2. CASE wire = <<>>
    <3>1. k \in 0..Len(s) /\ p = WriteAsked(s, k)
      <4>1. k \in 0..Len(s)
        BY DEF StreamPlace
      <4>2. WriteAsked(s, k) \in 0..Len(b)
        BY <4>1, WriteAskedType
      <4>3. QED BY <2>2, <4>1, <4>2, NoMoreBytes
    <3>2. ~Aligned(s, f, o)
      <4>1. o \in {0, 6} \/ AfterLast(s, f, o)
        BY <1>3, <3>1 DEF FramePlace, WriteAsked, AfterLast
      <4>2. o = 6 => f = -1
        BY <1>3, <3>1 DEF FramePlace, WriteAsked
      <4>3. QED BY <1>1, <4>1, <4>2 DEF Aligned, AfterLast
    <3>3. QED BY <1>1, <1>4, <2>1, <3>2 DEF InStep
  <2>3. CASE wire # <<>>
    <3>1. stalled \/ stalls < MaxStalls
      BY <1>2, <2>3
    <3>2. up
      BY <1>1, <1>4, <2>1, <3>1 DEF InStep
    <3>3. stalls' >= 1
      BY <1>2, <1>4, <2>3
    <3>4. QED BY <3>2, <3>3 DEF InStep
  <2>4. QED BY <2>2, <2>3
<1>6. QED BY <1>1, <1>2, <1>3, <1>5 DEF WriteSession

LEMMA ReadGivesUp ==
    ASSUME NEW s, NEW b, NEW k, NEW p, NEW up \in BOOLEAN, NEW mem, NEW rep,
           ReadSession(s, b, k, p, up, mem, rep), GiveUpArgument, ArgsOK, ProgrammerTypeOK
    PROVE  ReadSession(s, b, k, p, up, mem, rep)'
<1>1. ~Clean' /\ command \in {"d", "l", "h", "r"} /\ NoByte \in Range(args')
  BY GivingUpStains
<1>2. UNCHANGED <<awaits, command>>
  BY GivingUpLeaves
<1>3. ReadInStandby(p, up)'
  BY <1>1, <1>2 DEF ReadSession, ReadInStandby
<1>4. QED BY <1>1, <1>2, <1>3 DEF ReadSession

-------------------------------------------------------------------------------
(* The arguments are dealt with. *)

Errs == /\ NoByte \in Range(args) /\ command' = "none" /\ reported'
        /\ replies' = Append(replies, Code["e"])
        /\ UNCHANGED <<steps, next, end>>
SetsLatch == /\ NoByte \notin Range(args) /\ command \in {"d", "l", "h"} /\ command' = "none"
            /\ steps' = SetLatch(LatchOf[command], args[1])
            /\ UNCHANGED <<next, end, replies, reported>>
StartsRead == /\ NoByte \notin Range(args) /\ command = "r" /\ command' = "reading"
              /\ replies' = Append(replies, Code["r"])
              /\ next' = Word(args[1], args[2]) /\ end' = Word(args[3], args[4])
              /\ UNCHANGED <<steps, reported>>

LEMMA ExecuteLeaves ==
    ASSUME Execute, ArgsOK
    PROVE  /\ command \in {"d", "l", "h", "r"} /\ Len(args) = ArgumentsOf(command)
           /\ steps = <<>> /\ args' = <<>>
           /\ UNCHANGED <<todo, wire, awaits, sessions, intended, answers, pins, memory, stalled,
                          stalls>>
           /\ Errs \/ SetsLatch \/ StartsRead
<1>1. DOMAIN LatchOf = {"d", "l", "h"}
  BY DEF LatchOf
<1>2. command \in {"d", "l", "h", "r"} /\ Len(args) = ArgumentsOf(command)
  BY DEF Execute, ArgsOK, Commands, Complete
<1>3. Errs \/ SetsLatch \/ StartsRead
  BY <1>1 DEF Execute, Errs, SetsLatch, StartsRead, Report, Answer
<1>4. QED BY <1>2, <1>3 DEF Execute, host_vars

LEMMA ExecuteCleans ==
    ASSUME Execute, ArgsOK
    PROVE  /\ ArgsOK' /\ (Orderly' <=> Orderly)
           /\ Errs => ~Clean /\ ~Clean'
           /\ ~Errs => (Clean' <=> Clean)
<1>1. /\ args' = <<>> /\ stalled' = stalled /\ stalls' = stalls
      /\ Errs \/ SetsLatch \/ StartsRead
  BY ExecuteLeaves
<1>2. Range(<<>>) = {} /\ Len(<<>>) = 0
  BY DEF Range
<1>3. ArgsOK'
  BY <1>1, <1>2 DEF ArgsOK, Errs, SetsLatch, StartsRead, ArgumentsOf
<1>4. Errs => ~Clean /\ ~Clean'
  BY DEF Errs, Clean
<1>5. ~Errs => (Clean' <=> Clean)
  BY <1>1, <1>2 DEF SetsLatch, StartsRead, Clean
<1>6. QED BY <1>3, <1>4, <1>5 DEF Orderly

LEMMA ArgsTaken ==
    ASSUME ProgrammerTypeOK, NoByte \notin Range(args)
    PROVE  \A i \in 1..Len(args) : args[i] \in Byte
<1>1. args \in Seq(Byte \cup {NoByte}) /\ Range(args) = {args[i] : i \in 1..Len(args)}
  BY DEF ProgrammerTypeOK, Range
<1>2. QED BY <1>1

LEMMA LetterLatch ==
    /\ LatchOf["d"] = "data" /\ LatchOf["l"] = "low" /\ LatchOf["h"] = "high"
    /\ \A c \in {"d", "l", "h"} : LatchOf[c] \in Latches
BY DEF LatchOf, Latches

LEMMA ExecuteDoes ==
    ASSUME ProgrammerTypeOK, NEW up \in BOOLEAN, NEW tidy \in BOOLEAN, NEW latch, NEW mem, NEW rep,
           Idle(up, latch, mem, rep, tidy), Execute, ArgsOK
    PROVE  \E latch2, rep2 :
             /\ Completing(up, latch2, mem, rep2, tidy)'
             /\ Errs => latch2 = latch /\ rep2 = Append(rep, Code["e"])
             /\ SetsLatch => latch2 = [latch EXCEPT ![LatchOf[command]] = args[1]] /\ rep2 = rep
             /\ StartsRead => latch2 = latch /\ rep2 = Append(rep, Code["r"])
<1>1. /\ UNCHANGED <<pins, memory>> /\ (Errs \/ SetsLatch \/ StartsRead)
      /\ Len(args) = ArgumentsOf(command)
  BY ExecuteLeaves
<1>2. pins \in Pins /\ rep = replies
  BY DEF ProgrammerTypeOK, Idle
<1>3. CASE Errs
  <2>1. UNCHANGED steps /\ replies' = Append(rep, Code["e"])
    BY <1>2, <1>3 DEF Errs
  <2>2. Completing(up, latch, mem, Append(rep, Code["e"]), tidy)'
    BY <1>1, <2>1, Answers
  <2>3. ~SetsLatch /\ ~StartsRead
    BY <1>3 DEF Errs, SetsLatch, StartsRead
  <2>4. QED BY <2>2, <2>3
<1>4. CASE SetsLatch
  <2>1. PICK l \in Latches, byte \in Byte : l = LatchOf[command] /\ byte = args[1]
    <3>1. command \in {"d", "l", "h"} /\ NoByte \notin Range(args)
      BY <1>4 DEF SetsLatch
    <3>2. Len(args) = 1
      BY <1>1, <3>1 DEF ArgumentsOf
    <3>3. args[1] \in Byte
      BY <3>1, <3>2, ArgsTaken
    <3>4. QED BY <3>1, <3>3, LetterLatch
  <2>2. UNCHANGED replies /\ steps' = SetLatch(l, byte)
    BY <1>4, <2>1 DEF SetsLatch
  <2>3. Completing(up, [latch EXCEPT ![l] = byte], mem, rep, tidy)'
    BY <1>1, <1>2, <2>2, Starts
  <2>4. ~Errs /\ ~StartsRead
    BY <1>4 DEF Errs, SetsLatch, StartsRead
  <2>5. QED BY <2>1, <2>3, <2>4
<1>5. CASE StartsRead
  <2>1. UNCHANGED steps /\ replies' = Append(rep, Code["r"])
    BY <1>2, <1>5 DEF StartsRead
  <2>2. Completing(up, latch, mem, Append(rep, Code["r"]), tidy)'
    BY <1>1, <2>1, Answers
  <2>3. ~SetsLatch /\ ~Errs
    BY <1>5 DEF Errs, SetsLatch, StartsRead
  <2>4. QED BY <2>2, <2>3
<1>6. QED BY <1>1, <1>3, <1>4, <1>5

LatchesInto(latch, rep, latch2, rep2) ==
    SetsLatch => latch2 = [latch EXCEPT ![LatchOf[command]] = args[1]] /\ rep2 = rep

LEMMA WriteExecutes ==
    ASSUME NEW s, IsSession(s), NEW k, NEW p,
           NEW up \in BOOLEAN, NEW latch \in [Latches -> Byte], NEW mem, NEW rep,
           IsWriting(s),
           NEW f \in -1..Len(s) - 2, NEW o \in 0..6,
           WriteSession(s, k, p, f, o, up, latch, mem, rep),
           Execute, ArgsOK, ProgrammerTypeOK, NEW latch2, NEW rep2,
           LatchesInto(latch, rep, latch2, rep2)
    PROVE  WriteSession(s, k, p, f, o, up, latch2, mem, rep2)'
<1> SetsLatch => latch2 = [latch EXCEPT ![LatchOf[command]] = args[1]] /\ rep2 = rep
  BY DEF LatchesInto
<1> Len(s) \in Nat /\ Len(s) >= 2
  BY SessionShape
<1>1. /\ (Orderly' <=> Orderly) /\ (Errs => ~Clean') /\ (~Errs => (Clean' <=> Clean))
  BY ExecuteCleans
<1>2. /\ command \in {"d", "l", "h", "r"} /\ Len(args) = ArgumentsOf(command)
      /\ UNCHANGED <<awaits, intended, answers, stalls, stalled>>
      /\ Errs \/ SetsLatch \/ StartsRead
  BY ExecuteLeaves
<1>3. FramePlace(s, p, f, o) /\ awaits = 0
  BY DEF WriteSession
<1>4. ASSUME Aligned(s, f, o)
      PROVE  /\ o \in {2, 4, 6} /\ f \in 0..Len(s) - 3 /\ command = LetterAt(o - 1)
             /\ args[1] = Frame(s[f + 2])[o]
             /\ s[f + 2] \in Requests /\ s[f + 2].op = "write"
             /\ SetsLatch /\ Aligned(s, f, o)'
  <2>1. Len(args) # 0
    BY <1>2 DEF ArgumentsOf
  <2>2. /\ o \in {2, 4, 6} /\ f >= 0 /\ command = LetterAt(o - 1)
        /\ args = <<Frame(s[f + 2])[o]>>
    BY <1>2, <1>4, <2>1 DEF Aligned
  <2>3. f \in 0..Len(s) - 3
    BY <1>3, <2>2 DEF FramePlace
  <2>4. s[f + 2] \in Requests /\ s[f + 2].op = "write"
    <3>1. f + 2 \in 2..Len(s) - 1
      BY <2>3
    <3>2. QED BY <3>1, SessionShape DEF IsWriting
  <2>5. Frame(s[f + 2])[o] \in Byte
    BY <2>2, <2>4, FrameType, SMTT(60)
  <2>6. NoByte \notin Range(args)
    BY <2>2, <2>5, CodesDiffer DEF Range
  <2>7. SetsLatch
    BY <1>2, <2>2, <2>6 DEF Errs, StartsRead, LetterAt
  <2>8. Aligned(s, f, o)'
    BY <2>2, <2>7 DEF Aligned, SetsLatch
  <2>9. QED BY <2>2, <2>3, <2>4, <2>7, <2>8
<1>5. ASSUME Orderly
      PROVE  InStep(s, f, o, up)'
  <2>1. InStep(s, f, o, up)
    BY <1>5 DEF WriteSession
  <2>2. QED BY <1>2, <1>4, <2>1 DEF InStep
<1>6. ASSUME Clean
      PROVE  WrittenSoFar(s, k, f, o, up, latch2, mem, rep2)'
  <2>1. WrittenSoFar(s, k, f, o, up, latch, mem, rep)
    BY <1>6 DEF WriteSession
  <2>2. /\ o \in {2, 4, 6} /\ f \in 0..Len(s) - 3 /\ command = LetterAt(o - 1)
        /\ args[1] = Frame(s[f + 2])[o]
        /\ s[f + 2] \in Requests /\ s[f + 2].op = "write"
        /\ SetsLatch /\ Aligned(s, f, o)'
    BY <1>4, <2>1 DEF WrittenSoFar
  <2>3. /\ up /\ Latched(s, f, o, latch) /\ rep2 = <<>> /\ answers' = <<>>
        /\ UpTo(s, f + 2, k, mem)
    BY <1>2, <2>1, <2>2 DEF WrittenSoFar, AfterLast
  <2>4. UpTo(s, f + 2, k, mem)'
    BY <1>2, <2>3, UpToStays
  <2>5. Latched(s, f, o, latch2)'
    <3>1. PICK w \in Requests : w = s[f + 2] /\ w.op = "write" /\ args[1] = Frame(w)[o]
      BY <2>2
    <3>2. Frame(w)[2] = Low(w.at) /\ Frame(w)[4] = High(w.at) /\ Frame(w)[6] = w.byte
      BY <3>1, FrameType
    <3>3. latch2 = [latch EXCEPT ![LatchOf[command]] = args[1]]
      BY <2>2
    <3>4. CASE o = 2
      <4>1. latch2["low"] = Low(w.at)
        BY <2>2, <3>1, <3>2, <3>3, <3>4, LetterLatch DEF LetterAt
      <4>2. QED BY <3>1, <3>4, <4>1 DEF Latched
    <3>5. CASE o = 4
      <4>1. latch["low"] = Low(w.at)
        BY <2>3, <3>1, <3>5 DEF Latched
      <4>2. latch2["high"] = High(w.at) /\ latch2["low"] = latch["low"]
        BY <2>2, <3>1, <3>2, <3>3, <3>5, LetterLatch DEF LetterAt, Latches
      <4>3. QED BY <3>1, <3>5, <4>1, <4>2 DEF Latched
    <3>6. CASE o = 6
      <4>1. latch["low"] = Low(w.at) /\ latch["high"] = High(w.at)
        BY <2>3, <3>1, <3>6 DEF Latched
      <4>2. /\ latch2["data"] = w.byte /\ latch2["low"] = latch["low"]
            /\ latch2["high"] = latch["high"]
        BY <2>2, <3>1, <3>2, <3>3, <3>6, LetterLatch DEF LetterAt, Latches
      <4>3. QED BY <3>1, <3>6, <4>1, <4>2 DEF Latched
    <3>7. QED BY <2>2, <3>4, <3>5, <3>6
  <2>6. QED BY <2>2, <2>3, <2>4, <2>5 DEF WrittenSoFar
<1>7. QED BY <1>1, <1>2, <1>3, <1>5, <1>6 DEF WriteSession

LEMMA Wraps ==
    /\ MemorySize \in Nat /\ MemorySize > 0
    /\ \A a \in Address : a \in Nat /\ a + 0 = a /\ a % MemorySize = a
    /\ \A a \in Address : a + 1 < MemorySize => (a + 1) % MemorySize = a + 1
    /\ \A a \in Address : ~(a + 1 < MemorySize) => (a + 1) % MemorySize = 0
<1>1. MemorySize \in Nat /\ MemorySize > 0
  <2>1. ByteSize \in Nat /\ ByteSize > 0
    BY ByteSizeAssumption
  <2>2. QED BY <2>1 DEF MemorySize
<1>2. ASSUME NEW n \in Nat, n > 0, NEW a \in 0..n - 1
      PROVE  /\ a \in Nat /\ a + 0 = a /\ a % n = a
             /\ a + 1 < n => (a + 1) % n = a + 1
             /\ ~(a + 1 < n) => (a + 1) % n = 0
  <2>1. CASE a + 1 < n
    BY <1>2, <2>1
  <2>2. CASE ~(a + 1 < n)
    <3>1. a + 1 = n
      BY <1>2, <2>2
    <3>2. n % n = 0
      BY <1>2
    <3>3. QED BY <1>2, <2>2, <3>1, <3>2
  <2>3. QED BY <2>1, <2>2
<1>3. QED BY <1>1, <1>2 DEF Address

LEMMA ReadExecutes ==
    ASSUME NEW s, IsSession(s), NEW b, NEW k, NEW p \in 0..7,
           NEW up \in BOOLEAN, NEW mem, NEW rep, IsReading(s), ReadStream(s, b),
           ReadSession(s, b, k, p, up, mem, rep),
           Execute, ArgsOK, ProgrammerTypeOK, NEW rep2,
           StartsRead => rep2 = Append(rep, Code["r"])
    PROVE  ReadSession(s, b, k, p, up, mem, rep2)'
<1>1. /\ (Orderly' <=> Orderly) /\ (Errs => ~Clean') /\ (~Errs => (Clean' <=> Clean))
  BY ExecuteCleans
<1>2. /\ command \in {"d", "l", "h", "r"} /\ Len(args) = ArgumentsOf(command)
      /\ UNCHANGED <<awaits, intended, answers>>
      /\ Errs \/ SetsLatch \/ StartsRead
  BY ExecuteLeaves
<1>3. ReadInStandby(p, up)'
  <2>1. ReadInStandby(p, up)
    BY DEF ReadSession
  <2>2. CASE up
    BY <2>2 DEF ReadInStandby
  <2>3. CASE ~up
    <3>1. p >= 3 /\ (command = "r" /\ NoByte \notin Range(args) => p - Len(args) >= 4)
      BY <1>2, <2>1, <2>3 DEF ReadInStandby
    <3>2. ~StartsRead
      BY <1>2, <3>1 DEF StartsRead, ArgumentsOf
    <3>3. command' = "none"
      BY <1>2, <3>2 DEF Errs, SetsLatch
    <3>4. QED BY <3>1, <3>3 DEF ReadInStandby
  <2>4. QED BY <2>2, <2>3
<1>4. ASSUME Clean, ~Errs
      PROVE  mem = intended /\ ReadSoFar(s, b, p, rep2)' /\ (p \in 1..6 => up)
  <2>1. mem = intended /\ ReadSoFar(s, b, p, rep) /\ (p \in 1..6 => up)
    BY <1>4 DEF ReadSession
  <2>2. p \in 2..6 /\ command = "r" /\ args = Window(b, 2, p) /\ rep = <<>>
    BY <1>2, <2>1 DEF ReadSoFar
  <2>3. StartsRead /\ Len(args) = 4
    BY <1>2, <1>4, <2>2 DEF SetsLatch, ArgumentsOf
  <2>4. /\ Len(b) = 7 /\ b \in Seq(Byte)
        /\ b[3] = Low(s[2].at) /\ b[4] = High(s[2].at)
        /\ b[5] = Low(s[2].end) /\ b[6] = High(s[2].end)
        /\ s[2].at \in Address /\ s[2].end \in Address /\ s[2].at <= s[2].end
    BY ReadStreamType
  <2>5. ASSUME NEW n \in Nat, NEW q \in 0..Len(b), n <= q
        PROVE  /\ Len(Window(b, n, q)) = q - n
               /\ \A i \in 1..q - n : Window(b, n, q)[i] = b[n + i]
    <3>1. b \in Seq(Byte)
      BY <2>4
    <3>2. Len(Window(b, n, q)) = q - n
      BY <2>5, <3>1, WindowType
    <3>3. QED BY <3>2 DEF Window
  <2>6. p = 6
    <3>1. 2 \in Nat /\ p \in 0..Len(b) /\ 2 <= p
      BY <2>2, <2>4
    <3>2. Len(Window(b, 2, p)) = p - 2
      BY <2>5, <3>1
    <3>3. Len(args) = p - 2
      BY <2>2, <3>2, Zenon
    <3>4. p - 2 = 4
      BY <2>3, <3>3, Zenon
    <3>5. p \in Nat
      BY <2>2
    <3>6. QED BY <3>4, <3>5, SMT
  <2>7. args[1] = b[3] /\ args[2] = b[4] /\ args[3] = b[5] /\ args[4] = b[6]
    BY <2>2, <2>6 DEF Window
  <2>8. next' = s[2].at /\ end' = s[2].end
    BY <2>3, <2>4, <2>7, Halves DEF StartsRead, Word
  <2>9. rep2 = ReadOut(s[2], 0)'
    <3>1. rep2 = <<Code["r"]>>
      BY <2>2, <2>3
    <3>2. ReadOut(s[2], 0)' = <<Code["r"]>>
      BY DEF ReadOut
    <3>3. QED BY <3>1, <3>2
  <2>10. 0 \in 0..Size(s[2]) /\ s[2].at = (s[2].at + 0) % MemorySize
    <3>1. PICK low \in Address, high \in Address : low = s[2].at /\ high = s[2].end /\ low <= high
      BY <2>4
    <3>2. 0 \in 0..high - low + 1 /\ low = (low + 0) % MemorySize
      BY <3>1, Wraps, SMTT(60) DEF Address
    <3>3. QED BY <3>1, <3>2 DEF Size
  <2>11. command' = "reading"
    BY <2>3 DEF StartsRead
  <2>12. ReadSoFar(s, b, p, rep2)'
    BY <2>6, <2>8, <2>9, <2>10, <2>11 DEF ReadSoFar
  <2>13. QED BY <2>1, <2>12
<1>5. \A m : ReadOut(s[2], m)' = ReadOut(s[2], m)
  BY <1>2 DEF ReadOut
<1>6. QED BY <1>1, <1>2, <1>3, <1>4, <1>5 DEF ReadSession

-------------------------------------------------------------------------------
(* The loop of a read. *)

Goes ==
    /\ MoreToRead /\ command' = "reading"
    /\ steps' = Reading(next) /\ next' = (next + 1) % MemorySize
Ends == ~MoreToRead /\ steps' = <<>> /\ next' = next /\ command' = "none"

LEMMA ReadNextLeaves ==
    ASSUME ReadNext
    PROVE  /\ command = "reading" /\ steps = <<>>
           /\ UNCHANGED <<todo, wire, awaits, sessions, intended, answers, args, end, pins, replies,
                          memory, reported, stalled, stalls>>
           /\ Goes \/ Ends
<1>1. /\ command = "reading" /\ steps = <<>>
      /\ UNCHANGED <<todo, wire, awaits, sessions, intended, answers, args, end, pins, replies,
                     memory, reported, stalled, stalls>>
  BY DEF ReadNext, host_vars
<1>2. SetAddress(next) \o ReadCycle = Reading(next)
  BY DEF Reading
<1>3. CASE MoreToRead
  BY <1>1, <1>2, <1>3 DEF ReadNext, Goes
<1>4. CASE ~MoreToRead
  BY <1>1, <1>4 DEF ReadNext, Ends
<1>5. QED BY <1>1, <1>3, <1>4

LEMMA WriteReadsNext ==
    ASSUME NEW s, NEW k, NEW p, NEW up \in BOOLEAN, NEW latch, NEW mem, NEW rep,
           NEW f \in -1..Len(s) - 2, NEW o \in 0..6,
           WriteSession(s, k, p, f, o, up, latch, mem, rep), ReadNext
    PROVE  /\ \A latch2, rep2 : WriteSession(s, k, p, f, o, up, latch2, mem, rep2)'
           /\ Orderly => up
<1>1. /\ command = "reading"
      /\ UNCHANGED <<awaits, args, reported, stalls>>
  BY ReadNextLeaves
<1>2. ~Aligned(s, f, o)
  BY <1>1 DEF Aligned, LetterAt
<1>3. ~Clean
  BY <1>2 DEF WriteSession, WrittenSoFar
<1>4. (Clean' <=> Clean) /\ (Orderly' <=> Orderly)
  BY <1>1, SameCleanness
<1>5. Orderly => up /\ stalls >= 1
  BY <1>2 DEF WriteSession, InStep
<1>6. Orderly' => InStep(s, f, o, up)'
  BY <1>1, <1>4, <1>5 DEF InStep
<1>7. ASSUME NEW latch2, NEW rep2 PROVE WriteSession(s, k, p, f, o, up, latch2, mem, rep2)'
  BY <1>1, <1>3, <1>4, <1>6 DEF WriteSession
<1>8. QED BY <1>5, <1>7

\* The next byte of a read.
LEMMA OutNext ==
    ASSUME NEW r, r.at \in Address, r.end \in Address, NEW m \in Nat, r.at + m <= r.end,
           intended \in [Address -> Byte]
    PROVE  Append(ReadOut(r, m), intended[r.at + m]) = ReadOut(r, m + 1)
<1> DEFINE out(n) == [i \in 1..n |-> intended[r.at + i - 1]]
<1>1. \A i \in 1..m + 1 : r.at + i - 1 \in Address
  <2>1. MemorySize \in Nat /\ r.at \in 0..MemorySize - 1 /\ r.end \in 0..MemorySize - 1
    BY Wraps DEF Address
  <2>2. QED BY <2>1 DEF Address
<1>2. out(m) \in Seq(Byte) /\ Len(out(m)) = m /\ out(m + 1) \in Seq(Byte) /\ Len(out(m + 1)) = m + 1
  BY <1>1
<1>3. intended[r.at + m] \in Byte
  <2>1. m + 1 \in 1..m + 1 /\ r.at + (m + 1) - 1 = r.at + m
    BY Wraps
  <2>2. QED BY <1>1, <2>1
<1>4. Append(out(m), intended[r.at + m]) = out(m + 1)
  <2>1. /\ Append(out(m), intended[r.at + m]) \in Seq(Byte)
        /\ Len(Append(out(m), intended[r.at + m])) = m + 1
        /\ \A i \in 1..m : Append(out(m), intended[r.at + m])[i] = out(m)[i]
        /\ Append(out(m), intended[r.at + m])[m + 1] = intended[r.at + m]
    BY <1>2, <1>3, AppendProperties
  <2>2. \A i \in 1..m + 1 : Append(out(m), intended[r.at + m])[i] = out(m + 1)[i]
    <3>1. \A i \in 1..m : out(m)[i] = out(m + 1)[i]
      OBVIOUS
    <3>2. out(m + 1)[m + 1] = intended[r.at + m]
      BY Wraps
    <3>3. \A i \in 1..m + 1 : i \in 1..m \/ i = m + 1
      OBVIOUS
    <3> HIDE DEF out
    <3>4. QED BY <2>1, <3>1, <3>2, <3>3
  <2> HIDE DEF out
  <2>3. QED BY <1>2, <2>1, <2>2, SeqEqual
<1>5. Append(<<Code["r"]>> \o out(m), intended[r.at + m])
      = <<Code["r"]>> \o Append(out(m), intended[r.at + m])
  <2>1. <<Code["r"]>> \in Seq(Byte)
    BY CodesDiffer DEF Letters, Commands
  <2> DEFINE c == <<Code["r"]>>
             t == out(m)
             e == intended[r.at + m]
  <2>2. c \in Seq(Byte) /\ t \in Seq(Byte) /\ e \in Byte
    BY <1>2, <1>3, <2>1
  <2> HIDE DEF c, t, e
  <2>3. Append(c \o t, e) = c \o Append(t, e)
    <3>1. <<e>> \in Seq(Byte) /\ c \o t \in Seq(Byte)
      BY <2>2
    <3>2. Append(c \o t, e) = (c \o t) \o <<e>> /\ Append(t, e) = t \o <<e>>
      BY <2>2, <3>1, AppendIsConcat
    <3>3. (c \o t) \o <<e>> = c \o (t \o <<e>>)
      BY <2>2, <3>1, ConcatAssociative
    <3>4. QED BY <3>2, <3>3
  <2>4. QED BY <2>3 DEF c, t, e
<1>6. ReadOut(r, m) = <<Code["r"]>> \o out(m) /\ ReadOut(r, m + 1) = <<Code["r"]>> \o out(m + 1)
  BY DEF ReadOut
<1> HIDE DEF out
<1>7. QED BY <1>4, <1>5, <1>6

LEMMA ReadReadsNext ==
    ASSUME NEW s, IsSession(s), NEW b, NEW k, NEW p \in 0..7,
           NEW up \in BOOLEAN, NEW mem, NEW rep, IsReading(s), ReadStream(s, b),
           ReadSession(s, b, k, p, up, mem, rep), ReadNext, ProgrammerTypeOK,
           NEW got, got = Fetched(up, mem, rep, next)
    PROVE  /\ Goes => ReadSession(s, b, k, p, up, mem, got)'
           /\ Ends => ReadSession(s, b, k, p, up, mem, rep)'
           /\ up
<1>1. /\ command = "reading" /\ (Goes \/ Ends)
      /\ UNCHANGED <<awaits, args, reported, end, intended, answers>>
  BY ReadNextLeaves
<1>2. (Clean' <=> Clean) /\ (Orderly' <=> Orderly)
  BY <1>1, SameCleanness
<1>3. up
  BY <1>1 DEF ReadSession, ReadInStandby
<1>4. ReadInStandby(p, up)'
  BY <1>3 DEF ReadInStandby
<1>5. /\ s[2].at \in Address /\ s[2].end \in Address
      /\ s[2].at <= s[2].end /\ (s[2].end + 1) % MemorySize # s[2].at
  BY ReadStreamType
<1>6. ASSUME Clean
      PROVE  /\ mem = intended /\ p = 6 /\ end = s[2].end
             /\ \E m \in 0..Size(s[2]) :
                  next = (s[2].at + m) % MemorySize /\ rep = ReadOut(s[2], m)
  BY <1>1, <1>6 DEF ReadSession, ReadSoFar
<1>7. \A m : ReadOut(s[2], m)' = ReadOut(s[2], m)
  BY <1>1 DEF ReadOut
<1>8. ASSUME Clean, Goes
      PROVE  ReadSoFar(s, b, p, got)'
  <2>1. PICK r, m : /\ m \in 0..Size(r) /\ r = s[2]
                    /\ next = (r.at + m) % MemorySize /\ rep = ReadOut(r, m)
    BY <1>6, <1>8
  <2>2. /\ r.at \in Address /\ r.end \in Address /\ r.at <= r.end /\ end = r.end
        /\ (r.end + 1) % MemorySize # r.at
    BY <1>5, <1>6, <1>8, <2>1
  <2>3. r.at \in Nat /\ r.end \in Nat /\ r.end < MemorySize /\ MemorySize \in Nat /\ m \in Nat
    BY <2>1, <2>2, Wraps DEF Address, Size
  <2>4. m < Size(r)
    <3>1. SUFFICES ASSUME m = Size(r) PROVE FALSE
      BY <2>1, <2>3 DEF Size
    <3>2. r.at + m = end + 1
      BY <2>2, <2>3, <3>1 DEF Size
    <3>3. next = (end + 1) % MemorySize
      BY <2>1, <3>2
    <3>4. QED BY <1>8, <3>3 DEF Goes, MoreToRead
  <2>5. r.at + m \in Address /\ r.at + m <= r.end /\ r.at + m < MemorySize
    BY <2>2, <2>3, <2>4 DEF Size, Address
  <2>6. next = r.at + m
    BY <2>1, <2>5, Wraps
  <2>7. next' = (r.at + (m + 1)) % MemorySize
    <3>1. next' = (next + 1) % MemorySize
      BY <1>8 DEF Goes
    <3>2. next + 1 = r.at + (m + 1)
      BY <2>3, <2>6
    <3>3. QED BY <3>1, <3>2
  <2>8. Fetched(up, mem, rep, next) = ReadOut(r, m + 1)
    <3>1. Fetched(up, mem, rep, next) = Append(ReadOut(r, m), intended[r.at + m])
      BY <1>3, <1>6, <1>8, <2>1, <2>6 DEF Fetched
    <3>2. intended \in [Address -> Byte]
      BY DEF ProgrammerTypeOK
    <3>3. QED BY <2>2, <2>3, <2>5, <3>1, <3>2, OutNext
  <2>9. m + 1 \in 0..Size(s[2])
    BY <2>1, <2>2, <2>3, <2>4 DEF Size
  <2>10. Fetched(up, mem, rep, next) = ReadOut(s[2], m + 1)'
    BY <1>7, <2>1, <2>8
  <2>11. command' = "reading" /\ p = 6 /\ end' = s[2].end /\ next' = (s[2].at + (m + 1)) % MemorySize
    BY <1>1, <1>6, <1>8, <2>1, <2>7 DEF Goes
  <2>12. \E n \in 0..Size(s[2]) : next' = (s[2].at + n) % MemorySize /\ got = ReadOut(s[2], n)'
    BY <2>9, <2>10, <2>11
  <2>13. QED BY <2>11, <2>12 DEF ReadSoFar
<1>9. ASSUME Clean, Ends
      PROVE  ReadSoFar(s, b, p, rep)'
  <2>1. PICK r, m : /\ m \in 0..Size(r) /\ r = s[2]
                    /\ next = (r.at + m) % MemorySize /\ rep = ReadOut(r, m)
    BY <1>6, <1>9
  <2>2. /\ r.at \in Address /\ r.end \in Address /\ r.at <= r.end /\ end = r.end
        /\ (r.end + 1) % MemorySize # r.at
    BY <1>5, <1>6, <1>9, <2>1
  <2>3. r.at \in Nat /\ r.end \in Nat /\ r.end < MemorySize /\ MemorySize \in Nat /\ m \in Nat
    BY <2>1, <2>2, Wraps DEF Address, Size
  <2>4. (r.at + m) % MemorySize = (r.end + 1) % MemorySize
    BY <1>9, <2>1, <2>2 DEF Ends, MoreToRead
  <2>5. m = Size(r)
    <3>1. SUFFICES ASSUME m < Size(r) PROVE FALSE
      BY <2>1, <2>3 DEF Size
    <3>2. r.at + m \in Address /\ r.at + m <= r.end
      BY <2>2, <2>3, <3>1 DEF Size, Address
    <3>3. (r.at + m) % MemorySize = r.at + m
      BY <3>2, Wraps
    <3>4. CASE r.end + 1 < MemorySize
      <4>1. (r.end + 1) % MemorySize = r.end + 1
        BY <2>2, <3>4, Wraps
      <4>2. QED BY <2>3, <2>4, <3>2, <3>3, <4>1
    <3>5. CASE ~(r.end + 1 < MemorySize)
      <4>1. (r.end + 1) % MemorySize = 0
        BY <2>2, <3>5, Wraps
      <4>2. r.at + m = 0
        BY <2>4, <3>3, <4>1
      <4>3. r.at = 0
        BY <2>3, <4>2
      <4>4. QED BY <2>2, <4>1, <4>3
    <3>6. QED BY <3>4, <3>5
  <2>6. rep = ReadOut(s[2], Size(s[2]))'
    BY <1>7, <2>1, <2>5
  <2>7. p >= 6 /\ command' = "none"
    BY <1>6, <1>9 DEF Ends
  <2>8. Size(s[2])' = Size(s[2])
    OBVIOUS
  <2>9. QED BY <2>6, <2>7, <2>8 DEF ReadSoFar
<1>10. (k = 2 \/ awaits = 0)'
  BY <1>1 DEF ReadSession
<1>11. Clean => /\ mem = intended'
                /\ answers' = IF k >= 2 THEN ReadOut(s[2], Size(s[2]))' ELSE <<>>
  BY <1>1, <1>7 DEF ReadSession
<1>12. QED BY <1>2, <1>3, <1>4, <1>8, <1>9, <1>10, <1>11 DEF ReadSession

-------------------------------------------------------------------------------
(* The host. *)

\* The bytes of a session of writes.
Stream(s) ==
    [j \in 1..7 * Len(s) - 12 |->
        IF j = 1 THEN Code["s"] ELSE IF j = 7 * Len(s) - 12 THEN Code["x"]
        ELSE Frame(s[(j - 2) \div 7 + 2])[((j - 2) % 7) + 1]]

LEMMA BytesOfWrites ==
    ASSUME NEW s, IsSession(s), IsWriting(s)
    PROVE  \E b \in Seq(Byte) : WriteStream(s, b)
<1> DEFINE n == 7 * Len(s) - 12
<1>1. Len(s) \in Nat /\ Len(s) >= 2 /\ n \in Nat /\ n >= 2
  BY SessionShape
<1>2. Code["s"] \in Byte /\ Code["x"] \in Byte
  BY CodesDiffer DEF Letters, Commands
<1>3. ASSUME NEW j \in 1..n, j # 1, j # n
      PROVE  Frame(s[(j - 2) \div 7 + 2])[((j - 2) % 7) + 1] \in Byte
  <2>1. PICK f \in Int, o \in Int : f = (j - 2) \div 7 /\ o = (j - 2) % 7
    BY <1>1
  <2>2. f \in 0..Len(s) - 3 /\ o \in 0..6
    BY <1>1, <1>3, <2>1
  <2>3. f + 2 \in 2..Len(s) - 1 /\ o + 1 \in 1..7
    BY <2>2
  <2>4. s[f + 2] \in Requests /\ s[f + 2].op = "write"
    BY <2>3, SessionShape DEF IsWriting
  <2>5. Frame(s[f + 2])[o + 1] \in Byte
    BY <2>3, <2>4, FrameType
  <2>6. QED BY <2>1, <2>5
<1>4. \A j \in 1..n : Stream(s)[j] \in Byte
  BY <1>2, <1>3 DEF Stream
<1>5. Stream(s) \in Seq(Byte) /\ Len(Stream(s)) = n
  <2>1. DOMAIN Stream(s) = 1..n
    BY DEF Stream
  <2>2. Stream(s) = [j \in 1..n |-> Stream(s)[j]]
    BY <2>1 DEF Stream
  <2>3. QED BY <1>1, <1>4, <2>2
<1>6. Stream(s)[1] = Code["s"] /\ Stream(s)[n] = Code["x"]
  BY <1>1 DEF Stream
<1>7. ASSUME NEW f \in 0..Len(s) - 3, NEW o \in 1..7
      PROVE  Stream(s)[7 * f + 1 + o] = Frame(s[f + 2])[o]
  <2>1. PICK j \in Int : j = 7 * f + 1 + o
    BY <1>1
  <2>2. j \in 1..n /\ j # 1 /\ j # n /\ (j - 2) \div 7 = f /\ ((j - 2) % 7) + 1 = o
    BY <1>1, <2>1
  <2>3. Stream(s)[j] = Frame(s[f + 2])[o]
    BY <2>2 DEF Stream
  <2>4. QED BY <2>1, <2>3
<1>8. WriteStream(s, Stream(s))
  BY <1>5, <1>6, <1>7 DEF WriteStream
<1>9. QED BY <1>5, <1>8

BytesOfRead(s) ==
    <<Code["s"], Code["r"], Low(s[2].at), High(s[2].at), Low(s[2].end), High(s[2].end),
      Code["x"]>>

LEMMA BytesOfReads ==
    ASSUME NEW s, IsSession(s), IsReading(s)
    PROVE  \E b \in Seq(Byte) : ReadStream(s, b)
<1>1. ReadStream(s, BytesOfRead(s))
  BY DEF ReadStream, BytesOfRead
<1>2. BytesOfRead(s) \in Seq(Byte)
  BY <1>1, ReadStreamType
<1>3. QED BY <1>1, <1>2

LEMMA EmptyWindow ==
    \A b : Window(b, 0, 0) = <<>>
BY DEF Window

LEMMA BeginLeaves ==
    ASSUME Begin
    PROVE  /\ todo = <<>> /\ wire = <<>> /\ awaits = 0 /\ command = "none" /\ steps = <<>>
           /\ IsSession(todo') /\ replies' = <<>> /\ answers' = <<>>
           /\ sessions' = sessions + 1 /\ sessions < MaxSessions
           /\ UNCHANGED <<wire, awaits, intended, command, args, steps, next, end, pins, memory,
                          reported, stalled, stalls>>
BY SessionsAssumption DEF Begin, Quiet

\* When every byte has been dealt with the memory is as it is meant to be, and
\* so are the answers.
LEMMA AllDone ==
    ASSUME NEW s, IsSession(s), NEW b \in Seq(Byte), NEW k, NEW p,
           NEW up \in BOOLEAN, NEW latch, NEW mem \in [Address -> Byte], NEW rep,
           Session(s, b, k, p, up, latch, mem, rep),
           todo = <<>>, wire = <<>>, command = "none", Clean, ProgrammerTypeOK
    PROVE  mem = intended /\ rep = answers
<1> Len(s) \in Nat /\ Len(s) >= 2
  BY SessionShape
<1>1. CASE Writes(s, b, k, p, up, latch, mem, rep)
  <2>1. /\ IsWriting(s) /\ WriteStream(s, b) /\ StreamPlace(s, b, k, p, WriteAsked(s, k))
    BY <1>1 DEF Writes
  <2>2. PICK f \in -1..Len(s) - 2, o \in 0..6 : WriteSession(s, k, p, f, o, up, latch, mem, rep)
    BY <1>1 DEF Writes
  <2>3. k = Len(s)
    BY <2>1, NoMoreRequests
  <2>4. p = 7 * Len(s) - 12
    <3>1. k \in 0..Len(s)
      BY <2>3
    <3>2. WriteAsked(s, k) \in 0..Len(b)
      BY <2>1, <3>1, WriteAskedType
    <3>3. p = WriteAsked(s, k)
      BY <2>1, <3>2, NoMoreBytes
    <3>4. QED BY <2>3, <3>3 DEF WriteAsked
  <2>5. f = Len(s) - 2
    BY <2>2, <2>4 DEF WriteSession, FramePlace
  <2>6. UpTo(s, Len(s), Len(s), mem) /\ rep = answers
    <3>1. f + 2 = Len(s)
      BY <2>5
    <3>2. UpTo(s, f + 2, k, mem) /\ rep = answers
      BY <2>2 DEF WriteSession, WrittenSoFar
    <3>3. QED BY <2>3, <3>1, <3>2
  <2>7. \A a \in Address : mem[a] = intended[a]
    <3>1. \A i \in Len(s)..Len(s) : s[i].op = "exit"
      BY SessionShape
    <3>2. \A a \in Address : \A i \in Len(s)..Len(s) : ~WriteTo(s, i, a)
      BY <3>1 DEF WriteTo
    <3>3. QED BY <2>6, <3>2 DEF UpTo
  <2>8. mem = intended
    BY <2>7 DEF ProgrammerTypeOK
  <2>9. QED BY <2>6, <2>8
<1>2. CASE Reads(s, b, k, p, up, mem, rep)
  <2>1. /\ IsReading(s) /\ ReadStream(s, b) /\ StreamPlace(s, b, k, p, ReadAsked(k))
        /\ ReadSession(s, b, k, p, up, mem, rep)
    BY <1>2 DEF Reads
  <2>2. k = 3
    BY <2>1, NoMoreRequests DEF IsReading
  <2>3. p = 7
    <3>1. Len(b) = 7
      BY <2>1, ReadStreamType
    <3>2. ReadAsked(k) = 7 /\ ReadAsked(k) \in 0..Len(b)
      BY <2>2, <3>1 DEF ReadAsked
    <3>3. QED BY <2>1, <3>2, NoMoreBytes
  <2>4. /\ mem = intended /\ answers = ReadOut(s[2], Size(s[2])) /\ ReadSoFar(s, b, p, rep)
    BY <2>1, <2>2 DEF ReadSession
  <2>5. rep = ReadOut(s[2], Size(s[2]))
    BY <2>3, <2>4 DEF ReadSoFar
  <2>6. QED BY <2>4, <2>5
<1>3. QED BY <1>1, <1>2 DEF Session

LEMMA NewSession ==
    ASSUME NEW s, IsSession(s), NEW up \in BOOLEAN, NEW latch, NEW mem \in [Address -> Byte],
           wire' = <<>>, awaits' = 0, command' = "none", args' = <<>>, todo' = s,
           Clean' => mem = intended', answers' = <<>>, NEW zero, zero = 0, NEW none, none = <<>>
    PROVE  \E b \in Seq(Byte) : Session(s, b, zero, zero, up, latch, mem, none)'
<1> Len(s) \in Nat /\ Len(s) >= 2 /\ s \in Seq(Requests)
  BY SessionShape
<1>1. todo' = Window(s, 0, Len(s))
  BY WholeRest DEF Rest
<1>2. ASSUME IsWriting(s)
      PROVE  \E b \in Seq(Byte) : Session(s, b, zero, zero, up, latch, mem, none)'
  <2>1. PICK b \in Seq(Byte) : WriteStream(s, b)
    BY <1>2, BytesOfWrites
  <2>2. StreamPlace(s, b, zero, zero, WriteAsked(s, zero))'
    BY <1>1, EmptyWindow DEF StreamPlace, WriteAsked
  <2>3. PICK f, o : f = -1 /\ o = 6
    OBVIOUS
  <2>4. f \in -1..Len(s) - 2 /\ o \in 0..6 /\ FramePlace(s, zero, f, o)
    <3>1. f \in -1..Len(s) - 2 /\ o \in 0..6
      BY <2>3
    <3>2. zero = 7 * f + 1 + o
      BY <2>3
    <3>3. f # Len(s) - 2
      <4>1. Len(s) - 2 \in Nat
        OBVIOUS
      <4>2. f \notin Nat
        BY <2>3
      <4>3. QED BY <4>1, <4>2, Zenon
    <3>4. QED BY <2>3, <3>1, <3>2, <3>3 DEF FramePlace
  <2>5. Aligned(s, f, o)'
    BY <2>3 DEF Aligned
  <2>6. InStep(s, f, o, up)'
    BY <2>3, <2>5 DEF InStep
  <2>7. Clean' => UpTo(s, f + 2, zero, mem)'
    <3>1. f + 2 = 1 /\ 1..zero = {}
      BY <2>3
    <3>2. QED BY <3>1 DEF UpTo
  <2>8. Clean' => WrittenSoFar(s, zero, f, o, up, latch, mem, none)'
    <3>1. ~(f >= 0)
      BY <2>3
    <3>2. QED BY <2>5, <2>7, <3>1 DEF WrittenSoFar
  <2>9. WriteSession(s, zero, zero, f, o, up, latch, mem, none)'
    BY <2>4, <2>6, <2>8 DEF WriteSession
  <2>10. Writes(s, b, zero, zero, up, latch, mem, none)'
    BY <1>2, <2>1, <2>2, <2>4, <2>9 DEF Writes
  <2>11. QED BY <2>10 DEF Session
<1>3. ASSUME IsReading(s)
      PROVE  \E b \in Seq(Byte) : Session(s, b, zero, zero, up, latch, mem, none)'
  <2>1. PICK b \in Seq(Byte) : ReadStream(s, b)
    BY <1>3, BytesOfReads
  <2>2. StreamPlace(s, b, zero, zero, ReadAsked(zero))'
    BY <1>1, EmptyWindow DEF StreamPlace, ReadAsked
  <2>3. ReadSoFar(s, b, zero, none)'
    BY DEF ReadSoFar
  <2>4. ReadInStandby(zero, up)'
    BY DEF ReadInStandby
  <2>5. ReadSession(s, b, zero, zero, up, mem, none)'
    BY <2>3, <2>4 DEF ReadSession
  <2>6. Reads(s, b, zero, zero, up, mem, none)'
    BY <1>3, <2>1, <2>2, <2>5 DEF Reads
  <2>7. QED BY <2>6 DEF Session
<1>4. QED BY <1>2, <1>3, SessionShape

LEMMA AskLeaves ==
    ASSUME Ask, NEW s, IsSession(s), NEW k \in 0..Len(s), todo = Window(s, k, Len(s))
    PROVE  /\ k < Len(s) /\ awaits = 0 /\ s[k + 1] \in Requests
           /\ wire' = wire \o Bytes(s[k + 1]) /\ todo' = Window(s, k + 1, Len(s))
           /\ intended' = IF s[k + 1].op = "write"
                          THEN [intended EXCEPT ![s[k + 1].at] = s[k + 1].byte] ELSE intended
           /\ s[k + 1].op # "read" => UNCHANGED <<answers, awaits>>
           /\ s[k + 1].op = "read" => /\ answers' = ReadOut(s[k + 1], Size(s[k + 1]))'
                                      /\ awaits' = s[k + 1].end - s[k + 1].at + 2
           /\ UNCHANGED <<sessions, pico_vars, stalled, stalls>>
<1>1. s \in Seq(Requests) /\ Len(s) \in Nat
  BY SessionShape
<1>2. todo # <<>>
  BY DEF Ask
<1>3. k \in Nat /\ Len(s) \in 0..Len(s)
  BY <1>1
<1>4. k < Len(s)
  BY <1>1, <1>2, <1>3, WindowType
<1>5. Head(todo) = s[k + 1] /\ s[k + 1] \in Requests /\ Tail(todo) = Window(s, k + 1, Len(s))
  BY <1>1, <1>3, <1>4, WindowTake
<1>6. PICK r \in Requests : r = s[k + 1] /\ r = Head(todo)
  BY <1>5
<1>7. /\ wire' = wire \o Bytes(r)
      /\ intended' = IF r.op = "write" THEN [intended EXCEPT ![r.at] = r.byte] ELSE intended
      /\ r.op # "read" => UNCHANGED <<answers, awaits>>
      /\ todo' = Tail(todo) /\ awaits = 0
      /\ UNCHANGED <<sessions, pico_vars, stalled, stalls>>
  BY <1>6 DEF Ask
<1>8. ASSUME r.op = "read"
      PROVE  /\ answers' = ReadOut(r, Size(r))' /\ awaits' = r.end - r.at + 2
  <2>1. /\ answers' = <<Code["r"]>> \o [i \in 1..r.end - r.at + 1 |-> intended[r.at + i - 1]]
        /\ awaits' = r.end - r.at + 2
    BY <1>6, <1>8 DEF Ask
  <2>2. intended' = intended
    BY <1>7, <1>8
  <2>3. QED BY <2>1, <2>2 DEF ReadOut, Size
<1>9. QED BY <1>4, <1>5, <1>6, <1>7, <1>8

\* z is y after x.
Follow(x, y, z) ==
    /\ z \in Seq(Byte) /\ Len(z) = Len(x) + Len(y)
    /\ \A i \in 1..Len(x) : z[i] = x[i]
    /\ \A i \in 1..Len(y) : z[Len(x) + i] = y[i]

LEMMA ConcatBytes ==
    ASSUME NEW x \in Seq(Byte), NEW y \in Seq(Byte), NEW z, z = x \o y
    PROVE  Follow(x, y, z)
<1>1. /\ z \in Seq(Byte) /\ Len(z) = Len(x) + Len(y)
      /\ \A i \in 1..Len(x) + Len(y) : z[i] = IF i <= Len(x) THEN x[i] ELSE y[i - Len(x)]
  BY ConcatProperties
<1>2. ASSUME NEW i \in 1..Len(y) PROVE z[Len(x) + i] = y[i]
  <2>1. Len(x) + i \in 1..Len(x) + Len(y) /\ ~(Len(x) + i <= Len(x)) /\ (Len(x) + i) - Len(x) = i
    OBVIOUS
  <2>2. QED BY <1>1, <2>1
<1>3. QED BY <1>1, <1>2 DEF Follow

LEMMA PairAndThree ==
    ASSUME NEW a \in Byte, NEW b \in Byte, NEW c \in Byte, NEW d \in Byte, NEW e \in Byte
    PROVE  <<a, b>> \o <<c, d, e>> = <<a, b, c, d, e>>
<1>1. PICK x, y, w, z :
         /\ x \in Seq(Byte) /\ y \in Seq(Byte) /\ w \in Seq(Byte)
         /\ x = <<a, b>> /\ y = <<c, d, e>> /\ w = <<a, b, c, d, e>> /\ z = x \o y
  <2>1. <<a, b>> \in Seq(Byte) /\ <<c, d, e>> \in Seq(Byte) /\ <<a, b, c, d, e>> \in Seq(Byte)
    OBVIOUS
  <2>2. QED BY <2>1, Zenon
<1>2. /\ z \in Seq(Byte) /\ Len(z) = Len(x) + Len(y)
      /\ \A i \in 1..Len(x) : z[i] = x[i]
      /\ \A i \in 1..Len(y) : z[Len(x) + i] = y[i]
  BY <1>1, ConcatBytes DEF Follow
<1>3. /\ Len(x) = 2 /\ Len(y) = 3 /\ Len(w) = 5
      /\ x[1] = a /\ x[2] = b /\ y[1] = c /\ y[2] = d /\ y[3] = e
      /\ w[1] = a /\ w[2] = b /\ w[3] = c /\ w[4] = d /\ w[5] = e
  BY <1>1
<1>4. Len(z) = 5 /\ z[1] = a /\ z[2] = b /\ z[3] = c /\ z[4] = d /\ z[5] = e
  BY <1>2, <1>3
<1>5. \A i \in 1..5 : z[i] = w[i]
  BY <1>3, <1>4
<1>6. z = w
  <2>1. w \in Seq(Byte) /\ z \in Seq(Byte) /\ Len(z) = Len(w) /\ \A i \in 1..Len(z) : z[i] = w[i]
    BY <1>1, <1>2, <1>3, <1>4, <1>5
  <2>2. QED BY <2>1, SeqEqual
<1>7. QED BY <1>1, <1>6

LEMMA FrameJoined ==
    ASSUME NEW r \in Requests, r.op = "write"
    PROVE  SendWith("l", Low(r.at)) \o SendWith("h", High(r.at)) \o SendWith("d", r.byte)
             \o Send("w") = Frame(r)
<1>1. /\ Len(Frame(r)) = 7 /\ Frame(r) \in Seq(Byte)
      /\ Frame(r)[1] = Code["l"] /\ Frame(r)[2] = Low(r.at)
      /\ Frame(r)[3] = Code["h"] /\ Frame(r)[4] = High(r.at)
      /\ Frame(r)[5] = Code["d"] /\ Frame(r)[6] = r.byte
      /\ Frame(r)[7] = Code["w"]
  <2>1. Len(Frame(r)) = 7 /\ Frame(r) \in Seq(Byte)
    BY FrameType
  <2>2. QED BY <2>1, FrameType
<1>2. /\ Code["l"] \in Byte /\ Code["h"] \in Byte /\ Code["d"] \in Byte /\ Code["w"] \in Byte
      /\ Low(r.at) \in Byte /\ High(r.at) \in Byte /\ r.byte \in Byte
  BY CodesDiffer, RequestTypes, Halves DEF Letters, Commands
<1>3. PICK l, h, d, w : /\ l = SendWith("l", Low(r.at)) /\ h = SendWith("h", High(r.at))
                        /\ d = SendWith("d", r.byte) /\ w = Send("w")
  OBVIOUS
<1>4. /\ l \in Seq(Byte) /\ Len(l) = 2 /\ l[1] = Code["l"] /\ l[2] = Low(r.at)
      /\ h \in Seq(Byte) /\ Len(h) = 2 /\ h[1] = Code["h"] /\ h[2] = High(r.at)
      /\ d \in Seq(Byte) /\ Len(d) = 2 /\ d[1] = Code["d"] /\ d[2] = r.byte
      /\ w \in Seq(Byte) /\ Len(w) = 1 /\ w[1] = Code["w"]
  BY <1>2, <1>3 DEF Send, SendWith
<1>5. PICK lh, lhd, all : lh = l \o h /\ lhd = lh \o d /\ all = lhd \o w
  OBVIOUS
<1>6. /\ lh \in Seq(Byte) /\ Len(lh) = Len(l) + Len(h)
      /\ \A i \in 1..Len(l) : lh[i] = l[i]
      /\ \A i \in 1..Len(h) : lh[Len(l) + i] = h[i]
  <2>1. l \in Seq(Byte) /\ h \in Seq(Byte) /\ lh = l \o h
    BY <1>4, <1>5
  <2>2. Follow(l, h, lh)
    BY <2>1, ConcatBytes
  <2>3. QED BY <2>2 DEF Follow
<1>7. Len(lh) = 4 /\ lh[1] = l[1] /\ lh[2] = l[2] /\ lh[3] = h[1] /\ lh[4] = h[2]
  BY <1>4, <1>6
<1>8. /\ lhd \in Seq(Byte) /\ Len(lhd) = Len(lh) + Len(d)
      /\ \A i \in 1..Len(lh) : lhd[i] = lh[i]
      /\ \A i \in 1..Len(d) : lhd[Len(lh) + i] = d[i]
  <2>1. lh \in Seq(Byte) /\ d \in Seq(Byte) /\ lhd = lh \o d
    BY <1>4, <1>5, <1>6
  <2>2. Follow(lh, d, lhd)
    BY <2>1, ConcatBytes
  <2>3. QED BY <2>2 DEF Follow
<1>9. /\ Len(lhd) = 6 /\ lhd[1] = l[1] /\ lhd[2] = l[2] /\ lhd[3] = h[1] /\ lhd[4] = h[2]
      /\ lhd[5] = d[1] /\ lhd[6] = d[2]
  BY <1>4, <1>7, <1>8
<1>10. /\ all \in Seq(Byte) /\ Len(all) = Len(lhd) + Len(w)
       /\ \A i \in 1..Len(lhd) : all[i] = lhd[i]
       /\ \A i \in 1..Len(w) : all[Len(lhd) + i] = w[i]
  <2>1. lhd \in Seq(Byte) /\ w \in Seq(Byte) /\ all = lhd \o w
    BY <1>4, <1>5, <1>8
  <2>2. Follow(lhd, w, all)
    BY <2>1, ConcatBytes
  <2>3. QED BY <2>2 DEF Follow
<1>11. /\ Len(all) = 7 /\ all[1] = l[1] /\ all[2] = l[2] /\ all[3] = h[1] /\ all[4] = h[2]
       /\ all[5] = d[1] /\ all[6] = d[2] /\ all[7] = w[1]
  BY <1>4, <1>9, <1>10
<1>12. \A i \in 1..7 : all[i] = Frame(r)[i]
  BY <1>1, <1>4, <1>11
<1>13. all = Frame(r)
  <2>1. /\ Frame(r) \in Seq(Byte) /\ all \in Seq(Byte) /\ Len(all) = Len(Frame(r))
        /\ \A i \in 1..Len(all) : all[i] = Frame(r)[i]
    BY <1>1, <1>10, <1>11, <1>12
  <2>2. QED BY <2>1, SeqEqual
<1>14. QED BY <1>3, <1>5, <1>13

LEMMA BytesOf ==
    ASSUME NEW r \in Requests
    PROVE  /\ r.op = "enter" => Bytes(r) = <<Code["s"]>>
           /\ r.op = "exit" => Bytes(r) = <<Code["x"]>>
           /\ r.op = "write" => Bytes(r) = Frame(r)
           /\ r.op = "read" =>
                Bytes(r) = <<Code["r"], Low(r.at), High(r.at), Low(r.end), High(r.end)>>
<1>1. ASSUME r.op = "enter" PROVE Bytes(r) = <<Code["s"]>>
  BY <1>1 DEF Bytes, Send
<1>2. ASSUME r.op = "exit" PROVE Bytes(r) = <<Code["x"]>>
  BY <1>2 DEF Bytes, Send
<1>3. ASSUME r.op = "write" PROVE Bytes(r) = Frame(r)
  BY <1>3, FrameJoined DEF Bytes
<1>4. ASSUME r.op = "read"
      PROVE  Bytes(r) = <<Code["r"], Low(r.at), High(r.at), Low(r.end), High(r.end)>>
  <2>1. /\ Code["r"] \in Byte /\ Low(r.at) \in Byte /\ High(r.at) \in Byte
        /\ Low(r.end) \in Byte /\ High(r.end) \in Byte
    BY <1>4, CodesDiffer, RequestTypes, Halves DEF Letters, Commands
  <2>2. Bytes(r) = SendWith("r", Low(r.at)) \o <<High(r.at), Low(r.end), High(r.end)>>
    BY <1>4 DEF Bytes
  <2>3. SendWith("r", Low(r.at)) = <<Code["r"], Low(r.at)>>
    BY DEF SendWith
  <2>4. PICK a \in Byte, b \in Byte, c \in Byte, d \in Byte, e \in Byte :
           /\ a = Code["r"] /\ b = Low(r.at) /\ c = High(r.at) /\ d = Low(r.end) /\ e = High(r.end)
    BY <2>1, Zenon
  <2>5. <<a, b>> \o <<c, d, e>> = <<a, b, c, d, e>>
    BY PairAndThree
  <2>6. Bytes(r) = <<a, b>> \o <<c, d, e>>
    BY <2>2, <2>3, <2>4, Zenon
  <2>7. QED BY <2>4, <2>5, <2>6, Zenon
<1>5. QED BY <1>1, <1>2, <1>3, <1>4

\* More of the session's bytes are on their way.
LEMMA PlaceAsk ==
    ASSUME NEW s, NEW b \in Seq(Byte), NEW k \in Nat, NEW p, NEW asked \in 0..Len(b),
           StreamPlace(s, b, k, p, asked), k < Len(s), Len(s) \in Nat,
           NEW t \in Seq(Byte), asked + Len(t) <= Len(b),
           \A i \in 1..Len(t) : t[i] = b[asked + i],
           wire' = wire \o t, todo' = Window(s, k + 1, Len(s)),
           NEW more, more = asked + Len(t)
    PROVE  StreamPlace(s, b, k + 1, p, more)'
<1>1. p \in 0..asked /\ wire = Window(b, p, asked)
  BY DEF StreamPlace
<1>2. p \in Nat /\ asked \in Nat /\ p <= asked
  BY <1>1
<1>3. Window(b, p, asked) \o t = Window(b, p, asked + Len(t))
  BY <1>2, WindowExtend
<1>4. wire' = Window(b, p, more) /\ p \in 0..more /\ k + 1 \in 0..Len(s)
  BY <1>1, <1>2, <1>3
<1>5. QED BY <1>4 DEF StreamPlace

\* A request of a session of writes brings the bytes that follow.
LEMMA WriteBytes ==
    ASSUME NEW s, IsSession(s), NEW b \in Seq(Byte), IsWriting(s), WriteStream(s, b),
           NEW k \in 0..Len(s) - 1
    PROVE  /\ Bytes(s[k + 1]) \in Seq(Byte)
           /\ WriteAsked(s, k + 1) = WriteAsked(s, k) + Len(Bytes(s[k + 1]))
           /\ \A i \in 1..Len(Bytes(s[k + 1])) : Bytes(s[k + 1])[i] = b[WriteAsked(s, k) + i]
           /\ s[k + 1].op # "read"
<1> Len(s) \in Nat /\ Len(s) >= 2
  BY SessionShape
<1>1. PICK r \in Requests : r = s[k + 1]
  <2>1. k + 1 \in 1..Len(s)
    OBVIOUS
  <2>2. QED BY <2>1, SessionShape
<1>2. Code["s"] \in Byte /\ Code["x"] \in Byte
  BY CodesDiffer DEF Letters, Commands
<1>3. CASE k = 0
  <2>1. r.op = "enter"
    BY <1>1, <1>3, SessionShape
  <2>2. Bytes(r) = <<Code["s"]>>
    BY <2>1, BytesOf
  <2>3. Bytes(r) \in Seq(Byte) /\ Len(Bytes(r)) = 1 /\ Bytes(r)[1] = Code["s"]
    BY <1>2, <2>2
  <2>4. WriteAsked(s, 0) = 0 /\ WriteAsked(s, 1) = 1
    BY DEF WriteAsked
  <2>5. b[1] = Code["s"]
    BY DEF WriteStream
  <2>6. WriteAsked(s, k) = 0 /\ WriteAsked(s, k + 1) = 1
    BY <1>3, <2>4
  <2>7. \A i \in 1..Len(Bytes(r)) : i = 1 /\ 0 + i = 1
    BY <2>3
  <2>8. \A i \in 1..Len(Bytes(r)) : Bytes(r)[i] = b[WriteAsked(s, k) + i]
    BY <2>3, <2>5, <2>6, <2>7
  <2>9. QED BY <1>1, <2>1, <2>3, <2>6, <2>8
<1>4. CASE k = Len(s) - 1
  <2>1. r.op = "exit" /\ k + 1 = Len(s) /\ k # 0 /\ k < Len(s)
    BY <1>1, <1>4, SessionShape
  <2>2. Bytes(r) = <<Code["x"]>>
    BY <2>1, BytesOf
  <2>3. Bytes(r) \in Seq(Byte) /\ Len(Bytes(r)) = 1 /\ Bytes(r)[1] = Code["x"]
    BY <1>2, <2>2
  <2>4. WriteAsked(s, k) = 7 * Len(s) - 13 /\ WriteAsked(s, k + 1) = 7 * Len(s) - 12
    BY <1>4, <2>1 DEF WriteAsked
  <2>5. b[7 * Len(s) - 12] = Code["x"]
    BY DEF WriteStream
  <2>6. 7 * Len(s) - 13 + 1 = 7 * Len(s) - 12
    OBVIOUS
  <2>7. QED BY <1>1, <2>1, <2>3, <2>4, <2>5, <2>6
<1>5. CASE k \in 1..Len(s) - 2
  <2>1. r.op = "write"
    <3>1. k + 1 \in 2..Len(s) - 1
      BY <1>5
    <3>2. QED BY <1>1, <3>1 DEF IsWriting
  <2>2. Bytes(r) = Frame(r) /\ Frame(r) \in Seq(Byte) /\ Len(Frame(r)) = 7
    BY <2>1, BytesOf, FrameType
  <2>3. WriteAsked(s, k) = 7 * k - 6 /\ WriteAsked(s, k + 1) = 7 * k - 6 + 7
    BY <1>5 DEF WriteAsked
  <2>4. ASSUME NEW i \in 1..7 PROVE Frame(r)[i] = b[7 * k - 6 + i]
    <3>1. PICK g \in 0..Len(s) - 3 : g = k - 1
      BY <1>5
    <3>2. b[7 * g + 1 + i] = Frame(s[g + 2])[i]
      BY DEF WriteStream
    <3>3. 7 * g + 1 + i = 7 * k - 6 + i /\ g + 2 = k + 1
      BY <1>5, <3>1
    <3>4. QED BY <1>1, <3>2, <3>3
  <2>5. QED BY <1>1, <2>1, <2>2, <2>3, <2>4
<1>6. QED BY <1>3, <1>4, <1>5

LEMMA WriteAsks ==
    ASSUME NEW s, IsSession(s), NEW b \in Seq(Byte), NEW k, NEW p,
           NEW up \in BOOLEAN, NEW latch, NEW mem, NEW rep,
           Writes(s, b, k, p, up, latch, mem, rep), Ask, ProgrammerTypeOK
    PROVE  Writes(s, b, k + 1, p, up, latch, mem, rep)'
<1> Len(s) \in Nat /\ Len(s) >= 2
  BY SessionShape
<1>1. IsWriting(s) /\ WriteStream(s, b) /\ StreamPlace(s, b, k, p, WriteAsked(s, k))
  BY DEF Writes
<1>2. PICK f \in -1..Len(s) - 2, o \in 0..6 : WriteSession(s, k, p, f, o, up, latch, mem, rep)
  BY DEF Writes
<1>3. k \in 0..Len(s) /\ todo = Window(s, k, Len(s))
  BY <1>1 DEF StreamPlace
<1>4. PICK r : r = s[k + 1]
  OBVIOUS
<1>5. /\ k < Len(s) /\ awaits = 0 /\ r \in Requests
      /\ wire' = wire \o Bytes(r) /\ todo' = Window(s, k + 1, Len(s))
      /\ intended' = IF r.op = "write" THEN [intended EXCEPT ![r.at] = r.byte] ELSE intended
      /\ r.op # "read" => UNCHANGED <<answers, awaits>>
      /\ UNCHANGED <<pico_vars, stalled, stalls>>
  BY <1>3, <1>4, AskLeaves
<1>6. k \in 0..Len(s) - 1
  BY <1>3, <1>5
<1>7. /\ Bytes(r) \in Seq(Byte)
      /\ WriteAsked(s, k + 1) = WriteAsked(s, k) + Len(Bytes(r))
      /\ \A i \in 1..Len(Bytes(r)) : Bytes(r)[i] = b[WriteAsked(s, k) + i]
      /\ r.op # "read"
  BY <1>1, <1>4, <1>6, WriteBytes
<1>8. WriteAsked(s, k) \in 0..Len(b) /\ WriteAsked(s, k + 1) \in 0..Len(b) /\ k + 1 \in 0..Len(s)
  <2>1. k + 1 \in 0..Len(s)
    BY <1>6
  <2>2. QED BY <1>1, <1>3, <2>1, WriteAskedType
<1>9. StreamPlace(s, b, k + 1, p, WriteAsked(s, k + 1))'
  <2>1. PICK t \in Seq(Byte), asked \in 0..Len(b), more \in 0..Len(b) :
           t = Bytes(r) /\ asked = WriteAsked(s, k) /\ more = WriteAsked(s, k + 1)
    BY <1>7, <1>8
  <2>2. /\ more = asked + Len(t) /\ asked + Len(t) <= Len(b) /\ StreamPlace(s, b, k, p, asked)
        /\ \A i \in 1..Len(t) : t[i] = b[asked + i]
        /\ wire' = wire \o t
    BY <1>1, <1>5, <1>7, <2>1
  <2>3. k \in Nat
    BY <1>6
  <2>4. StreamPlace(s, b, k + 1, p, more)'
    BY <1>5, <2>2, <2>3, PlaceAsk
  <2>5. QED BY <2>1, <2>4
<1>10. UNCHANGED <<command, args, reported, stalled, stalls, answers, awaits>>
  BY <1>5, <1>7 DEF pico_vars
<1>11. (Clean' <=> Clean) /\ (Orderly' <=> Orderly)
  BY <1>10, SameCleanness
<1>12. FramePlace(s, p, f, o) /\ f + 2 \in Nat /\ f + 2 <= k + 1
  <2>1. FramePlace(s, p, f, o)
    BY <1>2 DEF WriteSession
  <2>2. p \in 0..WriteAsked(s, k)
    BY <1>1 DEF StreamPlace
  <2>3. QED BY <1>6, <2>1, <2>2 DEF FramePlace, WriteAsked
<1>13. Aligned(s, f, o)' <=> Aligned(s, f, o)
  BY <1>10 DEF Aligned
<1>14. Orderly => InStep(s, f, o, up)'
  BY <1>2, <1>10, <1>13 DEF WriteSession, InStep
<1>15. ASSUME Clean PROVE WrittenSoFar(s, k + 1, f, o, up, latch, mem, rep)'
  <2>1. WrittenSoFar(s, k, f, o, up, latch, mem, rep)
    BY <1>2, <1>15 DEF WriteSession
  <2>2. PICK first \in Nat : first = f + 2 /\ first <= k + 1
    BY <1>12
  <2>3. UpTo(s, first, k, mem)
    BY <2>1, <2>2 DEF WrittenSoFar
  <2>4. \A i \in first..k + 1 : i \in first..k \/ i = k + 1
    BY <1>6
  <2>5. \A i \in first..k : i \in first..k + 1
    BY <1>6
  <2>6. k + 1 \in first..k + 1
    BY <1>6, <2>2
  <2>7. \A a \in Address : WriteTo(s, k + 1, a) <=> r.op = "write" /\ a = r.at
    BY <1>4 DEF WriteTo
  <2>8. \A a \in Address : ~WriteTo(s, k + 1, a) => intended'[a] = intended[a]
    BY <1>5, <2>7 DEF ProgrammerTypeOK
  <2>9. \A a \in Address : WriteTo(s, k + 1, a) => intended'[a] = s[k + 1].byte
    BY <1>4, <1>5, <2>7 DEF ProgrammerTypeOK
  <2>10. ASSUME NEW a \in Address, \A i \in first..k + 1 : ~WriteTo(s, i, a)
         PROVE  mem[a] = intended'[a]
    BY <2>3, <2>5, <2>6, <2>8, <2>10 DEF UpTo
  <2>11. ASSUME NEW a \in Address, NEW i \in first..k + 1, WriteTo(s, i, a),
                \A j \in i + 1..k + 1 : ~WriteTo(s, j, a)
         PROVE  intended'[a] = s[i].byte
    <3>1. CASE i = k + 1
      BY <2>9, <2>11, <3>1
    <3>2. CASE i \in first..k
      <4>1. k + 1 \in i + 1..k + 1 /\ \A j \in i + 1..k : j \in i + 1..k + 1
        BY <1>6, <3>2
      <4>2. \A j \in i + 1..k : ~WriteTo(s, j, a)
        BY <2>11, <4>1
      <4>3. intended[a] = s[i].byte
        BY <2>3, <2>11, <3>2, <4>2 DEF UpTo
      <4>4. QED BY <2>8, <2>11, <4>1, <4>3
    <3>3. QED BY <2>4, <3>1, <3>2
  <2>12. UpTo(s, first, k + 1, mem)'
    BY <2>10, <2>11 DEF UpTo, WriteTo
  <2>13. UpTo(s, f + 2, k + 1, mem)'
    BY <2>2, <2>12
  <2>14. Latched(s, f, o, latch)' <=> Latched(s, f, o, latch)
    BY <1>10 DEF Latched
  <2>15. QED BY <1>10, <1>13, <2>1, <2>13, <2>14 DEF WrittenSoFar
<1>16. WriteSession(s, k + 1, p, f, o, up, latch, mem, rep)'
  BY <1>5, <1>10, <1>11, <1>12, <1>14, <1>15 DEF WriteSession
<1>17. QED BY <1>1, <1>9, <1>16 DEF Writes

LEMMA OneByte ==
    ASSUME NEW t, NEW x \in Byte, t = <<x>>
    PROVE  /\ t \in Seq(Byte) /\ Len(t) = 1
           /\ \A i \in 1..Len(t) : i = 1 /\ t[i] = x
OBVIOUS

\* A request of a read brings the bytes that follow.
LEMMA ReadBytes ==
    ASSUME NEW s, IsSession(s), NEW b \in Seq(Byte), IsReading(s), ReadStream(s, b),
           NEW k \in 0..2
    PROVE  /\ Bytes(s[k + 1]) \in Seq(Byte)
           /\ ReadAsked(k + 1) = ReadAsked(k) + Len(Bytes(s[k + 1]))
           /\ \A i \in 1..Len(Bytes(s[k + 1])) : Bytes(s[k + 1])[i] = b[ReadAsked(k) + i]
           /\ s[k + 1].op # "write" /\ (s[k + 1].op = "read" <=> k = 1)
<1>1. /\ Len(b) = 7 /\ b[1] = Code["s"] /\ b[2] = Code["r"] /\ b[3] = Low(s[2].at)
      /\ b[4] = High(s[2].at) /\ b[5] = Low(s[2].end) /\ b[6] = High(s[2].end)
      /\ b[7] = Code["x"] /\ s[2].op = "read"
  BY ReadStreamType
<1>2. /\ s[1] \in Requests /\ s[2] \in Requests /\ s[3] \in Requests
      /\ s[1].op = "enter" /\ s[3].op = "exit" /\ Len(s) = 3
  <2>1. Len(s) = 3
    BY DEF IsReading
  <2>2. 1 \in 1..Len(s) /\ 2 \in 1..Len(s) /\ 3 \in 1..Len(s)
    BY <2>1
  <2>3. QED BY <2>1, <2>2, SessionShape
<1>3. Code["s"] \in Byte /\ Code["x"] \in Byte /\ Code["r"] \in Byte
  BY CodesDiffer DEF Letters, Commands
<1>4. /\ ReadAsked(0) = 0 /\ ReadAsked(1) = 1 /\ ReadAsked(2) = 6 /\ ReadAsked(3) = 7
  BY DEF ReadAsked
<1>5. CASE k = 0
  <2>1. PICK r, q, m, t : r = s[k + 1] /\ q = ReadAsked(k) /\ m = ReadAsked(k + 1) /\ t = Bytes(r)
    OBVIOUS
  <2>2. r = s[1] /\ q = 0 /\ m = 1 /\ r \in Requests /\ r.op = "enter" /\ k # 1
    BY <1>2, <1>4, <1>5, <2>1
  <2>3. t = <<Code["s"]>>
    BY <2>1, <2>2, BytesOf
  <2>4. t \in Seq(Byte) /\ Len(t) = 1 /\ \A i \in 1..Len(t) : i = 1 /\ t[i] = Code["s"]
    BY <1>3, <2>3, OneByte
  <2>5. m = q + 1 /\ b[q + 1] = Code["s"]
    BY <1>1, <2>2
  <2>6. m = q + Len(t)
    BY <2>4, <2>5
  <2>7. \A i \in 1..Len(t) : t[i] = b[q + i]
    BY <2>4, <2>5
  <2>8. QED BY <2>1, <2>2, <2>4, <2>6, <2>7
<1>6. CASE k = 1
  <2>1. PICK r, q, m, t : r = s[k + 1] /\ q = ReadAsked(k) /\ m = ReadAsked(k + 1) /\ t = Bytes(r)
    OBVIOUS
  <2>2. r = s[2] /\ q = 1 /\ m = 6 /\ r \in Requests /\ r.op = "read"
    BY <1>1, <1>2, <1>4, <1>6, <2>1
  <2>3. t = <<Code["r"], Low(r.at), High(r.at), Low(r.end), High(r.end)>>
    BY <2>1, <2>2, BytesOf
  <2>4. /\ Low(r.at) \in Byte /\ High(r.at) \in Byte
        /\ Low(r.end) \in Byte /\ High(r.end) \in Byte
    BY <2>2, RequestTypes, Halves
  <2>5. t \in Seq(Byte)
    BY <1>3, <2>3, <2>4
  <2>6. Len(t) = 5
    BY <2>3
  <2>7. t[1] = b[2] /\ t[2] = b[3] /\ t[3] = b[4] /\ t[4] = b[5] /\ t[5] = b[6]
    BY <1>1, <2>2, <2>3
  <2>8. \A i \in 1..5 : t[i] = b[1 + i]
    BY <2>7
  <2>9. m = q + Len(t) /\ \A i \in 1..Len(t) : t[i] = b[q + i]
    BY <2>2, <2>6, <2>8
  <2>10. QED BY <1>6, <2>1, <2>2, <2>5, <2>9
<1>7. CASE k = 2
  <2>1. PICK r, q, m, t : r = s[k + 1] /\ q = ReadAsked(k) /\ m = ReadAsked(k + 1) /\ t = Bytes(r)
    OBVIOUS
  <2>2. r = s[3] /\ q = 6 /\ m = 7 /\ r \in Requests /\ r.op = "exit" /\ k # 1
    BY <1>2, <1>4, <1>7, <2>1
  <2>3. t = <<Code["x"]>>
    BY <2>1, <2>2, BytesOf
  <2>4. t \in Seq(Byte) /\ Len(t) = 1 /\ \A i \in 1..Len(t) : i = 1 /\ t[i] = Code["x"]
    BY <1>3, <2>3, OneByte
  <2>5. m = q + 1 /\ b[q + 1] = Code["x"]
    BY <1>1, <2>2
  <2>6. m = q + Len(t)
    BY <2>4, <2>5
  <2>7. \A i \in 1..Len(t) : t[i] = b[q + i]
    BY <2>4, <2>5
  <2>8. QED BY <2>1, <2>2, <2>4, <2>6, <2>7
<1>8. QED BY <1>5, <1>6, <1>7

LEMMA ReadAsks ==
    ASSUME NEW s, IsSession(s), NEW b \in Seq(Byte), NEW k, NEW p,
           NEW up \in BOOLEAN, NEW mem, NEW rep,
           Reads(s, b, k, p, up, mem, rep), Ask, ProgrammerTypeOK
    PROVE  /\ Reads(s, b, k + 1, p, up, mem, rep)'
           /\ k = 1 => /\ answers' = ReadOut(s[2], Size(s[2]))
                       /\ awaits' = s[2].end - s[2].at + 2
<1>1. IsReading(s) /\ ReadStream(s, b) /\ StreamPlace(s, b, k, p, ReadAsked(k))
      /\ ReadSession(s, b, k, p, up, mem, rep)
  BY DEF Reads
<1>2. k \in 0..Len(s) /\ todo = Window(s, k, Len(s)) /\ Len(s) = 3 /\ Len(b) = 7
  BY <1>1, ReadStreamType DEF StreamPlace, IsReading
<1>3. PICK r : r = s[k + 1]
  OBVIOUS
<1>4. /\ k < Len(s) /\ awaits = 0 /\ r \in Requests
      /\ wire' = wire \o Bytes(r) /\ todo' = Window(s, k + 1, Len(s))
      /\ intended' = IF r.op = "write" THEN [intended EXCEPT ![r.at] = r.byte] ELSE intended
      /\ r.op # "read" => UNCHANGED <<answers, awaits>>
      /\ r.op = "read" => /\ answers' = ReadOut(r, Size(r))' /\ awaits' = r.end - r.at + 2
      /\ UNCHANGED <<pico_vars, stalled, stalls>>
  BY <1>2, <1>3, AskLeaves
<1>5. k \in 0..2
  BY <1>2, <1>4
<1>6. /\ Bytes(r) \in Seq(Byte)
      /\ ReadAsked(k + 1) = ReadAsked(k) + Len(Bytes(r))
      /\ \A i \in 1..Len(Bytes(r)) : Bytes(r)[i] = b[ReadAsked(k) + i]
      /\ r.op # "write" /\ (r.op = "read" <=> k = 1)
  BY <1>1, <1>3, <1>5, ReadBytes
<1>7. ReadAsked(k) \in 0..7 /\ ReadAsked(k + 1) \in 0..7
  BY <1>5 DEF ReadAsked
<1>8. StreamPlace(s, b, k + 1, p, ReadAsked(k + 1))'
  <2>1. PICK t \in Seq(Byte), asked \in 0..Len(b), more \in 0..Len(b) :
           t = Bytes(r) /\ asked = ReadAsked(k) /\ more = ReadAsked(k + 1)
    BY <1>2, <1>6, <1>7
  <2>2. /\ more = asked + Len(t) /\ asked + Len(t) <= Len(b) /\ StreamPlace(s, b, k, p, asked)
        /\ \A i \in 1..Len(t) : t[i] = b[asked + i]
        /\ wire' = wire \o t
    BY <1>1, <1>4, <1>6, <2>1
  <2>3. k \in Nat /\ Len(s) \in Nat
    BY <1>2, <1>5
  <2>4. StreamPlace(s, b, k + 1, p, more)'
    BY <1>4, <2>2, <2>3, PlaceAsk
  <2>5. QED BY <2>1, <2>4
<1>9. UNCHANGED <<command, args, reported, end, next, intended>>
  BY <1>4, <1>6 DEF pico_vars
<1>10. (Clean' <=> Clean) /\ (Orderly' <=> Orderly)
  BY <1>9, SameCleanness
<1>11. \A m : ReadOut(s[2], m)' = ReadOut(s[2], m)
  BY <1>9 DEF ReadOut
<1>12. ReadInStandby(p, up)' <=> ReadInStandby(p, up)
  BY <1>9 DEF ReadInStandby
<1>13. ReadSoFar(s, b, p, rep)' <=> ReadSoFar(s, b, p, rep)
  BY <1>9, <1>11 DEF ReadSoFar
<1>14. k + 1 = 2 \/ awaits' = 0
  BY <1>4, <1>5, <1>6
<1>15. k = 1 => answers' = ReadOut(s[2], Size(s[2])) /\ awaits' = s[2].end - s[2].at + 2
  <2>1. ASSUME k = 1 PROVE answers' = ReadOut(s[2], Size(s[2])) /\ awaits' = s[2].end - s[2].at + 2
    <3>1. r = s[2] /\ answers' = ReadOut(r, Size(r))' /\ awaits' = r.end - r.at + 2
      BY <1>3, <1>4, <1>6, <2>1
    <3>2. Size(r)' = Size(r)
      OBVIOUS
    <3>3. QED BY <1>11, <3>1, <3>2
  <2>2. QED BY <2>1
<1>16. ASSUME Clean
       PROVE  /\ mem = intended' /\ ReadSoFar(s, b, p, rep)' /\ (p \in 1..6 => up)
              /\ answers' = IF k + 1 >= 2 THEN ReadOut(s[2], Size(s[2]))' ELSE <<>>
  <2>1. /\ mem = intended /\ ReadSoFar(s, b, p, rep) /\ (p \in 1..6 => up)
        /\ answers = IF k >= 2 THEN ReadOut(s[2], Size(s[2])) ELSE <<>>
    BY <1>1, <1>16 DEF ReadSession
  <2>2. answers' = IF k + 1 >= 2 THEN ReadOut(s[2], Size(s[2])) ELSE <<>>
    <3>1. CASE k = 1
      BY <1>15, <3>1
    <3>2. CASE k # 1
      <4>1. answers' = answers
        BY <1>4, <1>6, <3>2
      <4>2. k + 1 >= 2 <=> k >= 2
        BY <1>5, <3>2
      <4>3. QED BY <2>1, <4>1, <4>2
    <3>3. QED BY <3>1, <3>2
  <2>3. QED BY <1>9, <1>11, <1>13, <2>1, <2>2
<1>17. ReadSession(s, b, k + 1, p, up, mem, rep)'
  BY <1>1, <1>10, <1>12, <1>14, <1>16 DEF ReadSession
<1>18. QED BY <1>1, <1>8, <1>15, <1>17 DEF Reads

-------------------------------------------------------------------------------
(* The types. *)

LEMMA ReadOutType ==
    ASSUME intended \in [Address -> Byte], NEW r, r.at \in Address, r.end \in Address,
           r.at <= r.end
    PROVE  ReadOut(r, Size(r)) \in Seq(Byte)
<1>1. Size(r) \in Nat /\ \A i \in 1..Size(r) : r.at + i - 1 \in Address
  BY Wraps DEF Size, Address
<1>2. [i \in 1..Size(r) |-> intended[r.at + i - 1]] \in Seq(Byte)
  BY <1>1
<1>3. <<Code["r"]>> \in Seq(Byte)
  BY CodesDiffer DEF Letters, Commands
<1>4. QED BY <1>2, <1>3, ConcatProperties DEF ReadOut

LEMMA SelectedAddress ==
    ASSUME pins \in Pins
    PROVE  Selected \in Address
<1>1. PICK low \in Byte, high \in Byte : low = pins.latch["low"] /\ high = pins.latch["high"]
  BY DEF Pins, Latches
<1>2. ByteSize \in Nat /\ ByteSize > 0
  BY ByteSizeAssumption
<1>3. low \in Nat /\ high \in Nat /\ low <= ByteSize - 1 /\ high <= ByteSize - 1
  BY <1>2 DEF Byte
<1>4. ByteSize * high <= ByteSize * (ByteSize - 1) /\ ByteSize * high \in Nat
  BY <1>2, <1>3
<1>5. ByteSize * (ByteSize - 1) = ByteSize * ByteSize - ByteSize /\ ByteSize * ByteSize \in Nat
  BY <1>2
<1>6. low + ByteSize * high \in 0..ByteSize * ByteSize - 1
  BY <1>2, <1>3, <1>4, <1>5
<1>7. QED BY <1>1, <1>6 DEF Selected, Address, MemorySize

LEMMA WordAddress ==
    \A low, high \in Byte : Word(low, high) \in Address
<1>1. SUFFICES ASSUME NEW low \in Byte, NEW high \in Byte PROVE Word(low, high) \in Address
  OBVIOUS
<1>2. ByteSize \in Nat /\ ByteSize > 0
  BY ByteSizeAssumption
<1>3. low \in Nat /\ high \in Nat /\ low <= ByteSize - 1 /\ high <= ByteSize - 1
  BY <1>2 DEF Byte
<1>4. ByteSize * high <= ByteSize * (ByteSize - 1) /\ ByteSize * high \in Nat
  BY <1>2, <1>3
<1>5. ByteSize * (ByteSize - 1) = ByteSize * ByteSize - ByteSize /\ ByteSize * ByteSize \in Nat
  BY <1>2
<1>6. low + ByteSize * high \in 0..ByteSize * ByteSize - 1
  BY <1>2, <1>3, <1>4, <1>5
<1>7. QED BY <1>6 DEF Word, Address, MemorySize

-------------------------------------------------------------------------------
(* The invariant. *)

LEMMA SessionStays ==
    ASSUME NEW s, NEW b, NEW k, NEW p, NEW up, NEW latch, NEW mem, NEW rep,
           Session(s, b, k, p, up, latch, mem, rep), awaits' = awaits \/ awaits' = 0,
           UNCHANGED <<todo, wire, command, args, stalled, stalls, intended, answers, next, end,
                       reported>>
    PROVE  Session(s, b, k, p, up, latch, mem, rep)'
<1>1. (Clean' <=> Clean) /\ (Orderly' <=> Orderly)
  BY SameCleanness
<1>2. CASE Writes(s, b, k, p, up, latch, mem, rep)
  <2>1. PICK f \in -1..Len(s) - 2, o \in 0..6 : WriteSession(s, k, p, f, o, up, latch, mem, rep)
    BY <1>2 DEF Writes
  <2>2. StreamPlace(s, b, k, p, WriteAsked(s, k))'
    BY <1>2 DEF Writes, StreamPlace
  <2>3. Aligned(s, f, o)' <=> Aligned(s, f, o)
    BY DEF Aligned
  <2>4. InStep(s, f, o, up)' <=> InStep(s, f, o, up)
    BY <2>3 DEF InStep
  <2>5. UpTo(s, f + 2, k, mem)' <=> UpTo(s, f + 2, k, mem)
    BY DEF UpTo, WriteTo
  <2>6. Latched(s, f, o, latch)' <=> Latched(s, f, o, latch)
    BY DEF Latched
  <2>7. WrittenSoFar(s, k, f, o, up, latch, mem, rep)'
        <=> WrittenSoFar(s, k, f, o, up, latch, mem, rep)
    BY <2>3, <2>5, <2>6 DEF WrittenSoFar
  <2>8. WriteSession(s, k, p, f, o, up, latch, mem, rep)'
    BY <1>1, <2>1, <2>4, <2>7 DEF WriteSession
  <2>9. Writes(s, b, k, p, up, latch, mem, rep)'
    BY <1>2, <2>2, <2>8 DEF Writes
  <2>10. QED BY <2>9 DEF Session
<1>3. CASE Reads(s, b, k, p, up, mem, rep)
  <2>1. StreamPlace(s, b, k, p, ReadAsked(k))'
    BY <1>3 DEF Reads, StreamPlace
  <2>2. \A m : ReadOut(s[2], m)' = ReadOut(s[2], m)
    BY DEF ReadOut
  <2>3. ReadInStandby(p, up)' <=> ReadInStandby(p, up)
    BY DEF ReadInStandby
  <2>4. ReadSoFar(s, b, p, rep)' <=> ReadSoFar(s, b, p, rep)
    BY <2>2 DEF ReadSoFar
  <2>5. ReadSession(s, b, k, p, up, mem, rep)'
    BY <1>1, <1>3, <2>2, <2>3, <2>4 DEF Reads, ReadSession
  <2>6. Reads(s, b, k, p, up, mem, rep)'
    BY <1>3, <2>1, <2>5 DEF Reads
  <2>7. QED BY <2>6 DEF Session
<1>4. QED BY <1>2, <1>3 DEF Session

LEMMA StepHolds ==
    ASSUME ProgrammerTypeOK, NEW s, NEW b, NEW k, NEW p, NEW up, NEW latch, NEW mem, NEW rep, NEW tidy,
           At(s, b, k, p, up, latch, mem, rep, tidy), Step
    PROVE  Holding'
<1>1. UNCHANGED <<todo, wire, awaits, command, args, stalled, stalls, intended, answers, next, end,
                  reported>>
  BY DEF Step, host_vars
<1>2. Session(s, b, k, p, up, latch, mem, rep)'
  BY <1>1, SessionStays DEF At
<1>3. Completing(up, latch, mem, rep, tidy)'
  BY StepCompletes DEF At, Outcome, ProgrammerTypeOK
<1>4. Orderly' <=> Orderly
  BY <1>1, SameCleanness
<1>5. At(s, b, k, p, up, latch, mem, rep, tidy)'
  BY <1>2, <1>3, <1>4 DEF At, Outcome
<1>6. QED BY <1>5 DEF Holding

LEMMA HearHolds ==
    ASSUME NEW s, NEW b, NEW k, NEW p, NEW up, NEW latch, NEW mem, NEW rep, NEW tidy,
           At(s, b, k, p, up, latch, mem, rep, tidy), Hear \/ UNCHANGED programmer_vars
    PROVE  Holding'
<1>1. /\ UNCHANGED <<todo, wire, command, args, stalled, stalls, intended, answers, next, end,
                     reported, pins, memory, steps, replies>>
      /\ awaits' = awaits \/ awaits' = 0
  BY DEF Hear, programmer_vars, host_vars, pico_vars
<1>2. Session(s, b, k, p, up, latch, mem, rep)'
  BY <1>1, SessionStays DEF At
<1>3. Completing(up, latch, mem, rep, tidy)'
  BY <1>1, Undisturbed DEF At
<1>4. Orderly' <=> Orderly
  BY <1>1, SameCleanness
<1>5. At(s, b, k, p, up, latch, mem, rep, tidy)'
  BY <1>2, <1>3, <1>4 DEF At, Outcome
<1>6. QED BY <1>5 DEF Holding

LEMMA AskHolds ==
    ASSUME ProgrammerTypeOK, NEW s, NEW b, NEW k, NEW p, NEW up, NEW latch, NEW mem, NEW rep, NEW tidy,
           At(s, b, k, p, up, latch, mem, rep, tidy), Ask
    PROVE  Holding'
<1>1. UNCHANGED <<args, reported, pins, memory, steps, replies>>
  BY DEF Ask, pico_vars
<1>2. IsSession(s) /\ b \in Seq(Byte) /\ up \in BOOLEAN /\ Session(s, b, k, p, up, latch, mem, rep)
  BY DEF At, Outcome
<1>3. Session(s, b, k + 1, p, up, latch, mem, rep)'
  BY <1>2, WriteAsks, ReadAsks DEF Session
<1>4. Completing(up, latch, mem, rep, tidy)'
  BY <1>1, Undisturbed DEF At
<1>5. Orderly' <=> Orderly
  BY <1>1, SameCleanness
<1>6. At(s, b, k + 1, p, up, latch, mem, rep, tidy)'
  BY <1>3, <1>4, <1>5 DEF At, Outcome
<1>7. QED BY <1>6 DEF Holding

LEMMA GiveUpHolds ==
    ASSUME ProgrammerTypeOK, ArgsOK,
           NEW s, NEW b, NEW k, NEW p, NEW up, NEW latch, NEW mem, NEW rep, NEW tidy,
           At(s, b, k, p, up, latch, mem, rep, tidy), GiveUpArgument
    PROVE  Holding'
<1>1. UNCHANGED <<todo, wire, pins, memory, steps, replies>>
  BY GivingUpLeaves
<1>2. IsSession(s) /\ b \in Seq(Byte) /\ up \in BOOLEAN /\ Session(s, b, k, p, up, latch, mem, rep)
  BY DEF At, Outcome
<1>3. ASSUME Writes(s, b, k, p, up, latch, mem, rep)
      PROVE  Session(s, b, k, p, up, latch, mem, rep)'
  <2>1. IsWriting(s) /\ WriteStream(s, b) /\ StreamPlace(s, b, k, p, WriteAsked(s, k))
    BY <1>3 DEF Writes
  <2>2. PICK f \in -1..Len(s) - 2, o \in 0..6 : WriteSession(s, k, p, f, o, up, latch, mem, rep)
    BY <1>3 DEF Writes
  <2>3. WriteSession(s, k, p, f, o, up, latch, mem, rep)'
    BY <1>2, <2>1, <2>2, WriteGivesUp
  <2>4. StreamPlace(s, b, k, p, WriteAsked(s, k))'
    BY <1>1, <2>1, PlaceStays
  <2>5. QED BY <2>1, <2>3, <2>4 DEF Writes, Session
<1>4. ASSUME Reads(s, b, k, p, up, mem, rep)
      PROVE  Session(s, b, k, p, up, latch, mem, rep)'
  <2>1. /\ IsReading(s) /\ ReadStream(s, b) /\ StreamPlace(s, b, k, p, ReadAsked(k))
        /\ ReadSession(s, b, k, p, up, mem, rep)
    BY <1>4 DEF Reads
  <2>2. ReadSession(s, b, k, p, up, mem, rep)'
    BY <1>2, <2>1, ReadGivesUp
  <2>3. StreamPlace(s, b, k, p, ReadAsked(k))'
    BY <1>1, <2>1, PlaceStays
  <2>4. QED BY <2>1, <2>2, <2>3 DEF Reads, Session
<1>5. Session(s, b, k, p, up, latch, mem, rep)'
  BY <1>2, <1>3, <1>4 DEF Session
<1>6. Completing(up, latch, mem, rep, tidy)'
  BY <1>1, Undisturbed DEF At
<1>7. Orderly' => Orderly
  BY GivingUpStains
<1>8. At(s, b, k, p, up, latch, mem, rep, tidy)'
  BY <1>5, <1>6, <1>7 DEF At, Outcome
<1>9. QED BY <1>8 DEF Holding

LEMMA TakeArgumentHolds ==
    ASSUME ProgrammerTypeOK, ArgsOK,
           NEW s, NEW b, NEW k, NEW p, NEW up, NEW latch, NEW mem, NEW rep, NEW tidy,
           At(s, b, k, p, up, latch, mem, rep, tidy), TakeArgument
    PROVE  Holding'
<1>1. /\ UNCHANGED <<todo, pins, memory, steps, replies, reported>>
      /\ wire # <<>> /\ wire' = Tail(wire) /\ args' = Append(args, Head(wire))
      /\ TakesArguments /\ UNCHANGED command
  BY ArgumentLeaves
<1>2. IsSession(s) /\ b \in Seq(Byte) /\ up \in BOOLEAN /\ Session(s, b, k, p, up, latch, mem, rep)
  BY DEF At, Outcome
<1>3. ASSUME Writes(s, b, k, p, up, latch, mem, rep)
      PROVE  Session(s, b, k, p + 1, up, latch, mem, rep)'
  <2>1. IsWriting(s) /\ WriteStream(s, b) /\ StreamPlace(s, b, k, p, WriteAsked(s, k))
    BY <1>3 DEF Writes
  <2>2. PICK f \in -1..Len(s) - 2, o \in 0..6 : WriteSession(s, k, p, f, o, up, latch, mem, rep)
    BY <1>3 DEF Writes
  <2>3. k \in 0..Len(s)
    BY <2>1 DEF StreamPlace
  <2>4. PICK asked \in 0..Len(b) : asked = WriteAsked(s, k)
    BY <1>2, <2>1, <2>3, WriteAskedType
  <2>5. /\ p \in Nat /\ p < asked /\ Head(wire) = b[p + 1] /\ Head(wire) \in Byte
        /\ StreamPlace(s, b, k, p + 1, asked)'
    BY <1>1, <1>2, <2>1, <2>4, PlaceTake
  <2>6. \E f2 \in -1..Len(s) - 2, o2 \in 0..6 :
          WriteSession(s, k, p + 1, f2, o2, up, latch, mem, rep)'
    BY <1>2, <2>1, <2>2, <2>3, <2>4, <2>5, WriteTakesArgument
  <2>7. Writes(s, b, k, p + 1, up, latch, mem, rep)'
    BY <2>1, <2>4, <2>5, <2>6 DEF Writes
  <2>8. QED BY <2>7 DEF Session
<1>4. ASSUME Reads(s, b, k, p, up, mem, rep)
      PROVE  Session(s, b, k, p + 1, up, latch, mem, rep)'
  <2>1. /\ IsReading(s) /\ ReadStream(s, b) /\ StreamPlace(s, b, k, p, ReadAsked(k))
        /\ ReadSession(s, b, k, p, up, mem, rep)
    BY <1>4 DEF Reads
  <2>2. k \in 0..Len(s) /\ Len(b) = 7
    BY <1>2, <2>1, ReadStreamType DEF StreamPlace
  <2>3. PICK asked \in 0..Len(b) : asked = ReadAsked(k) /\ asked <= 7
    BY <2>1, <2>2, ReadAskedType
  <2>4. /\ p \in Nat /\ p < asked /\ Head(wire) = b[p + 1] /\ Head(wire) \in Byte
        /\ StreamPlace(s, b, k, p + 1, asked)'
    BY <1>1, <1>2, <2>1, <2>3, PlaceTake
  <2>5. p < 7
    BY <2>3, <2>4
  <2>6. ReadSession(s, b, k, p + 1, up, mem, rep)'
    BY <1>2, <2>1, <2>4, <2>5, ReadTakesArgument
  <2>7. Reads(s, b, k, p + 1, up, mem, rep)'
    BY <2>1, <2>3, <2>4, <2>6 DEF Reads
  <2>8. QED BY <2>7 DEF Session
<1>5. Session(s, b, k, p + 1, up, latch, mem, rep)'
  BY <1>2, <1>3, <1>4 DEF Session
<1>6. Completing(up, latch, mem, rep, tidy)'
  BY <1>1, Undisturbed DEF At
<1>7. Orderly' <=> Orderly
  <2>1. Head(wire) \in Byte
    BY <1>1 DEF ProgrammerTypeOK
  <2>2. Range(args') = Range(args) \cup {Head(wire)}
    BY <1>1, <2>1, NextArgument
  <2>3. QED BY <1>1, <2>1, <2>2, CodesDiffer DEF Orderly, Clean
<1>8. At(s, b, k, p + 1, up, latch, mem, rep, tidy)'
  BY <1>5, <1>6, <1>7 DEF At, Outcome
<1>9. QED BY <1>8 DEF Holding

LEMMA TakeCommandHolds ==
    ASSUME ProgrammerTypeOK, ArgsOK,
           NEW s, NEW b, NEW k, NEW p, NEW up, NEW latch, NEW mem, NEW rep, NEW tidy,
           At(s, b, k, p, up, latch, mem, rep, tidy), TakeCommand
    PROVE  Holding'
<1>1. /\ UNCHANGED <<todo, args, reported>> /\ steps = <<>> /\ command = "none"
      /\ wire # <<>> /\ wire' = Tail(wire)
  BY CommandLeaves
<1>2. /\ IsSession(s) /\ b \in Seq(Byte) /\ up \in BOOLEAN /\ latch \in [Latches -> Byte]
      /\ mem \in [Address -> Byte] /\ tidy \in BOOLEAN
      /\ Session(s, b, k, p, up, latch, mem, rep)
  BY DEF At, Outcome
<1>3. args = <<>> /\ (stalled => stalls >= 1)
  BY <1>1 DEF ArgsOK
<1>4. Idle(up, latch, mem, rep, tidy)
  BY <1>1, <1>2, Idles DEF At, ProgrammerTypeOK
<1>5. PICK c \in Commands \cup {"none"} :
        /\ LetterIs(Head(wire), c) /\ command' = Kept(c)
        /\ Completing(UpAfter(c, up), latch, MemAfter(c, up, latch, mem), rep, tidy)'
  BY <1>2, <1>4, TakeCommandDoes DEF ProgrammerTypeOK
<1>6. PICK up2, mem2 : up2 = UpAfter(c, up) /\ mem2 = MemAfter(c, up, latch, mem)
  OBVIOUS
<1>7. ASSUME Writes(s, b, k, p, up, latch, mem, rep)
      PROVE  Session(s, b, k, p + 1, up2, latch, mem2, rep)'
  <2>1. IsWriting(s) /\ WriteStream(s, b) /\ StreamPlace(s, b, k, p, WriteAsked(s, k))
    BY <1>7 DEF Writes
  <2>2. PICK f \in -1..Len(s) - 2, o \in 0..6 : WriteSession(s, k, p, f, o, up, latch, mem, rep)
    BY <1>7 DEF Writes
  <2>3. k \in 0..Len(s)
    BY <2>1 DEF StreamPlace
  <2>4. PICK asked \in 0..Len(b) : asked = WriteAsked(s, k)
    BY <1>2, <2>1, <2>3, WriteAskedType
  <2>5. /\ p \in Nat /\ p < asked /\ Head(wire) = b[p + 1]
        /\ StreamPlace(s, b, k, p + 1, asked)'
    BY <1>1, <1>2, <2>1, <2>4, PlaceTake
  <2>6. p < WriteAsked(s, k) /\ LetterIs(b[p + 1], c)
    BY <1>5, <2>4, <2>5
  <2>7. \E f2 \in -1..Len(s) - 2, o2 \in 0..6 :
          WriteSession(s, k, p + 1, f2, o2, UpAfter(c, up), latch, MemAfter(c, up, latch, mem), rep)'
    BY <1>2, <1>3, <1>5, <2>1, <2>2, <2>3, <2>5, <2>6, WriteTakesCommand
  <2>8. Writes(s, b, k, p + 1, up2, latch, mem2, rep)'
    BY <1>6, <2>1, <2>4, <2>5, <2>7 DEF Writes
  <2>9. QED BY <2>8 DEF Session
<1>8. ASSUME Reads(s, b, k, p, up, mem, rep)
      PROVE  Session(s, b, k, p + 1, up2, latch, mem2, rep)'
  <2>1. /\ IsReading(s) /\ ReadStream(s, b) /\ StreamPlace(s, b, k, p, ReadAsked(k))
        /\ ReadSession(s, b, k, p, up, mem, rep)
    BY <1>8 DEF Reads
  <2>2. k \in 0..Len(s) /\ Len(b) = 7
    BY <1>2, <2>1, ReadStreamType DEF StreamPlace
  <2>3. PICK asked \in 0..Len(b) : asked = ReadAsked(k) /\ asked <= 7
    BY <2>1, <2>2, ReadAskedType
  <2>4. /\ p \in Nat /\ p < asked /\ Head(wire) = b[p + 1]
        /\ StreamPlace(s, b, k, p + 1, asked)'
    BY <1>1, <1>2, <2>1, <2>3, PlaceTake
  <2>5. p < 7 /\ LetterIs(b[p + 1], c)
    BY <1>5, <2>3, <2>4
  <2>6. ReadSession(s, b, k, p + 1, UpAfter(c, up), MemAfter(c, up, latch, mem), rep)'
    BY <1>2, <1>3, <1>5, <2>1, <2>4, <2>5, ReadTakesCommand
  <2>7. Reads(s, b, k, p + 1, up2, mem2, rep)'
    BY <1>6, <2>1, <2>3, <2>4, <2>6 DEF Reads
  <2>8. QED BY <2>7 DEF Session
<1>9. Session(s, b, k, p + 1, up2, latch, mem2, rep)'
  BY <1>2, <1>7, <1>8 DEF Session
<1>10. Orderly' <=> Orderly
  BY <1>1, SameCleanness
<1>11. up2 \in BOOLEAN /\ mem2 \in [Address -> Byte]
  BY <1>2, <1>6, WroteType DEF UpAfter, MemAfter
<1>12. Completing(up2, latch, mem2, rep, tidy)'
  BY <1>5, <1>6
<1>13. At(s, b, k, p + 1, up2, latch, mem2, rep, tidy)'
  BY <1>9, <1>10, <1>11, <1>12 DEF At, Outcome
<1>14. QED BY <1>13 DEF Holding

LEMMA ExecuteHolds ==
    ASSUME ProgrammerTypeOK, ArgsOK,
           NEW s, NEW b, NEW k, NEW p, NEW up, NEW latch, NEW mem, NEW rep, NEW tidy,
           At(s, b, k, p, up, latch, mem, rep, tidy), Execute
    PROVE  Holding'
<1>1. /\ UNCHANGED <<todo, wire>> /\ steps = <<>> /\ (Errs \/ SetsLatch \/ StartsRead)
      /\ command \in {"d", "l", "h", "r"} /\ Len(args) = ArgumentsOf(command)
  BY ExecuteLeaves
<1>2. /\ IsSession(s) /\ b \in Seq(Byte) /\ up \in BOOLEAN /\ latch \in [Latches -> Byte]
      /\ mem \in [Address -> Byte] /\ rep \in Seq(Byte \cup {NoByte}) /\ tidy \in BOOLEAN
      /\ Session(s, b, k, p, up, latch, mem, rep)
  BY DEF At, Outcome
<1>3. Idle(up, latch, mem, rep, tidy)
  BY <1>1, <1>2, Idles DEF At, ProgrammerTypeOK
<1>4. PICK latch2, rep2 :
        /\ Completing(up, latch2, mem, rep2, tidy)'
        /\ Errs => latch2 = latch /\ rep2 = Append(rep, Code["e"])
        /\ SetsLatch => latch2 = [latch EXCEPT ![LatchOf[command]] = args[1]] /\ rep2 = rep
        /\ StartsRead => latch2 = latch /\ rep2 = Append(rep, Code["r"])
  BY <1>2, <1>3, ExecuteDoes
<1>5. latch2 \in [Latches -> Byte]
  <2>1. CASE SetsLatch
    <3>1. command \in {"d", "l", "h"} /\ NoByte \notin Range(args)
      BY <2>1 DEF SetsLatch
    <3>2. Len(args) = 1
      BY <1>1, <3>1 DEF ArgumentsOf
    <3>3. PICK byte \in Byte, l \in Latches : byte = args[1] /\ l = LatchOf[command]
      BY <3>1, <3>2, ArgsTaken, LetterLatch
    <3>4. latch2 = [latch EXCEPT ![l] = byte]
      BY <1>4, <2>1, <3>3
    <3>5. QED BY <1>2, <3>4
  <2>2. CASE Errs \/ StartsRead
    BY <1>2, <1>4, <2>2
  <2>3. QED BY <1>1, <2>1, <2>2
<1>6. rep2 \in Seq(Byte \cup {NoByte})
  <2>1. Code["e"] \in Byte \cup {NoByte} /\ Code["r"] \in Byte \cup {NoByte}
    BY CodesDiffer DEF Letters, Commands
  <2>2. rep2 = rep \/ \E e \in Byte \cup {NoByte} : rep2 = Append(rep, e)
    BY <1>1, <1>4, <2>1
  <2>3. QED BY <1>2, <2>2
<1>7. ASSUME Writes(s, b, k, p, up, latch, mem, rep)
      PROVE  Session(s, b, k, p, up, latch2, mem, rep2)'
  <2>1. IsWriting(s) /\ WriteStream(s, b) /\ StreamPlace(s, b, k, p, WriteAsked(s, k))
    BY <1>7 DEF Writes
  <2>2. PICK f \in -1..Len(s) - 2, o \in 0..6 : WriteSession(s, k, p, f, o, up, latch, mem, rep)
    BY <1>7 DEF Writes
  <2>3. LatchesInto(latch, rep, latch2, rep2)
    BY <1>4 DEF LatchesInto
  <2>4. WriteSession(s, k, p, f, o, up, latch2, mem, rep2)'
    BY <1>2, <2>1, <2>2, <2>3, WriteExecutes
  <2>5. StreamPlace(s, b, k, p, WriteAsked(s, k))'
    BY <1>1, <2>1, PlaceStays
  <2>6. QED BY <2>1, <2>4, <2>5 DEF Writes, Session
<1>8. ASSUME Reads(s, b, k, p, up, mem, rep)
      PROVE  Session(s, b, k, p, up, latch2, mem, rep2)'
  <2>1. /\ IsReading(s) /\ ReadStream(s, b) /\ StreamPlace(s, b, k, p, ReadAsked(k))
        /\ ReadSession(s, b, k, p, up, mem, rep)
    BY <1>8 DEF Reads
  <2>2. p \in 0..7
    BY <2>1, ReadAskedType DEF StreamPlace
  <2>3. StartsRead => rep2 = Append(rep, Code["r"])
    BY <1>4
  <2>4. ReadSession(s, b, k, p, up, mem, rep2)'
    BY <1>2, <2>1, <2>2, <2>3, ReadExecutes
  <2>5. StreamPlace(s, b, k, p, ReadAsked(k))'
    BY <1>1, <2>1, PlaceStays
  <2>6. QED BY <2>1, <2>4, <2>5 DEF Reads, Session
<1>9. Session(s, b, k, p, up, latch2, mem, rep2)'
  BY <1>2, <1>7, <1>8 DEF Session
<1>10. Orderly' <=> Orderly
  BY ExecuteCleans
<1>11. At(s, b, k, p, up, latch2, mem, rep2, tidy)'
  BY <1>4, <1>5, <1>6, <1>9, <1>10 DEF At, Outcome
<1>12. QED BY <1>11 DEF Holding

LEMMA ReadNextHolds ==
    ASSUME ProgrammerTypeOK, ArgsOK,
           NEW s, NEW b, NEW k, NEW p, NEW up, NEW latch, NEW mem, NEW rep, NEW tidy,
           At(s, b, k, p, up, latch, mem, rep, tidy), ReadNext
    PROVE  Holding'
<1>1. /\ UNCHANGED <<todo, wire, args, reported, pins, memory, replies>> /\ steps = <<>>
      /\ Goes \/ Ends
  BY ReadNextLeaves
<1>2. /\ IsSession(s) /\ b \in Seq(Byte) /\ up \in BOOLEAN /\ latch \in [Latches -> Byte]
      /\ mem \in [Address -> Byte] /\ rep \in Seq(Byte \cup {NoByte}) /\ tidy \in BOOLEAN
      /\ Session(s, b, k, p, up, latch, mem, rep)
  BY DEF At, Outcome
<1>3. Idle(up, latch, mem, rep, tidy)
  BY <1>1, <1>2, Idles DEF At, ProgrammerTypeOK
<1>4. PICK got : got = Fetched(up, mem, rep, next)
  OBVIOUS
<1>5. PICK a \in Address : a = next
  BY DEF ProgrammerTypeOK
<1>6. PICK latch2, rep2, tidy2 :
        /\ latch2 = IF Goes THEN Addressed(latch, a) ELSE latch
        /\ rep2 = IF Goes THEN got ELSE rep
        /\ tidy2 \in BOOLEAN /\ (tidy2 <=> IF Goes THEN tidy /\ up ELSE tidy)
  BY <1>2
<1>7. Completing(up, latch2, mem, rep2, tidy2)'
  <2>1. CASE Goes
    <3>1. steps' = Reading(a)
      BY <1>5, <2>1 DEF Goes
    <3>2. Completing(up, Addressed(latch, a), mem, Fetched(up, mem, rep, a), tidy /\ up)'
      BY <1>1, <1>2, <1>3, <3>1, Starts DEF ProgrammerTypeOK
    <3>3. latch2 = Addressed(latch, a) /\ rep2 = Fetched(up, mem, rep, a) /\ tidy2 = (tidy /\ up)
      BY <1>2, <1>4, <1>5, <1>6, <2>1
    <3>4. QED BY <3>2, <3>3
  <2>2. CASE ~Goes
    <3>1. steps' = <<>>
      BY <1>1, <2>2 DEF Ends
    <3>2. Completing(up, latch, mem, rep, tidy)'
      BY <1>1, <1>2, <1>3, <3>1, Starts DEF ProgrammerTypeOK
    <3>3. latch2 = latch /\ rep2 = rep /\ tidy2 = tidy
      BY <1>2, <1>6, <2>2
    <3>4. QED BY <3>2, <3>3
  <2>3. QED BY <2>1, <2>2
<1>8. latch2 \in [Latches -> Byte] /\ rep2 \in Seq(Byte \cup {NoByte})
  <2>1. Low(a) \in Byte /\ High(a) \in Byte
    BY Halves
  <2>2. Addressed(latch, a) \in [Latches -> Byte]
    BY <1>2, <2>1 DEF Addressed
  <2>3. got = Append(rep, IF up THEN mem[a] ELSE NoByte)
    BY <1>4, <1>5 DEF Fetched
  <2>4. (IF up THEN mem[a] ELSE NoByte) \in Byte \cup {NoByte}
    BY <1>2
  <2>5. got \in Seq(Byte \cup {NoByte})
    BY <1>2, <2>3, <2>4
  <2>6. QED BY <1>2, <1>6, <2>2, <2>5
<1>9. ASSUME Writes(s, b, k, p, up, latch, mem, rep)
      PROVE  Session(s, b, k, p, up, latch2, mem, rep2)' /\ (Orderly => up)
  <2>1. IsWriting(s) /\ WriteStream(s, b) /\ StreamPlace(s, b, k, p, WriteAsked(s, k))
    BY <1>9 DEF Writes
  <2>2. PICK f \in -1..Len(s) - 2, o \in 0..6 : WriteSession(s, k, p, f, o, up, latch, mem, rep)
    BY <1>9 DEF Writes
  <2>3. WriteSession(s, k, p, f, o, up, latch2, mem, rep2)' /\ (Orderly => up)
    BY <1>2, <2>2, WriteReadsNext
  <2>4. StreamPlace(s, b, k, p, WriteAsked(s, k))'
    BY <1>1, <2>1, PlaceStays
  <2>5. QED BY <2>1, <2>3, <2>4 DEF Writes, Session
<1>10. ASSUME Reads(s, b, k, p, up, mem, rep)
       PROVE  Session(s, b, k, p, up, latch2, mem, rep2)' /\ up
  <2>1. /\ IsReading(s) /\ ReadStream(s, b) /\ StreamPlace(s, b, k, p, ReadAsked(k))
        /\ ReadSession(s, b, k, p, up, mem, rep)
    BY <1>10 DEF Reads
  <2>2. p \in 0..7
    BY <2>1, ReadAskedType DEF StreamPlace
  <2>3. /\ Goes => ReadSession(s, b, k, p, up, mem, got)'
        /\ Ends => ReadSession(s, b, k, p, up, mem, rep)'
        /\ up
    BY <1>2, <1>4, <2>1, <2>2, ReadReadsNext
  <2>4. ReadSession(s, b, k, p, up, mem, rep2)'
    BY <1>1, <1>6, <2>3
  <2>5. StreamPlace(s, b, k, p, ReadAsked(k))'
    BY <1>1, <2>1, PlaceStays
  <2>6. QED BY <2>1, <2>3, <2>4, <2>5 DEF Reads, Session
<1>11. Session(s, b, k, p, up, latch2, mem, rep2)' /\ (Orderly => up)
  BY <1>2, <1>9, <1>10 DEF Session
<1>12. Orderly' <=> Orderly
  BY <1>1, SameCleanness
<1>13. Orderly' => tidy2
  BY <1>6, <1>11, <1>12 DEF At
<1>14. At(s, b, k, p, up, latch2, mem, rep2, tidy2)'
  BY <1>2, <1>6, <1>7, <1>8, <1>11, <1>13 DEF At, Outcome
<1>15. QED BY <1>14 DEF Holding

LEMMA BeginHolds ==
    ASSUME ProgrammerTypeOK, ArgsOK,
           NEW s, NEW b, NEW k, NEW p, NEW up, NEW latch, NEW mem, NEW rep, NEW tidy,
           At(s, b, k, p, up, latch, mem, rep, tidy), Begin
    PROVE  Holding'
<1>1. /\ todo = <<>> /\ wire = <<>> /\ awaits = 0 /\ command = "none" /\ steps = <<>>
      /\ IsSession(todo') /\ replies' = <<>> /\ answers' = <<>>
      /\ UNCHANGED <<wire, awaits, intended, command, args, steps, next, end, pins, memory,
                     reported, stalled, stalls>>
  BY BeginLeaves
<1>2. /\ IsSession(s) /\ b \in Seq(Byte) /\ up \in BOOLEAN /\ latch \in [Latches -> Byte]
      /\ mem \in [Address -> Byte] /\ rep \in Seq(Byte \cup {NoByte}) /\ tidy \in BOOLEAN
      /\ Session(s, b, k, p, up, latch, mem, rep)
  BY DEF At, Outcome
<1>3. Idle(up, latch, mem, rep, tidy)
  BY <1>1, <1>2, Idles DEF At, ProgrammerTypeOK
<1>4. PICK new : new = <<>> /\ new \in Seq(Byte \cup {NoByte})
  <2>1. <<>> \in Seq(Byte \cup {NoByte})
    OBVIOUS
  <2>2. QED BY <2>1, Zenon
<1>5. Completing(up, latch, mem, new, tidy)'
  BY <1>1, <1>3, <1>4, Answers
<1>6. (Clean' <=> Clean) /\ (Orderly' <=> Orderly)
  BY <1>1, SameCleanness
<1>7. Clean => mem = intended
  BY <1>1, <1>2, AllDone
<1>8. args = <<>>
  BY <1>1 DEF ArgsOK
<1>9. PICK t : t = todo' /\ IsSession(t)
  BY <1>1
<1>10. PICK zero : zero = 0
  OBVIOUS
<1>11. wire' = <<>> /\ awaits' = 0 /\ command' = "none" /\ args' = <<>> /\ todo' = t
       /\ (Clean' => mem = intended') /\ answers' = <<>>
  BY <1>1, <1>6, <1>7, <1>8, <1>9
<1>12. PICK c \in Seq(Byte) : Session(t, c, zero, zero, up, latch, mem, new)'
  BY <1>2, <1>4, <1>9, <1>10, <1>11, NewSession
<1>13. At(t, c, zero, zero, up, latch, mem, new, tidy)'
  BY <1>2, <1>4, <1>5, <1>6, <1>9, <1>12 DEF At, Outcome
<1>14. QED BY <1>13 DEF Holding

-------------------------------------------------------------------------------
(* The types of the next state. *)

LEMMA BytesType ==
    \A r \in Requests : Bytes(r) \in Seq(Byte)
<1> SUFFICES ASSUME NEW r \in Requests PROVE Bytes(r) \in Seq(Byte)
  OBVIOUS
<1>1. \A c \in Letters : Code[c] \in Byte
  BY CodesDiffer
<1>2. r.op \in {"enter", "exit", "write", "read"}
  BY RequestTypes
<1>3. CASE r.op = "enter"
  <2>1. PICK x \in Byte : Bytes(r) = <<x>>
    BY <1>1, <1>3, BytesOf DEF Letters, Commands
  <2>2. QED BY <2>1, OneByte
<1>4. CASE r.op = "exit"
  <2>1. PICK x \in Byte : Bytes(r) = <<x>>
    BY <1>1, <1>4, BytesOf DEF Letters, Commands
  <2>2. QED BY <2>1, OneByte
<1>5. CASE r.op = "write"
  BY <1>5, BytesOf, FrameType
<1>6. CASE r.op = "read"
  <2>1. r.at \in Address /\ r.end \in Address
    BY <1>6, RequestTypes
  <2>2. /\ Low(r.at) \in Byte /\ High(r.at) \in Byte
        /\ Low(r.end) \in Byte /\ High(r.end) \in Byte
    BY <2>1, Halves
  <2>3. Bytes(r) = <<Code["r"], Low(r.at), High(r.at), Low(r.end), High(r.end)>>
    BY <1>6, BytesOf
  <2>4. QED BY <1>1, <2>2, <2>3 DEF Letters, Commands
<1>7. QED BY <1>2, <1>3, <1>4, <1>5, <1>6

LEMMA ArgumentsOfIs ==
    /\ ArgumentsOf("d") = 1 /\ ArgumentsOf("l") = 1 /\ ArgumentsOf("h") = 1
    /\ ArgumentsOf("r") = 4 /\ ArgumentsOf("none") = 0 /\ ArgumentsOf("reading") = 0
    /\ ArgumentsOf("s") = 0 /\ ArgumentsOf("x") = 0 /\ ArgumentsOf("w") = 0
BY DEF ArgumentsOf

LEMMA TakeCommandTyped ==
    ASSUME Typed, TakeCommand
    PROVE  Typed'
<1>1. /\ command = "none" /\ wire # <<>> /\ wire' = Tail(wire) /\ ~stalled'
      /\ UNCHANGED <<todo, awaits, sessions, intended, answers, args, next, end, pins,
                     replies, memory, reported, stalls>>
  BY CommandLeaves
<1>2. command' \in {"none", "d", "l", "h", "r"}
  <2>1. \/ command' = command
        \/ \E c \in Commands : command' = IF ArgumentsOf(c) = 0 THEN "none" ELSE c
    BY DEF TakeCommand
  <2>2. QED BY <1>1, <2>1, ArgumentsOfIs DEF Commands
<1>3. args' = <<>> /\ stalled' \in BOOLEAN
  <2>1. args = <<>>
    BY <1>1 DEF Typed, ArgsOK
  <2>2. stalled' \in BOOLEAN
    BY DEF TakeCommand
  <2>3. QED BY <1>1, <2>1, <2>2
<1>4. ProgrammerTypeOK'
  BY <1>1, <1>2, <1>3 DEF Typed, ProgrammerTypeOK, Commands
<1>5. ArgsOK'
  BY <1>1, <1>2, <1>3, ArgumentsOfIs DEF ArgsOK
<1>6. QED BY <1>4, <1>5 DEF Typed

LEMMA TakeArgumentTyped ==
    ASSUME Typed, TakeArgument
    PROVE  Typed'
<1>1. /\ wire # <<>> /\ wire' = Tail(wire) /\ args' = Append(args, Head(wire)) /\ ~stalled'
      /\ stalled' \in BOOLEAN /\ TakesArguments
      /\ UNCHANGED <<todo, awaits, sessions, intended, answers, command, steps, next, end, pins,
                     replies, memory, reported, stalls>>
  BY DEF TakeArgument
<1>2. /\ command \in {"d", "l", "h", "r"} /\ Len(args) < ArgumentsOf(command)
  BY <1>1, ArgumentsOfIs DEF Typed, ProgrammerTypeOK, ArgsOK, TakesArguments, Complete, Commands
<1>3. Head(wire) \in Byte
  BY <1>1 DEF Typed, ProgrammerTypeOK
<1>4. /\ args' \in Seq(Byte \cup {NoByte}) /\ Len(args') = Len(args) + 1
  BY <1>1, <1>3 DEF Typed, ProgrammerTypeOK
<1>5. Len(args') <= 4
  BY <1>2, <1>4, ArgumentsOfIs DEF Typed, ProgrammerTypeOK
<1>6. ProgrammerTypeOK'
  BY <1>1, <1>4, <1>5 DEF Typed, ProgrammerTypeOK
<1>7. ArgsOK'
  BY <1>1, <1>2, <1>4, ArgumentsOfIs DEF Typed, ProgrammerTypeOK, ArgsOK
<1>8. QED BY <1>6, <1>7 DEF Typed

LEMMA GiveUpTyped ==
    ASSUME Typed, GiveUpArgument
    PROVE  Typed'
<1> ProgrammerTypeOK /\ ArgsOK
  BY DEF Typed
<1>1. /\ args' = Append(args, NoByte) /\ stalled' \in BOOLEAN
      /\ UNCHANGED <<todo, wire, awaits, sessions, intended, answers, command, steps, next,
                     end, pins, replies, memory, reported>>
  BY DEF GiveUpArgument, host_vars
<1>2. /\ stalls' \in Nat /\ stalls' <= MaxStalls /\ ArgsOK'
      /\ command \in {"d", "l", "h", "r"}
  BY GivingUpStains
<1>3. args' \in Seq(Byte \cup {NoByte})
  BY <1>1 DEF ProgrammerTypeOK
<1>4. Len(args') <= 4
  BY <1>1, <1>2, ArgumentsOfIs DEF ArgsOK
<1>5. ProgrammerTypeOK'
  BY <1>1, <1>2, <1>3, <1>4, BoundsAssumption DEF ProgrammerTypeOK
<1>6. QED BY <1>2, <1>5 DEF Typed

LEMMA ExecuteTyped ==
    ASSUME Typed, Execute
    PROVE  Typed'
<1> ProgrammerTypeOK /\ ArgsOK
  BY DEF Typed
<1>1. /\ Len(args) = ArgumentsOf(command) /\ args' = <<>>
      /\ UNCHANGED <<todo, wire, awaits, sessions, intended, answers, pins, memory, stalled,
                     stalls>>
      /\ Errs \/ SetsLatch \/ StartsRead
  BY ExecuteLeaves
<1>2. ArgsOK'
  BY ExecuteCleans
<1>3. Code["e"] \in Byte /\ Code["r"] \in Byte
  BY CodesDiffer DEF Letters, Commands
<1>4. /\ replies' \in Seq(Byte \cup {NoByte}) /\ reported' \in BOOLEAN
      /\ command' \in {"none", "reading"} /\ next' \in Address /\ end' \in Address
  <2>1. CASE Errs
    BY <1>3, <2>1 DEF Errs, ProgrammerTypeOK
  <2>2. CASE SetsLatch
    BY <2>2 DEF SetsLatch, ProgrammerTypeOK
  <2>3. CASE StartsRead
    <3>1. command = "r" /\ NoByte \notin Range(args) /\ replies' = Append(replies, Code["r"])
          /\ reported' = reported /\ command' = "reading"
          /\ next' = Word(args[1], args[2]) /\ end' = Word(args[3], args[4])
      BY <2>3 DEF StartsRead
    <3>2. /\ args[1] \in Byte /\ args[2] \in Byte /\ args[3] \in Byte /\ args[4] \in Byte
      BY <1>1, <3>1, ArgumentsOfIs, ArgsTaken
    <3>3. next' \in Address /\ end' \in Address
      BY <3>1, <3>2, WordAddress
    <3>4. QED BY <1>3, <3>1, <3>3 DEF ProgrammerTypeOK
  <2>4. QED BY <1>1, <2>1, <2>2, <2>3
<1>5. ProgrammerTypeOK'
  BY <1>1, <1>4 DEF ProgrammerTypeOK
<1>6. QED BY <1>2, <1>5 DEF Typed

LEMMA ReadNextTyped ==
    ASSUME Typed, ReadNext
    PROVE  Typed'
<1>1. /\ command = "reading"
      /\ UNCHANGED <<todo, wire, awaits, sessions, intended, answers, args, end, pins, replies,
                     memory, reported, stalled, stalls>>
      /\ Goes \/ Ends
  BY ReadNextLeaves
<1>2. next' \in Address /\ command' \in {"none", "reading"}
  <2>1. (next + 1) % MemorySize \in Address
    BY Wraps DEF Typed, ProgrammerTypeOK, Address
  <2>2. QED BY <1>1, <2>1 DEF Goes, Ends, Typed, ProgrammerTypeOK
<1>3. ProgrammerTypeOK'
  BY <1>1, <1>2 DEF Typed, ProgrammerTypeOK
<1>4. ArgsOK'
  BY <1>1, <1>2, ArgumentsOfIs DEF Typed, ArgsOK
<1>5. QED BY <1>3, <1>4 DEF Typed

LEMMA StepTyped ==
    ASSUME Typed, Holding, Step
    PROVE  Typed'
<1>1. PICK s, b, k, p, up, latch, mem, rep, tidy : At(s, b, k, p, up, latch, mem, rep, tidy)
  BY DEF Holding
<1>2. pins' \in Pins /\ (memory' = memory \/ memory' = MemoryWritten)
  BY <1>1, StepCompletes DEF At, Outcome, Typed, ProgrammerTypeOK
<1>3. memory' \in [Address -> Byte]
  <2>1. pins.latch["data"] \in Byte
    BY DEF Typed, ProgrammerTypeOK, Pins, Latches
  <2>2. QED BY <1>2, <2>1 DEF MemoryWritten, Typed, ProgrammerTypeOK
<1>4. replies' \in Seq(Byte \cup {NoByte})
  <2>1. Selected \in Address
    BY SelectedAddress DEF Typed, ProgrammerTypeOK
  <2>2. (IF MemoryDrives THEN memory[Selected] ELSE NoByte) \in Byte \cup {NoByte}
    BY <2>1 DEF Typed, ProgrammerTypeOK
  <2>3. PICK v \in Byte \cup {NoByte} : v = IF MemoryDrives THEN memory[Selected] ELSE NoByte
    BY <2>2
  <2>4. replies' = replies \/ replies' = Append(replies, v)
    BY <2>3 DEF Step, Answer
  <2>5. replies \in Seq(Byte \cup {NoByte})
    BY DEF Typed, ProgrammerTypeOK
  <2>6. QED BY <2>3, <2>4, <2>5
<1>5. UNCHANGED <<todo, wire, awaits, sessions, intended, answers, command, args, next, end,
                  reported, stalled, stalls>>
  BY DEF Step, host_vars
<1>6. ProgrammerTypeOK'
  BY <1>2, <1>3, <1>4, <1>5 DEF Typed, ProgrammerTypeOK
<1>7. ArgsOK'
  BY <1>5 DEF Typed, ArgsOK
<1>8. QED BY <1>6, <1>7 DEF Typed

LEMMA BeginTyped ==
    ASSUME Typed, Begin
    PROVE  Typed'
<1>1. /\ replies' = <<>> /\ answers' = <<>> /\ sessions' = sessions + 1 /\ sessions < MaxSessions
      /\ UNCHANGED <<wire, awaits, intended, command, args, steps, next, end, pins, memory,
                     reported, stalled, stalls>>
  BY BeginLeaves
<1>2. ProgrammerTypeOK'
  BY <1>1, BoundsAssumption DEF Typed, ProgrammerTypeOK
<1>3. ArgsOK'
  BY <1>1 DEF Typed, ArgsOK
<1>4. QED BY <1>2, <1>3 DEF Typed

LEMMA HearTyped ==
    ASSUME Typed, Hear \/ UNCHANGED programmer_vars
    PROVE  Typed'
<1>1. /\ awaits' = awaits \/ awaits' = 0
      /\ UNCHANGED <<todo, wire, sessions, intended, answers, command, args, steps, next, end,
                     pins, replies, memory, reported, stalled, stalls>>
  BY DEF Hear, pico_vars, host_vars, programmer_vars
<1>2. ProgrammerTypeOK'
  BY <1>1 DEF Typed, ProgrammerTypeOK
<1>3. ArgsOK'
  BY <1>1 DEF Typed, ArgsOK
<1>4. QED BY <1>2, <1>3 DEF Typed

LEMMA AskTyped ==
    ASSUME Typed, Holding, Ask
    PROVE  Typed'
<1>1. PICK s, b, k, p, up, latch, mem, rep, tidy : At(s, b, k, p, up, latch, mem, rep, tidy)
  BY DEF Holding
<1>2. /\ IsSession(s) /\ b \in Seq(Byte) /\ up \in BOOLEAN
      /\ Session(s, b, k, p, up, latch, mem, rep)
  BY <1>1 DEF At, Outcome
<1>3. /\ k \in 0..Len(s) /\ todo = Window(s, k, Len(s))
      /\ IsWriting(s) \/ Reads(s, b, k, p, up, mem, rep)
  BY <1>2 DEF Session, Writes, Reads, StreamPlace
<1>4. /\ k < Len(s) /\ s[k + 1] \in Requests
      /\ wire' = wire \o Bytes(s[k + 1])
      /\ intended' = IF s[k + 1].op = "write"
                     THEN [intended EXCEPT ![s[k + 1].at] = s[k + 1].byte] ELSE intended
      /\ s[k + 1].op # "read" => UNCHANGED <<answers, awaits>>
      /\ UNCHANGED <<sessions, pico_vars, stalled, stalls>>
  BY <1>2, <1>3, AskLeaves
<1>5. wire' \in Seq(Byte)
  <2>1. Bytes(s[k + 1]) \in Seq(Byte)
    BY <1>4, BytesType
  <2>2. QED BY <1>4, <2>1 DEF Typed, ProgrammerTypeOK
<1>6. intended' \in [Address -> Byte]
  BY <1>4, RequestTypes DEF Typed, ProgrammerTypeOK
<1>7. answers' \in Seq(Byte) /\ awaits' \in Nat
  <2>1. CASE s[k + 1].op # "read"
    BY <1>4, <2>1 DEF Typed, ProgrammerTypeOK
  <2>2. CASE s[k + 1].op = "read"
    <3>1. Len(s) \in Nat /\ Len(s) >= 2 /\ s[1].op = "enter" /\ s[Len(s)].op = "exit"
      BY <1>2, SessionShape
    <3>2. k # 0 /\ k + 1 # Len(s)
      BY <2>2, <3>1
    <3>3. Reads(s, b, k, p, up, mem, rep)
      <4>1. ASSUME IsWriting(s) PROVE FALSE
        <5>1. k + 1 \in 2..Len(s) - 1
          BY <1>3, <1>4, <3>1, <3>2
        <5>2. QED BY <2>2, <4>1, <5>1 DEF IsWriting
      <4>2. QED BY <1>3, <4>1
    <3>4. IsReading(s) /\ ReadStream(s, b)
      BY <3>3 DEF Reads
    <3>5. k = 1
      BY <1>3, <1>4, <3>1, <3>2, <3>4 DEF IsReading
    <3>6. /\ s[2].at \in Address /\ s[2].end \in Address /\ s[2].at <= s[2].end
      BY <1>2, <3>4, ReadStreamType
    <3>7. answers' = ReadOut(s[2], Size(s[2])) /\ awaits' = s[2].end - s[2].at + 2
      BY <1>2, <3>3, <3>5, ReadAsks DEF Typed
    <3>8. ReadOut(s[2], Size(s[2])) \in Seq(Byte)
      <4>1. PICK r : r = s[2]
        OBVIOUS
      <4>2. QED BY <3>6, <4>1, ReadOutType DEF Typed, ProgrammerTypeOK
    <3>9. awaits' \in Nat
      BY <3>6, <3>7, Wraps
    <3>10. QED BY <3>7, <3>8, <3>9
  <2>3. QED BY <2>1, <2>2
<1>8. ProgrammerTypeOK'
  BY <1>4, <1>5, <1>6, <1>7 DEF Typed, ProgrammerTypeOK, pico_vars
<1>9. ArgsOK'
  BY <1>4 DEF Typed, ArgsOK, pico_vars
<1>10. QED BY <1>8, <1>9 DEF Typed

-------------------------------------------------------------------------------
(* The theorems about the programmer. *)

NothingAsked == <<[op |-> "enter"], [op |-> "exit"]>>

LEMMA InitTyped ==
    ASSUME ProgrammerInit
    PROVE  Typed
<1>1. 0 \in Byte /\ 0 \in Address
  <2>1. 0 \in Byte
    BY ByteSizeAssumption DEF Byte
  <2>2. QED BY <2>1, Wraps DEF Address
<1>2. pins \in Pins
  BY <1>1 DEF ProgrammerInit, InitPins, Pins
<1>3. memory \in [Address -> Byte] /\ intended \in [Address -> Byte]
  BY <1>1 DEF ProgrammerInit
<1>4. ProgrammerTypeOK
  BY <1>1, <1>2, <1>3, BoundsAssumption DEF ProgrammerInit, ProgrammerTypeOK
<1>5. ArgsOK
  BY ArgumentsOfIs DEF ProgrammerInit, ArgsOK
<1>6. QED BY <1>4, <1>5 DEF Typed

LEMMA InitHolding ==
    ASSUME ProgrammerInit
    PROVE  Holding
<1> Typed
  BY InitTyped
<1>1. PICK s : s = NothingAsked
  OBVIOUS
<1>2. /\ Len(s) = 2 /\ s \in Seq(Requests)
      /\ s[1].op = "enter" /\ s[2].op = "exit"
  BY <1>1 DEF NothingAsked, Requests
<1>3. IsSession(s) /\ IsWriting(s)
  BY <1>2 DEF IsSession, IsWriting
<1>4. PICK b \in Seq(Byte) : WriteStream(s, b)
  BY <1>3, BytesOfWrites
<1>5. PICK two, none, up, tidy : two = 2 /\ none = 0 /\ up = FALSE /\ tidy = TRUE
  OBVIOUS
<1>6. WriteAsked(s, two) = two /\ Len(b) = 2
  BY <1>2, <1>4, <1>5 DEF WriteAsked, WriteStream
<1>7. StreamPlace(s, b, two, two, WriteAsked(s, two))
  <2>1. PICK n : n = Len(s) /\ n = two
    BY <1>2, <1>5
  <2>2. n \in Nat /\ n \in 0..Len(s) /\ n \in 0..Len(b) /\ n <= n
    BY <1>2, <1>5, <1>6, <2>1
  <2>3. Window(s, n, n) = <<>>
    <3>1. s \in Seq(Requests)
      BY <1>2
    <3>2. QED BY <2>2, <3>1, WindowType
  <2>4. Window(b, n, n) = <<>>
    BY <1>4, <2>2, WindowType
  <2>5. QED BY <1>2, <1>5, <1>6, <2>1, <2>3, <2>4 DEF StreamPlace, ProgrammerInit
<1>8. UpTo(s, two, two, memory)
  <2>1. memory = intended
    BY DEF ProgrammerInit
  <2>2. \A i \in two..two, a \in Address : ~WriteTo(s, i, a)
    BY <1>2, <1>5 DEF WriteTo
  <2>3. QED BY <2>1, <2>2 DEF UpTo
<1>9. PICK one : one = 1
  OBVIOUS
<1>10. AfterLast(s, none, one) /\ command = "none"
  BY <1>2, <1>5, <1>9 DEF AfterLast, ProgrammerInit
<1>11. Aligned(s, none, one)
  BY <1>10 DEF Aligned
<1>12. WriteSession(s, two, two, none, one, up, pins.latch, memory, replies)
  <2>1. FramePlace(s, two, none, one)
    BY <1>2, <1>5, <1>9 DEF FramePlace
  <2>2. InStep(s, none, one, up)
    BY <1>10, <1>11 DEF InStep
  <2>3. WrittenSoFar(s, two, none, one, up, pins.latch, memory, replies)
    <3>1. UpTo(s, none + 2, two, memory)
      BY <1>5, <1>8
    <3>2. ~(none < Len(s) - 2)
      BY <1>2, <1>5
    <3>3. QED BY <1>10, <1>11, <3>1, <3>2 DEF WrittenSoFar, ProgrammerInit
  <2>4. QED BY <2>1, <2>2, <2>3 DEF WriteSession, ProgrammerInit
<1>13. Session(s, b, two, two, up, pins.latch, memory, replies)
  <2>1. none \in -1..Len(s) - 2 /\ one \in 0..6
    BY <1>2, <1>5, <1>9
  <2>2. QED BY <1>3, <1>4, <1>7, <1>12, <2>1 DEF Writes, Session
<1>14. Outcome(up, pins.latch, memory, replies)
  BY <1>5 DEF Typed, ProgrammerTypeOK, Pins, Outcome
<1>15. Completing(up, pins.latch, memory, replies, tidy)
  <2>1. Idle(up, pins.latch, memory, replies, tidy)
    BY <1>5 DEF Idle, Resting, Bus, DataLatch, ProgrammerInit, InitPins
  <2>2. QED BY <2>1 DEF Completing
<1>16. At(s, b, two, two, up, pins.latch, memory, replies, tidy)
  BY <1>3, <1>4, <1>5, <1>13, <1>14, <1>15 DEF At
<1>17. QED BY <1>16 DEF Holding

LEMMA HoldingNext ==
    ASSUME Typed, Holding, [ProgrammerNext]_programmer_vars
    PROVE  Holding'
<1> ProgrammerTypeOK /\ ArgsOK
  BY DEF Typed
<1>1. PICK s, b, k, p, up, latch, mem, rep, tidy : At(s, b, k, p, up, latch, mem, rep, tidy)
  BY DEF Holding
<1>2. CASE Begin
  BY <1>1, <1>2, BeginHolds
<1>3. CASE Ask
  BY <1>1, <1>3, AskHolds
<1>4. CASE Hear
  BY <1>1, <1>4, HearHolds
<1>5. CASE TakeCommand
  BY <1>1, <1>5, TakeCommandHolds
<1>6. CASE TakeArgument
  BY <1>1, <1>6, TakeArgumentHolds
<1>7. CASE GiveUpArgument
  BY <1>1, <1>7, GiveUpHolds
<1>8. CASE Execute
  BY <1>1, <1>8, ExecuteHolds
<1>9. CASE ReadNext
  BY <1>1, <1>9, ReadNextHolds
<1>10. CASE Step
  BY <1>1, <1>10, StepHolds
<1>11. CASE UNCHANGED programmer_vars
  BY <1>1, <1>11, HearHolds
<1>12. QED BY <1>2, <1>3, <1>4, <1>5, <1>6, <1>7, <1>8, <1>9, <1>10, <1>11 DEF ProgrammerNext, Host, Pico

LEMMA TypedNext ==
    ASSUME Typed, Holding, [ProgrammerNext]_programmer_vars
    PROVE  Typed'
<1>1. CASE Begin
  BY <1>1, BeginTyped
<1>2. CASE Ask
  BY <1>2, AskTyped
<1>3. CASE Hear \/ UNCHANGED programmer_vars
  BY <1>3, HearTyped
<1>4. CASE TakeCommand
  BY <1>4, TakeCommandTyped
<1>5. CASE TakeArgument
  BY <1>5, TakeArgumentTyped
<1>6. CASE GiveUpArgument
  BY <1>6, GiveUpTyped
<1>7. CASE Execute
  BY <1>7, ExecuteTyped
<1>8. CASE ReadNext
  BY <1>8, ReadNextTyped
<1>9. CASE Step
  BY <1>9, StepTyped
<1>10. QED BY <1>1, <1>2, <1>3, <1>4, <1>5, <1>6, <1>7, <1>8, <1>9 DEF ProgrammerNext, Host, Pico

LEMMA InvarianceNext ==
    ASSUME IInv, [ProgrammerNext]_programmer_vars
    PROVE  IInv'
BY TypedNext, HoldingNext DEF IInv

LEMMA InvarianceOfProgrammer == ProgrammerSpec => []IInv
<1>1. ProgrammerInit => IInv
  BY InitTyped, InitHolding DEF IInv
<1>2. IInv /\ [ProgrammerNext]_programmer_vars => IInv'
  BY InvarianceNext
<1>3. QED BY <1>1, <1>2, PTL DEF ProgrammerSpec

\* Whatever bytes come and whenever they come, read_data's addresses stay within
\* 16 bits, the programmer keeps no more than four arguments, and every byte of
\* the memory and of an answer is one, or what a bus in use carries.
THEOREM ProgrammerTypeCorrect == ProgrammerSpec => []ProgrammerTypeOK
<1>1. IInv => ProgrammerTypeOK
  BY DEF IInv, Typed
<1>2. QED BY <1>1, InvarianceOfProgrammer, PTL

LEMMA HoldingSafe ==
    ASSUME IInv
    PROVE  /\ ~(pins.drives /\ pins.buffer)
           /\ ~(pins.data_latch /\ MemoryDrives)
           /\ Orderly /\ (pins.latches \/ pins.data_latch) => pins.standby
<1>1. PICK s, b, k, p, up, latch, mem, rep, tidy : At(s, b, k, p, up, latch, mem, rep, tidy)
  BY DEF IInv, Holding
<1>2. /\ ~(pins.drives /\ pins.buffer)
      /\ ~(pins.data_latch /\ MemoryDrives)
      /\ tidy /\ (pins.latches \/ pins.data_latch) => pins.standby
  BY <1>1, CompletingSafe DEF At, Outcome, IInv, Typed, ProgrammerTypeOK
<1>3. QED BY <1>1, <1>2 DEF At

\* However many bytes come late: the data pins and the data buffer never drive the
\* bus together, nor do the data latch and the memory (read_cycle, write_cycle).
THEOREM NoBusConflict ==
    ProgrammerSpec => [](~(pins.drives /\ pins.buffer) /\ ~(pins.data_latch /\ MemoryDrives))
<1>1. IInv => ~(pins.drives /\ pins.buffer) /\ ~(pins.data_latch /\ MemoryDrives)
  BY HoldingSafe
<1>2. QED BY <1>1, InvarianceOfProgrammer, PTL

\* With one late byte no line has two drivers, the latches and the CPU included.
\* (With two, an x and an r may make a read outside standby, and the cycle leaves
\* the data latch enabled.)
THEOREM OneDriverHolds ==
    ASSUME MaxStalls <= 1
    PROVE  ProgrammerSpec => []OneDriver
<1>1. IInv => OneDriver
  BY HoldingSafe DEF OneDriver, Orderly
<1>2. QED BY <1>1, InvarianceOfProgrammer, PTL

\* However many bytes come late, no line has two drivers until an argument is
\* given up.
THEOREM OneDriverInTime == ProgrammerSpec => [](Clean => OneDriver)
<1>1. IInv => (Clean => OneDriver)
  BY HoldingSafe DEF OneDriver, Orderly
<1>2. QED BY <1>1, InvarianceOfProgrammer, PTL

LEMMA QuietExact ==
    ASSUME IInv
    PROVE  ExactOrReported
<1>1. PICK s, b, k, p, up, latch, mem, rep, tidy : At(s, b, k, p, up, latch, mem, rep, tidy)
  BY DEF IInv, Holding
<1>2. SUFFICES ASSUME Quiet, ~reported
               PROVE  memory = intended /\ replies = answers
  BY DEF ExactOrReported
<1>3. todo = <<>> /\ wire = <<>> /\ command = "none" /\ steps = <<>>
  BY <1>2 DEF Quiet
<1>4. Clean
  <2>1. args = <<>>
    BY <1>3 DEF IInv, Typed, ArgsOK
  <2>2. NoByte \notin Range(args)
    BY <2>1 DEF Range
  <2>3. QED BY <1>2, <2>2 DEF Clean
<1>5. /\ IsSession(s) /\ b \in Seq(Byte) /\ up \in BOOLEAN /\ mem \in [Address -> Byte]
      /\ tidy \in BOOLEAN /\ Session(s, b, k, p, up, latch, mem, rep)
      /\ Completing(up, latch, mem, rep, tidy)
  BY <1>1 DEF At, Outcome
<1>6. mem = intended /\ rep = answers
  BY <1>3, <1>4, <1>5, AllDone DEF IInv, Typed
<1>7. Idle(up, latch, mem, rep, tidy)
  BY <1>3, <1>5, Idles DEF IInv, Typed, ProgrammerTypeOK
<1>8. QED BY <1>6, <1>7 DEF Idle

\* However many bytes come late, and in however many sessions: when the programmer
\* and the host are done and no error was sent, the memory is what the host wrote
\* and it has been answered what was there (programmer_task, read_data).
THEOREM ExactOrReportedHolds == ProgrammerSpec => []ExactOrReported
<1>1. IInv => ExactOrReported
  BY QuietExact
<1>2. QED BY <1>1, InvarianceOfProgrammer, PTL
=============================================================================
