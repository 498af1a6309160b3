SPECIFICATION Spec
CONSTANTS
    Columns = 2
    Rows = 3
    WordCells = 4
    DataSize = 3
    Planes = {"fg", "bg"}
    Deltas <- MCDeltas
    Space = Space
    Chars = {Space, x}
    White = White
    Black = Black
    Colors = {White, Black}
PROPERTY ImplementsTerminal
CONSTRAINT FewMarks
