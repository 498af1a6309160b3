---------------------------- MODULE MCProgrammer ----------------------------
(* Bytes of eight values: each is a letter too, so that whatever comes late is *)
(* taken for a command.                                                        *)
EXTENDS Programmer, TLC

MCCode == "s" :> 0 @@ "x" :> 1 @@ "d" :> 2 @@ "l" :> 3 @@ "h" :> 4 @@ "w" :> 5 @@ "r" :> 6
          @@ "e" :> 7

Write(at, byte) == [op |-> "write", at |-> at, byte |-> byte]
Read(first, last) == [op |-> "read", at |-> first, end |-> last]
Session(requests) == <<[op |-> "enter"]>> \o requests \o <<[op |-> "exit"]>>

MCSessions ==
    {Session(<<Write(low + 8 * high, byte), Write(high + 8 * byte, low)>>) :
        low \in {3, 6}, high \in {1, 6}, byte \in {1}}
    \cup {Session(<<Write(9, 6)>>), Session(<<Read(62, 63)>>), Session(<<Read(9, 14)>>)}
=============================================================================
