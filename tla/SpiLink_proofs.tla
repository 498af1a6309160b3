----------------------------- MODULE SpiLink_proofs -----------------------------
(***************************************************************************)
(* What is proved of SpiLink for blocks of any length, any bytes and any   *)
(* times at which keys, interrupts and resets come: the types, that the    *)
(* interrupt routine stores the key that was announced, and that the       *)
(* cycle-counted routines implement ByteLink.                              *)
(***************************************************************************)
EXTENDS SpiLink, Integers, SequenceTheorems, TLAPS

-------------------------------------------------------------------------------
(* The code.  Each place of the driver is annotated with two numbers: the    *)
(* ticks that the shift register may still need when the instruction there   *)
(* has taken its own, and the bytes that the driver has asked for and not    *)
(* yet read.                                                                 *)

Drivers == Routines \ {"io_irq"}

\* The instructions of spi_receive_block come in three stretches; those of the middle
\* one are repeated.
Rounds == 8 * (BlockBytes - 1)

Turn(i) == (i - 10) % 8

Node(i) ==
    IF i <= 9 THEN i
    ELSE IF i <= 9 + Rounds THEN 10 + Turn(i) ELSE i - Rounds + 8

BlockNodes ==
    <<Work(6), Work(2), Load(Ones, TRUE, 4), Work(5), Work(2), Work(3), Work(4), Work(4), Work(2),
      Op("sei", 1), Load(Zeros, TRUE, 4), Op("read", 4), Op("cli", 1),
      Work(4), Work(1), Work(1), Work(3),
      Work(1), Work(1), Work(1), Work(1), Op("read", 4), Work(4), Rts>>

RoomTable ==
    [boot |-> <<0, 0, 0, 0, 0, 0, 0, 0, 0>>, idle |-> <<13>>,
     start |-> <<8, 4, 2, 0, 0, 0>>, end |-> <<8, 0, 0, 0, 0, 0>>,
     send |-> <<8, 4, 1, 0, 14>>, send_ff |-> <<8, 4, 1, 0, 0, 14>>, send_00 |-> <<8, 4, 1, 0, 14>>,
     get_r1 |-> <<8, 5, 0, 0, 0, 15, 12, 8, 5, 4, 3, 2, 1, 0, 0>>,
     receive |-> <<0, 0, 0, 15, 12, 8, 5, 4, 3, 2, 1, 0, 0>>,
     block |-> <<0, 0, 0, 14, 12, 9, 5, 1, 0, 4, 0, 15, 14, 10, 9, 8, 5, 4, 3, 2, 1, 0, 0, 0>>]

OwedTable ==
    [boot |-> <<0, 0, 0, 0, 0, 0, 0, 0, 0>>, idle |-> <<0>>,
     start |-> <<0, 0, 0, 0, 0, 0>>, end |-> <<0, 0, 0, 0, 0, 0>>,
     send |-> <<0, 0, 0, 0, 0>>, send_ff |-> <<0, 0, 0, 0, 0, 0>>, send_00 |-> <<0, 0, 0, 0, 0>>,
     get_r1 |-> <<0, 0, 0, 0, 0, 1, 1, 1, 1, 1, 1, 1, 1, 1, 0>>,
     receive |-> <<0, 0, 0, 1, 1, 1, 1, 1, 1, 1, 1, 1, 0>>,
     block |-> <<0, 0, 0, 1, 1, 1, 1, 1, 1, 1, 1, 2, 1, 1, 1, 1, 1, 1, 1, 1, 1, 1, 0, 0>>]

Room(r, i) == RoomTable[r][IF r = "block" THEN Node(i) ELSE i]
Owed(r, i) == OwedTable[r][IF r = "block" THEN Node(i) ELSE i]

\* The routines that ask the card for bytes.
Fetchers == {"get_r1", "receive", "block"}

\* What is true of an instruction and the numbers at its place ...
Fits(r, o, room, owed) ==
    /\ o.op \in {"work", "load", "read", "rts", "sei", "cli", "select", "deselect", "wait",
                 "output_mode", "card"}
    /\ o.cycles \in 1..40 /\ room \in 0..15 /\ owed \in 0..2
    /\ o.op \in {"load", "select", "deselect", "output_mode", "wait"} => room = 0
    /\ o.op \notin {"work", "load", "read", "sei", "cli"} => owed = 0
    /\ o.op = "load" => /\ o.byte \in Byte /\ (o.wanted = TRUE \/ o.wanted = FALSE)
                        /\ owed = 1 => o.wanted
    /\ o.op = "read" => owed # 0
    /\ o.op = "read" /\ owed = 1 => room = 0
    /\ owed = 2 => o.op = "read" /\ room = 15 /\ o.cycles = 4
    /\ o.op = "rts" => room <= 14
    /\ o.op = "rts" /\ r \in {"get_r1", "receive"} => room = 0
    /\ o.op = "card" => r = "boot"
    /\ o.op \in {"select", "deselect"} => r \in {"boot", "start", "end"}
    /\ owed # 0 => r \in Fetchers
    /\ o.op = "load" /\ o.wanted => r \in Fetchers

\* ... and of two that follow each other.
Follows(o, room, owed, next, next_room, next_owed) ==
    /\ o.op # "load" => room <= next_room + next.cycles
    /\ o.op = "load" => 19 <= next_room + next.cycles
    /\ next_owed = IF o.op = "load" /\ o.wanted THEN owed + 1
                   ELSE IF o.op = "read" THEN owed - 1 ELSE owed
    /\ next.op = "load" /\ next_owed = 1 => o.op = "sei"

Annotated(r, code, rooms, oweds) ==
    /\ Len(code) > 0
    /\ \A i \in 1..Len(code) :
         /\ Fits(r, code[i], rooms[i], oweds[i])
         /\ code[i].op # "rts" => /\ i < Len(code)
                                  /\ Follows(code[i], rooms[i], oweds[i],
                                             code[i + 1], rooms[i + 1], oweds[i + 1])

\* The bytes that the driver sends by itself.
LEMMA OnesZeros == Ones \in Byte /\ Zeros \in Byte
  BY DEF Ones, Zeros, Byte

\* Each routine in turn, beginning with those that are written out instruction by
\* instruction.
LEMMA CodeBoot == Annotated("boot", Boot, RoomTable.boot, OwedTable.boot)
  BY DEF Boot, RoomTable, OwedTable, Annotated, Fits, Follows, Work, Load, Op, Rts

LEMMA CodeStart == Annotated("start", Start, RoomTable.start, OwedTable.start)
  BY DEF Start, RoomTable, OwedTable, Annotated, Fits, Follows, Work, Load, Op, Rts

LEMMA CodeEnd == Annotated("end", End, RoomTable.end, OwedTable.end)
  BY DEF End, RoomTable, OwedTable, Annotated, Fits, Follows, Work, Load, Op, Rts

LEMMA CodeSend == Annotated("send", Send, RoomTable.send, OwedTable.send)
  BY BytesAssumption DEF Send, RoomTable, OwedTable, Annotated, Fits, Follows, Work, Load, Op, Rts

LEMMA CodeSendFF == Annotated("send_ff", SendFF, RoomTable.send_ff, OwedTable.send_ff)
  BY OnesZeros DEF SendFF, RoomTable, OwedTable, Annotated, Fits, Follows, Work, Load, Op, Rts

LEMMA CodeSend00 == Annotated("send_00", Send00, RoomTable.send_00, OwedTable.send_00)
  BY OnesZeros DEF Send00, RoomTable, OwedTable, Annotated, Fits, Follows, Work, Load, Op, Rts

\* The annotation depends on the instructions only.
LEMMA SameCode ==
    ASSUME NEW r, NEW code, NEW nodes, NEW rooms, NEW oweds, Annotated(r, nodes, rooms, oweds),
           Len(code) = Len(nodes), Len(nodes) \in Nat, \A i \in 1..Len(nodes) : code[i] = nodes[i]
    PROVE  Annotated(r, code, rooms, oweds)
  <1>1. Len(code) > 0
    BY DEF Annotated
  <1>2. ASSUME NEW i \in 1..Len(code)
        PROVE  /\ Fits(r, code[i], rooms[i], oweds[i])
               /\ code[i].op # "rts" =>
                    /\ i < Len(code)
                    /\ Follows(code[i], rooms[i], oweds[i],
                               code[i + 1], rooms[i + 1], oweds[i + 1])
    <2>1. Fits(r, code[i], rooms[i], oweds[i])
      BY DEF Annotated
    <2>2. ASSUME code[i].op # "rts"
          PROVE  /\ i < Len(code)
                 /\ Follows(code[i], rooms[i], oweds[i],
                            code[i + 1], rooms[i + 1], oweds[i + 1])
      <3>1. i < Len(nodes) /\ Follows(nodes[i], rooms[i], oweds[i],
                                      nodes[i + 1], rooms[i + 1], oweds[i + 1])
        BY <2>2 DEF Annotated
      <3>2. code[i + 1] = nodes[i + 1]
        BY <3>1
      <3>. QED  BY <3>1, <3>2
    <2>. QED  BY <2>1, <2>2
  <1>. QED  BY <1>1, <1>2 DEF Annotated

\* spi_receive_byte, called on its own or by get_r1, is checked as the list of
\* instructions it comes to.
LEMMA CodeReceive ==
    Annotated("receive", <<Work(6)>> \o ReceiveByte, RoomTable.receive, OwedTable.receive)
  <1>. DEFINE nodes == <<Work(6), Work(2), Load(Ones, TRUE, 4), Work(4), Work(3), Work(4), Work(3),
                         Work(1), Work(1), Work(1), Work(1), Op("read", 4), Rts>>
              code == <<Work(6)>> \o ReceiveByte
  <1>1. Annotated("receive", nodes, RoomTable.receive, OwedTable.receive)
    BY OnesZeros DEF RoomTable, OwedTable, Annotated, Fits, Fetchers, Follows, Work, Load, Op, Rts
  <1>2. Len(nodes) = 13 /\ Len(code) = 13
    BY DEF ReceiveByte
  <1>3. \A i \in 1..12 : code[i + 1] = ReceiveByte[i]
    BY DEF ReceiveByte
  <1>4. code[1] = nodes[1]
    BY DEF ReceiveByte
  <1>5. /\ ReceiveByte[1] = nodes[2] /\ ReceiveByte[2] = nodes[3]
        /\ ReceiveByte[3] = nodes[4] /\ ReceiveByte[4] = nodes[5]
        /\ ReceiveByte[5] = nodes[6] /\ ReceiveByte[6] = nodes[7]
        /\ ReceiveByte[7] = nodes[8] /\ ReceiveByte[8] = nodes[9]
        /\ ReceiveByte[9] = nodes[10] /\ ReceiveByte[10] = nodes[11]
        /\ ReceiveByte[11] = nodes[12] /\ ReceiveByte[12] = nodes[13]
    BY DEF ReceiveByte
  <1>. HIDE DEF nodes, code
  <1>6. \A i \in 1..13 : code[i] = nodes[i]
    BY <1>3, <1>4, <1>5
  <1>7. /\ Len(code) = Len(nodes) /\ Len(nodes) \in Nat
        /\ \A i \in 1..Len(nodes) : code[i] = nodes[i]
    BY <1>2, <1>6
  <1>8. Annotated("receive", code, RoomTable.receive, OwedTable.receive)
    BY <1>1, <1>7, SameCode, Zenon
  <1>. QED  BY <1>8 DEF code

LEMMA CodeGetR1 ==
    Annotated("get_r1", <<Work(6), Work(3), Work(6)>> \o ReceiveByte, RoomTable.get_r1, OwedTable.get_r1)
  <1>. DEFINE nodes == <<Work(6), Work(3), Work(6), Work(2), Load(Ones, TRUE, 4), Work(4), Work(3),
                         Work(4), Work(3), Work(1), Work(1), Work(1), Work(1), Op("read", 4), Rts>>
              code == <<Work(6), Work(3), Work(6)>> \o ReceiveByte
  <1>1. Annotated("get_r1", nodes, RoomTable.get_r1, OwedTable.get_r1)
    BY OnesZeros DEF RoomTable, OwedTable, Annotated, Fits, Fetchers, Follows, Work, Load, Op, Rts
  <1>2. Len(nodes) = 15 /\ Len(code) = 15
    BY DEF ReceiveByte
  <1>3. \A i \in 1..12 : code[i + 3] = ReceiveByte[i]
    BY DEF ReceiveByte
  <1>4. code[1] = nodes[1] /\ code[2] = nodes[2] /\ code[3] = nodes[3]
    BY DEF ReceiveByte
  <1>5. /\ ReceiveByte[1] = nodes[4] /\ ReceiveByte[2] = nodes[5]
        /\ ReceiveByte[3] = nodes[6] /\ ReceiveByte[4] = nodes[7]
        /\ ReceiveByte[5] = nodes[8] /\ ReceiveByte[6] = nodes[9]
        /\ ReceiveByte[7] = nodes[10] /\ ReceiveByte[8] = nodes[11]
        /\ ReceiveByte[9] = nodes[12] /\ ReceiveByte[10] = nodes[13]
        /\ ReceiveByte[11] = nodes[14] /\ ReceiveByte[12] = nodes[15]
    BY DEF ReceiveByte
  <1>. HIDE DEF nodes, code
  <1>6. \A i \in 1..15 : code[i] = nodes[i]
    BY <1>3, <1>4, <1>5
  <1>7. /\ Len(code) = Len(nodes) /\ Len(nodes) \in Nat
        /\ \A i \in 1..Len(nodes) : code[i] = nodes[i]
    BY <1>2, <1>6
  <1>8. Annotated("get_r1", code, RoomTable.get_r1, OwedTable.get_r1)
    BY <1>1, <1>7, SameCode, Zenon
  <1>. QED  BY <1>8 DEF code

\* The rounds in the middle of a block are whole.
LEMMA RoundsType == Rounds \in Nat /\ Rounds % 8 = 0 /\ (Rounds = 0 \/ Rounds >= 8)
  BY BlockBytesAssumption DEF Rounds

\* The turns of a round come one after the other.
LEMMA Turns ==
    ASSUME NEW i \in Nat, i >= 10
    PROVE  /\ Turn(i) \in 0..7
           /\ i = 10 => Turn(i) = 0
           /\ \A j \in Nat : j = i + 1 => Turn(j) = IF Turn(i) = 7 THEN 0 ELSE Turn(i) + 1
           /\ \A n \in Nat : i = 9 + 8 * n => Turn(i) = 7
  BY DEF Turn

\* Where the nodes of the block are ...
LEMMA NodeIs ==
    ASSUME NEW i \in 1..16 + Rounds
    PROVE  /\ i <= 9 => Node(i) = i
           /\ i > 9 /\ i <= 9 + Rounds => Node(i) = 10 + Turn(i)
           /\ i > 9 + Rounds => Node(i) = i - Rounds + 8
  <1>1. i <= 9 => Node(i) = i
    BY Zenon DEF Node
  <1>2. i > 9 => ~(i <= 9)
    BY RoundsType
  <1>3. i > 9 /\ i <= 9 + Rounds => Node(i) = 10 + Turn(i)
    BY <1>2, Zenon DEF Node
  <1>4. i > 9 + Rounds => ~(i <= 9) /\ ~(i <= 9 + Rounds)
    BY RoundsType
  <1>5. i > 9 + Rounds => Node(i) = i - Rounds + 8
    BY <1>4, Zenon DEF Node
  <1>. QED  BY <1>1, <1>3, <1>5

\* ... and which follows which.
LEMMA BlockPlaces ==
    ASSUME NEW i \in 1..16 + Rounds
    PROVE  /\ Node(i) \in 1..24
           /\ Node(i) = 24 <=> i = 16 + Rounds
           /\ i # 16 + Rounds => \/ Node(i + 1) = Node(i) + 1 /\ Node(i) \notin {9, 17}
                                 \/ Node(i) \in {9, 17} /\ Node(i + 1) \in {10, 18}
  <1>. Rounds \in Nat
    BY RoundsType
  <1>1. CASE i = 16 + Rounds
    BY <1>1, NodeIs
  <1>2. CASE i # 16 + Rounds
    <2>. PICK j \in 1..16 + Rounds : j = i + 1
      BY <1>2
    <2>. SUFFICES /\ Node(i) \in 1..23
                  /\ \/ Node(j) = Node(i) + 1 /\ Node(i) \notin {9, 17}
                     \/ Node(i) \in {9, 17} /\ Node(j) \in {10, 18}
      BY <1>2
    <2>1. CASE i < 9
      BY <2>1, NodeIs
    <2>2. CASE i = 9
      <3>1. Node(i) = 9
        BY <2>2, NodeIs
      <3>2. Turn(j) = 0
        BY <2>2, Turns
      <3>3. Rounds = 0 => Node(j) = 18
        BY <2>2, NodeIs
      <3>4. CASE Rounds >= 8
        <4>1. j > 9 /\ j <= 9 + Rounds
          BY <2>2, <3>4
        <4>2. Node(j) = 10
          BY <4>1, <3>2, NodeIs
        <4>. QED  BY <4>2, <3>1
      <3>5. CASE Rounds = 0
        BY <3>5, <3>1, <3>3
      <3>. QED  BY <3>4, <3>5, RoundsType
    <2>3. CASE i > 9 /\ i < 9 + Rounds
      <3>1. PICK k \in 0..7 : k = Turn(i)
        BY <2>3, Turns
      <3>2. PICK l \in 0..7 : l = Turn(j) /\ (k = 7 => l = 0) /\ (k # 7 => l = k + 1)
        <4>1. Turn(j) = IF Turn(i) = 7 THEN 0 ELSE Turn(i) + 1
          BY <2>3, Turns
        <4>. QED  BY <3>1, <4>1
      <3>3. Node(i) = 10 + k
        BY <2>3, <3>1, NodeIs
      <3>4. Node(j) = 10 + l
        <4>1. j > 9 /\ j <= 9 + Rounds
          BY <2>3
        <4>. QED  BY <4>1, <3>2, NodeIs
      <3>. QED  BY <3>2, <3>3, <3>4
    <2>4. CASE i = 9 + Rounds /\ i > 9
      <3>1. Turn(i) = 7
        <4>1. PICK n \in Nat : n = BlockBytes - 1 /\ Rounds = 8 * n
          BY BlockBytesAssumption DEF Rounds
        <4>. QED  BY <4>1, <2>4, Turns
      <3>2. Node(i) = 17
        BY <2>4, <3>1, NodeIs
      <3>3. Node(j) = 18
        BY <2>4, NodeIs
      <3>. QED  BY <3>2, <3>3
    <2>5. CASE i > 9 + Rounds
      <3>1. PICK k \in 1..6 : k = i - (9 + Rounds)
        BY <2>5, <1>2
      <3>2. Node(i) = k + 17
        BY <2>5, <3>1, NodeIs
      <3>3. Node(j) = k + 18
        BY <2>5, <3>1, NodeIs
      <3>. QED  BY <3>2, <3>3
    <2>. QED  BY <2>1, <2>2, <2>3, <2>4, <2>5
  <1>. QED  BY <1>1, <1>2

\* The instructions of a block are those of the nodes, whatever its length.
LEMMA BlockCode ==
    /\ Len(ReceiveBlock) = 16 + Rounds
    /\ \A i \in 1..16 + Rounds : ReceiveBlock[i] = BlockNodes[Node(i)]
  <1>. DEFINE first == <<Work(6), Work(2), Load(Ones, TRUE, 4), Work(5), Work(2), Work(3),
                   Work(4), Work(4), Work(2)>>
              rounds == [i \in 1..8 * (BlockBytes - 1) |-> BlockStep[((i - 1) % 8) + 1]]
              last == <<Work(1), Work(1), Work(1), Work(1), Op("read", 4), Work(4), Rts>>
  <1>1. ReceiveBlock = first \o rounds \o last
    BY DEF ReceiveBlock
  <1>2. Len(first) = 9 /\ Len(last) = 7 /\ Len(rounds) = Rounds
    BY RoundsType DEF Rounds
  <1>3. /\ first[1] = BlockNodes[1] /\ first[2] = BlockNodes[2] /\ first[3] = BlockNodes[3]
        /\ first[4] = BlockNodes[4] /\ first[5] = BlockNodes[5] /\ first[6] = BlockNodes[6]
        /\ first[7] = BlockNodes[7] /\ first[8] = BlockNodes[8] /\ first[9] = BlockNodes[9]
    BY DEF BlockNodes
  <1>4. /\ last[1] = BlockNodes[18] /\ last[2] = BlockNodes[19] /\ last[3] = BlockNodes[20]
        /\ last[4] = BlockNodes[21] /\ last[5] = BlockNodes[22] /\ last[6] = BlockNodes[23]
        /\ last[7] = BlockNodes[24]
    BY DEF BlockNodes
  <1>5. /\ BlockStep[1] = BlockNodes[10] /\ BlockStep[2] = BlockNodes[11]
        /\ BlockStep[3] = BlockNodes[12] /\ BlockStep[4] = BlockNodes[13]
        /\ BlockStep[5] = BlockNodes[14] /\ BlockStep[6] = BlockNodes[15]
        /\ BlockStep[7] = BlockNodes[16] /\ BlockStep[8] = BlockNodes[17]
    BY DEF BlockNodes, BlockStep
  <1>6. \A i \in 1..Rounds : rounds[i] = BlockStep[((i - 1) % 8) + 1]
    BY RoundsType DEF Rounds
  <1>. DEFINE nodes == {BlockNodes[k] : k \in 1..24}
  <1>7. first \in Seq(nodes)
    <2>. HIDE DEF nodes
    <2>1. \A k \in 1..9 : BlockNodes[k] \in nodes
      BY DEF nodes
    <2>2. /\ first[1] \in nodes /\ first[2] \in nodes /\ first[3] \in nodes
          /\ first[4] \in nodes /\ first[5] \in nodes /\ first[6] \in nodes
          /\ first[7] \in nodes /\ first[8] \in nodes /\ first[9] \in nodes
      <3>. HIDE DEF first
      <3>. QED  BY <1>3, <2>1
    <2>3. <<first[1], first[2], first[3], first[4], first[5], first[6], first[7], first[8],
            first[9]>> \in Seq(nodes)
      <3>. HIDE DEF first
      <3>. QED  BY <2>2
    <2>. QED  BY <2>3
  <1>8. last \in Seq(nodes)
    <2>. HIDE DEF nodes
    <2>1. \A k \in 1..7 : last[k] \in nodes
      <3>. HIDE DEF last
      <3>. QED  BY <1>4 DEF nodes
    <2>. QED  BY <2>1
  <1>9. rounds \in Seq(nodes)
    <2>1. \A k \in 1..8 : BlockStep[k] \in nodes
      BY <1>5
    <2>2. \A k \in 1..Rounds : ((k - 1) % 8) + 1 \in 1..8
      BY RoundsType
    <2>3. rounds = [i \in 1..Rounds |-> BlockStep[((i - 1) % 8) + 1]]
      BY DEF Rounds
    <2>. HIDE DEF nodes, rounds
    <2>. QED  BY <2>1, <2>2, <2>3, RoundsType
  <1>. HIDE DEF first, rounds, last, nodes
  <1>. DEFINE start == first \o rounds
  <1>10. start \in Seq(nodes)
    BY <1>7, <1>9
  <1>11. /\ Len(start) = 9 + Rounds
         /\ \A i \in 1..9 : start[i] = first[i]
         /\ \A i \in 1..Rounds : start[9 + i] = rounds[i]
    <2>1. /\ Len(start) = Len(first) + Len(rounds)
          /\ \A i \in 1..Len(first) + Len(rounds) :
               start[i] = IF i <= Len(first) THEN first[i] ELSE rounds[i - Len(first)]
      BY <1>7, <1>9, ConcatProperties, Zenon
    <2>. HIDE DEF start
    <2>. QED  BY <2>1, <1>2, RoundsType
  <1>. HIDE DEF start
  <1>12. /\ Len(ReceiveBlock) = 16 + Rounds
         /\ \A i \in 1..9 + Rounds : ReceiveBlock[i] = start[i]
         /\ \A i \in 1..7 : ReceiveBlock[9 + Rounds + i] = last[i]
    <2>1. ReceiveBlock = start \o last
      BY <1>1 DEF start
    <2>2. /\ Len(ReceiveBlock) = 9 + Rounds + 7
          /\ \A i \in 1..9 + Rounds : ReceiveBlock[i] = start[i]
          /\ \A i \in 1..7 : ReceiveBlock[9 + Rounds + i] = last[i]
      <3>1. /\ Len(ReceiveBlock) = Len(start) + Len(last)
            /\ \A i \in 1..Len(start) + Len(last) :
                 ReceiveBlock[i] = IF i <= Len(start) THEN start[i] ELSE last[i - Len(start)]
        BY <2>1, <1>8, <1>10, ConcatProperties, Zenon
      <3>2. PICK n \in Nat : n = Rounds
        BY RoundsType
      <3>3. Len(start) = 9 + n /\ Len(last) = 7
        BY <1>2, <1>11, <3>2
      <3>4. Len(ReceiveBlock) = 9 + n + 7
        BY <3>1, <3>3
      <3>5. ASSUME NEW i \in 1..9 + n PROVE ReceiveBlock[i] = start[i]
        BY <3>1, <3>3
      <3>6. ASSUME NEW i \in 1..7 PROVE ReceiveBlock[9 + n + i] = last[i]
        <4>1. PICK j \in 1..9 + n + 7 : j = 9 + n + i
          OBVIOUS
        <4>2. ~(j <= 9 + n) /\ j - (9 + n) = i
          BY <4>1
        <4>3. ReceiveBlock[j] = IF j <= 9 + n THEN start[j] ELSE last[j - (9 + n)]
          BY <3>1, <3>3
        <4>. QED  BY <4>1, <4>2, <4>3
      <3>. QED  BY <3>2, <3>4, <3>5, <3>6
    <2>. QED  BY <2>2, RoundsType
  <1>13. ASSUME NEW i \in 1..16 + Rounds
         PROVE  ReceiveBlock[i] = BlockNodes[Node(i)]
    <2>1. CASE i <= 9
      <3>1. ReceiveBlock[i] = first[i]
        BY <2>1, <1>11, <1>12, RoundsType
      <3>. QED  BY <3>1, <2>1, <1>3, NodeIs
    <2>2. CASE i > 9 /\ i <= 9 + Rounds
      <3>1. PICK j \in 1..Rounds : i = 9 + j
        BY <2>2, RoundsType
      <3>2. ReceiveBlock[i] = rounds[j]
        BY <2>2, <3>1, <1>11, <1>12, RoundsType
      <3>3. rounds[j] = BlockStep[Turn(i) + 1]
        <4>1. (j - 1) % 8 = Turn(i)
          BY <3>1 DEF Turn
        <4>. QED  BY <4>1, <1>6
      <3>4. PICK k \in 0..7 : k = Turn(i)
        BY <2>2, Turns, RoundsType
      <3>5. BlockStep[k + 1] = BlockNodes[k + 10]
        BY <1>5
      <3>6. Node(i) = k + 10
        BY <3>4, <2>2, NodeIs
      <3>. QED  BY <3>2, <3>3, <3>4, <3>5, <3>6
    <2>3. CASE i > 9 + Rounds
      <3>1. PICK k \in 1..7 : i = 9 + Rounds + k
        BY <2>3, RoundsType
      <3>2. ReceiveBlock[i] = last[k]
        BY <3>1, <1>12
      <3>3. last[k] = BlockNodes[k + 17]
        BY <1>4
      <3>4. Node(i) = k + 17
        BY <2>3, <3>1, NodeIs, RoundsType
      <3>. QED  BY <3>2, <3>3, <3>4
    <2>. QED  BY <2>1, <2>2, <2>3, RoundsType
  <1>. QED  BY <1>12, <1>13

\* The annotation of the nodes.
LEMMA BlockFits ==
    \A k \in 1..24 : Fits("block", BlockNodes[k], RoomTable.block[k], OwedTable.block[k])
  BY OnesZeros, SMTT(40)
     DEF BlockNodes, RoomTable, OwedTable, Fits, Fetchers, Work, Load, Op, Rts

LEMMA BlockFollows ==
    /\ \A k \in 1..23 :
         Follows(BlockNodes[k], RoomTable.block[k], OwedTable.block[k],
                 BlockNodes[k + 1], RoomTable.block[k + 1], OwedTable.block[k + 1])
    /\ \A k \in {9, 17}, l \in {10, 18} :
         Follows(BlockNodes[k], RoomTable.block[k], OwedTable.block[k],
                 BlockNodes[l], RoomTable.block[l], OwedTable.block[l])
  BY SMTT(40) DEF BlockNodes, RoomTable, OwedTable, Follows, Work, Load, Op, Rts

\* The routines by name.
LEMMA RoutinesAre ==
    /\ Routines = {"boot", "idle", "start", "end", "send", "send_ff", "send_00", "get_r1",
                   "receive", "block", "io_irq"}
    /\ Drivers = {"boot", "idle", "start", "end", "send", "send_ff", "send_00", "get_r1",
                  "receive", "block"}
  BY DEF Routines, Drivers, Code

\* Every place of the driver is annotated rightly.
PlaceFits(r, i) == Fits(r, Code[r][i], Room(r, i), Owed(r, i))
PlaceFollows(r, i) ==
    Follows(Code[r][i], Room(r, i), Owed(r, i), Code[r][i + 1], Room(r, i + 1), Owed(r, i + 1))

LEMMA Places ==
    ASSUME NEW r \in Drivers
    PROVE  /\ Len(Code[r]) \in Nat \ {0}
           /\ \A i \in 1..Len(Code[r]) :
                /\ PlaceFits(r, i)
                /\ Code[r][i].op # "rts" => i < Len(Code[r]) /\ PlaceFollows(r, i)
  <1>1. CASE r = "block"
    <2>1. Code[r] = ReceiveBlock
      BY <1>1 DEF Code
    <2>2. Len(Code[r]) = 16 + Rounds /\ Len(Code[r]) \in Nat \ {0}
      BY <2>1, BlockCode, RoundsType
    <2>3. ASSUME NEW i \in 1..Len(Code[r])
          PROVE  PlaceFits(r, i)
      BY <1>1, <2>1, <2>2, <2>3, BlockCode, BlockPlaces, BlockFits DEF PlaceFits, Room, Owed
    <2>4. ASSUME NEW i \in 1..Len(Code[r]), Code[r][i].op # "rts"
          PROVE  i < Len(Code[r]) /\ PlaceFollows(r, i)
      <3>1. Code[r][i] = BlockNodes[Node(i)]
        BY <2>1, <2>2, <2>4, BlockCode
      <3>2. Node(i) # 24
        <4>1. BlockNodes[24].op = "rts"
          BY DEF BlockNodes, Rts, Op
        <4>. QED  BY <3>1, <2>4, <4>1
      <3>3. i # 16 + Rounds
        BY <2>2, <3>2, BlockPlaces
      <3>4. i < Len(Code[r]) /\ i + 1 \in 1..16 + Rounds
        BY <2>2, <3>3, RoundsType
      <3>5. Code[r][i + 1] = BlockNodes[Node(i + 1)]
        BY <2>1, <3>4, BlockCode
      <3>6. Follows(BlockNodes[Node(i)], RoomTable.block[Node(i)], OwedTable.block[Node(i)],
                    BlockNodes[Node(i + 1)], RoomTable.block[Node(i + 1)],
                    OwedTable.block[Node(i + 1)])
        <4>1. CASE Node(i + 1) = Node(i) + 1
          <5>1. Node(i) \in 1..23
            BY <2>2, <3>2, BlockPlaces
          <5>. QED  BY <4>1, <5>1, BlockFollows
        <4>2. CASE Node(i) \in {9, 17} /\ Node(i + 1) \in {10, 18}
          BY <4>2, BlockFollows
        <4>. QED  BY <2>2, <3>3, <4>1, <4>2, BlockPlaces
      <3>. QED  BY <1>1, <3>1, <3>4, <3>5, <3>6 DEF PlaceFollows, Room, Owed
    <2>. QED  BY <2>2, <2>3, <2>4
  <1>2. CASE r # "block"
    <2>1. Annotated(r, Code[r], RoomTable[r], OwedTable[r])
      <3>1. r \in {"boot", "idle", "start", "end", "send", "send_ff", "send_00", "get_r1",
                   "receive"}
        BY <1>2, RoutinesAre
      <3>2. Annotated("idle", Code.idle, RoomTable.idle, OwedTable.idle)
        BY DEF Code, RoomTable, OwedTable, Annotated, Fits, Follows, Op
      <3>3. /\ Code.boot = Boot /\ Code.start = Start /\ Code.end = End
            /\ Code.send = Send /\ Code.send_ff = SendFF /\ Code.send_00 = Send00
            /\ Code.get_r1 = <<Work(6), Work(3), Work(6)>> \o ReceiveByte
            /\ Code.receive = <<Work(6)>> \o ReceiveByte
        BY DEF Code
      <3>. QED  BY <3>1, <3>2, <3>3, CodeBoot, CodeStart, CodeEnd, CodeSend, CodeSendFF,
                   CodeSend00, CodeGetR1, CodeReceive
    <2>. QED  BY <1>2, <2>1 DEF Annotated, PlaceFits, PlaceFollows, Room, Owed
  <1>. QED  BY <1>1, <1>2

\* Where the driver enters a routine.
LEMMA Entries ==
    ASSUME NEW r \in Drivers
    PROVE  /\ Owed(r, 1) = 0 /\ Code[r][1].op # "load" /\ 1 \in 1..Len(Code[r])
           /\ r \notin {"receive", "block"} => 14 <= Room(r, 1) + Code[r][1].cycles
           /\ r = "boot" => 19 <= Room(r, 1) + Code[r][1].cycles
  <1>. 1 \in 1..Len(Code[r])
    BY Places
  <1>1. CASE r \in {"boot", "idle", "start", "end", "send", "send_ff", "send_00"}
    <2>1. /\ Code.boot[1] = Work(19) /\ Code.idle[1] = Op("rts", 1) /\ Code.start[1] = Work(6)
          /\ Code.end[1] = Work(6) /\ Code.send[1] = Work(6) /\ Code.send_ff[1] = Work(6)
          /\ Code.send_00[1] = Work(6)
      BY DEF Code, Boot, Start, End, Send, SendFF, Send00
    <2>2. /\ Room("boot", 1) = 0 /\ Room("idle", 1) = 13 /\ Room("start", 1) = 8
          /\ Room("end", 1) = 8 /\ Room("send", 1) = 8 /\ Room("send_ff", 1) = 8
          /\ Room("send_00", 1) = 8
      BY DEF Room, RoomTable
    <2>3. /\ Owed("boot", 1) = 0 /\ Owed("idle", 1) = 0 /\ Owed("start", 1) = 0
          /\ Owed("end", 1) = 0 /\ Owed("send", 1) = 0 /\ Owed("send_ff", 1) = 0
          /\ Owed("send_00", 1) = 0
      BY DEF Owed, OwedTable
    <2>. QED  BY <1>1, <2>1, <2>2, <2>3 DEF Work, Op
  <1>2. CASE r \in {"get_r1", "receive"}
    <2>1. (<<Work(6), Work(3), Work(6)>> \o ReceiveByte)[1] = Work(6)
      BY DEF ReceiveByte
    <2>2. (<<Work(6)>> \o ReceiveByte)[1] = Work(6)
      BY DEF ReceiveByte
    <2>3. Code[r][1] = Work(6)
      BY <1>2, <2>1, <2>2 DEF Code
    <2>4. /\ Room("get_r1", 1) = 8 /\ Owed("get_r1", 1) = 0
          /\ Room("receive", 1) = 0 /\ Owed("receive", 1) = 0
      BY DEF Room, RoomTable, Owed, OwedTable
    <2>. QED  BY <1>2, <2>3, <2>4 DEF Work, Op
  <1>3. CASE r = "block"
    <2>1. Node(1) = 1
      BY NodeIs, RoundsType
    <2>2. Code[r][1] = BlockNodes[1]
      BY <1>3, <2>1, BlockCode, RoundsType DEF Code
    <2>3. BlockNodes[1].op = "work"
      BY DEF BlockNodes, Work, Op
    <2>4. Owed(r, 1) = 0
      <3>1. Owed(r, 1) = OwedTable.block[Node(1)]
        BY <1>3, Zenon DEF Owed
      <3>2. OwedTable.block[1] = 0
        BY DEF OwedTable
      <3>. QED  BY <2>1, <3>1, <3>2
    <2>. QED  BY <1>3, <2>2, <2>3, <2>4
  <1>. QED  BY <1>1, <1>2, <1>3, RoutinesAre

\* In start only the second instruction turns port B.
LEMMA BootCode ==
    /\ Len(Code.boot) = 9
    /\ Code.boot[1].op = "work" /\ Code.boot[2].op = "card"
    /\ \A i \in 3..9 : Code.boot[i].op # "card"
  BY DEF Code, Boot, Work, Op, Rts

\* The interrupt routine.
LEMMA IoIrqCode ==
    /\ Len(Code.io_irq) = 14
    /\ \A i \in {1, 3, 5, 7, 9, 11, 13} : Code.io_irq[i].op = "work"
    /\ Code.io_irq[2].op = "clear" /\ Code.io_irq[2].flags = {"CA1"}
    /\ Code.io_irq[4].op = "read_ora" /\ Code.io_irq[6].op = "keyboard"
    /\ Code.io_irq[8].op = "key" /\ Code.io_irq[10].op = "card"
    /\ Code.io_irq[12].op = "store" /\ Code.io_irq[14].op = "rti"
    /\ \A i \in 1..14 : Code.io_irq[i].cycles \in 1..100
  BY DEF Code, IoIrq, Work, Clear, Op

\* Every instruction takes some ticks.
LEMMA CyclesTyped ==
    ASSUME NEW r \in Routines, NEW i \in 1..Len(Code[r])
    PROVE  Code[r][i].cycles \in 1..100
  <1>1. CASE r = "io_irq"
    BY <1>1, IoIrqCode
  <1>2. CASE r # "io_irq"
    <2>1. PlaceFits(r, i)
      BY <1>2, Places DEF Drivers
    <2>2. Code[r][i].cycles \in 1..40
      BY <2>1, Zenon DEF PlaceFits, Fits
    <2>. QED  BY <2>2
  <1>. QED  BY <1>1, <1>2

-------------------------------------------------------------------------------
(* The inductive invariant.                                                   *)

\* Where the driver is: interrupted or not.
Here == IF routine = "io_irq" THEN suspended ELSE <<routine, at>>
HereRoom == Room(Here[1], Here[2])
HereOwed == Owed(Here[1], Here[2])

\* The ticks of its instruction to come, without those of the interrupt routine.
Ahead == IF routine = "io_irq" THEN Code[Here[1]][Here[2]].cycles ELSE cycles

\* No interrupt may come here.
Closed(r, i) == Owed(r, i) # 0 /\ (Owed(r, i) = 2 \/ Code[r][i].op = "load")

Whereabouts ==
    /\ routine \in Routines /\ at \in 1..Len(Code[routine])
    /\ Here[1] \in Drivers /\ Here[2] \in 1..Len(Code[Here[1]]) /\ Here = <<Here[1], Here[2]>>
    /\ routine = "io_irq" => masked /\ ~Closed(Here[1], Here[2])
    /\ Closed(Here[1], Here[2]) => masked
    /\ routine # "io_irq" => suspended = <<>>
    /\ Here[1] \in Fetchers => selected

\* The phases of the shift register: n bits have been shifted out.
Resting == shifts_remaining = 0 /\ ticks_to_next_edge = 0 /\ cb1 = 1
High(n) ==
    /\ shifts_remaining = 8 - n /\ cb1 = 1
    /\ ticks_to_next_edge \in 1..4 /\ (n > 0 => ticks_to_next_edge = 1)
Low(n) == shifts_remaining = 9 - n /\ cb1 = 0 /\ ticks_to_next_edge = 1

\* The ticks to its last edge; -1 when it is past.
Remaining == ticks_to_next_edge + 2 * shifts_remaining + cb1 - 2

InTime ==
    /\ Remaining <= Ahead + HereRoom
    /\ HereOwed = 2 => Remaining = Ahead + 15

Sent(n) ==
    /\ Len(sub_data_in) = n
    /\ \A i \in 1..n : sub_data_in[i] = in_flight.byte[i]
    /\ \A i \in 1..8 - n : shift_register[i] = in_flight.byte[n + i]

Gathered(n) ==
    /\ Len(miso_shift_data) = n
    /\ selected => \A i \in 1..n : miso_shift_data[i] = offered[i]

Presents(n) ==
    selected => /\ miso = offered[n + 1]
                /\ \A i \in 1..7 - n : sub_data_out[i] = offered[n + 1 + i]

Holds(n) == selected => \A i \in 1..8 - n : sub_data_out[i] = offered[n + i]

Between == in_flight = None /\ Len(sub_data_in) = 0 /\ Len(miso_shift_data) = 0
Within(n) == in_flight # None /\ Sent(n) /\ Gathered(n)

OnTheWire ==
    \/ Resting /\ Between /\ Presents(0)
    \/ \E n \in 0..7 : High(n) /\ Within(n) /\ Presents(n)
    \/ \E n \in 1..7 : Low(n) /\ Within(n) /\ Holds(n)
    \/ Low(8) /\ Between /\ Holds(0)

Fetching ==
    /\ HereOwed = 0 => unread = <<>> /\ (in_flight # None => ~in_flight.wanted)
    /\ HereOwed = 1 => \/ in_flight # None /\ in_flight.wanted /\ unread = <<>>
                       \/ in_flight = None /\ unread = <<sd_card_data>>
    /\ HereOwed = 2 => in_flight # None /\ in_flight.wanted /\ unread = <<sd_card_data>>

CardOnPort == ~output_keyboard /\ port_b = sd_card_data
KeyOnPort == output_keyboard /\ port_b = keyboard_data

PortB ==
    /\ (routine = "io_irq" => at <= 6) /\ ~(Here[1] = "boot" /\ Here[2] <= 2) => CardOnPort
    /\ routine = "io_irq" /\ at \in 7..10 => KeyOnPort
    /\ routine = "io_irq" /\ at >= 11 => CardOnPort

KeyDue ==
    /\ routine # "io_irq" => key = None
    /\ routine = "io_irq" => /\ at \in 9..12 => key = due
                             /\ at \notin 9..12 => key = None
                             /\ due # None <=> at <= 12
                             /\ ca1_flag => at <= 2
    /\ due # None => due = keyboard_data /\ (ca1_flag \/ routine = "io_irq")
    /\ ca1_flag => due # None

IInv == TypeOK /\ Whereabouts /\ InTime /\ OnTheWire /\ Fetching /\ PortB /\ KeyDue

-------------------------------------------------------------------------------
(* Bytes as sequences of bits.                                                *)

\* A function on 1..n is a sequence.
LEMMA FunctionIsSeq ==
    ASSUME NEW S, NEW n \in Nat, NEW f \in [1..n -> S]
    PROVE  f \in Seq(S)
  OBVIOUS

\* Shifting a sequence of eight drops the first and moves the others up.
LEMMA Shortened ==
    ASSUME NEW S, NEW b \in Seq(S), NEW x \in S, Len(b) = 8
    PROVE  /\ Append(Tail(b), x) \in Seq(S) /\ Len(Append(Tail(b), x)) = 8
           /\ \A i \in 1..7 : Append(Tail(b), x)[i] = b[i + 1]
  <1>. DEFINE t == Tail(b)
  <1>1. b # <<>>
    <2>1. Len(b) # 0
      OBVIOUS
    <2>. QED  BY <2>1, EmptySeq, Zenon
  <1>2. /\ t \in Seq(S) /\ Len(t) = Len(b) - 1
        /\ \A i \in 1..Len(t) : t[i] = b[i + 1]
    BY <1>1, HeadTailProperties, Zenon
  <1>. HIDE DEF t
  <1>3. Len(t) = 7 /\ \A i \in 1..7 : t[i] = b[i + 1]
    BY <1>2
  <1>4. /\ Append(t, x) \in Seq(S) /\ Len(Append(t, x)) = Len(t) + 1
        /\ \A i \in 1..Len(t) : Append(t, x)[i] = t[i]
    <2>1. t \in Seq(S)
      BY <1>2
    <2>. QED  BY <2>1, AppendProperties
  <1>5. /\ Append(t, x) \in Seq(S) /\ Len(Append(t, x)) = 8
        /\ \A i \in 1..7 : Append(t, x)[i] = b[i + 1]
    BY <1>3, <1>4
  <1>. QED  BY <1>5 DEF t

\* A byte is a sequence of eight bits.
LEMMA BitsOfByte ==
    /\ \A b \in Byte : b \in Seq({0, 1}) /\ Len(b) = 8 /\ \A i \in 1..8 : b[i] \in {0, 1}
    /\ \A s \in Seq({0, 1}) : Len(s) = 8 => s \in Byte
    /\ \A b, c \in Byte : (\A i \in 1..8 : b[i] = c[i]) => b = c
  <1>1. ASSUME NEW b \in Byte
        PROVE  b \in Seq({0, 1}) /\ Len(b) = 8 /\ \A i \in 1..8 : b[i] \in {0, 1}
    <2>1. \A i \in 1..8 : b[i] \in {0, 1}
      BY DEF Byte
    <2>2. b \in Seq({0, 1})
      BY FunctionIsSeq, Zenon DEF Byte
    <2>3. DOMAIN b = 1..8
      BY DEF Byte
    <2>. QED  BY <2>1, <2>2, <2>3, LenProperties
  <1>2. ASSUME NEW s \in Seq({0, 1}), Len(s) = 8
        PROVE  s \in Byte
    BY <1>2, LenProperties DEF Byte
  <1>3. ASSUME NEW b \in Byte, NEW c \in Byte, \A i \in 1..8 : b[i] = c[i]
        PROVE  b = c
    BY <1>3 DEF Byte
  <1>. QED  BY <1>1, <1>2, <1>3

\* Shifting a byte gives a byte.
LEMMA Rotated ==
    ASSUME NEW b \in Byte, NEW x \in {0, 1}
    PROVE  /\ Append(Tail(b), x) \in Byte
           /\ \A i \in 1..7 : Append(Tail(b), x)[i] = b[i + 1]
  <1>1. b \in Seq({0, 1}) /\ Len(b) = 8 /\ b # <<>>
    BY BitsOfByte, EmptySeq
  <1>2. /\ Append(Tail(b), x) \in Seq({0, 1}) /\ Len(Append(Tail(b), x)) = 8
        /\ \A i \in 1..7 : Append(Tail(b), x)[i] = b[i + 1]
    BY <1>1, Shortened, Zenon
  <1>. QED  BY <1>2, BitsOfByte, Zenon

\* Eight bits gathered make a byte.
LEMMA Filled ==
    ASSUME NEW s \in Seq({0, 1}), NEW x \in {0, 1}, NEW n \in 0..7, Len(s) = n
    PROVE  /\ Append(s, x) \in Seq({0, 1}) /\ Len(Append(s, x)) = n + 1
           /\ \A i \in 1..n : Append(s, x)[i] = s[i]
           /\ Append(s, x)[n + 1] = x
           /\ n = 7 => Append(s, x) \in Byte
  <1>1. /\ Append(s, x) \in Seq({0, 1}) /\ Len(Append(s, x)) = n + 1
        /\ \A i \in 1..n : Append(s, x)[i] = s[i]
        /\ Append(s, x)[n + 1] = x
    BY AppendProperties
  <1>2. n = 7 => Len(Append(s, x)) = 8
    BY <1>1
  <1>. QED  BY <1>1, <1>2, BitsOfByte, Zenon

-------------------------------------------------------------------------------
(* The CPU's steps from place to place.                                       *)

\* To a place of the driver: from another one, from the interrupt routine or by a reset.
LEMMA DriverMoves ==
    ASSUME Whereabouts, NEW r \in Drivers, NEW i \in 1..Len(Code[r]), NEW m \in BOOLEAN,
           ContinueAt(r, i, m), Closed(r, i) => m, r \in Fetchers => selected'
    PROVE  /\ Whereabouts' /\ Here' = <<r, i>> /\ Ahead' = Code[r][i].cycles
           /\ HereRoom' = Room(r, i) /\ HereOwed' = Owed(r, i)
           /\ cycles' = Code[routine'][at'].cycles /\ masked' \in BOOLEAN
           /\ \/ routine' = r /\ at' = i /\ suspended' = <<>>
              \/ routine' = "io_irq" /\ at' = 1 /\ suspended' = <<r, i>> /\ ca1_flag'
  <1>1. r # "io_irq" /\ r \in Routines
    BY DEF Drivers
  <1>2. CASE ca1_flag' /\ ~m
    <2>1. /\ suspended' = <<r, i>> /\ routine' = "io_irq" /\ at' = 1 /\ masked' = TRUE
          /\ cycles' = Code.io_irq[1].cycles
      BY <1>2, Zenon DEF ContinueAt
    <2>2. Here' = <<r, i>>
      BY <2>1 DEF Here
    <2>3. Ahead' = Code[r][i].cycles
      BY <2>1, <2>2 DEF Ahead
    <2>4. Whereabouts'
      <3>1. routine' \in Routines /\ at' \in 1..Len(Code[routine'])
        <4>1. "io_irq" \in Routines
          BY RoutinesAre
        <4>2. Len(Code.io_irq) = 14
          BY IoIrqCode
        <4>3. 1 \in 1..Len(Code.io_irq)
          BY <4>2
        <4>. QED  BY <2>1, <4>1, <4>3, Zenon
      <3>2. /\ Here'[1] = r /\ Here'[2] = i
        BY <2>2
      <3>3. ~Closed(r, i)
        BY <1>2, Zenon
      <3>4. HereOwed' = Owed(r, i)
        BY <3>2, Zenon DEF HereOwed
      <3>. QED  BY <2>1, <2>2, <3>1, <3>2, <3>3, <3>4, Zenon DEF Whereabouts
    <2>. QED  BY <1>2, <2>1, <2>2, <2>3, <2>4 DEF HereRoom, HereOwed
  <1>3. CASE ~(ca1_flag' /\ ~m)
    <2>1. /\ routine' = r /\ at' = i /\ masked' = m
          /\ cycles' = Code[r][i].cycles
          /\ suspended' = IF routine = "io_irq" /\ r # "io_irq" THEN <<>> ELSE suspended
      BY <1>3, Zenon DEF ContinueAt
    <2>2. suspended' = <<>>
      BY <1>1, <2>1 DEF Whereabouts
    <2>3. Here' = <<r, i>>
      BY <1>1, <2>1 DEF Here
    <2>4. Ahead' = Code[r][i].cycles
      BY <1>1, <2>1 DEF Ahead
    <2>5. Whereabouts'
      BY <1>1, <2>1, <2>2, <2>3 DEF Whereabouts, HereOwed
    <2>. QED  BY <2>1, <2>2, <2>3, <2>4, <2>5 DEF HereRoom, HereOwed
  <1>. QED  BY <1>2, <1>3

\* Within the interrupt routine.
LEMMA IrqMoves ==
    ASSUME Whereabouts, routine = "io_irq", at # 14, ContinueAt(routine, at + 1, masked),
           selected' = selected
    PROVE  /\ Whereabouts' /\ Here' = Here /\ Ahead' = Ahead
           /\ HereRoom' = HereRoom /\ HereOwed' = HereOwed
           /\ cycles' = Code[routine'][at'].cycles /\ masked' \in BOOLEAN
           /\ routine' = "io_irq" /\ at' = at + 1 /\ suspended' = suspended
  <1>1. at \in 1..13 /\ masked
    <2>1. at \in 1..14
      BY IoIrqCode DEF Whereabouts
    <2>2. masked
      BY Zenon DEF Whereabouts
    <2>. QED  BY <2>1, <2>2
  <1>2. /\ routine' = "io_irq" /\ at' = at + 1 /\ masked' = masked
        /\ cycles' = Code.io_irq[at + 1].cycles /\ suspended' = suspended
    BY <1>1 DEF ContinueAt
  <1>3. Here' = Here
    BY <1>2 DEF Here
  <1>4. Ahead' = Ahead
    BY <1>2, <1>3 DEF Ahead
  <1>5. HereRoom' = HereRoom /\ HereOwed' = HereOwed
    BY <1>3 DEF HereRoom, HereOwed
  <1>6. Whereabouts'
    <2>1. Len(Code[routine']) = 14
      BY <1>2, IoIrqCode
    <2>2. at' \in 1..Len(Code[routine'])
      BY <1>1, <1>2, <2>1
    <2>. QED  BY <1>1, <1>2, <1>3, <1>5, <2>2, Zenon DEF Whereabouts
  <1>. QED  BY <1>1, <1>2, <1>3, <1>4, <1>5, <1>6

-------------------------------------------------------------------------------
(* The ticks.                                                                 *)

\* What the rest of the system sees of a tick: nothing, or the last bit of a byte.
NoExchange ==
    /\ taken' = None
    /\ UNCHANGED <<in_flight, unread, offered, sd_card_data, output_keyboard, port_b>>

Exchanged ==
    /\ Remaining = 2 /\ in_flight # None
    /\ in_flight' = None /\ taken' = in_flight.byte /\ offered' \in Byte
    /\ unread' = IF in_flight.wanted THEN Append(unread, offered) ELSE unread
    /\ sd_card_data' \in Byte /\ (selected => sd_card_data' = offered)
    /\ port_b' = IF output_keyboard THEN port_b ELSE sd_card_data'
    /\ output_keyboard' = output_keyboard

\* The types that the steps use.
LEMMA TypeParts ==
    ASSUME TypeOK
    PROVE  /\ shift_register \in Byte /\ shifts_remaining \in 0..8 /\ ticks_to_next_edge \in 0..4
           /\ cb1 \in {0, 1} /\ miso \in {0, 1}
           /\ miso_shift_data \in Seq({0, 1}) /\ sub_data_in \in Seq({0, 1})
           /\ sd_card_data \in Byte /\ keyboard_data \in Byte /\ port_b \in Byte
           /\ sub_data_out \in Byte /\ offered \in Byte /\ unread \in Seq(Byte)
           /\ in_flight \in [byte : Byte, wanted : BOOLEAN] \cup {None}
           /\ in_flight # None => in_flight.byte \in Byte
  BY DEF TypeOK

\* On a falling edge a bit goes to each side; with the eighth the bytes have changed places.
LEMMA Falling ==
    ASSUME TypeOK, OnTheWire, ClockFalls
    PROVE  OnTheWire' /\ Remaining' = Remaining - 1 /\ (NoExchange \/ Exchanged)
  <1>1. PICK n \in 0..7 : High(n) /\ Within(n) /\ Presents(n)
    BY DEF OnTheWire, ClockFalls, Resting, Low
  <1>. DEFINE bit == shift_register[1]
  <1>2. /\ cb1' = 0 /\ cb1 = 1 /\ shifts_remaining' = shifts_remaining
        /\ ticks_to_next_edge' = ticks_to_next_edge /\ ticks_to_next_edge = 1
        /\ shift_register' = Append(Tail(shift_register), bit)
        /\ miso' = miso /\ selected' = selected
        /\ SubRisingEdge(bit) /\ MisoBitIn(miso)
    BY DEF ClockFalls
  <1>3. shifts_remaining = 8 - n
    BY <1>1 DEF High
  <1>4. Low(n + 1)' /\ Remaining' = Remaining - 1 /\ (n = 7 => Remaining = 2)
    BY <1>2, <1>3 DEF Low, Remaining
  <1>5. bit \in {0, 1} /\ miso \in {0, 1}
    BY TypeParts, BitsOfByte
  <1>6. /\ Len(sub_data_in) = n /\ Len(miso_shift_data) = n /\ in_flight # None
        /\ \A i \in 1..n : sub_data_in[i] = in_flight.byte[i]
        /\ \A i \in 1..8 - n : shift_register[i] = in_flight.byte[n + i]
        /\ selected => \A i \in 1..n : miso_shift_data[i] = offered[i]
    BY <1>1 DEF Within, Sent, Gathered
  <1>7. selected => /\ miso = offered[n + 1]
                    /\ \A i \in 1..7 - n : sub_data_out[i] = offered[n + 1 + i]
    BY <1>1 DEF Presents
  <1>8. bit = in_flight.byte[n + 1]
    BY <1>6
  <1>9. \A i \in 1..7 : shift_register'[i] = shift_register[i + 1]
    BY <1>2, <1>5, TypeParts, Rotated, ZenonT(40)
  <1>10. CASE n < 7
    <2>1. /\ sub_data_in' = Append(sub_data_in, bit) /\ taken' = None
          /\ UNCHANGED <<sub_data_out, in_flight, offered, unread>>
      BY <1>2, <1>6, <1>10 DEF SubRisingEdge, link_vars
    <2>2. /\ miso_shift_data' = Append(miso_shift_data, miso)
          /\ UNCHANGED <<sd_card_data, output_keyboard, port_b>>
      BY <1>2, <1>6, <1>10 DEF MisoBitIn, port_vars
    <2>3. Sent(n + 1)'
      <3>1. /\ Len(sub_data_in') = n + 1
            /\ \A i \in 1..n : sub_data_in'[i] = sub_data_in[i]
            /\ sub_data_in'[n + 1] = bit
        BY <1>5, <1>6, <2>1, TypeParts, Filled
      <3>2. \A i \in 1..n + 1 : sub_data_in'[i] = in_flight.byte[i]
        BY <1>6, <1>8, <3>1
      <3>3. \A i \in 1..8 - (n + 1) : shift_register'[i] = in_flight.byte[(n + 1) + i]
        <4>. TAKE i \in 1..8 - (n + 1)
        <4>1. i \in 1..7 /\ i + 1 \in 1..8 - n /\ n + (i + 1) = (n + 1) + i
          BY <1>10
        <4>. QED  BY <1>6, <1>9, <4>1
      <3>. QED  BY <2>1, <3>1, <3>2, <3>3 DEF Sent
    <2>4. Gathered(n + 1)'
      <3>1. /\ Len(miso_shift_data') = n + 1
            /\ \A i \in 1..n : miso_shift_data'[i] = miso_shift_data[i]
            /\ miso_shift_data'[n + 1] = miso
        BY <1>5, <1>6, <2>2, TypeParts, Filled
      <3>2. selected => \A i \in 1..n + 1 : miso_shift_data'[i] = offered[i]
        BY <1>6, <1>7, <3>1
      <3>. QED  BY <1>2, <2>1, <3>1, <3>2 DEF Gathered
    <2>5. Holds(n + 1)'
      BY <1>2, <1>7, <2>1 DEF Holds
    <2>6. n + 1 \in 1..7
      BY <1>10
    <2>. QED  BY <1>4, <1>6, <2>1, <2>2, <2>3, <2>4, <2>5, <2>6 DEF OnTheWire, Within, NoExchange
  <1>11. CASE n = 7
    <2>1. /\ sub_data_in' = <<>> /\ taken' = Append(sub_data_in, bit)
          /\ sub_data_out' \in IF selected THEN CardBytes ELSE {Ones}
          /\ offered' = sub_data_out' /\ in_flight' = None
          /\ unread' = IF in_flight # None /\ in_flight.wanted
                         THEN Append(unread, offered) ELSE unread
      BY <1>2, <1>6, <1>11 DEF SubRisingEdge
    <2>2. /\ miso_shift_data' = <<>> /\ sd_card_data' = Append(miso_shift_data, miso)
          /\ port_b' = IF output_keyboard THEN port_b ELSE sd_card_data'
          /\ output_keyboard' = output_keyboard
      BY <1>2, <1>6, <1>11 DEF MisoBitIn
    <2>3. taken' = in_flight.byte
      <3>1. /\ taken' \in Byte
            /\ \A i \in 1..7 : taken'[i] = sub_data_in[i]
            /\ taken'[8] = bit
        BY <1>5, <1>6, <1>11, <2>1, TypeParts, Filled
      <3>2. \A i \in 1..8 : taken'[i] = in_flight.byte[i]
        BY <1>6, <1>8, <1>11, <3>1
      <3>. QED  BY <1>6, <3>1, <3>2, TypeParts, BitsOfByte
    <2>4. sd_card_data' \in Byte /\ (selected => sd_card_data' = offered)
      <3>1. /\ sd_card_data' \in Byte
            /\ \A i \in 1..7 : sd_card_data'[i] = miso_shift_data[i]
            /\ sd_card_data'[8] = miso
        BY <1>5, <1>6, <1>11, <2>2, TypeParts, Filled
      <3>2. selected => \A i \in 1..8 : sd_card_data'[i] = offered[i]
        BY <1>6, <1>7, <1>11, <3>1
      <3>. QED  BY <3>1, <3>2, TypeParts, BitsOfByte
    <2>5. offered' \in Byte
      BY <2>1, OnesZeros, BytesAssumption
    <2>6. Between' /\ Holds(0)'
      BY <2>1, <2>2 DEF Between, Holds
    <2>7. Exchanged
      BY <1>4, <1>6, <1>11, <2>1, <2>2, <2>3, <2>4, <2>5 DEF Exchanged
    <2>. QED  BY <1>4, <1>11, <2>6, <2>7 DEF OnTheWire
  <1>. QED  BY <1>10, <1>11

\* On a rising edge the next bit of the card comes out.
LEMMA Rising ==
    ASSUME TypeOK, OnTheWire, ClockRises
    PROVE  /\ OnTheWire' /\ NoExchange
           /\ Remaining' <= Remaining - 1 /\ (Remaining # 1 => Remaining' = Remaining - 1)
  <1>1. PICK n \in 1..8 : /\ Low(n)
                          /\ n < 8 => Within(n) /\ Holds(n)
                          /\ n = 8 => Between /\ Holds(0)
    BY DEF OnTheWire, ClockRises, Resting, High
  <1>2. /\ cb1' = 1 /\ cb1 = 0 /\ shifts_remaining' = shifts_remaining - 1
        /\ ticks_to_next_edge = 1
        /\ IF shifts_remaining' = 0 THEN ticks_to_next_edge' = 0
                                    ELSE ticks_to_next_edge' = ticks_to_next_edge
        /\ miso' = sub_data_out[1] /\ sub_data_out' = Append(Tail(sub_data_out), 0)
        /\ UNCHANGED <<sub_data_in, selected>>
        /\ taken' = None
        /\ UNCHANGED <<shift_register, miso_shift_data>>
        /\ UNCHANGED <<sd_card_data, output_keyboard, port_b>>
        /\ UNCHANGED <<in_flight, offered, unread>>
    BY DEF ClockRises, SubFallingEdge, port_vars, link_vars
  <1>3. NoExchange
    BY <1>2 DEF NoExchange
  <1>4. shifts_remaining = 9 - n
    BY <1>1 DEF Low
  <1>5. \A i \in 1..7 : sub_data_out'[i] = sub_data_out[i + 1]
    BY <1>2, TypeParts, Rotated
  <1>6. CASE n < 8
    <2>1. High(n)' /\ Remaining' = Remaining - 1
      BY <1>2, <1>4, <1>6 DEF High, Remaining
    <2>2. Presents(n)'
      <3>1. selected => \A i \in 1..8 - n : sub_data_out[i] = offered[n + i]
        BY <1>1, <1>6 DEF Holds
      <3>2. selected => miso' = offered[n + 1]
        BY <1>2, <1>6, <3>1
      <3>3. ASSUME selected, NEW i \in 1..7 - n
            PROVE  sub_data_out'[i] = offered[n + 1 + i]
        <4>1. i \in 1..7 /\ i + 1 \in 1..8 - n /\ n + (i + 1) = n + 1 + i
          BY <1>6
        <4>. QED  BY <1>5, <3>1, <3>3, <4>1
      <3>. QED  BY <1>2, <3>2, <3>3 DEF Presents
    <2>3. Within(n)'
      BY <1>1, <1>2, <1>6 DEF Within, Sent, Gathered
    <2>. QED  BY <1>3, <1>6, <2>1, <2>2, <2>3 DEF OnTheWire
  <1>7. CASE n = 8
    <2>1. Resting' /\ Remaining' = Remaining - 2 /\ Remaining = 1
      BY <1>2, <1>4, <1>7 DEF Resting, Remaining
    <2>2. Presents(0)'
      <3>1. selected => \A i \in 1..8 : sub_data_out[i] = offered[i]
        BY <1>1, <1>7 DEF Holds
      <3>2. selected => miso' = offered[1]
        BY <1>2, <3>1
      <3>3. ASSUME selected, NEW i \in 1..7
            PROVE  sub_data_out'[i] = offered[1 + i]
        <4>1. i + 1 \in 1..8 /\ i + 1 = 1 + i
          OBVIOUS
        <4>2. sub_data_out[i + 1] = offered[i + 1]
          BY <3>1, <3>3, <4>1
        <4>. QED  BY <1>5, <4>1, <4>2
      <3>4. 0 + 1 = 1 /\ 7 - 0 = 7
        OBVIOUS
      <3>. QED  BY <1>2, <3>2, <3>3, <3>4 DEF Presents
    <2>3. Between'
      BY <1>1, <1>2, <1>7 DEF Between
    <2>. QED  BY <1>3, <2>1, <2>2, <2>3 DEF OnTheWire
  <1>. QED  BY <1>6, <1>7

\* Before the first edge nothing changes.
LEMMA Waiting ==
    ASSUME TypeOK, OnTheWire, WaitForEdge
    PROVE  OnTheWire' /\ NoExchange /\ Remaining' = Remaining - 1
  <1>1. High(0) /\ Within(0) /\ Presents(0)
    BY DEF OnTheWire, WaitForEdge, Resting, High, Low
  <1>2. /\ ticks_to_next_edge' = ticks_to_next_edge - 1 /\ ticks_to_next_edge > 1
        /\ taken' = None /\ UNCHANGED <<cb1, shifts_remaining, shift_register, miso_shift_data>>
        /\ UNCHANGED <<sd_card_data, output_keyboard, port_b>>
        /\ UNCHANGED <<sub_data_in, sub_data_out, miso, selected>>
        /\ UNCHANGED <<in_flight, offered, unread>>
    BY DEF WaitForEdge, port_vars, sub_vars, link_vars
  <1>3. High(0)' /\ Remaining' = Remaining - 1
    BY <1>1, <1>2, TypeParts DEF High, Remaining
  <1>4. Within(0)' /\ Presents(0)'
    BY <1>1, <1>2 DEF Within, Sent, Gathered, Presents
  <1>. QED  BY <1>2, <1>3, <1>4 DEF OnTheWire, NoExchange, WaitForEdge

-------------------------------------------------------------------------------
(* Types, part by part.                                                       *)

DeviceTyped ==
    /\ shift_register \in Byte /\ shifts_remaining \in 0..8 /\ ticks_to_next_edge \in 0..4
    /\ cb1 \in {0, 1} /\ sr_flag \in BOOLEAN
    /\ miso_shift_data \in Seq({0, 1}) /\ Len(miso_shift_data) < 8
    /\ sd_card_data \in Byte /\ port_b \in Byte /\ sub_data_out \in Byte
    /\ sub_data_in \in Seq({0, 1}) /\ Len(sub_data_in) < 8
    /\ miso \in {0, 1} /\ output_keyboard \in BOOLEAN /\ selected \in BOOLEAN

LinkTyped ==
    /\ offered \in Byte /\ taken \in Byte \cup {None} /\ received \in Byte \cup {None}
    /\ in_flight \in [byte : Byte, wanted : BOOLEAN] \cup {None}
    /\ unread \in Seq(Byte)

KeyTyped ==
    /\ ca1_flag \in BOOLEAN /\ keyboard_data \in Byte
    /\ key \in Byte \cup {None} /\ due \in Byte \cup {None}

CpuTyped ==
    /\ routine \in Routines /\ at \in 1..Len(Code[routine])
    /\ cycles \in 0..Code[routine][at].cycles
    /\ suspended = <<>> \/ suspended[1] \in Routines \ {"io_irq"}
    /\ masked \in BOOLEAN

\* TypeOK is its parts.
LEMMA TypeSplit == TypeOK <=> DeviceTyped /\ LinkTyped /\ KeyTyped /\ CpuTyped
  BY Zenon DEF TypeOK, DeviceTyped, LinkTyped, KeyTyped, CpuTyped

LEMMA TypeSplitNext == TypeOK' <=> DeviceTyped' /\ LinkTyped' /\ KeyTyped' /\ CpuTyped'
  BY TypeSplit, PTL

\* The ticks to the last edge are a number.
LEMMA RemainingTyped == TypeOK => Remaining \in Int
  <1>. SUFFICES ASSUME TypeOK PROVE Remaining \in Int
    OBVIOUS
  <1>1. shifts_remaining \in 0..8 /\ ticks_to_next_edge \in 0..4 /\ cb1 \in {0, 1}
    BY TypeParts
  <1>. QED  BY <1>1 DEF Remaining

\* The numbers at the driver's place are those of the annotation.
LEMMA HereTyped ==
    ASSUME TypeOK, Whereabouts
    PROVE  /\ Ahead \in Nat /\ HereRoom \in 0..15 /\ HereOwed \in 0..2 /\ Remaining \in Int
           /\ PlaceFits(Here[1], Here[2])
           /\ routine # "io_irq" => Here = <<routine, at>> /\ Here[1] = routine /\ Here[2] = at
                                    /\ Ahead = cycles
  <1>1. PlaceFits(Here[1], Here[2])
    BY Places DEF Whereabouts
  <1>2. /\ Code[Here[1]][Here[2]].cycles \in 1..40
        /\ HereRoom \in 0..15 /\ HereOwed \in 0..2
    BY <1>1, Zenon DEF PlaceFits, Fits, HereRoom, HereOwed
  <1>3. routine \in Routines /\ at \in 1..Len(Code[routine]) /\ cycles \in 0..Code[routine][at].cycles
    BY DEF TypeOK
  <1>4. routine # "io_irq" => /\ Here = <<routine, at>> /\ Here[1] = routine /\ Here[2] = at
                              /\ Ahead = cycles
    BY DEF Here, Ahead
  <1>5. Ahead \in Nat
    <2>1. CASE routine = "io_irq"
      <3>1. Ahead = Code[Here[1]][Here[2]].cycles
        BY <2>1 DEF Ahead
      <3>. QED  BY <3>1, <1>2
    <2>2. CASE routine # "io_irq"
      <3>1. Code[routine][at].cycles \in 1..40
        BY <2>2, <1>2, <1>4
      <3>. QED  BY <2>2, <1>3, <1>4, <3>1
    <2>. QED  BY <2>1, <2>2
  <1>6. Remaining \in Int
    BY RemainingTyped
  <1>. QED  BY <1>1, <1>2, <1>4, <1>5, <1>6

\* A byte is owed only while the card is selected.
LEMMA OwedSelected ==
    ASSUME TypeOK, Whereabouts, HereOwed # 0
    PROVE  selected
  <1>1. PlaceFits(Here[1], Here[2]) /\ HereOwed = Owed(Here[1], Here[2])
    BY HereTyped, Zenon DEF HereOwed
  <1>2. Here[1] \in Fetchers
    BY <1>1, Zenon DEF PlaceFits, Fits, Fetchers
  <1>. QED  BY <1>2, Zenon DEF Whereabouts

\* None is neither a byte nor one in flight.
LEMMA NoneIsNoByte == None \notin Byte /\ \A x \in [byte : Byte, wanted : BOOLEAN] : x # None
  BY NoneAssumption

\* A key keeps the types.
LEMMA PulseTyped ==
    ASSUME TypeOK, PulseCA1, UNCHANGED key
    PROVE  KeyTyped'
  <1>1. CASE UNCHANGED key_vars
    BY <1>1, TypeSplit DEF key_vars, KeyTyped
  <1>2. CASE keyboard_data' \in Keys /\ due' = keyboard_data' /\ ca1_flag' = TRUE
    BY <1>2, TypeSplit, BytesAssumption DEF KeyTyped
  <1>. QED  BY <1>1, <1>2 DEF PulseCA1

\* Where a length below eight lies.
LEMMA BelowEight == \A n \in Nat : n < 8 => n \in 0..7
  OBVIOUS

\* Whatever a tick shows keeps its type.
LEMMA SeenTyped ==
    ASSUME TypeOK, NoExchange \/ Exchanged, received' = None
    PROVE  /\ LinkTyped' /\ sd_card_data' \in Byte /\ port_b' \in Byte
           /\ output_keyboard' \in BOOLEAN
  <1>. USE TypeSplit
  <1>1. CASE NoExchange
    BY <1>1 DEF NoExchange, DeviceTyped, LinkTyped
  <1>2. CASE Exchanged
    <2>1. in_flight.byte \in Byte
      BY <1>2, TypeParts DEF Exchanged
    <2>2. Append(unread, offered) \in Seq(Byte)
      BY TypeParts
    <2>3. LinkTyped'
      BY <1>2, <2>1, <2>2 DEF Exchanged, LinkTyped
    <2>4. sd_card_data' \in Byte /\ port_b' \in Byte
      BY <1>2, TypeParts DEF Exchanged
    <2>5. output_keyboard' \in BOOLEAN
      BY <1>2 DEF Exchanged, DeviceTyped
    <2>. QED  BY <2>3, <2>4, <2>5
  <1>. QED  BY <1>1, <1>2

\* A tick keeps the types.
LEMMA TickTyped ==
    ASSUME TypeOK, OnTheWire, Tick
    PROVE  TypeOK'
  <1>1. KeyTyped'
    BY PulseTyped DEF Tick
  <1>2. CpuTyped'
    <2>1. /\ cycles' = cycles - 1 /\ cycles > 0
          /\ UNCHANGED <<routine, at, suspended, masked>>
      BY DEF Tick
    <2>2. cycles \in 0..Code[routine][at].cycles /\ Code[routine][at].cycles \in 1..100
      <3>1. routine \in Routines /\ at \in 1..Len(Code[routine])
            /\ cycles \in 0..Code[routine][at].cycles
        BY TypeSplit, Zenon DEF CpuTyped
      <3>. QED  BY <3>1, CyclesTyped
    <2>3. cycles' \in 0..Code[routine][at].cycles
      BY <2>1, <2>2
    <2>. QED  BY <2>1, <2>3, TypeSplit, Zenon DEF CpuTyped
  <1>3. received' = None
    BY DEF Tick
  <1>4. ASSUME ClockFalls PROVE DeviceTyped' /\ LinkTyped'
    <2>1. NoExchange \/ Exchanged
      BY <1>4, Falling
    <2>2. shift_register[1] \in {0, 1}
      BY TypeParts, BitsOfByte
    <2>3. shift_register' \in Byte
      BY <1>4, <2>2, TypeParts, Rotated DEF ClockFalls
    <2>4. sub_data_in' \in Seq({0, 1}) /\ Len(sub_data_in') < 8 /\ sub_data_out' \in Byte
      <3>1. SubRisingEdge(shift_register[1])
        BY <1>4 DEF ClockFalls
      <3>0. PICK n \in 0..7 : n = Len(sub_data_in)
        <4>1. sub_data_in \in Seq({0, 1})
          BY TypeParts
        <4>2. Len(sub_data_in) < 8
          BY TypeSplit, Zenon DEF DeviceTyped
        <4>3. Len(sub_data_in) \in Nat
          BY <4>1, LenProperties, Zenon
        <4>4. Len(sub_data_in) \in 0..7
          BY <4>2, <4>3, BelowEight, Zenon
        <4>. QED  BY <4>4, Zenon
      <3>2. CASE n < 7
        <4>1. sub_data_in' = Append(sub_data_in, shift_register[1]) /\ sub_data_out' = sub_data_out
          BY <3>1, <3>0, <3>2 DEF SubRisingEdge
        <4>. QED  BY <4>1, <3>0, <3>2, <2>2, TypeParts, Filled
      <3>3. CASE n = 7
        BY <3>1, <3>0, <3>3, OnesZeros, BytesAssumption, EmptySeq DEF SubRisingEdge
      <3>. QED  BY <3>2, <3>3
    <2>5. miso_shift_data' \in Seq({0, 1}) /\ Len(miso_shift_data') < 8
      <3>1. MisoBitIn(miso)
        BY <1>4 DEF ClockFalls
      <3>2. PICK n \in 0..7 : n = Len(miso_shift_data)
        <4>1. miso_shift_data \in Seq({0, 1})
          BY TypeParts
        <4>2. Len(miso_shift_data) < 8
          BY TypeSplit, Zenon DEF DeviceTyped
        <4>3. Len(miso_shift_data) \in Nat
          BY <4>1, LenProperties, Zenon
        <4>4. Len(miso_shift_data) \in 0..7
          BY <4>2, <4>3, BelowEight, Zenon
        <4>. QED  BY <4>4, Zenon
      <3>3. CASE n < 7
        <4>1. miso_shift_data' = Append(miso_shift_data, miso)
          BY <3>1, <3>2, <3>3 DEF MisoBitIn
        <4>. QED  BY <4>1, <3>2, <3>3, TypeParts, Filled
      <3>4. CASE n = 7
        BY <3>1, <3>2, <3>4, EmptySeq DEF MisoBitIn
      <3>. QED  BY <3>3, <3>4
    <2>6. /\ UNCHANGED <<shifts_remaining, ticks_to_next_edge, sr_flag, miso, selected>>
          /\ cb1' = 0
      BY <1>4 DEF ClockFalls
    <2>. QED  BY <1>3, <2>1, <2>3, <2>4, <2>5, <2>6, SeenTyped, TypeSplit DEF DeviceTyped
  <1>5. ASSUME ClockRises PROVE DeviceTyped' /\ LinkTyped'
    <2>1. NoExchange
      BY <1>5, Rising
    <2>2. sub_data_out' \in Byte /\ miso' \in {0, 1}
      BY <1>5, TypeParts, Rotated, BitsOfByte DEF ClockRises, SubFallingEdge
    <2>3. shifts_remaining' \in 0..8 /\ ticks_to_next_edge' \in 0..4 /\ cb1' = 1
      BY <1>5, TypeParts DEF ClockRises
    <2>4. sr_flag' \in BOOLEAN
      BY <1>5, TypeSplit DEF ClockRises, DeviceTyped
    <2>5. UNCHANGED <<shift_register, miso_shift_data, sub_data_in, selected>>
      BY <1>5 DEF ClockRises, SubFallingEdge
    <2>. QED  BY <1>3, <2>1, <2>2, <2>3, <2>4, <2>5, SeenTyped, TypeSplit DEF DeviceTyped
  <1>6. ASSUME WaitForEdge PROVE DeviceTyped' /\ LinkTyped'
    <2>1. NoExchange
      BY <1>6, Waiting
    <2>2. ticks_to_next_edge' \in 0..4
      BY <1>6, TypeParts DEF WaitForEdge
    <2>3. UNCHANGED <<shift_register, shifts_remaining, cb1, sr_flag, miso_shift_data,
                      sub_data_in, sub_data_out, miso, selected>>
      BY <1>6 DEF WaitForEdge, sub_vars
    <2>. QED  BY <1>3, <2>1, <2>2, <2>3, SeenTyped, TypeSplit DEF DeviceTyped
  <1>. QED  BY <1>1, <1>2, <1>4, <1>5, <1>6, TypeSplitNext DEF Tick

\* So do ticks in which nothing is shifted.
LEMMA RemainingTicksTyped ==
    ASSUME TypeOK, RemainingTicks
    PROVE  TypeOK'
  <1>1. KeyTyped'
    BY PulseTyped DEF RemainingTicks
  <1>2. DeviceTyped' /\ LinkTyped'
    BY TypeSplit DEF RemainingTicks, DeviceTyped, LinkTyped, device_vars, via_vars, port_vars,
                     sub_vars, link_vars
  <1>3. CpuTyped'
    <2>1. /\ cycles' = 0 /\ UNCHANGED <<routine, at, suspended, masked>>
      BY DEF RemainingTicks
    <2>2. routine \in Routines /\ at \in 1..Len(Code[routine])
      BY TypeSplit, Zenon DEF CpuTyped
    <2>3. Code[routine][at].cycles \in 1..100
      BY <2>2, CyclesTyped
    <2>4. cycles' \in 0..Code[routine][at].cycles
      BY <2>1, <2>3
    <2>. QED  BY <2>1, <2>4, TypeSplit, Zenon DEF CpuTyped
  <1>. QED  BY <1>1, <1>2, <1>3, TypeSplitNext

LEMMA RemainingTypedNext == TypeOK' => (Remaining \in Int)'
  BY RemainingTyped, PTL

\* A key may come in a tick, but not into the interrupt routine.
LEMMA PulseStep ==
    ASSUME TypeOK, Whereabouts, KeyDue, PulseCA1, UNCHANGED <<routine, at, key>>
    PROVE  KeyDue' /\ (routine = "io_irq" => keyboard_data' = keyboard_data)
  <1>1. CASE UNCHANGED key_vars
    BY <1>1, Zenon DEF KeyDue, key_vars
  <1>2. CASE due = None /\ routine # "io_irq" /\ keyboard_data' \in Keys
             /\ due' = keyboard_data' /\ ca1_flag' = TRUE
    <2>1. due' # None
      BY <1>2, NoneIsNoByte, BytesAssumption
    <2>. QED  BY <1>2, <2>1, Zenon DEF KeyDue
  <1>. QED  BY <1>1, <1>2, Zenon DEF PulseCA1

\* The places do not change in a tick.
LEMMA TickStays ==
    ASSUME TypeOK, Whereabouts, UNCHANGED <<routine, at, suspended, masked, selected>>
    PROVE  /\ Whereabouts' /\ Here' = Here /\ HereRoom' = HereRoom /\ HereOwed' = HereOwed
           /\ routine = "io_irq" => Ahead' = Ahead
           /\ routine # "io_irq" => Ahead' = cycles'
           /\ HereOwed = 2 => routine # "io_irq"
  <1>1. Here' = Here
    BY Zenon DEF Here
  <1>2. HereRoom' = HereRoom /\ HereOwed' = HereOwed
    BY <1>1, Zenon DEF HereRoom, HereOwed
  <1>3. Whereabouts'
    BY <1>1, <1>2, Zenon DEF Whereabouts
  <1>4. /\ routine = "io_irq" => Ahead' = Ahead
        /\ routine # "io_irq" => Ahead' = cycles'
    BY <1>1, Zenon DEF Ahead
  <1>5. HereOwed = 2 => routine # "io_irq"
    BY DEF Whereabouts, Closed, HereOwed
  <1>. QED  BY <1>1, <1>2, <1>3, <1>4, <1>5

\* A tick uses up one of the instruction's and one of the shift register's.
LEMMA TickStep ==
    ASSUME IInv, Tick
    PROVE  IInv' /\ (NoExchange \/ Exchanged)
  <1>. TypeOK /\ Whereabouts /\ InTime /\ OnTheWire /\ Fetching /\ PortB /\ KeyDue
    BY DEF IInv
  <1>1. UNCHANGED <<routine, at, suspended, masked, key>> /\ cycles' = cycles - 1 /\ cycles > 0
        /\ PulseCA1
    BY DEF Tick
  <1>2. /\ OnTheWire' /\ (NoExchange \/ Exchanged)
        /\ Remaining' <= Remaining - 1 /\ (Remaining # 1 => Remaining' = Remaining - 1)
        /\ selected' = selected
    <2>1. CASE ClockFalls
      BY <2>1, Falling, HereTyped DEF ClockFalls
    <2>2. CASE ClockRises
      BY <2>2, Rising DEF ClockRises, SubFallingEdge
    <2>3. CASE WaitForEdge
      BY <2>3, Waiting, HereTyped DEF WaitForEdge, sub_vars
    <2>. QED  BY <2>1, <2>2, <2>3 DEF Tick
  <1>3. /\ Whereabouts' /\ Here' = Here /\ HereRoom' = HereRoom /\ HereOwed' = HereOwed
        /\ routine = "io_irq" => Ahead' = Ahead
        /\ routine # "io_irq" => Ahead' = Ahead - 1
        /\ HereOwed = 2 => routine # "io_irq"
    BY <1>1, <1>2, TickStays, HereTyped
  <1>4. /\ Ahead \in Nat /\ HereRoom \in 0..15 /\ HereOwed \in 0..2 /\ Remaining \in Int
        /\ routine # "io_irq" => Ahead = cycles
    BY HereTyped
  <1>5. HereOwed = 2 => Remaining >= 16
    BY <1>1, <1>3, <1>4 DEF InTime
  <1>6. InTime'
    <2>1. Remaining <= Ahead + HereRoom /\ (HereOwed = 2 => Remaining = Ahead + 15)
      BY DEF InTime
    <2>2. Remaining' <= Ahead' + HereRoom'
      <3>1. Remaining' \in Int
        BY TickTyped, RemainingTypedNext
      <3>2. Remaining' <= Ahead - 1 + HereRoom
        BY <1>2, <1>4, <2>1, <3>1
      <3>3. Ahead' = Ahead \/ Ahead' = Ahead - 1
        BY <1>3
      <3>. QED  BY <1>3, <1>4, <3>1, <3>2, <3>3
    <2>3. HereOwed' = 2 => Remaining' = Ahead' + 15
      BY <1>2, <1>3, <1>4, <1>5, <2>1
    <2>. QED  BY <2>2, <2>3 DEF InTime
  <1>7. Fetching'
    <2>1. CASE NoExchange
      BY <1>3, <2>1, Zenon DEF Fetching, NoExchange
    <2>2. CASE Exchanged
      <3>1. /\ in_flight' = None /\ in_flight # None /\ Remaining = 2
            /\ unread' = IF in_flight.wanted THEN Append(unread, offered) ELSE unread
            /\ selected => sd_card_data' = offered
        BY <2>2 DEF Exchanged
      <3>2. HereOwed # 2
        BY <1>5, <3>1
      <3>3. CASE HereOwed = 0
        BY <1>3, <3>1, <3>3 DEF Fetching
      <3>4. CASE HereOwed = 1
        <4>1. in_flight.wanted /\ unread = <<>>
          BY <3>1, <3>4, Zenon DEF Fetching
        <4>2. selected
          BY <3>4, OwedSelected
        <4>3. unread' = <<sd_card_data'>>
          <5>1. unread' = Append(<<>>, offered) /\ sd_card_data' = offered
            BY <3>1, <4>1, <4>2, Zenon
          <5>. QED  BY <5>1
        <4>4. HereOwed' # 0 /\ HereOwed' # 2
          BY <1>3, <3>4
        <4>. QED  BY <3>1, <4>3, <4>4, Zenon DEF Fetching
      <3>. QED  BY <1>4, <3>2, <3>3, <3>4
    <2>. QED  BY <1>2, <2>1, <2>2
  <1>8. KeyDue' /\ (routine = "io_irq" => keyboard_data' = keyboard_data)
    BY <1>1, PulseStep
  <1>9. PortB'
    <2>1. /\ output_keyboard' = output_keyboard
          /\ \/ port_b' = port_b /\ sd_card_data' = sd_card_data
             \/ port_b' = IF output_keyboard THEN port_b ELSE sd_card_data'
      BY <1>2 DEF NoExchange, Exchanged
    <2>2. CardOnPort => CardOnPort'
      BY <2>1 DEF CardOnPort
    <2>3. routine = "io_irq" /\ KeyOnPort => KeyOnPort'
      BY <1>8, <2>1 DEF KeyOnPort
    <2>. QED  BY <1>1, <1>3, <2>2, <2>3, Zenon DEF PortB
  <1>. QED  BY <1>2, <1>3, <1>6, <1>7, <1>8, <1>9, TickTyped DEF IInv

\* The ticks after the last edge are the instruction's alone.
LEMMA RemainingTicksStep ==
    ASSUME IInv, RemainingTicks
    PROVE  IInv' /\ NoExchange
  <1>. TypeOK /\ Whereabouts /\ InTime /\ OnTheWire /\ Fetching /\ PortB /\ KeyDue
    BY DEF IInv
  <1>1. /\ UNCHANGED <<routine, at, suspended, masked, key>> /\ cycles' = 0
        /\ PulseCA1 /\ shifts_remaining = 0 /\ taken' = None
        /\ UNCHANGED <<shift_register, shifts_remaining, ticks_to_next_edge, cb1, sr_flag>>
        /\ UNCHANGED <<miso_shift_data, sd_card_data, output_keyboard, port_b>>
        /\ UNCHANGED <<sub_data_in, sub_data_out, miso, selected>>
        /\ UNCHANGED <<in_flight, offered, unread>>
    BY DEF RemainingTicks, device_vars, via_vars, port_vars, sub_vars, link_vars
  <1>2. /\ Whereabouts' /\ Here' = Here /\ HereRoom' = HereRoom /\ HereOwed' = HereOwed
        /\ routine = "io_irq" => Ahead' = Ahead
        /\ routine # "io_irq" => Ahead' = 0
        /\ HereOwed = 2 => routine # "io_irq"
    BY <1>1, TickStays
  <1>3. /\ Ahead \in Nat /\ HereRoom \in 0..15 /\ HereOwed \in 0..2
    BY HereTyped
  <1>4. Remaining = -1 /\ Remaining' = -1
    <2>1. Resting
      BY <1>1 DEF OnTheWire, High, Low
    <2>. QED  BY <1>1, <2>1 DEF Resting, Remaining
  <1>5. InTime'
    <2>1. HereOwed # 2
      BY <1>3, <1>4 DEF InTime
    <2>2. Remaining' <= Ahead' + HereRoom'
      BY <1>2, <1>3, <1>4
    <2>. QED  BY <1>2, <2>1, <2>2 DEF InTime
  <1>6. OnTheWire'
    BY <1>1, Zenon DEF OnTheWire, Resting, High, Low, Between, Within, Sent, Gathered, Presents, Holds
  <1>7. Fetching'
    BY <1>1, <1>2, Zenon DEF Fetching
  <1>8. KeyDue' /\ (routine = "io_irq" => keyboard_data' = keyboard_data)
    BY <1>1, PulseStep
  <1>9. PortB'
    BY <1>1, <1>2, <1>8, Zenon DEF PortB, CardOnPort, KeyOnPort
  <1>10. NoExchange
    BY <1>1 DEF NoExchange
  <1>. QED  BY <1>2, <1>5, <1>6, <1>7, <1>8, <1>9, <1>10, RemainingTicksTyped DEF IInv

-------------------------------------------------------------------------------
(* The instructions.                                                          *)

\* The instruction tells where the CPU is.
LEMMA OpPlaces ==
    ASSUME TypeOK, Whereabouts
    PROVE  /\ routine = "io_irq" =>
                /\ Instruction.op = "work" => at \in {1, 3, 5, 7, 9, 11, 13}
                /\ Instruction.op = "clear" => at = 2 /\ Instruction.flags = {"CA1"}
                /\ Instruction.op = "read_ora" => at = 4
                /\ Instruction.op = "keyboard" => at = 6
                /\ Instruction.op = "key" => at = 8
                /\ Instruction.op = "card" => at = 10
                /\ Instruction.op = "store" => at = 12
                /\ Instruction.op = "rti" <=> at = 14
                /\ Instruction.op \in {"work", "clear", "read_ora", "keyboard", "key", "card",
                                       "store", "rti"}
           /\ routine # "io_irq" =>
                /\ routine \in Drivers /\ at \in 1..Len(Code[routine])
                /\ Fits(routine, Instruction, HereRoom, HereOwed)
                /\ Instruction.op # "rts" => /\ at + 1 \in 1..Len(Code[routine])
                                             /\ PlaceFollows(routine, at)
                /\ routine = "boot" /\ at = 1 => Instruction.op = "work"
                /\ routine = "boot" /\ at = 2 => Instruction.op = "card"
                /\ routine = "boot" /\ Instruction.op = "card" => at = 2
                /\ Instruction.op = "card" => routine = "boot"
  <1>1. CASE routine = "io_irq"
    <2>1. at \in 1..14
      BY <1>1, IoIrqCode DEF Whereabouts
    <2>2. \/ at = 1 \/ at = 2 \/ at = 3 \/ at = 4 \/ at = 5 \/ at = 6 \/ at = 7
          \/ at = 8 \/ at = 9 \/ at = 10 \/ at = 11 \/ at = 12 \/ at = 13 \/ at = 14
      BY <2>1
    <2>. DEFINE op == Instruction.op
    <2>3. Instruction = Code.io_irq[at]
      BY <1>1, Zenon DEF Instruction
    <2>4. /\ at \in {1, 3, 5, 7, 9, 11, 13} => op = "work"
          /\ at = 2 => op = "clear" /\ Instruction.flags = {"CA1"}
          /\ at = 4 => op = "read_ora"
          /\ at = 6 => op = "keyboard"
          /\ at = 8 => op = "key"
          /\ at = 10 => op = "card"
          /\ at = 12 => op = "store"
          /\ at = 14 => op = "rti"
      BY <2>3, IoIrqCode, Zenon
    <2>. HIDE DEF op
    <2>5. \/ at \in {1, 3, 5, 7, 9, 11, 13}
          \/ at = 2 \/ at = 4 \/ at = 6 \/ at = 8 \/ at = 10 \/ at = 12 \/ at = 14
      BY <2>2
    <2>6. /\ op = "work" => at \in {1, 3, 5, 7, 9, 11, 13}
          /\ op = "clear" => at = 2 /\ Instruction.flags = {"CA1"}
          /\ op = "read_ora" => at = 4
          /\ op = "keyboard" => at = 6
          /\ op = "key" => at = 8
          /\ op = "card" => at = 10
          /\ op = "store" => at = 12
          /\ op = "rti" <=> at = 14
          /\ op \in {"work", "clear", "read_ora", "keyboard", "key", "card", "store", "rti"}
      BY <2>4, <2>5
    <2>. QED  BY <1>1, <2>6 DEF op
  <1>2. CASE routine # "io_irq"
    <2>1. /\ routine \in Drivers /\ at \in 1..Len(Code[routine])
          /\ HereRoom = Room(routine, at) /\ HereOwed = Owed(routine, at)
      BY <1>2, HereTyped DEF Whereabouts, HereRoom, HereOwed
    <2>2. Fits(routine, Instruction, HereRoom, HereOwed)
      BY <2>1, Places DEF PlaceFits, Instruction
    <2>3. Instruction.op # "rts" => at < Len(Code[routine]) /\ PlaceFollows(routine, at)
      BY <2>1, Places DEF Instruction
    <2>4. Instruction.op # "rts" => at + 1 \in 1..Len(Code[routine])
      <3>1. Len(Code[routine]) \in Nat
        BY <2>1, Places
      <3>. QED  BY <2>1, <2>3, <3>1
    <2>5. Instruction.op = "card" => routine = "boot"
      BY <2>2, Zenon DEF Fits
    <2>6. /\ routine = "boot" /\ at = 1 => Instruction.op = "work"
          /\ routine = "boot" /\ at = 2 => Instruction.op = "card"
          /\ routine = "boot" /\ Instruction.op = "card" => at = 2
      <3>. SUFFICES ASSUME routine = "boot"
                    PROVE  /\ at = 1 => Instruction.op = "work"
                           /\ at = 2 => Instruction.op = "card"
                           /\ Instruction.op = "card" => at = 2
        OBVIOUS
      <3>1. Instruction = Code.boot[at] /\ at \in 1..9
        BY <2>1, BootCode DEF Instruction
      <3>2. at = 1 \/ at = 2 \/ at \in 3..9
        BY <3>1
      <3>. QED  BY <3>1, <3>2, BootCode
    <2>. QED  BY <1>2, <2>1, <2>2, <2>3, <2>4, <2>5, <2>6
  <1>. QED  BY <1>1, <1>2

\* A move of the CPU keeps the types.
LEMMA MovedTyped ==
    ASSUME Whereabouts', cycles' = Code[routine'][at'].cycles, masked' \in BOOLEAN
    PROVE  CpuTyped'
  <1>1. routine' \in Routines /\ at' \in 1..Len(Code[routine'])
    BY Zenon DEF Whereabouts
  <1>2. cycles' \in 0..Code[routine'][at'].cycles
    <2>1. Code[routine'][at'].cycles \in 1..100
      BY <1>1, CyclesTyped
    <2>2. PICK c \in 1..100 : c = Code[routine'][at'].cycles
      BY <2>1
    <2>3. c \in 0..c
      OBVIOUS
    <2>. QED  BY <2>2, <2>3, Zenon
  <1>3. suspended' = <<>> \/ suspended'[1] \in Routines \ {"io_irq"}
    <2>1. CASE routine' = "io_irq"
      BY <2>1, Zenon DEF Whereabouts, Here, Drivers
    <2>2. CASE routine' # "io_irq"
      BY <2>2, Zenon DEF Whereabouts
    <2>. QED  BY <2>1, <2>2
  <1>. QED  BY <1>1, <1>2, <1>3, Zenon DEF CpuTyped

\* An instruction of the driver other than a load or a return.
LEMMA Onwards ==
    ASSUME TypeOK, Whereabouts, InTime, routine # "io_irq", cycles = 0,
           Instruction.op \notin {"rts", "load"}, NEW m \in BOOLEAN, Instruction.op = "sei" => m,
           ContinueAt(routine, at + 1, m), UNCHANGED <<shifts_remaining, ticks_to_next_edge, cb1>>,
           routine \in Fetchers => selected'
    PROVE  /\ Whereabouts' /\ InTime' /\ CpuTyped' /\ Here' = <<routine, at + 1>>
           /\ HereOwed' = IF Instruction.op = "read" THEN HereOwed - 1 ELSE HereOwed
           /\ routine' = "io_irq" => at' = 1 /\ ca1_flag'
  <1>1. /\ routine \in Drivers /\ at + 1 \in 1..Len(Code[routine])
        /\ Fits(routine, Instruction, HereRoom, HereOwed)
        /\ PlaceFollows(routine, at)
        /\ HereRoom = Room(routine, at) /\ HereOwed = Owed(routine, at)
    BY OpPlaces, HereTyped DEF HereRoom, HereOwed
  <1>2. /\ HereRoom <= Room(routine, at + 1) + Code[routine][at + 1].cycles
        /\ Owed(routine, at + 1) = IF Instruction.op = "read" THEN HereOwed - 1 ELSE HereOwed
        /\ Code[routine][at + 1].op = "load" /\ Owed(routine, at + 1) = 1
             => Instruction.op = "sei"
    BY <1>1 DEF PlaceFollows, Follows, Instruction
  <1>3. HereOwed \in 0..2 /\ (HereOwed = 2 => Instruction.op = "read")
    BY <1>1 DEF Fits
  <1>4. Owed(routine, at + 1) \in 0..1 \/ Owed(routine, at + 1) = -1
    BY <1>2, <1>3
  <1>5. Closed(routine, at + 1) => m
    <2>1. Owed(routine, at + 1) # 2
      BY <1>4
    <2>2. Owed(routine, at + 1) # 0 => Owed(routine, at + 1) = 1
      BY <1>4, <1>2, <1>1, <1>3 DEF Fits
    <2>. QED  BY <1>2, <2>1, <2>2, Zenon DEF Closed
  <1>7. /\ Whereabouts' /\ Here' = <<routine, at + 1>>
        /\ Ahead' = Code[routine][at + 1].cycles
        /\ HereRoom' = Room(routine, at + 1) /\ HereOwed' = Owed(routine, at + 1)
        /\ cycles' = Code[routine'][at'].cycles /\ masked' \in BOOLEAN
        /\ \/ routine' = routine /\ at' = at + 1 /\ suspended' = <<>>
           \/ routine' = "io_irq" /\ at' = 1 /\ suspended' = <<routine, at + 1>> /\ ca1_flag'
    BY <1>1, <1>5, DriverMoves
  <1>8. Remaining' = Remaining /\ Remaining \in Int
    BY RemainingTyped DEF Remaining
  <1>9. InTime'
    <2>1. Remaining <= HereRoom
      BY HereTyped DEF InTime
    <2>2. HereOwed' # 2
      BY <1>4, <1>7
    <2>3. Remaining' <= Ahead' + HereRoom'
      <3>1. PICK a, b, c \in Int : /\ a = Room(routine, at + 1) /\ c = HereRoom
                                  /\ b = Code[routine][at + 1].cycles
        <4>1. PlaceFits(routine, at + 1)
          BY <1>1, Places
        <4>2. Room(routine, at + 1) \in 0..15 /\ Code[routine][at + 1].cycles \in 1..40
          BY <4>1, Zenon DEF PlaceFits, Fits
        <4>3. HereRoom \in 0..15
          BY HereTyped
        <4>. QED  BY <4>2, <4>3
      <3>2. c <= a + b /\ Ahead' = b /\ HereRoom' = a
        BY <1>2, <1>7, <3>1, Zenon
      <3>3. Remaining' \in Int /\ Remaining' <= c
        BY <1>8, <2>1, <3>1
      <3>. QED  BY <3>1, <3>2, <3>3
    <2>. QED  BY <2>2, <2>3 DEF InTime
  <1>. QED  BY <1>2, <1>7, <1>9, MovedTyped

\* An instruction that does not touch the devices.
LEMMA PlainKept ==
    ASSUME IInv, NoAccess
    PROVE  /\ OnTheWire' /\ DeviceTyped' /\ LinkTyped' /\ KeyTyped' /\ Link!Rest
           /\ UNCHANGED <<shifts_remaining, ticks_to_next_edge, cb1, selected, ca1_flag>>
           /\ UNCHANGED <<in_flight, unread, sd_card_data, output_keyboard, port_b>>
           /\ UNCHANGED <<keyboard_data, due, key>>
           /\ HereOwed' = HereOwed => Fetching'
  <1>1. /\ UNCHANGED <<shift_register, shifts_remaining, ticks_to_next_edge, cb1, sr_flag>>
        /\ UNCHANGED <<miso_shift_data, sd_card_data, output_keyboard, port_b>>
        /\ UNCHANGED <<sub_data_in, sub_data_out, miso, selected>>
        /\ UNCHANGED <<in_flight, offered, unread, ca1_flag, keyboard_data, due, key>>
        /\ taken' = None /\ received' = None
    BY DEF NoAccess, Silent, device_vars, via_vars, port_vars, sub_vars, link_vars, key_vars
  <1>2. DeviceTyped' /\ LinkTyped' /\ KeyTyped'
    BY <1>1, TypeSplit DEF IInv, DeviceTyped, LinkTyped, KeyTyped
  <1>3. OnTheWire'
    BY <1>1, Zenon DEF IInv, OnTheWire, Resting, High, Low, Between, Within, Sent, Gathered,
                       Presents, Holds
  <1>4. HereOwed' = HereOwed => Fetching'
    BY <1>1, Zenon DEF IInv, Fetching
  <1>5. Link!Rest
    BY <1>1, Zenon DEF Link!Rest, Link!Quiet
  <1>. QED  BY <1>1, <1>2, <1>3, <1>4, <1>5

\* The driver's instructions do not change what is known of a key.
LEMMA KeyOnwards ==
    ASSUME KeyDue, routine # "io_irq", routine' = "io_irq" => at' = 1 /\ ca1_flag',
           UNCHANGED <<ca1_flag, keyboard_data, due, key>>
    PROVE  KeyDue'
  <1>1. CASE routine' = "io_irq"
    <2>1. at' <= 12 /\ at' <= 2 /\ at' \notin 9..12
      BY <1>1
    <2>. QED  BY <1>1, <2>1, Zenon DEF KeyDue
  <1>2. CASE routine' # "io_irq"
    BY <1>2, Zenon DEF KeyDue
  <1>. QED  BY <1>1, <1>2

\* Nor do they change port B.
LEMMA PortOnwards ==
    ASSUME PortB, routine # "io_irq", routine' = "io_irq" => at' = 1,
           (Here[1] = "boot" /\ Here[2] <= 2) => (Here'[1] = "boot" /\ Here'[2] <= 2),
           UNCHANGED <<sd_card_data, output_keyboard, port_b>>
    PROVE  PortB'
  <1>1. ~(at' \in 7..10 /\ at' = 1) /\ ~(at' >= 11 /\ at' = 1)
    OBVIOUS
  <1>. QED  BY <1>1, Zenon DEF PortB, CardOnPort, KeyOnPort

\* In the driver: an instruction without access to the devices.
LEMMA PlainStep ==
    ASSUME IInv, routine # "io_irq", NoAccess,
           Working \/ SetMask \/ ClearMask \/ (Completes("wait") /\ Proceed)
    PROVE  IInv' /\ Link!Rest
  <1>. /\ TypeOK /\ Whereabouts /\ InTime /\ OnTheWire /\ Fetching /\ PortB /\ KeyDue
    BY DEF IInv
  <1>1. PICK m \in BOOLEAN : /\ ContinueAt(routine, at + 1, m)
                             /\ Instruction.op = "sei" => m
    <2>1. masked \in BOOLEAN
      BY DEF TypeOK
    <2>. QED  BY <2>1 DEF Working, SetMask, ClearMask, Proceed, Completes
  <1>2. cycles = 0 /\ Instruction.op \in {"work", "sei", "cli", "wait"}
    BY DEF Working, SetMask, ClearMask, Completes
  <1>3. /\ Whereabouts' /\ InTime' /\ CpuTyped' /\ Here' = <<routine, at + 1>>
        /\ HereOwed' = HereOwed
        /\ routine' = "io_irq" => at' = 1 /\ ca1_flag'
    <2>1. routine \in Fetchers => selected'
      BY PlainKept, HereTyped DEF Whereabouts
    <2>2. UNCHANGED <<shifts_remaining, ticks_to_next_edge, cb1>>
      BY PlainKept
    <2>. QED  BY <1>1, <1>2, <2>1, <2>2, Onwards
  <1>4. KeyDue'
    BY <1>3, PlainKept, KeyOnwards
  <1>5. PortB'
    <2>1. (Here[1] = "boot" /\ Here[2] <= 2) => (Here'[1] = "boot" /\ Here'[2] <= 2)
      <3>1. Here[1] = routine /\ Here[2] = at /\ at \in Nat
        BY HereTyped, OpPlaces, Places
      <3>2. Here[1] = "boot" => at # 2
        BY <1>2, <3>1, OpPlaces
      <3>. QED  BY <1>3, <3>1, <3>2
    <2>. QED  BY <1>3, <2>1, PlainKept, PortOnwards
  <1>. QED  BY <1>3, <1>4, <1>5, PlainKept, TypeSplitNext DEF IInv

\* spi_end_command looks at the flag again.
LEMMA WaitStep ==
    ASSUME IInv, routine # "io_irq", ReadIFR
    PROVE  IInv' /\ Link!Rest
  <1>. /\ TypeOK /\ Whereabouts /\ InTime /\ OnTheWire /\ Fetching /\ PortB /\ KeyDue
    BY DEF IInv
  <1>1. Completes("wait") /\ NoAccess
    BY DEF ReadIFR
  <1>2. CASE sr_flag
    BY <1>1, <1>2, PlainStep DEF ReadIFR, Proceed
  <1>3. CASE ~sr_flag
    <2>1. ContinueAt(routine, at, masked)
      BY <1>3 DEF ReadIFR
    <2>2. /\ routine \in Drivers /\ at \in 1..Len(Code[routine])
          /\ Here[1] = routine /\ Here[2] = at /\ Here = <<routine, at>>
          /\ HereRoom = Room(routine, at) /\ HereOwed = Owed(routine, at)
          /\ Fits(routine, Instruction, HereRoom, HereOwed)
      BY OpPlaces, HereTyped DEF HereRoom, HereOwed
    <2>3. HereOwed = 0 /\ HereRoom = 0
      BY <1>1, <2>2 DEF Fits, Completes
    <2>4. ~Closed(routine, at) /\ masked \in BOOLEAN
      BY <2>2, <2>3 DEF Closed, TypeOK
    <2>. routine \in Fetchers => selected'
      BY <1>1, <2>2, PlainKept DEF Whereabouts
    <2>5. /\ Whereabouts' /\ Here' = <<routine, at>>
          /\ Ahead' = Code[routine][at].cycles
          /\ HereRoom' = Room(routine, at) /\ HereOwed' = Owed(routine, at)
          /\ cycles' = Code[routine'][at'].cycles /\ masked' \in BOOLEAN
          /\ routine' = "io_irq" => at' = 1 /\ ca1_flag'
      BY <2>1, <2>2, <2>3, <2>4, DriverMoves
    <2>6. InTime'
      <3>1. Remaining' = Remaining /\ Remaining \in Int
        BY <1>1, PlainKept, RemainingTyped DEF Remaining
      <3>2. Remaining <= 0
        BY <1>1, <2>3, HereTyped DEF InTime, Completes
      <3>3. PICK a \in 1..100 : a = Ahead'
        BY <2>2, <2>5, CyclesTyped DEF Drivers
      <3>4. HereRoom' = 0 /\ HereOwed' = 0
        BY <2>2, <2>3, <2>5, Zenon
      <3>5. HereOwed' # 2
        BY <3>4
      <3>6. Remaining' <= a + 0
        <4>1. Remaining' \in Int /\ Remaining' <= 0
          BY <3>1, <3>2
        <4>2. PICK x \in Int : x = Remaining' /\ x <= 0
          BY <4>1, Zenon
        <4>3. x <= a + 0
          BY <4>2
        <4>. QED  BY <4>2, <4>3, Zenon
      <3>. QED  BY <3>3, <3>4, <3>5, <3>6, Zenon DEF InTime
    <2>7. KeyDue'
      BY <1>1, <2>5, PlainKept, KeyOnwards
    <2>8. PortB'
      BY <1>1, <2>2, <2>5, PlainKept, PortOnwards
    <2>9. CpuTyped'
      BY <2>5, MovedTyped
    <2>. QED  BY <1>1, <2>2, <2>5, <2>6, <2>7, <2>8, <2>9, PlainKept, TypeSplitNext DEF IInv
  <1>. QED  BY <1>2, <1>3

\* What the driver may rely on when an instruction that needs the register to be at
\* rest has taken its ticks.
LEMMA AtRest ==
    ASSUME IInv, routine # "io_irq", cycles = 0, HereRoom = 0
    PROVE  Resting /\ Between /\ Presents(0) /\ in_flight = None /\ HereOwed # 2
  <1>. /\ TypeOK /\ Whereabouts /\ InTime /\ OnTheWire
    BY DEF IInv
  <1>1. Ahead = 0 /\ HereOwed \in 0..2
    BY HereTyped
  <1>2. PICK x \in Int : x = Remaining /\ x <= 0 /\ (HereOwed = 2 => x = 15)
    BY <1>1, RemainingTyped DEF InTime
  <1>3. Remaining <= 0 /\ HereOwed # 2
    BY <1>2
  <1>4. ~(\E n \in 0..7 : High(n))
    BY <1>3 DEF High, Remaining
  <1>5. ~(\E n \in 1..8 : Low(n))
    BY <1>3 DEF Low, Remaining
  <1>6. Resting /\ Between /\ Presents(0)
    BY <1>4, <1>5 DEF OnTheWire
  <1>. QED  BY <1>3, <1>6 DEF Between

\* The driver's read finds the byte that was asked for: nothing has changed port B
\* since it arrived, and it has arrived.
LEMMA ReadFinds ==
    ASSUME IInv, ReadIRB
    PROVE  /\ routine # "io_irq" /\ HereOwed \in 1..2 /\ selected
           /\ unread = <<sd_card_data>> /\ port_b = sd_card_data
           /\ HereOwed = 2 => in_flight # None /\ in_flight.wanted
           /\ HereOwed = 1 => in_flight = None
  <1>. /\ TypeOK /\ Whereabouts /\ InTime /\ OnTheWire /\ Fetching /\ PortB
    BY DEF IInv
  <1>1. cycles = 0 /\ Instruction.op = "read"
    BY DEF ReadIRB, Completes
  <1>2. routine # "io_irq"
    BY <1>1, OpPlaces
  <1>3. Fits(routine, Instruction, HereRoom, HereOwed) /\ HereOwed \in 0..2
    BY <1>2, OpPlaces, HereTyped
  <1>4. /\ HereOwed # 0 /\ (HereOwed = 1 => HereRoom = 0)
        /\ routine \in Fetchers
    BY <1>1, <1>3, Zenon DEF Fits
  <1>5. HereOwed = 1 => in_flight = None
    BY <1>1, <1>2, <1>4, AtRest
  <1>6. HereOwed = 1 => unread = <<sd_card_data>>
    BY <1>5, Zenon DEF Fetching
  <1>7. HereOwed = 2 => in_flight # None /\ in_flight.wanted /\ unread = <<sd_card_data>>
    BY Zenon DEF Fetching
  <1>8. port_b = sd_card_data
    <2>1. Here[1] # "boot"
      BY <1>2, <1>4, HereTyped DEF Fetchers
    <2>. QED  BY <1>2, <2>1, Zenon DEF PortB, CardOnPort
  <1>9. selected
    BY <1>4, OwedSelected
  <1>. QED  BY <1>2, <1>3, <1>4, <1>5, <1>6, <1>7, <1>8, <1>9

\* The read gives the driver the byte and leaves one less to read.
LEMMA ReadStep ==
    ASSUME IInv, ReadIRB
    PROVE  IInv' /\ Link!Read
  <1>. /\ TypeOK /\ Whereabouts /\ InTime /\ OnTheWire /\ Fetching /\ PortB /\ KeyDue
    BY DEF IInv
  <1>1. /\ UNCHANGED <<shift_register, shifts_remaining, ticks_to_next_edge, cb1, sr_flag>>
        /\ UNCHANGED <<miso_shift_data, sd_card_data, output_keyboard, port_b>>
        /\ UNCHANGED <<sub_data_in, sub_data_out, miso, selected>>
        /\ UNCHANGED <<in_flight, offered, ca1_flag, keyboard_data, due, key>>
        /\ taken' = None /\ received' = port_b
        /\ unread' = IF unread = <<>> THEN <<>> ELSE Tail(unread)
        /\ ContinueAt(routine, at + 1, masked)
        /\ cycles = 0 /\ Instruction.op = "read"
    BY DEF ReadIRB, Completes, Proceed, device_vars, via_vars, port_vars, sub_vars, link_vars,
           key_vars
  <1>2. /\ routine # "io_irq" /\ HereOwed \in 1..2 /\ selected
        /\ unread = <<sd_card_data>> /\ port_b = sd_card_data
        /\ HereOwed = 2 => in_flight # None /\ in_flight.wanted
        /\ HereOwed = 1 => in_flight = None
    BY ReadFinds
  <1>3. /\ Whereabouts' /\ InTime' /\ CpuTyped' /\ Here' = <<routine, at + 1>>
        /\ HereOwed' = HereOwed - 1
        /\ routine' = "io_irq" => at' = 1 /\ ca1_flag'
    <2>1. masked \in BOOLEAN
      BY DEF TypeOK
    <2>. QED  BY <1>1, <1>2, <2>1, Onwards
  <1>4. unread # <<>> /\ Head(unread) = sd_card_data /\ Tail(unread) = <<>>
    BY <1>2
  <1>5. unread' = <<>>
    BY <1>1, <1>4
  <1>6. Link!Read
    BY <1>1, <1>2, <1>4, Zenon DEF Link!Read
  <1>7. DeviceTyped' /\ KeyTyped'
    BY <1>1, TypeSplit DEF DeviceTyped, KeyTyped
  <1>8. LinkTyped'
    <2>1. <<>> \in Seq(Byte)
      OBVIOUS
    <2>. QED  BY <1>1, <1>5, <2>1, TypeSplit, TypeParts, Zenon DEF LinkTyped
  <1>9. OnTheWire'
    BY <1>1, Zenon DEF OnTheWire, Resting, High, Low, Between, Within, Sent, Gathered, Presents,
                       Holds
  <1>10. Fetching'
    <2>1. CASE HereOwed = 1
      <3>1. HereOwed' = 0 /\ HereOwed' # 1 /\ HereOwed' # 2
        BY <1>3, <2>1
      <3>. QED  BY <1>1, <1>2, <1>5, <2>1, <3>1, Zenon DEF Fetching
    <2>2. CASE HereOwed = 2
      <3>1. HereOwed' = 1 /\ HereOwed' # 0 /\ HereOwed' # 2
        BY <1>3, <2>2
      <3>. QED  BY <1>1, <1>2, <1>5, <2>2, <3>1, Zenon DEF Fetching
    <2>. QED  BY <1>2, <2>1, <2>2
  <1>11. KeyDue'
    BY <1>1, <1>2, <1>3, KeyOnwards
  <1>12. PortB'
    <2>1. Here[1] # "boot"
      <3>1. Here[1] = routine /\ Fits(routine, Instruction, HereRoom, HereOwed)
        BY <1>2, HereTyped, OpPlaces
      <3>2. HereOwed # 0
        BY <1>2
      <3>3. routine \in Fetchers
        BY <3>1, <3>2, Zenon DEF Fits
      <3>. QED  BY <3>1, <3>3 DEF Fetchers
    <2>. QED  BY <1>1, <1>2, <1>3, <2>1, PortOnwards
  <1>. QED  BY <1>3, <1>6, <1>7, <1>8, <1>9, <1>10, <1>11, <1>12, TypeSplitNext DEF IInv

\* A load finds the register at rest and leaves it with a whole byte to go.
LEMMA LoadStarts ==
    ASSUME IInv, LoadSR
    PROVE  /\ OnTheWire' /\ Remaining' = 19 /\ DeviceTyped' /\ LinkTyped' /\ KeyTyped' /\ Link!Load
           /\ routine # "io_irq" /\ HereOwed # 2 /\ in_flight = None
           /\ in_flight' # None /\ in_flight'.wanted = Instruction.wanted
           /\ UNCHANGED <<sd_card_data, output_keyboard, port_b, unread, selected>>
           /\ UNCHANGED <<ca1_flag, keyboard_data, due, key>>
  <1>. /\ TypeOK /\ Whereabouts /\ InTime /\ OnTheWire
    BY DEF IInv
  <1>1. /\ shift_register' = Instruction.byte /\ sr_flag' = FALSE
        /\ shifts_remaining' = 8 /\ ticks_to_next_edge' = 4
        /\ in_flight' = [byte |-> Instruction.byte, wanted |-> Instruction.wanted]
        /\ taken' = None /\ received' = None
        /\ UNCHANGED <<sd_card_data, output_keyboard, port_b>>
        /\ UNCHANGED <<sub_data_in, sub_data_out, miso, selected>>
        /\ UNCHANGED <<cb1, miso_shift_data, ca1_flag, keyboard_data, due, key, offered, unread>>
        /\ cycles = 0 /\ Instruction.op = "load"
    BY DEF LoadSR, Completes, Silent, port_vars, sub_vars, key_vars
  <1>2. routine # "io_irq"
    BY <1>1, OpPlaces
  <1>3. /\ HereRoom = 0 /\ Instruction.byte \in Byte
        /\ Instruction.wanted = TRUE \/ Instruction.wanted = FALSE
    <2>1. Fits(routine, Instruction, HereRoom, HereOwed)
      BY <1>2, OpPlaces
    <2>. QED  BY <2>1, <1>1, Zenon DEF Fits
  <1>4. Resting /\ Between /\ Presents(0) /\ in_flight = None /\ HereOwed # 2
    BY <1>1, <1>2, <1>3, AtRest
  <1>5. Remaining' = 19
    BY <1>1, <1>4 DEF Remaining, Resting
  <1>6. in_flight' \in [byte : Byte, wanted : BOOLEAN]
    BY <1>1, <1>3
  <1>7. in_flight' # None
    BY <1>6, NoneIsNoByte
  <1>8. OnTheWire'
    <2>1. High(0)'
      BY <1>1, <1>4 DEF High, Resting
    <2>2. Presents(0)'
      BY <1>1, <1>4, Zenon DEF Presents
    <2>3. Within(0)'
      BY <1>1, <1>4, <1>7 DEF Within, Sent, Gathered, Between
    <2>. QED  BY <2>1, <2>2, <2>3 DEF OnTheWire
  <1>9. DeviceTyped' /\ KeyTyped'
    <2>0. shifts_remaining' = 8 /\ ticks_to_next_edge' = 4 /\ sr_flag' = FALSE
      BY <1>1
    <2>1. shifts_remaining' \in 0..8 /\ ticks_to_next_edge' \in 0..4 /\ sr_flag' \in BOOLEAN
      <3>1. shifts_remaining' \in 0..8 /\ ticks_to_next_edge' \in 0..4
        BY <2>0
      <3>2. sr_flag' \in BOOLEAN
        BY <2>0, Zenon
      <3>. QED  BY <3>1, <3>2
    <2>2. shift_register' \in Byte
      BY <1>1, <1>3
    <2>3. DeviceTyped'
      BY <1>1, <2>1, <2>2, TypeSplit, Zenon DEF DeviceTyped
    <2>4. KeyTyped'
      BY <1>1, TypeSplit, Zenon DEF KeyTyped
    <2>. QED  BY <2>3, <2>4
  <1>10. LinkTyped'
    BY <1>1, <1>6, TypeSplit, Zenon DEF LinkTyped
  <1>11. Link!Load
    BY <1>1, <1>4, <1>6, Zenon DEF Link!Load, Link!Quiet
  <1>12. in_flight'.wanted = Instruction.wanted
    BY <1>1
  <1>. QED  BY <1>1, <1>2, <1>4, <1>5, <1>7, <1>8, <1>9, <1>10, <1>11, <1>12

\* The load leaves the driver time to the next access, and with two bytes owed no interrupt
\* may come between.
LEMMA LoadStep ==
    ASSUME IInv, LoadSR
    PROVE  IInv' /\ Link!Load
  <1>. /\ TypeOK /\ Whereabouts /\ InTime /\ OnTheWire /\ Fetching /\ PortB /\ KeyDue
    BY DEF IInv
  <1>1. /\ OnTheWire' /\ Remaining' = 19 /\ DeviceTyped' /\ LinkTyped' /\ KeyTyped' /\ Link!Load
        /\ routine # "io_irq" /\ HereOwed # 2 /\ in_flight = None
        /\ in_flight' # None /\ in_flight'.wanted = Instruction.wanted
        /\ UNCHANGED <<sd_card_data, output_keyboard, port_b, unread, selected>>
        /\ UNCHANGED <<ca1_flag, keyboard_data, due, key>>
    BY LoadStarts
  <1>2. Instruction.op = "load" /\ ContinueAt(routine, at + 1, masked) /\ masked \in BOOLEAN
    BY DEF LoadSR, Completes, Proceed, TypeOK
  <1>3. /\ routine \in Drivers /\ at \in 1..Len(Code[routine]) /\ at + 1 \in 1..Len(Code[routine])
        /\ Fits(routine, Instruction, HereRoom, HereOwed)
        /\ PlaceFollows(routine, at) /\ PlaceFits(routine, at + 1)
        /\ HereRoom = Room(routine, at) /\ HereOwed = Owed(routine, at)
        /\ Here[1] = routine /\ Here[2] = at
    BY <1>1, <1>2, OpPlaces, HereTyped, Places DEF HereRoom, HereOwed
  <1>4. /\ HereOwed = 0 \/ HereOwed = 1
        /\ HereOwed = 1 => Instruction.wanted
        /\ Instruction.wanted = TRUE \/ Instruction.wanted = FALSE
    <2>1. HereOwed \in 0..2
      BY HereTyped
    <2>2. HereOwed = 0 \/ HereOwed = 1
      BY <2>1, <1>1
    <2>. QED  BY <2>2, <1>2, <1>3, Zenon DEF Fits
  <1>5. /\ 19 <= Room(routine, at + 1) + Code[routine][at + 1].cycles
        /\ ~Instruction.wanted => Owed(routine, at + 1) = HereOwed
        /\ Instruction.wanted => Owed(routine, at + 1) = HereOwed + 1
        /\ ~(Code[routine][at + 1].op = "load" /\ Owed(routine, at + 1) = 1)
    BY <1>2, <1>3, <1>4 DEF PlaceFollows, Follows, Instruction
  <1>6. /\ Code[routine][at + 1].cycles \in 1..40 /\ Room(routine, at + 1) \in 0..15
        /\ Owed(routine, at + 1) = 2 => /\ Room(routine, at + 1) = 15
                                        /\ Code[routine][at + 1].cycles = 4
    BY <1>3, Zenon DEF PlaceFits, Fits
  <1>7. Closed(routine, at + 1) => masked
    <2>1. CASE HereOwed = 0
      <3>1. Owed(routine, at + 1) # 0 => Owed(routine, at + 1) = 1
        BY <1>4, <1>5, <2>1
      <3>2. Owed(routine, at + 1) # 2
        BY <1>4, <1>5, <2>1
      <3>. QED  BY <1>5, <3>1, <3>2, Zenon DEF Closed
    <2>2. CASE HereOwed = 1
      <3>1. Owed(routine, at) # 0 /\ Code[routine][at].op = "load"
        BY <1>2, <1>3, <2>2 DEF Instruction
      <3>2. Closed(Here[1], Here[2])
        BY <1>3, <3>1, Zenon DEF Closed
      <3>. QED  BY <3>2, Zenon DEF Whereabouts
    <2>. QED  BY <1>4, <2>1, <2>2
  <1>8. /\ Whereabouts' /\ Here' = <<routine, at + 1>>
        /\ Ahead' = Code[routine][at + 1].cycles
        /\ HereRoom' = Room(routine, at + 1) /\ HereOwed' = Owed(routine, at + 1)
        /\ cycles' = Code[routine'][at'].cycles /\ masked' \in BOOLEAN
        /\ routine' = "io_irq" => at' = 1 /\ ca1_flag'
    <2>1. routine \in Fetchers => selected'
      BY <1>1, <1>3 DEF Whereabouts
    <2>2. routine \in Drivers /\ at + 1 \in 1..Len(Code[routine])
      BY <1>3
    <2>3. ContinueAt(routine, at + 1, masked) /\ masked \in BOOLEAN
      BY <1>2
    <2>4. routine # "io_irq"
      BY <1>1
    <2>. QED  BY <1>7, <2>1, <2>2, <2>3, <2>4, DriverMoves
  <1>9. InTime'
    <2>1. PICK a \in Int, b \in Int : a = Room(routine, at + 1) /\ b = Code[routine][at + 1].cycles
      BY <1>6
    <2>2. 19 <= b + a /\ (Owed(routine, at + 1) = 2 => 19 = b + 15)
      <3>1. 19 <= a + b
        BY <1>5, <2>1, Zenon
      <3>2. Owed(routine, at + 1) = 2 => b = 4
        BY <1>6, <2>1, Zenon
      <3>. QED  BY <2>1, <3>1, <3>2
    <2>3. Ahead' = b /\ HereRoom' = a
      BY <1>8, <2>1, Zenon
    <2>. QED  BY <1>1, <1>8, <2>2, <2>3, Zenon DEF InTime
  <1>10. Fetching'
    <2>1. CASE ~Instruction.wanted
      <3>1. HereOwed = 0
        BY <1>4, <2>1, Zenon
      <3>2. HereOwed' = 0 /\ HereOwed' # 1 /\ HereOwed' # 2
        BY <1>5, <1>8, <2>1, <3>1
      <3>. QED  BY <1>1, <2>1, <3>1, <3>2, Zenon DEF Fetching
    <2>2. CASE Instruction.wanted /\ HereOwed = 0
      <3>1. HereOwed' = 1 /\ HereOwed' # 0 /\ HereOwed' # 2
        BY <1>5, <1>8, <2>2
      <3>. QED  BY <1>1, <2>2, <3>1, Zenon DEF Fetching
    <2>3. CASE Instruction.wanted /\ HereOwed = 1
      <3>1. HereOwed' = 2 /\ HereOwed' # 0 /\ HereOwed' # 1
        BY <1>5, <1>8, <2>3
      <3>. QED  BY <1>1, <2>3, <3>1, Zenon DEF Fetching
    <2>. QED  BY <1>4, <2>1, <2>2, <2>3, Zenon
  <1>11. KeyDue'
    BY <1>1, <1>8, KeyOnwards
  <1>12. PortB'
    <2>1. ~(Here[1] = "boot" /\ Here[2] <= 2)
      <3>1. at \in Nat
        BY <1>3, Places
      <3>2. routine = "boot" => at # 1 /\ at # 2
        BY <1>1, <1>2, OpPlaces
      <3>3. at # 0
        BY <1>3, Places
      <3>. QED  BY <1>3, <3>1, <3>2, <3>3
    <2>. QED  BY <1>1, <1>8, <2>1, PortOnwards
  <1>13. CpuTyped'
    BY <1>8, MovedTyped
  <1>. QED  BY <1>1, <1>8, <1>9, <1>10, <1>11, <1>12, <1>13, TypeSplitNext DEF IInv

\* The instructions of the driver that come after the first ones of the start.
LEMMA Started ==
    ASSUME TypeOK, Whereabouts, routine # "io_irq", Instruction.op \notin {"work", "card"}
    PROVE  ~(Here[1] = "boot" /\ Here[2] <= 2)
  <1>1. Here[1] = routine /\ Here[2] = at /\ at \in Nat /\ at # 0
    BY HereTyped, OpPlaces, Places
  <1>2. routine = "boot" => at # 1 /\ at # 2
    BY OpPlaces
  <1>. QED  BY <1>1, <1>2

\* The chip select moves while nothing is being shifted.
LEMMA SelectStep ==
    ASSUME IInv, WritePCR
    PROVE  IInv' /\ (Link!Select \/ Link!Rest)
  <1>. /\ TypeOK /\ Whereabouts /\ InTime /\ OnTheWire /\ Fetching /\ PortB /\ KeyDue
    BY DEF IInv
  <1>1. PICK low \in BOOLEAN : ChipSelect(low)
    BY DEF WritePCR
  <1>2. /\ UNCHANGED <<shift_register, shifts_remaining, ticks_to_next_edge, cb1, sr_flag>>
        /\ UNCHANGED <<miso_shift_data, sd_card_data, output_keyboard, port_b>>
        /\ UNCHANGED <<in_flight, unread, ca1_flag, keyboard_data, due, key>>
        /\ taken' = None /\ received' = None
        /\ cycles = 0 /\ Instruction.op \in {"select", "deselect"}
        /\ ContinueAt(routine, at + 1, masked) /\ masked \in BOOLEAN
    BY DEF WritePCR, Completes, Silent, Proceed, via_vars, port_vars, key_vars, TypeOK
  <1>3. routine # "io_irq"
    BY <1>2, OpPlaces
  <1>4. HereRoom = 0 /\ HereOwed = 0 /\ routine \notin Fetchers
    <2>1. Fits(routine, Instruction, HereRoom, HereOwed)
      BY <1>3, OpPlaces
    <2>2. Instruction.op \notin {"work", "load", "read", "sei", "cli"}
      BY <1>2
    <2>3. HereRoom = 0 /\ HereOwed = 0 /\ routine \in {"boot", "start", "end"}
      BY <1>2, <2>1, <2>2, Zenon DEF Fits
    <2>. QED  BY <2>3 DEF Fetchers
  <1>5. Resting /\ Between /\ Presents(0) /\ in_flight = None
    BY <1>2, <1>3, <1>4, AtRest
  <1>6. ASSUME low = selected
        PROVE  (Link!Select \/ Link!Rest) /\ OnTheWire' /\ DeviceTyped' /\ LinkTyped'
    <2>1. UNCHANGED <<sub_data_in, sub_data_out, miso, selected, offered>>
      BY <1>1, <1>6 DEF ChipSelect, sub_vars
    <2>2. Link!Rest
      BY <1>2, <2>1, Zenon DEF Link!Rest, Link!Quiet
    <2>3. OnTheWire' /\ DeviceTyped' /\ LinkTyped'
      <3>1. Resting' /\ Between' /\ Presents(0)'
        BY <1>2, <1>5, <2>1, Zenon DEF Resting, Between, Presents
      <3>2. DeviceTyped' /\ LinkTyped'
        BY <1>2, <2>1, TypeSplit, Zenon DEF DeviceTyped, LinkTyped
      <3>. QED  BY <3>1, <3>2 DEF OnTheWire
    <2>. QED  BY <2>2, <2>3
  <1>7. ASSUME low # selected
        PROVE  (Link!Select \/ Link!Rest) /\ OnTheWire' /\ DeviceTyped' /\ LinkTyped'
    <2>1. /\ selected' = low /\ sub_data_in' = <<>> /\ sub_data_out' = Ones /\ miso' = 1
          /\ offered' = Ones
      BY <1>1, <1>7, Zenon DEF ChipSelect
    <2>2. selected' = ~selected
      <3>1. selected \in BOOLEAN
        BY DEF TypeOK
      <3>. QED  BY <1>7, <2>1, <3>1
    <2>3. Link!Select
      BY <1>2, <1>5, <2>1, <2>2, Zenon DEF Link!Select, Link!Quiet
    <2>4. OnTheWire'
      <3>1. Resting'
        BY <1>2, <1>5, Zenon DEF Resting
      <3>2. Len(sub_data_in') = 0
        BY <2>1
      <3>3. Between'
        BY <1>2, <1>5, <3>2, Zenon DEF Between
      <3>4. Presents(0)'
        BY <2>1 DEF Presents, Ones
      <3>. QED  BY <3>1, <3>3, <3>4 DEF OnTheWire
    <2>5. DeviceTyped'
      <3>1. sub_data_in' \in Seq({0, 1}) /\ Len(sub_data_in') < 8 /\ miso' \in {0, 1}
        BY <2>1
      <3>2. sub_data_out' \in Byte /\ selected' \in BOOLEAN
        BY <2>1, OnesZeros
      <3>. QED  BY <1>2, <3>1, <3>2, TypeSplit, Zenon DEF DeviceTyped
    <2>6. LinkTyped'
      BY <1>2, <2>1, OnesZeros, TypeSplit, Zenon DEF LinkTyped
    <2>. QED  BY <2>3, <2>4, <2>5, <2>6
  <1>8. (Link!Select \/ Link!Rest) /\ OnTheWire' /\ DeviceTyped' /\ LinkTyped'
    BY <1>6, <1>7
  <1>9. /\ Whereabouts' /\ InTime' /\ CpuTyped' /\ Here' = <<routine, at + 1>>
        /\ HereOwed' = HereOwed
        /\ routine' = "io_irq" => at' = 1 /\ ca1_flag'
    BY <1>2, <1>3, <1>4, Onwards
  <1>10. Fetching'
    BY <1>2, <1>9, Zenon DEF Fetching
  <1>11. KeyTyped' /\ KeyDue'
    <2>1. KeyTyped'
      BY <1>2, TypeSplit, Zenon DEF KeyTyped
    <2>. QED  BY <1>2, <1>3, <1>9, <2>1, KeyOnwards
  <1>12. PortB'
    <2>1. ~(Here[1] = "boot" /\ Here[2] <= 2)
      BY <1>2, <1>3, Started
    <2>. QED  BY <1>2, <1>3, <1>9, <2>1, PortOnwards
  <1>. QED  BY <1>8, <1>9, <1>10, <1>11, <1>12, TypeSplitNext DEF IInv

\* The clock is high already.
LEMMA ModeStep ==
    ASSUME IInv, WriteACR
    PROVE  IInv' /\ Link!Rest
  <1>. /\ TypeOK /\ Whereabouts /\ InTime /\ OnTheWire /\ Fetching /\ PortB /\ KeyDue
    BY DEF IInv
  <1>1. /\ UNCHANGED <<shift_register, shifts_remaining, ticks_to_next_edge, sr_flag>>
        /\ UNCHANGED <<miso_shift_data, sd_card_data, output_keyboard, port_b>>
        /\ UNCHANGED <<sub_data_in, sub_data_out, miso, selected>>
        /\ UNCHANGED <<in_flight, unread, offered, ca1_flag, keyboard_data, due, key>>
        /\ taken' = None /\ received' = None /\ cb1' = 1
        /\ cycles = 0 /\ Instruction.op = "output_mode"
        /\ ContinueAt(routine, at + 1, masked) /\ masked \in BOOLEAN
    BY DEF WriteACR, Completes, Silent, Proceed, port_vars, sub_vars, key_vars, link_vars, TypeOK
  <1>2. routine # "io_irq"
    BY <1>1, OpPlaces
  <1>3. HereRoom = 0
    <2>1. Fits(routine, Instruction, HereRoom, HereOwed)
      BY <1>2, OpPlaces
    <2>. QED  BY <1>1, <2>1, Zenon DEF Fits
  <1>4. cb1' = cb1
    BY <1>1, <1>2, <1>3, AtRest DEF Resting
  <1>5. /\ Whereabouts' /\ InTime' /\ CpuTyped' /\ Here' = <<routine, at + 1>>
        /\ HereOwed' = HereOwed
        /\ routine' = "io_irq" => at' = 1 /\ ca1_flag'
    <2>1. routine \in Fetchers => selected'
      BY <1>1, <1>2, HereTyped DEF Whereabouts
    <2>. QED  BY <1>1, <1>2, <1>4, <2>1, Onwards
  <1>6. OnTheWire' /\ DeviceTyped' /\ LinkTyped' /\ KeyTyped' /\ Fetching' /\ Link!Rest
    <2>1. OnTheWire'
      BY <1>1, <1>4, Zenon DEF OnTheWire, Resting, High, Low, Between, Within, Sent, Gathered,
                               Presents, Holds
    <2>2. DeviceTyped' /\ LinkTyped' /\ KeyTyped'
      BY <1>1, <1>4, TypeSplit, Zenon DEF DeviceTyped, LinkTyped, KeyTyped
    <2>3. Fetching'
      BY <1>1, <1>5, Zenon DEF Fetching
    <2>4. Link!Rest
      BY <1>1, Zenon DEF Link!Rest, Link!Quiet
    <2>. QED  BY <2>1, <2>2, <2>3, <2>4
  <1>7. KeyDue'
    BY <1>1, <1>2, <1>5, KeyOnwards
  <1>8. PortB'
    <2>1. ~(Here[1] = "boot" /\ Here[2] <= 2)
      BY <1>1, <1>2, Started
    <2>. QED  BY <1>1, <1>2, <1>5, <2>1, PortOnwards
  <1>. QED  BY <1>5, <1>6, <1>7, <1>8, TypeSplitNext DEF IInv

\* io_init gives port B to the card.
LEMMA InitPortStep ==
    ASSUME IInv, WriteORA, routine # "io_irq"
    PROVE  IInv' /\ Link!Rest
  <1>. /\ TypeOK /\ Whereabouts /\ InTime /\ OnTheWire /\ Fetching /\ PortB /\ KeyDue
    BY DEF IInv
  <1>1. /\ cycles = 0 /\ Instruction.op = "card" /\ routine = "boot" /\ at = 2
        /\ HereOwed = 0
    <2>1. cycles = 0 /\ Instruction.op \in {"keyboard", "card"}
      BY DEF WriteORA, Completes
    <2>2. Fits(routine, Instruction, HereRoom, HereOwed)
      BY OpPlaces
    <2>3. Instruction.op # "keyboard"
      BY <2>2 DEF Fits
    <2>4. HereOwed = 0
      BY <2>1, <2>2, <2>3 DEF Fits
    <2>. QED  BY <2>1, <2>3, <2>4, OpPlaces
  <1>2. /\ output_keyboard' = FALSE /\ port_b' = sd_card_data
        /\ ca1_flag' = FALSE /\ due' = None
        /\ UNCHANGED <<shift_register, shifts_remaining, ticks_to_next_edge, cb1, sr_flag>>
        /\ UNCHANGED <<miso_shift_data, sd_card_data>>
        /\ UNCHANGED <<sub_data_in, sub_data_out, miso, selected>>
        /\ UNCHANGED <<in_flight, unread, offered, keyboard_data, key>>
        /\ taken' = None /\ received' = None
        /\ ContinueAt(routine, at + 1, masked) /\ masked \in BOOLEAN
    BY <1>1 DEF WriteORA, Completes, Silent, Proceed, via_vars, sub_vars, link_vars, TypeOK
  <1>3. /\ Whereabouts' /\ InTime' /\ CpuTyped' /\ Here' = <<routine, at + 1>>
        /\ HereOwed' = HereOwed
        /\ routine' # "io_irq"
    <2>1. routine \in Fetchers => selected'
      BY <1>1 DEF Fetchers
    <2>. QED  BY <1>1, <1>2, <2>1, Onwards
  <1>4. OnTheWire' /\ DeviceTyped' /\ LinkTyped' /\ KeyTyped' /\ Fetching' /\ Link!Rest
    <2>1. OnTheWire'
      BY <1>2, Zenon DEF OnTheWire, Resting, High, Low, Between, Within, Sent, Gathered,
                         Presents, Holds
    <2>2. DeviceTyped'
      <3>1. port_b' \in Byte /\ output_keyboard' \in BOOLEAN
        BY <1>2, TypeParts, Zenon
      <3>. QED  BY <1>2, <3>1, TypeSplit, Zenon DEF DeviceTyped
    <2>3. LinkTyped' /\ KeyTyped'
      <3>1. ca1_flag' \in BOOLEAN /\ due' \in Byte \cup {None}
        BY <1>2, Zenon
      <3>. QED  BY <1>2, <3>1, TypeSplit, Zenon DEF LinkTyped, KeyTyped
    <2>4. Fetching'
      BY <1>2, <1>3, Zenon DEF Fetching
    <2>5. Link!Rest
      BY <1>2, Zenon DEF Link!Rest, Link!Quiet
    <2>. QED  BY <2>1, <2>2, <2>3, <2>4, <2>5
  <1>5. KeyDue'
    BY <1>1, <1>2, <1>3, Zenon DEF KeyDue
  <1>6. PortB'
    BY <1>2, <1>3, Zenon DEF PortB, CardOnPort
  <1>. QED  BY <1>3, <1>4, <1>5, <1>6, TypeSplitNext DEF IInv

\* Where one routine returns and the next is called, what the register still needs fits
\* into the next one's first instructions.
LEMMA ReturnStep ==
    ASSUME IInv, Return
    PROVE  IInv' /\ Link!Rest
  <1>. /\ TypeOK /\ Whereabouts /\ InTime /\ OnTheWire /\ Fetching /\ PortB /\ KeyDue
    BY DEF IInv
  <1>1. cycles = 0 /\ Instruction.op = "rts" /\ NoAccess /\ masked \in BOOLEAN
    BY DEF Return, Completes, TypeOK
  <1>2. PICK next \in Routines : MayFollow(next) /\ ContinueAt(next, 1, masked)
    BY DEF Return
  <1>3. routine # "io_irq"
    BY <1>1, OpPlaces
  <1>4. /\ HereOwed = 0 /\ HereRoom \in 0..14
        /\ routine \in {"get_r1", "receive"} => HereRoom = 0
    <2>1. Fits(routine, Instruction, HereRoom, HereOwed)
      BY <1>3, OpPlaces
    <2>2. HereOwed = 0 /\ HereRoom \in 0..15 /\ HereRoom <= 14
      BY <1>1, <2>1 DEF Fits
    <2>3. routine \in {"get_r1", "receive"} => HereRoom = 0
      BY <1>1, <2>1, Zenon DEF Fits
    <2>. QED  BY <2>2, <2>3
  <1>5. /\ next \in Drivers /\ next # "boot"
        /\ next \in {"receive", "block"} => routine \in {"get_r1", "receive"}
        /\ next = "get_r1" => selected
    BY <1>2 DEF MayFollow, Drivers
  <1>6. /\ Owed(next, 1) = 0 /\ 1 \in 1..Len(Code[next])
        /\ next \notin {"receive", "block"} => 14 <= Room(next, 1) + Code[next][1].cycles
        /\ PlaceFits(next, 1)
    BY <1>5, Entries, Places
  <1>7. Code[next][1].cycles \in 1..40 /\ Room(next, 1) \in 0..15
    BY <1>6, Zenon DEF PlaceFits, Fits
  <1>8. next \in Fetchers => selected'
    <2>1. routine \in {"get_r1", "receive"} => selected
      BY <1>3, HereTyped DEF Whereabouts, Fetchers
    <2>2. selected' = selected
      BY <1>1, PlainKept
    <2>. QED  BY <1>5, <2>1, <2>2 DEF Fetchers
  <1>9. /\ Whereabouts' /\ Here' = <<next, 1>>
        /\ Ahead' = Code[next][1].cycles
        /\ HereRoom' = Room(next, 1) /\ HereOwed' = Owed(next, 1)
        /\ cycles' = Code[routine'][at'].cycles /\ masked' \in BOOLEAN
        /\ routine' = "io_irq" => at' = 1 /\ ca1_flag'
    <2>1. ~Closed(next, 1)
      BY <1>6 DEF Closed
    <2>2. next # "io_irq"
      BY <1>5 DEF Drivers
    <2>. QED  BY <1>1, <1>2, <1>5, <1>6, <1>8, <2>1, <2>2, DriverMoves
  <1>10. InTime'
    <2>1. PICK a \in 0..15, b \in 1..40, c \in 0..14 :
             a = Room(next, 1) /\ b = Code[next][1].cycles /\ c = HereRoom
      BY <1>4, <1>7
    <2>2. Remaining <= HereRoom
      BY <1>1, <1>3, <1>4, HereTyped DEF InTime
    <2>3. PICK x \in Int : x = Remaining /\ x <= c
      BY <2>1, <2>2, RemainingTyped
    <2>4. x <= b + a
      <3>1. CASE next \in {"receive", "block"}
        <4>1. c = 0
          BY <1>4, <1>5, <2>1, <3>1, Zenon
        <4>. QED  BY <2>3, <4>1
      <3>2. CASE next \notin {"receive", "block"}
        <4>1. 14 <= a + b
          BY <1>6, <2>1, <3>2, Zenon
        <4>. QED  BY <2>3, <4>1
      <3>. QED  BY <3>1, <3>2
    <2>5. Remaining' = x
      BY <1>1, <2>3, PlainKept DEF Remaining
    <2>6. HereOwed' # 2
      BY <1>6, <1>9
    <2>7. Ahead' = b /\ HereRoom' = a
      BY <1>9, <2>1, Zenon
    <2>. QED  BY <2>4, <2>5, <2>6, <2>7, Zenon DEF InTime
  <1>11. KeyDue'
    BY <1>1, <1>3, <1>9, PlainKept, KeyOnwards
  <1>12. PortB'
    <2>1. ~(Here[1] = "boot" /\ Here[2] <= 2)
      BY <1>1, <1>3, Started
    <2>. QED  BY <1>1, <1>3, <1>9, <2>1, PlainKept, PortOnwards
  <1>13. CpuTyped'
    BY <1>9, MovedTyped
  <1>14. HereOwed' = HereOwed
    BY <1>4, <1>6, <1>9, Zenon
  <1>. QED  BY <1>1, <1>9, <1>10, <1>11, <1>12, <1>13, <1>14, PlainKept, TypeSplitNext DEF IInv

\* The interrupt routine leaves the bytes of the card and the place of the driver alone.
LEMMA IrqKept ==
    ASSUME IInv, routine = "io_irq", at # 14, ContinueAt(routine, at + 1, masked),
           UNCHANGED <<shift_register, shifts_remaining, ticks_to_next_edge, cb1>>,
           UNCHANGED <<miso_shift_data, sd_card_data>>,
           UNCHANGED <<sub_data_in, sub_data_out, miso, selected>>,
           UNCHANGED <<in_flight, offered, unread>>, taken' = None, received' = None
    PROVE  /\ Whereabouts' /\ InTime' /\ OnTheWire' /\ Fetching' /\ CpuTyped' /\ LinkTyped'
           /\ Link!Rest
           /\ routine' = "io_irq" /\ at' = at + 1 /\ Here' = Here
  <1>. /\ TypeOK /\ Whereabouts /\ InTime /\ OnTheWire /\ Fetching
    BY DEF IInv
  <1>1. /\ Whereabouts' /\ Here' = Here /\ Ahead' = Ahead
        /\ HereRoom' = HereRoom /\ HereOwed' = HereOwed
        /\ cycles' = Code[routine'][at'].cycles /\ masked' \in BOOLEAN
        /\ routine' = "io_irq" /\ at' = at + 1
    BY IrqMoves
  <1>2. InTime'
    <2>1. Remaining' = Remaining
      BY Zenon DEF Remaining
    <2>. QED  BY <1>1, <2>1, Zenon DEF InTime
  <1>3. OnTheWire'
    BY Zenon DEF OnTheWire, Resting, High, Low, Between, Within, Sent, Gathered, Presents, Holds
  <1>4. Fetching'
    BY <1>1, Zenon DEF Fetching
  <1>5. LinkTyped'
    BY TypeSplit, Zenon DEF LinkTyped
  <1>6. Link!Rest
    BY Zenon DEF Link!Rest, Link!Quiet
  <1>. QED  BY <1>1, <1>2, <1>3, <1>4, <1>5, <1>6, MovedTyped

\* The keyboard is on port B from the seventh instruction to the tenth; the key is in
\* register B from the ninth to the twelfth.
LEMMA IrqPort ==
    ASSUME NEW n \in 2..14, routine' = "io_irq", at' = n, Here' = Here,
           n <= 6 => (~(Here[1] = "boot" /\ Here[2] <= 2) => CardOnPort'),
           n \in 7..10 => KeyOnPort', n >= 11 => CardOnPort'
    PROVE  PortB'
  BY Zenon DEF PortB

LEMMA IrqKey ==
    ASSUME NEW n \in 2..14, routine' = "io_irq", at' = n,
           n \in 9..12 => key' = due', n \notin 9..12 => key' = None,
           n <= 12 => due' # None, n > 12 => due' = None,
           n > 2 => ~ca1_flag', due' # None => due' = keyboard_data'
    PROVE  KeyDue'
  <1>1. (due' # None <=> at' <= 12) /\ (ca1_flag' => at' <= 2)
    BY SMT
  <1>2. ca1_flag' => due' # None
    BY <1>1
  <1>. QED  BY <1>1, <1>2, Zenon DEF KeyDue

\* The interrupt routine step by step: it polls, clears the flag, reads ORA, ...
LEMMA IrqWorkStep ==
    ASSUME IInv, Working, routine = "io_irq"
    PROVE  IInv' /\ Link!Rest
  <1>. /\ TypeOK /\ Whereabouts /\ PortB /\ KeyDue
    BY DEF IInv
  <1>1. NoAccess /\ ContinueAt(routine, at + 1, masked) /\ at \in {1, 3, 5, 7, 9, 11, 13}
    BY OpPlaces DEF Working, Completes, Proceed
  <1>2. /\ UNCHANGED <<shift_register, shifts_remaining, ticks_to_next_edge, cb1>>
        /\ UNCHANGED <<miso_shift_data, sd_card_data, output_keyboard, port_b>>
        /\ UNCHANGED <<sub_data_in, sub_data_out, miso, selected>>
        /\ UNCHANGED <<in_flight, offered, unread, ca1_flag, keyboard_data, due, key>>
        /\ taken' = None /\ received' = None
    BY <1>1 DEF NoAccess, Silent, device_vars, via_vars, port_vars, sub_vars, link_vars, key_vars
  <1>3. /\ Whereabouts' /\ InTime' /\ OnTheWire' /\ Fetching' /\ CpuTyped' /\ LinkTyped'
        /\ Link!Rest
        /\ routine' = "io_irq" /\ at' = at + 1 /\ Here' = Here
    <2>1. at # 14
      BY <1>1
    <2>. QED  BY <1>1, <1>2, <2>1, IrqKept
  <1>4. DeviceTyped' /\ KeyTyped'
    BY <1>1, PlainKept
  <1>5. /\ at \in 7..10 <=> at + 1 \in 7..10
        /\ at >= 11 <=> at + 1 >= 11
        /\ at + 1 <= 6 => at <= 6
        /\ at \in 9..12 <=> at + 1 \in 9..12
        /\ at <= 12 <=> at + 1 <= 12
        /\ at <= 2 => at + 1 <= 2
    BY <1>1
  <1>6. KeyDue'
    BY <1>2, <1>3, <1>5, Zenon DEF KeyDue
  <1>7. PortB'
    BY <1>2, <1>3, <1>5, Zenon DEF PortB, CardOnPort, KeyOnPort
  <1>. QED  BY <1>3, <1>4, <1>6, <1>7, TypeSplitNext DEF IInv

LEMMA ClearStep ==
    ASSUME IInv, WriteIFR
    PROVE  IInv' /\ Link!Rest
  <1>. /\ TypeOK /\ Whereabouts /\ PortB /\ KeyDue
    BY DEF IInv
  <1>0. routine = "io_irq" /\ at = 2 /\ Instruction.flags = {"CA1"}
    <2>1. routine = "io_irq"
      <3>1. CASE routine # "io_irq"
        <4>1. Fits(routine, Instruction, HereRoom, HereOwed)
          BY <3>1, OpPlaces
        <4>. QED  BY <4>1 DEF Fits, WriteIFR, Completes
      <3>. QED  BY <3>1
    <2>. QED  BY <2>1, OpPlaces DEF WriteIFR, Completes
  <1>1. ContinueAt(routine, at + 1, masked)
    BY DEF WriteIFR, Proceed
  <1>2. /\ UNCHANGED <<shift_register, shifts_remaining, ticks_to_next_edge, cb1>>
        /\ UNCHANGED <<miso_shift_data, sd_card_data, output_keyboard, port_b>>
        /\ UNCHANGED <<sub_data_in, sub_data_out, miso, selected>>
        /\ UNCHANGED <<in_flight, offered, unread, keyboard_data, due, key>>
        /\ taken' = None /\ received' = None
        /\ ca1_flag' = (ca1_flag /\ "CA1" \notin Instruction.flags)
        /\ sr_flag' = (sr_flag /\ "SR" \notin Instruction.flags)
    BY DEF WriteIFR, Silent, port_vars, sub_vars, link_vars
  <1>3. /\ Whereabouts' /\ InTime' /\ OnTheWire' /\ Fetching' /\ CpuTyped' /\ LinkTyped'
        /\ Link!Rest
        /\ routine' = "io_irq" /\ at' = 3 /\ Here' = Here
    <2>1. at # 14
      BY <1>0
    <2>2. /\ Whereabouts' /\ InTime' /\ OnTheWire' /\ Fetching' /\ CpuTyped' /\ LinkTyped'
          /\ Link!Rest
          /\ routine' = "io_irq" /\ at' = at + 1 /\ Here' = Here
      BY <1>0, <1>1, <1>2, <2>1, IrqKept
    <2>. QED  BY <1>0, <2>2
  <1>4. ca1_flag' = FALSE /\ sr_flag' \in BOOLEAN
    <2>1. ca1_flag' = FALSE
      BY <1>0, <1>2, Zenon
    <2>2. sr_flag' \in BOOLEAN
      BY <1>2, Zenon
    <2>. QED  BY <2>1, <2>2
  <1>5. DeviceTyped' /\ KeyTyped'
    <2>1. ca1_flag' \in BOOLEAN
      BY <1>4, Zenon
    <2>. QED  BY <1>2, <1>4, <2>1, TypeSplit, Zenon DEF DeviceTyped, KeyTyped
  <1>6. due # None /\ due = keyboard_data /\ key = None
    <2>1. at <= 12 /\ at \notin 9..12
      BY <1>0
    <2>. QED  BY <1>0, <2>1, Zenon DEF KeyDue
  <1>7. KeyDue'
    BY <1>2, <1>3, <1>4, <1>6, IrqKey
  <1>8. PortB'
    <2>1. ~(Here[1] = "boot" /\ Here[2] <= 2) => CardOnPort'
      BY <1>0, <1>2 DEF PortB, CardOnPort
    <2>. QED  BY <1>3, <2>1, IrqPort
  <1>. QED  BY <1>3, <1>5, <1>7, <1>8, TypeSplitNext DEF IInv

LEMMA ReadORAStep ==
    ASSUME IInv, ReadORA
    PROVE  IInv' /\ Link!Rest
  <1>. /\ TypeOK /\ Whereabouts /\ PortB /\ KeyDue
    BY DEF IInv
  <1>0. routine = "io_irq" /\ at = 4
    <2>1. routine = "io_irq"
      <3>1. CASE routine # "io_irq"
        <4>1. Fits(routine, Instruction, HereRoom, HereOwed)
          BY <3>1, OpPlaces
        <4>. QED  BY <4>1 DEF Fits, ReadORA, Completes
      <3>. QED  BY <3>1
    <2>. QED  BY <2>1, OpPlaces DEF ReadORA, Completes
  <1>1. ContinueAt(routine, at + 1, masked)
    BY DEF ReadORA, Proceed
  <1>2. /\ UNCHANGED <<shift_register, shifts_remaining, ticks_to_next_edge, cb1>>
        /\ UNCHANGED <<miso_shift_data, sd_card_data, output_keyboard, port_b>>
        /\ UNCHANGED <<sub_data_in, sub_data_out, miso, selected>>
        /\ UNCHANGED <<in_flight, offered, unread, keyboard_data, due, key, sr_flag>>
        /\ taken' = None /\ received' = None
        /\ ca1_flag' = FALSE
    BY DEF ReadORA, Silent, device_vars, via_vars, port_vars, sub_vars, link_vars
  <1>3. /\ Whereabouts' /\ InTime' /\ OnTheWire' /\ Fetching' /\ CpuTyped' /\ LinkTyped'
        /\ Link!Rest
        /\ routine' = "io_irq" /\ at' = 5 /\ Here' = Here
    <2>1. at # 14
      BY <1>0
    <2>2. /\ Whereabouts' /\ InTime' /\ OnTheWire' /\ Fetching' /\ CpuTyped' /\ LinkTyped'
          /\ Link!Rest
          /\ routine' = "io_irq" /\ at' = at + 1 /\ Here' = Here
      BY <1>0, <1>1, <1>2, <2>1, IrqKept
    <2>. QED  BY <1>0, <2>2
  <1>5. DeviceTyped' /\ KeyTyped'
    <2>1. ca1_flag' \in BOOLEAN
      BY <1>2, Zenon
    <2>. QED  BY <1>2, <2>1, TypeSplit, Zenon DEF DeviceTyped, KeyTyped
  <1>6. due # None /\ due = keyboard_data /\ key = None
    <2>1. at <= 12 /\ at \notin 9..12
      BY <1>0
    <2>. QED  BY <1>0, <2>1, Zenon DEF KeyDue
  <1>7. KeyDue'
    BY <1>2, <1>3, <1>6, IrqKey
  <1>8. PortB'
    <2>1. ~(Here[1] = "boot" /\ Here[2] <= 2) => CardOnPort'
      BY <1>0, <1>2 DEF PortB, CardOnPort
    <2>. QED  BY <1>3, <2>1, IrqPort
  <1>. QED  BY <1>3, <1>5, <1>7, <1>8, TypeSplitNext DEF IInv

\* The interrupt routine turns port B to the keyboard and back.
LEMMA TurnPortStep ==
    ASSUME IInv, WriteORA, routine = "io_irq"
    PROVE  IInv' /\ Link!Rest
  <1>. /\ TypeOK /\ Whereabouts /\ PortB /\ KeyDue
    BY DEF IInv
  <1>0. /\ at = 6 \/ at = 10
        /\ at = 6 => output_keyboard' = TRUE /\ port_b' = keyboard_data
        /\ at = 10 => output_keyboard' = FALSE /\ port_b' = sd_card_data
    BY OpPlaces DEF WriteORA, Completes
  <1>1. ContinueAt(routine, at + 1, masked)
    BY DEF WriteORA, Proceed
  <1>2. /\ UNCHANGED <<shift_register, shifts_remaining, ticks_to_next_edge, cb1>>
        /\ UNCHANGED <<miso_shift_data, sd_card_data>>
        /\ UNCHANGED <<sub_data_in, sub_data_out, miso, selected>>
        /\ UNCHANGED <<in_flight, offered, unread, keyboard_data, due, key, sr_flag>>
        /\ taken' = None /\ received' = None
        /\ ca1_flag' = FALSE
    BY DEF WriteORA, Silent, via_vars, sub_vars, link_vars
  <1>3. /\ Whereabouts' /\ InTime' /\ OnTheWire' /\ Fetching' /\ CpuTyped' /\ LinkTyped'
        /\ Link!Rest
        /\ routine' = "io_irq" /\ at' = at + 1 /\ Here' = Here
    <2>1. at # 14
      BY <1>0
    <2>. QED  BY <1>0, <1>1, <1>2, <2>1, IrqKept
  <1>5. DeviceTyped' /\ KeyTyped'
    <2>1. ca1_flag' \in BOOLEAN /\ output_keyboard' \in BOOLEAN
      BY <1>0, <1>2, Zenon
    <2>2. port_b' \in Byte
      BY <1>0, TypeParts, Zenon
    <2>. QED  BY <1>2, <2>1, <2>2, TypeSplit, Zenon DEF DeviceTyped, KeyTyped
  <1>6. /\ due # None /\ due = keyboard_data
        /\ at = 6 => key = None
        /\ at = 10 => key = due
    <2>1. at <= 12 /\ (at = 6 => at \notin 9..12) /\ (at = 10 => at \in 9..12)
      BY <1>0
    <2>. QED  BY <1>0, <2>1, Zenon DEF KeyDue
  <1>7. CASE at = 6
    <2>1. at' = 7
      BY <1>3, <1>7
    <2>2. KeyDue'
      BY <1>2, <1>3, <1>6, <1>7, <2>1, IrqKey
    <2>3. KeyOnPort'
      BY <1>0, <1>2, <1>7 DEF KeyOnPort
    <2>4. PortB'
      BY <1>3, <2>1, <2>3, IrqPort
    <2>. QED  BY <1>3, <1>5, <2>2, <2>4, TypeSplitNext DEF IInv
  <1>8. CASE at = 10
    <2>1. at' = 11
      BY <1>3, <1>8
    <2>2. KeyDue'
      BY <1>2, <1>3, <1>6, <1>8, <2>1, IrqKey
    <2>3. CardOnPort'
      BY <1>0, <1>2, <1>8 DEF CardOnPort
    <2>4. PortB'
      BY <1>3, <2>1, <2>3, IrqPort
    <2>. QED  BY <1>3, <1>5, <2>2, <2>4, TypeSplitNext DEF IInv
  <1>. QED  BY <1>0, <1>7, <1>8

\* The key is on the port when the routine reads it ...
LEMMA ReadKeyStep ==
    ASSUME IInv, ReadKey
    PROVE  IInv' /\ Link!Rest
  <1>. /\ TypeOK /\ Whereabouts /\ PortB /\ KeyDue
    BY DEF IInv
  <1>0. routine = "io_irq" /\ at = 8
    <2>1. routine = "io_irq"
      <3>1. CASE routine # "io_irq"
        <4>1. Fits(routine, Instruction, HereRoom, HereOwed)
          BY <3>1, OpPlaces
        <4>. QED  BY <4>1 DEF Fits, ReadKey, Completes
      <3>. QED  BY <3>1
    <2>. QED  BY <2>1, OpPlaces DEF ReadKey, Completes
  <1>1. ContinueAt(routine, at + 1, masked)
    BY DEF ReadKey, Proceed
  <1>2. /\ UNCHANGED <<shift_register, shifts_remaining, ticks_to_next_edge, cb1>>
        /\ UNCHANGED <<miso_shift_data, sd_card_data, output_keyboard, port_b>>
        /\ UNCHANGED <<sub_data_in, sub_data_out, miso, selected>>
        /\ UNCHANGED <<in_flight, offered, unread, keyboard_data, due, ca1_flag, sr_flag>>
        /\ taken' = None /\ received' = None
        /\ key' = port_b
    BY DEF ReadKey, Silent, device_vars, via_vars, port_vars, sub_vars, link_vars, key_vars
  <1>3. /\ Whereabouts' /\ InTime' /\ OnTheWire' /\ Fetching' /\ CpuTyped' /\ LinkTyped'
        /\ Link!Rest
        /\ routine' = "io_irq" /\ at' = 9 /\ Here' = Here
    <2>1. at # 14
      BY <1>0
    <2>2. /\ Whereabouts' /\ InTime' /\ OnTheWire' /\ Fetching' /\ CpuTyped' /\ LinkTyped'
          /\ Link!Rest
          /\ routine' = "io_irq" /\ at' = at + 1 /\ Here' = Here
      BY <1>0, <1>1, <1>2, <2>1, IrqKept
    <2>. QED  BY <1>0, <2>2
  <1>5. DeviceTyped' /\ KeyTyped'
    <2>1. key' \in Byte \cup {None}
      BY <1>2, TypeParts, Zenon
    <2>. QED  BY <1>2, <2>1, TypeSplit, Zenon DEF DeviceTyped, KeyTyped
  <1>6. due # None /\ due = keyboard_data /\ ~ca1_flag
    <2>1. at <= 12 /\ ~(at <= 2)
      BY <1>0
    <2>. QED  BY <1>0, <2>1, Zenon DEF KeyDue
  <1>7. KeyOnPort
    <2>1. at \in 7..10
      BY <1>0
    <2>. QED  BY <1>0, <2>1, Zenon DEF PortB
  <1>8. KeyDue'
    <2>1. key' = due'
      BY <1>2, <1>6, <1>7, Zenon DEF KeyOnPort
    <2>. QED  BY <1>2, <1>3, <1>6, <2>1, IrqKey
  <1>9. PortB'
    <2>1. KeyOnPort'
      BY <1>2, <1>7 DEF KeyOnPort
    <2>. QED  BY <1>3, <2>1, IrqPort
  <1>. QED  BY <1>3, <1>5, <1>8, <1>9, TypeSplitNext DEF IInv

\* ... and is stored.
LEMMA StoreKeyStep ==
    ASSUME IInv, StoreKey
    PROVE  IInv' /\ Link!Rest
  <1>. /\ TypeOK /\ Whereabouts /\ PortB /\ KeyDue
    BY DEF IInv
  <1>0. routine = "io_irq" /\ at = 12
    <2>1. routine = "io_irq"
      <3>1. CASE routine # "io_irq"
        <4>1. Fits(routine, Instruction, HereRoom, HereOwed)
          BY <3>1, OpPlaces
        <4>. QED  BY <4>1 DEF Fits, StoreKey, Completes
      <3>. QED  BY <3>1
    <2>. QED  BY <2>1, OpPlaces DEF StoreKey, Completes
  <1>1. ContinueAt(routine, at + 1, masked)
    BY DEF StoreKey, Proceed
  <1>2. /\ UNCHANGED <<shift_register, shifts_remaining, ticks_to_next_edge, cb1>>
        /\ UNCHANGED <<miso_shift_data, sd_card_data, output_keyboard, port_b>>
        /\ UNCHANGED <<sub_data_in, sub_data_out, miso, selected>>
        /\ UNCHANGED <<in_flight, offered, unread, keyboard_data, ca1_flag, sr_flag>>
        /\ taken' = None /\ received' = None
        /\ key' = None /\ due' = None
    BY DEF StoreKey, Silent, device_vars, via_vars, port_vars, sub_vars, link_vars
  <1>3. /\ Whereabouts' /\ InTime' /\ OnTheWire' /\ Fetching' /\ CpuTyped' /\ LinkTyped'
        /\ Link!Rest
        /\ routine' = "io_irq" /\ at' = 13 /\ Here' = Here
    <2>1. at # 14
      BY <1>0
    <2>2. /\ Whereabouts' /\ InTime' /\ OnTheWire' /\ Fetching' /\ CpuTyped' /\ LinkTyped'
          /\ Link!Rest
          /\ routine' = "io_irq" /\ at' = at + 1 /\ Here' = Here
      BY <1>0, <1>1, <1>2, <2>1, IrqKept
    <2>. QED  BY <1>0, <2>2
  <1>5. DeviceTyped' /\ KeyTyped'
    <2>1. key' \in Byte \cup {None} /\ due' \in Byte \cup {None}
      BY <1>2, Zenon
    <2>. QED  BY <1>2, <2>1, TypeSplit, Zenon DEF DeviceTyped, KeyTyped
  <1>6. ~ca1_flag
    <2>1. ~(at <= 2)
      BY <1>0
    <2>. QED  BY <1>0, <2>1, Zenon DEF KeyDue
  <1>7. KeyDue'
    BY <1>2, <1>3, <1>6, IrqKey
  <1>8. PortB'
    <2>1. CardOnPort
      <3>1. at >= 11
        BY <1>0
      <3>. QED  BY <1>0, <3>1, Zenon DEF PortB
    <2>2. CardOnPort'
      BY <1>2, <2>1 DEF CardOnPort
    <2>. QED  BY <1>3, <2>2, IrqPort
  <1>. QED  BY <1>3, <1>5, <1>7, <1>8, TypeSplitNext DEF IInv

\* The driver goes on where it was.
LEMMA ReturnFromInterruptStep ==
    ASSUME IInv, ReturnFromInterrupt
    PROVE  IInv' /\ Link!Rest
  <1>. /\ TypeOK /\ Whereabouts /\ InTime /\ OnTheWire /\ Fetching /\ PortB /\ KeyDue
    BY DEF IInv
  <1>0. routine = "io_irq" /\ at = 14 /\ NoAccess
    <2>1. routine = "io_irq"
      <3>1. CASE routine # "io_irq"
        <4>1. Fits(routine, Instruction, HereRoom, HereOwed)
          BY <3>1, OpPlaces
        <4>. QED  BY <4>1 DEF Fits, ReturnFromInterrupt, Completes
      <3>. QED  BY <3>1
    <2>. QED  BY <2>1, OpPlaces DEF ReturnFromInterrupt, Completes
  <1>1. PICK r, i : r = Here[1] /\ i = Here[2]
    OBVIOUS
  <1>2. /\ r \in Drivers /\ i \in 1..Len(Code[r]) /\ ContinueAt(r, i, FALSE)
        /\ ~Closed(r, i) /\ Here = <<r, i>> /\ Ahead = Code[r][i].cycles
        /\ HereRoom = Room(r, i) /\ HereOwed = Owed(r, i)
        /\ r \in Fetchers => selected
    <2>1. Here = suspended
      BY <1>0, Zenon DEF Here
    <2>2. ContinueAt(r, i, FALSE)
      BY <1>1, <2>1, Zenon DEF ReturnFromInterrupt
    <2>. QED  BY <1>0, <1>1, <2>2, Zenon DEF Whereabouts, Ahead, HereRoom, HereOwed
  <1>3. due = None /\ ~ca1_flag /\ key = None /\ CardOnPort
    <2>1. ~(at <= 2) /\ ~(at <= 12) /\ at \notin 9..12 /\ at >= 11
      BY <1>0
    <2>. QED  BY <1>0, <2>1, Zenon DEF KeyDue, PortB
  <1>4. /\ UNCHANGED <<shifts_remaining, ticks_to_next_edge, cb1, selected, ca1_flag>>
        /\ UNCHANGED <<in_flight, unread, sd_card_data, output_keyboard, port_b>>
        /\ UNCHANGED <<keyboard_data, due, key>>
    BY <1>0, PlainKept
  <1>5. /\ Whereabouts' /\ Here' = <<r, i>> /\ Ahead' = Code[r][i].cycles
        /\ HereRoom' = Room(r, i) /\ HereOwed' = Owed(r, i)
        /\ cycles' = Code[routine'][at'].cycles /\ masked' \in BOOLEAN
        /\ routine' # "io_irq"
    <2>1. r \in Fetchers => selected'
      BY <1>2, <1>4
    <2>2. FALSE \in BOOLEAN /\ r # "io_irq"
      BY <1>2 DEF Drivers
    <2>. QED  BY <1>2, <1>3, <1>4, <2>1, <2>2, DriverMoves
  <1>6. InTime'
    <2>1. Remaining' = Remaining
      BY <1>4, Zenon DEF Remaining
    <2>. QED  BY <1>2, <1>5, <2>1, Zenon DEF InTime
  <1>7. KeyDue'
    BY <1>3, <1>4, <1>5, Zenon DEF KeyDue
  <1>8. PortB'
    BY <1>3, <1>4, <1>5, Zenon DEF PortB, CardOnPort
  <1>9. CpuTyped'
    BY <1>5, MovedTyped
  <1>10. HereOwed' = HereOwed
    BY <1>2, <1>5, Zenon
  <1>. QED  BY <1>0, <1>5, <1>6, <1>7, <1>8, <1>9, <1>10, PlainKept, TypeSplitNext DEF IInv

\* The devices go on through a reset; what has been asked for is forgotten.
LEMMA ResetStep ==
    ASSUME IInv, Reset
    PROVE  IInv' /\ Link!Abandon
  <1>. /\ TypeOK /\ Whereabouts /\ InTime /\ OnTheWire /\ Fetching /\ PortB /\ KeyDue
    BY DEF IInv
  <1>. DEFINE m == masked /\ ~(routine = "io_irq" /\ at = 1)
  <1>1. /\ UNCHANGED <<shift_register, shifts_remaining, ticks_to_next_edge, cb1, sr_flag>>
        /\ UNCHANGED <<miso_shift_data, sd_card_data, output_keyboard, port_b>>
        /\ UNCHANGED <<sub_data_in, sub_data_out, miso, selected>>
        /\ UNCHANGED <<offered, ca1_flag, keyboard_data>>
        /\ taken' = None /\ received' = None
        /\ key' = None /\ unread' = <<>>
        /\ due' = IF ca1_flag THEN due ELSE None
        /\ in_flight' = IF in_flight = None THEN None ELSE [in_flight EXCEPT !.wanted = FALSE]
        /\ ContinueAt("boot", 1, m)
    BY DEF Reset, Silent, device_vars, via_vars, port_vars, sub_vars
  <1>2. m \in BOOLEAN
    BY Zenon
  <1>. HIDE DEF m
  <1>3. /\ in_flight = None => in_flight' = None
        /\ in_flight # None => /\ in_flight' \in [byte : Byte, wanted : BOOLEAN]
                               /\ in_flight'.byte = in_flight.byte /\ in_flight'.wanted = FALSE
    <2>1. CASE in_flight # None
      <3>1. in_flight \in [byte : Byte, wanted : BOOLEAN]
        BY <2>1, TypeParts
      <3>2. in_flight' = [in_flight EXCEPT !.wanted = FALSE]
        BY <1>1, <2>1
      <3>. QED  BY <2>1, <3>1, <3>2
    <2>. QED  BY <1>1, <2>1
  <1>4. /\ "boot" \in Drivers /\ Owed("boot", 1) = 0 /\ 1 \in 1..Len(Code.boot)
        /\ 19 <= Room("boot", 1) + Code.boot[1].cycles
        /\ Room("boot", 1) \in 0..15 /\ Code.boot[1].cycles \in 1..40
    <2>1. "boot" \in Drivers
      BY RoutinesAre
    <2>2. Owed("boot", 1) = 0 /\ 1 \in 1..Len(Code.boot)
          /\ 19 <= Room("boot", 1) + Code.boot[1].cycles /\ PlaceFits("boot", 1)
      BY <2>1, Entries, Places
    <2>3. Room("boot", 1) \in 0..15 /\ Code.boot[1].cycles \in 1..40
      BY <2>2, Zenon DEF PlaceFits, Fits
    <2>. QED  BY <2>1, <2>2, <2>3
  <1>5. /\ Whereabouts' /\ Here' = <<"boot", 1>> /\ Ahead' = Code.boot[1].cycles
        /\ HereRoom' = Room("boot", 1) /\ HereOwed' = 0
        /\ cycles' = Code[routine'][at'].cycles /\ masked' \in BOOLEAN
        /\ routine' = "io_irq" => at' = 1 /\ ca1_flag'
    <2>1. ~Closed("boot", 1)
      BY <1>4 DEF Closed
    <2>2. "boot" \notin Fetchers
      BY DEF Fetchers
    <2>. QED  BY <1>1, <1>2, <1>4, <2>1, <2>2, DriverMoves
  <1>6. InTime'
    <2>1. PICK a \in 0..15, b \in 1..40 : a = Room("boot", 1) /\ b = Code.boot[1].cycles
      BY <1>4
    <2>2. Remaining \in Int /\ Remaining <= 19
      <3>1. shifts_remaining \in 0..8 /\ ticks_to_next_edge \in 0..4 /\ (cb1 = 0 \/ cb1 = 1)
        BY TypeParts
      <3>. QED  BY <3>1 DEF Remaining
    <2>3. PICK x \in Int : x = Remaining /\ x <= 19
      BY <2>2
    <2>4. 19 <= a + b
      BY <1>4, <2>1, Zenon
    <2>5. x <= b + a
      BY <2>3, <2>4
    <2>6. Remaining' = x
      BY <1>1, <2>3, Zenon DEF Remaining
    <2>7. HereOwed' # 2
      BY <1>5
    <2>8. Ahead' = b /\ HereRoom' = a
      BY <1>5, <2>1, Zenon
    <2>. QED  BY <2>5, <2>6, <2>7, <2>8, Zenon DEF InTime
  <1>7. OnTheWire'
    <2>1. in_flight' = None <=> in_flight = None
      BY <1>3, NoneIsNoByte
    <2>2. Between => Between'
      BY <1>1, <2>1, Zenon DEF Between
    <2>3. \A n \in 0..8 : Within(n) => Within(n)'
      BY <1>1, <1>3, <2>1, Zenon DEF Within, Sent, Gathered
    <2>. QED  BY <1>1, <2>2, <2>3, SMT DEF OnTheWire, Resting, High, Low, Presents, Holds
  <1>8. DeviceTyped' /\ KeyTyped' /\ LinkTyped' /\ CpuTyped'
    <2>1. due' \in Byte \cup {None} /\ key' \in Byte \cup {None}
      BY <1>1, TypeSplit, Zenon DEF KeyTyped
    <2>2. DeviceTyped' /\ KeyTyped'
      BY <1>1, <2>1, TypeSplit, Zenon DEF DeviceTyped, KeyTyped
    <2>3. in_flight' \in [byte : Byte, wanted : BOOLEAN] \cup {None}
      BY <1>3, Zenon
    <2>4. unread' \in Seq(Byte)
      BY <1>1
    <2>5. LinkTyped'
      BY <1>1, <2>3, <2>4, TypeSplit, Zenon DEF LinkTyped
    <2>. QED  BY <1>5, <2>2, <2>5, MovedTyped
  <1>9. Fetching'
    <2>1. HereOwed' # 1 /\ HereOwed' # 2
      BY <1>5
    <2>. QED  BY <1>1, <1>3, <2>1, Zenon DEF Fetching
  <1>10. KeyDue'
    <2>1. routine' = "io_irq" => at' <= 12 /\ at' <= 2 /\ at' \notin 9..12
      BY <1>5
    <2>2. /\ ca1_flag => due # None /\ due = keyboard_data
          /\ ca1_flag => due' = due
          /\ ~ca1_flag => due' = None
      BY <1>1, Zenon DEF KeyDue
    <2>. QED  BY <1>1, <1>5, <2>1, <2>2, Zenon DEF KeyDue
  <1>11. PortB'
    <2>1. Here'[1] = "boot" /\ Here'[2] <= 2
      BY <1>5
    <2>2. routine' = "io_irq" => at' \notin 7..10 /\ ~(at' >= 11)
      BY <1>5
    <2>. QED  BY <2>1, <2>2, Zenon DEF PortB
  <1>12. Link!Abandon
    BY <1>1, Zenon DEF Link!Abandon, Link!Quiet
  <1>. QED  BY <1>5, <1>6, <1>7, <1>8, <1>9, <1>10, <1>11, <1>12, TypeSplitNext DEF IInv

-------------------------------------------------------------------------------
(* Every step.                                                                *)

\* A step of the system is one of the byte link, or one that it does not see.
LEMMA Step ==
    ASSUME IInv, Next
    PROVE  IInv' /\ Link!Next
  <1>1. ASSUME Tick PROVE IInv' /\ Link!Next
    <2>1. IInv' /\ (NoExchange \/ Exchanged)
      BY <1>1, TickStep
    <2>2. selected' = selected /\ received' = None
      BY <1>1 DEF Tick, ClockFalls, ClockRises, WaitForEdge, SubFallingEdge, sub_vars
    <2>3. NoExchange => Link!Rest
      BY <2>2, Zenon DEF NoExchange, Link!Rest, Link!Quiet
    <2>4. Exchanged => Link!Exchange
      BY <2>2, Zenon DEF Exchanged, Link!Exchange
    <2>. QED  BY <2>1, <2>3, <2>4, Zenon DEF Link!Next
  <1>2. ASSUME RemainingTicks PROVE IInv' /\ Link!Next
    <2>1. IInv' /\ NoExchange
      BY <1>2, RemainingTicksStep
    <2>2. selected' = selected /\ received' = None
      BY <1>2 DEF RemainingTicks, device_vars, sub_vars
    <2>3. Link!Rest
      BY <2>1, <2>2, Zenon DEF NoExchange, Link!Rest, Link!Quiet
    <2>. QED  BY <2>1, <2>3, Zenon DEF Link!Next
  <1>3. ASSUME Working \/ SetMask \/ ClearMask PROVE IInv' /\ Link!Next
    <2>1. NoAccess
      BY <1>3 DEF Working, SetMask, ClearMask
    <2>2. CASE routine = "io_irq"
      <3>1. Working
        <4>1. Instruction.op \notin {"sei", "cli"}
          BY <2>2, OpPlaces DEF IInv
        <4>. QED  BY <1>3, <4>1 DEF SetMask, ClearMask, Completes
      <3>. QED  BY <2>2, <3>1, IrqWorkStep, Zenon DEF Link!Next
    <2>3. CASE routine # "io_irq"
      BY <1>3, <2>1, <2>3, PlainStep, Zenon DEF Link!Next
    <2>. QED  BY <2>2, <2>3
  <1>4. ASSUME ReadIFR PROVE IInv' /\ Link!Next
    <2>1. routine # "io_irq"
      BY <1>4, OpPlaces DEF IInv, ReadIFR, Completes
    <2>. QED  BY <1>4, <2>1, WaitStep, Zenon DEF Link!Next
  <1>5. ASSUME WriteORA PROVE IInv' /\ Link!Next
    <2>1. CASE routine = "io_irq"
      BY <1>5, <2>1, TurnPortStep, Zenon DEF Link!Next
    <2>2. CASE routine # "io_irq"
      BY <1>5, <2>2, InitPortStep, Zenon DEF Link!Next
    <2>. QED  BY <2>1, <2>2
  <1>6. ASSUME Return PROVE IInv' /\ Link!Next
    BY <1>6, ReturnStep, Zenon DEF Link!Next
  <1>7. ASSUME ReturnFromInterrupt PROVE IInv' /\ Link!Next
    BY <1>7, ReturnFromInterruptStep, Zenon DEF Link!Next
  <1>8. ASSUME LoadSR PROVE IInv' /\ Link!Next
    BY <1>8, LoadStep, Zenon DEF Link!Next
  <1>9. ASSUME ReadIRB PROVE IInv' /\ Link!Next
    BY <1>9, ReadStep, Zenon DEF Link!Next
  <1>10. ASSUME WritePCR PROVE IInv' /\ Link!Next
    BY <1>10, SelectStep, Zenon DEF Link!Next
  <1>11. ASSUME WriteACR PROVE IInv' /\ Link!Next
    BY <1>11, ModeStep, Zenon DEF Link!Next
  <1>12. ASSUME WriteIFR PROVE IInv' /\ Link!Next
    BY <1>12, ClearStep, Zenon DEF Link!Next
  <1>13. ASSUME ReadORA PROVE IInv' /\ Link!Next
    BY <1>13, ReadORAStep, Zenon DEF Link!Next
  <1>14. ASSUME ReadKey PROVE IInv' /\ Link!Next
    BY <1>14, ReadKeyStep, Zenon DEF Link!Next
  <1>15. ASSUME StoreKey PROVE IInv' /\ Link!Next
    BY <1>15, StoreKeyStep, Zenon DEF Link!Next
  <1>16. ASSUME Reset PROVE IInv' /\ Link!Next
    BY <1>16, ResetStep, Zenon DEF Link!Next
  <1>. QED  BY <1>1, <1>2, <1>3, <1>4, <1>5, <1>6, <1>7, <1>8, <1>9, <1>10, <1>11, <1>12, <1>13,
               <1>14, <1>15, <1>16, Zenon DEF Next, Cpu, Instructions

\* A step that changes nothing.
LEMMA StutterStep ==
    ASSUME IInv, UNCHANGED vars
    PROVE  IInv' /\ UNCHANGED Link!vars
  <1>1. /\ UNCHANGED <<shift_register, shifts_remaining, ticks_to_next_edge, cb1, sr_flag>>
        /\ UNCHANGED <<miso_shift_data, sd_card_data, output_keyboard, port_b>>
        /\ UNCHANGED <<sub_data_in, sub_data_out, miso, selected>>
        /\ UNCHANGED <<ca1_flag, keyboard_data, due, key>>
        /\ UNCHANGED <<routine, at, cycles, suspended, masked>>
        /\ UNCHANGED <<in_flight, offered, unread, taken, received>>
    BY DEF vars, device_vars, via_vars, port_vars, sub_vars, key_vars, cpu_vars, link_vars
  <1>2. DeviceTyped' /\ LinkTyped' /\ KeyTyped' /\ CpuTyped'
    <2>1. DeviceTyped /\ LinkTyped /\ KeyTyped /\ CpuTyped
      BY TypeSplit, Zenon DEF IInv
    <2>2. DeviceTyped'
      BY <1>1, <2>1, Zenon DEF DeviceTyped
    <2>3. LinkTyped' /\ KeyTyped'
      BY <1>1, <2>1, Zenon DEF LinkTyped, KeyTyped
    <2>4. CpuTyped'
      BY <1>1, <2>1, Zenon DEF CpuTyped
    <2>. QED  BY <2>2, <2>3, <2>4
  <1>3. Here' = Here
    BY <1>1, Zenon DEF Here
  <1>4. HereRoom' = HereRoom /\ HereOwed' = HereOwed /\ Ahead' = Ahead /\ Remaining' = Remaining
    BY <1>1, <1>3, Zenon DEF HereRoom, HereOwed, Ahead, Remaining
  <1>5. Whereabouts' /\ InTime' /\ Fetching'
    BY <1>1, <1>3, <1>4, Zenon DEF IInv, Whereabouts, InTime, Fetching
  <1>6. OnTheWire'
    BY <1>1, Zenon DEF IInv, OnTheWire, Resting, High, Low, Between, Within, Sent, Gathered,
                       Presents, Holds
  <1>7. PortB' /\ KeyDue'
    BY <1>1, <1>3, Zenon DEF IInv, PortB, KeyDue, CardOnPort, KeyOnPort
  <1>8. UNCHANGED Link!vars
    BY <1>1 DEF Link!vars
  <1>. QED  BY <1>2, <1>5, <1>6, <1>7, <1>8, TypeSplitNext DEF IInv

\* The invariant holds when the computer is switched on.
LEMMA InitInv == Init => IInv
  <1>. SUFFICES ASSUME Init PROVE IInv
    OBVIOUS
  <1>1. /\ Code.idle[1].cycles = 1 /\ Len(Code.idle) = 1 /\ "idle" \in Drivers
        /\ Room("idle", 1) = 13 /\ Owed("idle", 1) = 0
    BY RoutinesAre DEF Code, Op, Room, RoomTable, Owed, OwedTable
  <1>2. /\ routine = "idle" /\ at = 1 /\ cycles = 1 /\ suspended = <<>> /\ masked = FALSE
        /\ selected = FALSE
    BY DEF Init
  <1>3. Here = <<"idle", 1>> /\ HereRoom = 13 /\ HereOwed = 0 /\ Ahead = 1
    BY <1>1, <1>2 DEF Here, HereRoom, HereOwed, Ahead
  <1>4. Whereabouts
    <2>1. ~Closed(Here[1], Here[2])
      BY <1>1, <1>3 DEF Closed
    <2>2. "idle" \notin Fetchers
      BY DEF Fetchers
    <2>. QED  BY <1>1, <1>2, <1>3, <2>1, <2>2 DEF Whereabouts, Drivers
  <1>5. InTime
    <2>1. Remaining = -1
      BY DEF Init, Remaining
    <2>. QED  BY <1>3, <2>1 DEF InTime
  <1>6. DeviceTyped
    <2>1. <<>> \in Seq({0, 1}) /\ Len(<<>>) < 8
      OBVIOUS
    <2>2. shifts_remaining \in 0..8 /\ ticks_to_next_edge \in 0..4 /\ cb1 \in {0, 1} /\ miso \in {0, 1}
      BY DEF Init
    <2>3. FALSE \in BOOLEAN
      BY Zenon
    <2>. QED  BY <2>1, <2>2, <2>3, OnesZeros, Zenon DEF Init, DeviceTyped
  <1>7. LinkTyped /\ KeyTyped
    <2>1. <<>> \in Seq(Byte)
      OBVIOUS
    <2>2. FALSE \in BOOLEAN
      BY Zenon
    <2>. QED  BY <2>1, <2>2, OnesZeros, Zenon DEF Init, LinkTyped, KeyTyped
  <1>8. CpuTyped
    <2>1. FALSE \in BOOLEAN
      BY Zenon
    <2>2. cycles \in 0..Code[routine][at].cycles /\ at \in 1..Len(Code[routine])
      BY <1>1, <1>2
    <2>3. routine \in Routines
      BY <1>1, <1>2 DEF Drivers
    <2>. QED  BY <1>2, <2>1, <2>2, <2>3, Zenon DEF CpuTyped
  <1>9. OnTheWire
    BY DEF Init, OnTheWire, Resting, Between, Presents
  <1>10. Fetching
    BY <1>3 DEF Init, Fetching
  <1>11. PortB
    BY DEF Init, PortB, CardOnPort
  <1>12. KeyDue
    BY DEF Init, KeyDue
  <1>. QED  BY <1>4, <1>5, <1>6, <1>7, <1>8, <1>9, <1>10, <1>11, <1>12, TypeSplit DEF IInv

\* The invariant holds throughout.
LEMMA InvariantIInv == Spec => []IInv
  <1>1. IInv /\ [Next]_vars => IInv'
    BY Step, StutterStep
  <1>. QED  BY <1>1, InitInv, PTL DEF Spec

\* Every variable keeps its type, for blocks of any length.
THEOREM TypeCorrectness == Spec => []TypeOK
  <1>1. IInv => TypeOK
    BY DEF IInv
  <1>. QED  BY <1>1, InvariantIInv, PTL

\* The interrupt routine stores the key that was announced, and an announced key stays
\* announced until the routine has come for it (asm/include/io.inc, io_irq).
THEOREM KeysSafe == Spec => []KeysIntact
  <1>1. IInv => KeysIntact
    BY Zenon DEF IInv, KeyDue, KeysIntact
  <1>. QED  BY <1>1, InvariantIInv, PTL

\* The shift register, the glue, the adapter and the cycle-counted routines of spi.inc
\* exchange each byte once, and the driver reads each byte it asked for once and in order.
THEOREM ByteLinkImplemented == Spec => ImplementsByteLink
  <1>1. Init => Link!Init
    BY DEF Init, Link!Init
  <1>2. IInv /\ [Next]_vars => [Link!Next]_(Link!vars)
    BY Step, StutterStep
  <1>. QED  BY <1>1, <1>2, InvariantIInv, PTL DEF Spec, ImplementsByteLink, Link!Spec
===============================================================================
