----------------------------- MODULE SdCard_proofs -----------------------------
(***************************************************************************)
(* What is proved of SdCard for an image of any size up to the 2 GiB that  *)
(* the card's offsets reach (OffsetsAssumption), any bytes, any number of  *)
(* tries from two up and any number of resets: the types, that the card is *)
(* left as the next call needs it, and that card and driver together       *)
(* implement BlockStore.                                                   *)
(***************************************************************************)
EXTENDS SdCard, SequenceTheorems, TLAPS

(* The inductive invariant says, for each loop of the driver, what the card  *)
(* is about to shift out and what it has been sent.                          *)

\* The call concerns a block there is, and the card will serve it.
Valid == ready /\ address \in Blocks

\* The card is between two commands, or answers one, or waits for a block: a byte
\* other than a token only takes what it has to say a byte further.
Serving ==
    /\ enabled
    /\ card_state \in {"idle", "ready", "response", "data_token"}
    /\ card_state = "response" <=> response_queue # <<>>

\* Of an answer, byte k is the next to be shifted out (before them 255), and the
\* rest is queued.
Stream(out, queue, answer, k) ==
    /\ k \in 0..Len(answer)
    /\ out = IF k = 0 THEN 255 ELSE answer[k]
    /\ Len(queue) = Len(answer) - k
    /\ \A i \in 1..Len(answer) - k : queue[i] = answer[k + i]

Answering(answer, k) == Stream(sub_data_out, response_queue, answer, k)

Reply(block) == <<0, 254>> \o block \o <<0, 0>>
ReadAnswer == Reply(image[address])

\* What each command finds when it is sent ...
Prepared ==
    /\ command = 0 => (next_is_app_command => app_at_start)
    /\ command = 41 => next_is_app_command
    /\ command \notin {0, 41} => ~next_is_app_command
    /\ command \in {8, 55, 41} => ~ready
    /\ command = 58 => ready

\* ... and leaves behind.
Handled ==
    /\ next_is_app_command <=> command = 55
    /\ command \in {8, 55} => ~ready
    /\ command \in {41, 58} => ready

\* The parameters of a call.
Called ==
    /\ command \in {ReadBlock, WriteBlock} => address \in Addresses
    /\ command = WriteBlock => buffer \in Contents

\* The first bytes that have been sent.
HasReceived(bytes, n) ==
    /\ Len(input_buffer) = n
    /\ \A i \in 1..n : input_buffer[i] = bytes[i]

Responding ==
    \/ command = 0 /\ ~ready /\ Answering(<<1>>, count)
    \/ command = 0 /\ app_at_start /\ Answering(<<255>>, count)
    \/ command = 0 /\ app_at_start /\ count > 1 /\ sub_data_out = 255 /\ response_queue = <<>>
    \/ command = 8 /\ Answering(<<1, 0, 0, 1, 170>>, count) /\ count < 2
    \/ command = 55 /\ Answering(<<1>>, count)
    \/ command = 41 /\ Answering(<<0>>, count)
    \/ command = 58 /\ Answering(<<0, 192, 255, 128, 0>>, count) /\ count < 2
    \/ command = ReadBlock /\ Valid /\ Answering(ReadAnswer, count) /\ count < 2
    \/ command = ReadBlock /\ Valid /\ TRUE \in ReadFails /\ Answering(<<0, 1>>, count) /\ count < 2
    \/ command \in {ReadBlock, WriteBlock} /\ ~Valid
         /\ (Answering(<<5>>, count) \/ Answering(<<64>>, count))
    \/ command = WriteBlock /\ Valid /\ write_address = address /\ Answering(<<0>>, count)
         /\ IF count = 0 THEN next_card_state = "data_token" ELSE card_state = "data_token"

\* The result of a command, once it is known.
Result ==
    /\ command = 0 => IF a = 1 THEN ~ready ELSE app_at_start
    /\ command \in {8, 55} => a = 1
    /\ command = 41 => a = 0
    /\ command = 58 => a = 192
    /\ command = ReadBlock => IF a = 0 THEN Valid /\ buffer = image[address]
                                       ELSE Valid => TRUE \in ReadFails
    /\ command = WriteBlock => IF a = 0 THEN Valid /\ buffer = image[address] ELSE ~Valid

\* In each loop of the driver.
AtBoot == ~enabled => card_state \in {"idle", "ready"} /\ sub_data_out = 255
Unselected == ~enabled /\ card_state \in {"idle", "ready"} /\ sub_data_out = 255
AtIdle ==
    /\ Unselected /\ ~next_is_app_command
    /\ command \in InitCommands => a \in {0, 1} /\ (IF a = 0 THEN ready ELSE app_at_start)
AtClocks == Unselected /\ command = 0 /\ Prepared
AtSelect == Unselected /\ Prepared /\ Called /\ (command = ReadBlock => buffer = <<>>)
AtSend ==
    /\ enabled /\ card_state = "command" /\ response_queue = <<>>
    /\ sub_data_out = 255
    /\ count \in 0..5 /\ HasReceived(CommandBytes, count)
    /\ Prepared /\ Called /\ (command = ReadBlock => buffer = <<>>)
AtR1 ==
    /\ Serving /\ Handled /\ Called /\ Responding
    /\ command = ReadBlock => buffer = <<>>
AtOcr == Serving /\ Handled /\ command = 58 /\ Answering(<<0, 192, 255, 128, 0>>, 2)
AtSkip == Serving /\ Handled /\ command \in {8, 58} /\ Result
AtToken ==
    /\ Serving /\ Handled /\ Called /\ command = ReadBlock /\ Valid /\ buffer = <<>>
    /\ \/ Answering(ReadAnswer, 2)
       \/ Answering(<<0, 1>>, 2) /\ TRUE \in ReadFails
AtReceive ==
    /\ Serving /\ Handled /\ Called /\ command = ReadBlock /\ Valid
    /\ count \in 0..BlockBytes - 1 /\ Answering(ReadAnswer, count + 3)
    /\ Len(buffer) = count /\ \A i \in 1..count : buffer[i] = image[address][i]
AtWrite == enabled /\ Handled /\ Called /\ command = WriteBlock /\ Valid
AtStart == AtWrite /\ write_address = address /\ card_state = "data_token" /\ response_queue = <<>>
InData == AtWrite /\ write_address = address /\ card_state = "data" /\ response_queue = <<>>
AtTransmit == InData /\ count \in 0..BlockBytes - 1 /\ HasReceived(buffer, count)
AtCrc ==
    /\ count \in {0, 1}
    /\ \/ Serving /\ Handled /\ Called /\ command = ReadBlock /\ Valid /\ buffer = image[address]
       \/ InData /\ Len(input_buffer) = BlockBytes + count
                 /\ \A i \in 1..BlockBytes : input_buffer[i] = buffer[i]
Written == AtWrite /\ Serving /\ image[address] = buffer
AtDataResponse == Written /\ count < 2 /\ Answering(<<5, 0>>, count)
AtBusy == Written /\ a = 5 /\ response_queue = <<>> /\ sub_data_out \in {0, 255}
AtDeselect == enabled /\ Handled /\ Called /\ Result
AtTrailer == Unselected /\ Handled /\ Called /\ Result

IInv ==
    /\ phase = "boot" => AtBoot
    /\ phase = "idle" => AtIdle
    /\ phase = "clocks" => AtClocks
    /\ phase = "select" => AtSelect
    /\ phase = "send" => AtSend
    /\ phase = "r1" => AtR1
    /\ phase = "ocr" => AtOcr
    /\ phase = "skip" => AtSkip
    /\ phase = "token" => AtToken
    /\ phase = "receive" => AtReceive
    /\ phase = "start" => AtStart
    /\ phase = "transmit" => AtTransmit
    /\ phase = "crc" => AtCrc
    /\ phase = "data_response" => AtDataResponse
    /\ phase = "busy" => AtBusy
    /\ phase = "deselect" => AtDeselect
    /\ phase = "trailer" => AtTrailer

-------------------------------------------------------------------------------
(* Answers. *)

Octet == 0..255

\* The queue of an answer begins with all of it ...
LEMMA StreamStart ==
    ASSUME NEW answer \in Seq(Octet)
    PROVE  Stream(255, answer, answer, 0)
<1>1. Len(answer) \in Nat
  BY LenProperties
<1>2. QED BY <1>1 DEF Stream

\* ... each exchange shifts out the next byte of it ...
LEMMA StreamNext ==
    ASSUME NEW out, NEW queue \in Seq(Octet), NEW answer \in Seq(Octet), NEW k,
           Stream(out, queue, answer, k), k < Len(answer)
    PROVE  queue # <<>> /\ Stream(Head(queue), Tail(queue), answer, k + 1)
<1>1. /\ Len(answer) \in Nat /\ k \in 0..Len(answer) /\ k + 1 \in 0..Len(answer)
      /\ Len(queue) = Len(answer) - k
  BY LenProperties DEF Stream
<1>2. queue # <<>>
  <2>1. Len(queue) # 0
    BY <1>1
  <2>2. QED BY <2>1, EmptySeq, Zenon
<1>3. Head(queue) = answer[k + 1]
  <2>1. Head(queue) = queue[1]
    BY <1>2
  <2>2. 1 \in 1..Len(answer) - k
    BY <1>1
  <2>3. QED BY <1>1, <2>1, <2>2 DEF Stream
<1>4. /\ Len(Tail(queue)) = Len(queue) - 1
      /\ \A i \in 1..Len(queue) - 1 : Tail(queue)[i] = queue[i + 1]
  BY <1>2, HeadTailProperties
<1>5. ASSUME NEW i \in 1..Len(answer) - (k + 1) PROVE Tail(queue)[i] = answer[(k + 1) + i]
  <2>1. i \in 1..Len(queue) - 1 /\ i + 1 \in 1..Len(answer) - k /\ k + (i + 1) = (k + 1) + i
    BY <1>1
  <2>2. QED BY <1>4, <2>1 DEF Stream
<1>6. k + 1 # 0 /\ Len(Tail(queue)) = Len(answer) - (k + 1)
  BY <1>1, <1>4
<1>7. QED BY <1>1, <1>2, <1>3, <1>5, <1>6 DEF Stream

\* ... until none is left.
LEMMA StreamEnd ==
    ASSUME NEW out, NEW queue \in Seq(Octet), NEW answer \in Seq(Octet),
           Stream(out, queue, answer, Len(answer))
    PROVE  queue = <<>>
<1>1. Len(answer) \in Nat
  BY LenProperties
<1>2. Len(queue) = 0
  BY <1>1 DEF Stream
<1>3. QED BY <1>2, EmptySeq

\* The answer to a read: the block stands behind the token.
LEMMA ReadAnswerType ==
    ASSUME NEW block \in Contents
    PROVE  /\ Reply(block) \in Seq(Octet) /\ Len(Reply(block)) = BlockBytes + 4
           /\ Reply(block)[1] = 0 /\ Reply(block)[2] = 254
           /\ \A i \in 1..BlockBytes : Reply(block)[i + 2] = block[i]
<1> DEFINE front == <<0, 254>> \o block
           answer == front \o <<0, 0>>
<1>1. BlockBytes \in Nat \ {0}
  BY BlocksAssumption
<1>2. block \in Seq(Octet) /\ Len(block) = BlockBytes
  <2>1. block \in [1..BlockBytes -> Octet]
    BY DataBytesAssumption DEF Contents, Octet
  <2>2. QED BY <1>1, <2>1
<1>3. /\ <<0, 254>> \in Seq(Octet) /\ Len(<<0, 254>>) = 2
      /\ <<0, 0>> \in Seq(Octet) /\ Len(<<0, 0>>) = 2
  BY DEF Octet
<1>4. /\ front \in Seq(Octet) /\ Len(front) = 2 + BlockBytes
      /\ \A i \in 1..2 + BlockBytes :
            front[i] = IF i <= 2 THEN <<0, 254>>[i] ELSE block[i - 2]
  BY <1>2, <1>3, ConcatProperties
<1>5. front[1] = 0 /\ front[2] = 254 /\ \A i \in 1..BlockBytes : front[i + 2] = block[i]
  BY <1>1, <1>4
<1> HIDE DEF front
<1>6. /\ answer \in Seq(Octet) /\ Len(answer) = 2 + BlockBytes + 2
      /\ \A i \in 1..2 + BlockBytes + 2 :
            answer[i] = IF i <= 2 + BlockBytes THEN front[i] ELSE <<0, 0>>[i - (2 + BlockBytes)]
  BY <1>3, <1>4, ConcatProperties
<1>7. /\ answer[1] = 0 /\ answer[2] = 254
      /\ \A i \in 1..BlockBytes : answer[i + 2] = block[i]
  <2> HIDE DEF answer
  <2>1. \A i \in 1..2 + BlockBytes : answer[i] = front[i]
    BY <1>1, <1>6
  <2>2. 1 \in 1..2 + BlockBytes /\ 2 \in 1..2 + BlockBytes
    BY <1>1
  <2>3. \A i \in 1..BlockBytes : i + 2 \in 1..2 + BlockBytes
    BY <1>1
  <2>4. QED BY <1>5, <2>1, <2>2, <2>3
<1>8. answer = Reply(block)
  BY DEF Reply, front
<1> HIDE DEF answer
<1>9. QED BY <1>1, <1>6, <1>7, <1>8

-------------------------------------------------------------------------------
(* Commands. *)

\* A byte before and a byte behind four others.
LEMMA Framed ==
    ASSUME NEW x \in Octet, NEW s \in Seq(Octet), Len(s) = 4, NEW y \in Octet
    PROVE  LET t == <<x>> \o s \o <<y>>
           IN  t[1] = x /\ t[2] = s[1] /\ t[3] = s[2] /\ t[4] = s[3] /\ t[5] = s[4] /\ t[6] = y
<1> DEFINE one == <<x>>
           last == <<y>>
           front == one \o s
<1>1. one \in Seq(Octet) /\ Len(one) = 1 /\ one[1] = x
  OBVIOUS
<1>2. last \in Seq(Octet) /\ Len(last) = 1 /\ last[1] = y
  OBVIOUS
<1> HIDE DEF one, last
<1>3. /\ front \in Seq(Octet) /\ Len(front) = Len(one) + Len(s)
      /\ \A i \in 1..Len(one) + Len(s) :
            front[i] = IF i <= Len(one) THEN one[i] ELSE s[i - Len(one)]
  BY <1>1, ConcatProperties
<1> HIDE DEF front
<1>4. /\ Len(front) = 5 /\ front[1] = x
      /\ front[2] = s[1] /\ front[3] = s[2] /\ front[4] = s[3] /\ front[5] = s[4]
  BY <1>1, <1>3
<1> DEFINE t == front \o last
<1>5. /\ t \in Seq(Octet) /\ Len(t) = Len(front) + Len(last)
      /\ \A i \in 1..Len(front) + Len(last) :
            t[i] = IF i <= Len(front) THEN front[i] ELSE last[i - Len(front)]
  <2>1. front \in Seq(Octet) /\ last \in Seq(Octet)
    BY <1>2, <1>3
  <2>2. QED BY <2>1, ConcatProperties
<1> HIDE DEF t
<1>6. t[1] = x /\ t[2] = s[1] /\ t[3] = s[2] /\ t[4] = s[3] /\ t[5] = s[4] /\ t[6] = y
  <2>1. \A i \in 1..6 : t[i] = IF i <= 5 THEN front[i] ELSE last[i - 5]
    BY <1>2, <1>4, <1>5
  <2>2. QED BY <1>2, <1>4, <2>1
<1>7. QED BY <1>6 DEF t, front, one, last

\* The bytes of a command carry its number, its argument and, for the first
\* two, the checksum that the card looks at.
LEMMA CommandCoded ==
    ASSUME TypeOK
    PROVE  /\ \A i \in 1..6 : CommandBytes[i] \in Octet
           /\ CommandBytes[1] % 64 = command
           /\ command = 0 => CommandBytes[6] = 149
           /\ command = 8 => Argument(CommandBytes) % 256 = 170
           /\ command \in {ReadBlock, WriteBlock} => Argument(CommandBytes) = address
<1>1. command \in {0, 8, 41, 55, 58, 17, 24}
  BY DEF TypeOK, InitCommands, ReadBlock, WriteBlock
<1>2. CASE command = 0
  <2>1. command # 8 /\ command # 41 /\ command \notin {55, 58}
    BY <1>2
  <2>2. CommandBytes = <<64, 0, 0, 0, 0, 149>>
    BY <1>2, <2>1, Zenon DEF CommandBytes
  <2>3. QED BY <1>2, <2>2 DEF Octet, ReadBlock, WriteBlock
<1>3. CASE command = 8
  <2>1. command # 0 /\ command # 41 /\ command \notin {55, 58}
    BY <1>3
  <2>2. CommandBytes = <<72, 0, 0, 1, 170, 135>>
    BY <1>3, <2>1, Zenon DEF CommandBytes
  <2>3. QED BY <1>3, <2>2 DEF Argument, Octet, ReadBlock, WriteBlock
<1>4. CASE command = 41
  <2>1. command # 0 /\ command # 8 /\ command \notin {55, 58}
    BY <1>4
  <2>2. CommandBytes = <<105, 64, 0, 0, 0, 0>>
    BY <1>4, <2>1, Zenon DEF CommandBytes
  <2>3. QED BY <1>4, <2>2 DEF Octet, ReadBlock, WriteBlock
<1>5. CASE command \in {55, 58}
  <2>1. command # 0 /\ command # 8 /\ command # 41
    BY <1>5
  <2>2. CommandBytes = <<64 + command, 0, 0, 0, 0, 0>>
    BY <1>5, <2>1, Zenon DEF CommandBytes
  <2>3. QED BY <1>5, <2>2 DEF Octet, ReadBlock, WriteBlock
<1>6. CASE command \in {17, 24}
  <2> DEFINE b1 == address \div 16777216
             b2 == (address \div 65536) % 256
             b3 == (address \div 256) % 256
             b4 == address % 256
             q == address \div 256
             r == q \div 256
  <2>1. address \in Nat /\ address <= 2147483647
    <3>1. address \in Addresses \cup {0}
      BY SMT DEF TypeOK
    <3>2. QED BY <3>1, AddressesAssumption, SMT
  <2>2. q \in Nat /\ q <= 8388607 /\ b4 \in Octet /\ b3 \in Octet /\ address = q * 256 + b4
    BY <2>1, SMT DEF Octet
  <2>3. r \in Nat /\ r <= 32767 /\ q = r * 256 + b3
    <3>1. b3 = q % 256
      BY SMT
    <3> HIDE DEF q, b3
    <3>2. QED BY <2>2, <3>1, SMT
  <2>4. address \div 65536 = r /\ b1 = r \div 256
    BY <2>1, SMT
  <2>5. b1 \in Octet /\ b2 \in Octet /\ r = b1 * 256 + b2
    <3> HIDE DEF r
    <3>1. b2 = r % 256 /\ b1 = r \div 256
      BY <2>4, SMT
    <3> HIDE DEF b1, b2
    <3>2. QED BY <2>3, <3>1, SMT DEF Octet
  <2>6. AddressBytes = <<b1, b2, b3, b4>>
    BY SMT DEF AddressBytes
  <2> HIDE DEF b1, b2, b3, b4, q, r
  <2>7. CommandBytes = <<64 + command>> \o AddressBytes \o <<255>>
    <3>1. command # 0 /\ command # 8 /\ command # 41 /\ command \notin {55, 58}
      BY <1>6, SMT
    <3>2. QED BY <3>1, Zenon DEF CommandBytes
  <2>8. /\ CommandBytes[1] = 64 + command /\ CommandBytes[6] = 255
        /\ CommandBytes[2] = b1 /\ CommandBytes[3] = b2
        /\ CommandBytes[4] = b3 /\ CommandBytes[5] = b4
    <3>1. 64 + command \in Octet /\ 255 \in Octet /\ AddressBytes \in Seq(Octet) /\ Len(AddressBytes) = 4
      BY <1>6, <2>2, <2>5, <2>6, SMT DEF Octet
    <3>2. /\ AddressBytes[1] = b1 /\ AddressBytes[2] = b2
          /\ AddressBytes[3] = b3 /\ AddressBytes[4] = b4
      BY <2>6, SMT
    <3> DEFINE x == 64 + command
    <3> HIDE DEF x
    <3>3. LET t == <<x>> \o AddressBytes \o <<255>>
          IN  /\ t[1] = x /\ t[2] = AddressBytes[1] /\ t[3] = AddressBytes[2]
              /\ t[4] = AddressBytes[3] /\ t[5] = AddressBytes[4] /\ t[6] = 255
      <4>1. x \in Octet
        BY <3>1 DEF x
      <4>2. QED BY <3>1, <4>1, Framed
    <3>4. QED BY <2>7, <3>2, <3>3 DEF x
  <2>9. QED
    BY <1>6, <2>2, <2>3, <2>5, <2>8, SMT DEF Argument, Octet, ReadBlock, WriteBlock
<1>7. QED BY <1>1, <1>2, <1>3, <1>4, <1>5, <1>6

\* What the card answers, one case at a time.
IsResponse(R, number, argument, crc, fails) ==
    /\ number = 0 => R = <<IF crc = 149 THEN 1 ELSE 9>>
    /\ number = 8 => R = <<1, 0, 0, 1, argument % 256>>
    /\ number \in {ReadBlock, WriteBlock} /\ ~ready => R = <<5>>
    /\ number \in {ReadBlock, WriteBlock} /\ ready /\ argument >= BlockCount => R = <<64>>
    /\ number = ReadBlock /\ ready /\ argument < BlockCount =>
          R = IF fails THEN <<0, 1>> ELSE Reply(image[argument])
    /\ number = WriteBlock /\ ready /\ argument < BlockCount => R = <<0>>
    /\ number = 55 => R = <<R1Idle>>
    /\ number = 58 => R = <<R1Idle, IF ready THEN 192 ELSE 0, 255, 128, 0>>
    /\ number \notin {0, 8, ReadBlock, WriteBlock, 55, 58} => R = <<4 + R1Idle>>

\* What the card answers to each command, without the table that holds the answers.
LEMMA Responses ==
    ASSUME NEW number \in Nat, NEW argument \in Nat, NEW crc, NEW fails, BlockCount \in Nat
    PROVE  IsResponse(StandardResponse(number, argument, crc, fails), number, argument, crc, fails)
<1> DEFINE R == StandardResponse(number, argument, crc, fails)
<1>1. /\ ReadBlock \notin {0, 8, 55, 58} /\ WriteBlock \notin {0, 8, 55, 58}
      /\ ReadBlock # WriteBlock /\ 0 # 8 /\ 0 # 55 /\ 0 # 58 /\ 8 # 55 /\ 8 # 58 /\ 55 # 58
  BY DEF ReadBlock, WriteBlock
<1>2. argument >= BlockCount <=> ~(argument < BlockCount)
  OBVIOUS
<1>3. number = 0 => R = <<IF crc = 149 THEN 1 ELSE 9>>
  <2>1. SUFFICES ASSUME number = 0 PROVE R = <<IF crc = 149 THEN 1 ELSE 9>>
    OBVIOUS
  <2>2. /\ number # 8 /\ number \notin {ReadBlock, WriteBlock} /\ number # ReadBlock
        /\ number # WriteBlock /\ number # 55 /\ number # 58
    BY <1>1, <2>1
  <2>3. QED BY <2>1, <2>2, Zenon DEF StandardResponse
<1>4. number = 8 => R = <<1, 0, 0, 1, argument % 256>>
  <2>1. SUFFICES ASSUME number = 8 PROVE R = <<1, 0, 0, 1, argument % 256>>
    OBVIOUS
  <2>2. /\ number # 0 /\ number \notin {ReadBlock, WriteBlock} /\ number # ReadBlock
        /\ number # WriteBlock /\ number # 55 /\ number # 58
    BY <1>1, <2>1
  <2>3. QED BY <2>1, <2>2, Zenon DEF StandardResponse
<1>5. number \in {ReadBlock, WriteBlock} =>
        number # 0 /\ number # 8 /\ number # 55 /\ number # 58
  BY <1>1
<1>6. number \in {ReadBlock, WriteBlock} /\ ~ready => R = <<5>>
  BY <1>5, Zenon DEF StandardResponse
<1>7. number \in {ReadBlock, WriteBlock} /\ ready /\ argument >= BlockCount => R = <<64>>
  BY <1>2, <1>5, Zenon DEF StandardResponse
<1>8. number = ReadBlock /\ ready /\ argument < BlockCount =>
        R = IF fails THEN <<0, 1>> ELSE Reply(image[argument])
  BY <1>1, <1>2, <1>5, Zenon DEF StandardResponse, Reply
<1>9. number = WriteBlock /\ ready /\ argument < BlockCount => R = <<0>>
  BY <1>1, <1>2, <1>5, Zenon DEF StandardResponse
<1>10. number = 55 => R = <<R1Idle>>
  <2>1. SUFFICES ASSUME number = 55 PROVE R = <<R1Idle>>
    OBVIOUS
  <2>2. /\ number # 0 /\ number # 8 /\ number \notin {ReadBlock, WriteBlock}
        /\ number # ReadBlock /\ number # WriteBlock /\ number # 58
    BY <1>1, <2>1
  <2>3. QED BY <2>1, <2>2, Zenon DEF StandardResponse
<1>11. number = 58 => R = <<R1Idle, IF ready THEN 192 ELSE 0, 255, 128, 0>>
  <2>1. SUFFICES ASSUME number = 58
        PROVE R = <<R1Idle, IF ready THEN 192 ELSE 0, 255, 128, 0>>
    OBVIOUS
  <2>2. /\ number # 0 /\ number # 8 /\ number \notin {ReadBlock, WriteBlock}
        /\ number # ReadBlock /\ number # WriteBlock /\ number # 55
    BY <1>1, <2>1
  <2>3. QED BY <2>1, <2>2, Zenon DEF StandardResponse
<1>12. number \notin {0, 8, ReadBlock, WriteBlock, 55, 58} => R = <<4 + R1Idle>>
  BY Zenon DEF StandardResponse
<1>13. QED
  BY <1>3, <1>4, <1>6, <1>7, <1>8, <1>9, <1>10, <1>11, <1>12, Zenon DEF IsResponse

\* Every answer is a sequence of octets, and not empty.
LEMMA ResponseType ==
    ASSUME NEW number \in Nat, NEW argument \in Nat, NEW crc, NEW fails, BlockCount \in Nat,
           ready \in BOOLEAN, image \in [Blocks -> Contents],
           NEW R, IsResponse(R, number, argument, crc, fails)
    PROVE  R \in Seq(Octet) /\ R # <<>>
<1>1. R1Idle \in {0, 1}
  BY DEF R1Idle
<1>2. CASE number = 0
  <2>1. R = <<1>> \/ R = <<9>>
    BY <1>2 DEF IsResponse
  <2>2. <<1>> \in Seq(Octet) /\ <<1>> # <<>> /\ <<9>> \in Seq(Octet) /\ <<9>> # <<>>
    BY DEF Octet
  <2>3. QED BY <2>1, <2>2, Zenon
<1>3. CASE number = 8
  <2>1. R = <<1, 0, 0, 1, argument % 256>>
    BY <1>3 DEF IsResponse
  <2>2. argument % 256 \in Octet
    BY DEF Octet
  <2>3. QED BY <2>1, <2>2 DEF Octet
<1>4. CASE number \in {ReadBlock, WriteBlock} /\ (~ready \/ argument >= BlockCount)
  <2>1. R = <<5>> \/ R = <<64>>
    BY <1>4, Zenon DEF IsResponse
  <2>2. <<5>> \in Seq(Octet) /\ <<5>> # <<>> /\ <<64>> \in Seq(Octet) /\ <<64>> # <<>>
    BY DEF Octet
  <2>3. QED BY <2>1, <2>2, Zenon
<1>5. CASE number = ReadBlock /\ ready /\ argument < BlockCount
  <2> DEFINE whole == Reply(image[argument])
  <2>1. R = <<0, 1>> \/ R = whole
    BY <1>5, Zenon DEF IsResponse
  <2>2. image[argument] \in Contents
    BY <1>5 DEF Blocks
  <2>3. whole \in Seq(Octet) /\ Len(whole) = BlockBytes + 4
    BY <2>2, ReadAnswerType
  <2> HIDE DEF whole
  <2>4. CASE R = <<0, 1>>
    BY <2>4 DEF Octet
  <2>5. CASE R = whole
    <3>1. Len(whole) # 0
      BY <2>3, BlocksAssumption
    <3>2. whole # <<>>
      BY <2>3, <3>1, EmptySeq, Zenon
    <3>3. QED BY <2>3, <2>5, <3>2
  <2>6. QED BY <2>1, <2>4, <2>5
<1>6. CASE number = WriteBlock /\ ready /\ argument < BlockCount
  <2>1. R = <<0>>
    BY <1>6, Zenon DEF IsResponse
  <2>2. QED BY <2>1 DEF Octet
<1>7. CASE number = 55
  <2>1. R = <<R1Idle>>
    BY <1>7 DEF IsResponse
  <2>2. QED BY <1>1, <2>1 DEF Octet
<1>8. CASE number = 58
  <2>1. R = <<R1Idle, 192, 255, 128, 0>> \/ R = <<R1Idle, 0, 255, 128, 0>>
    BY <1>8 DEF IsResponse
  <2>2. /\ <<R1Idle, 192, 255, 128, 0>> \in Seq(Octet) /\ <<R1Idle, 192, 255, 128, 0>> # <<>>
        /\ <<R1Idle, 0, 255, 128, 0>> \in Seq(Octet) /\ <<R1Idle, 0, 255, 128, 0>> # <<>>
    BY <1>1 DEF Octet
  <2>3. QED BY <2>1, <2>2, Zenon
<1>9. CASE number \notin {0, 8, ReadBlock, WriteBlock, 55, 58}
  <2>1. R = <<4 + R1Idle>>
    BY <1>9, Zenon DEF IsResponse
  <2>2. QED BY <1>1, <2>1 DEF Octet
<1>10. argument >= BlockCount \/ argument < BlockCount
  OBVIOUS
<1>11. QED BY <1>2, <1>3, <1>4, <1>5, <1>6, <1>7, <1>8, <1>9, <1>10

-------------------------------------------------------------------------------
(* Exchanges. *)

CardTypeOK ==
    /\ enabled \in BOOLEAN /\ ready \in BOOLEAN /\ next_is_app_command \in BOOLEAN
    /\ write_address \in Blocks \cup {0}
    /\ card_state \in CardStates
    /\ next_card_state \in {"undefined", "idle", "data_token"}
    /\ input_buffer \in Seq(Octet) /\ response_queue \in Seq(Octet)
    /\ image \in [Blocks -> Contents]
    /\ sub_data_out \in Octet

\* A command that has come whole changes the card's variables within their types.
LEMMA HandleTypes ==
    ASSUME CardTypeOK, NEW bytes \in Seq(Octet), Len(bytes) = 6, HandleCommand(bytes)
    PROVE  /\ ready' \in BOOLEAN /\ next_is_app_command' \in BOOLEAN
           /\ write_address' \in Blocks \cup {0}
           /\ next_card_state' \in {"undefined", "idle", "data_token"}
           /\ response_queue' \in Seq(Octet) /\ response_queue' # <<>>
<1> DEFINE number == bytes[1] % 64
<1>1. /\ bytes[1] \in 0..255 /\ bytes[2] \in 0..255 /\ bytes[3] \in 0..255
      /\ bytes[4] \in 0..255 /\ bytes[5] \in 0..255
  <2>1. bytes \in [1..6 -> Octet]
    BY LenProperties
  <2>2. QED BY <2>1 DEF Octet
<1>2. number \in Nat
  <2>1. \A x \in 0..255 : x % 64 \in Nat
    OBVIOUS
  <2>2. QED BY <1>1, <2>1
<1>3. Argument(bytes) \in Nat
  <2>1. PICK w \in 0..255 : w = bytes[2]
    BY <1>1
  <2>2. PICK x \in 0..255 : x = bytes[3]
    BY <1>1
  <2>3. PICK y \in 0..255 : y = bytes[4]
    BY <1>1
  <2>4. PICK z \in 0..255 : z = bytes[5]
    BY <1>1
  <2>5. Argument(bytes) = ((w * 256 + x) * 256 + y) * 256 + z
    BY <2>1, <2>2, <2>3, <2>4, Zenon DEF Argument
  <2>6. QED BY <2>5
<1>4. BlockCount \in Nat
  BY BlocksAssumption
<1> HIDE DEF number
<1>5. \A R \in Seq(Octet) : R # <<>> =>
        response_queue \o R \in Seq(Octet) /\ response_queue \o R # <<>>
  <2>1. SUFFICES ASSUME NEW R \in Seq(Octet), R # <<>>
                 PROVE  response_queue \o R \in Seq(Octet) /\ response_queue \o R # <<>>
    OBVIOUS
  <2>2. /\ response_queue \in Seq(Octet) /\ Len(response_queue) \in Nat /\ Len(R) \in Nat
        /\ Len(R) # 0
    BY <2>1, EmptySeq, LenProperties DEF CardTypeOK
  <2>3. response_queue \o R \in Seq(Octet) /\ Len(response_queue \o R) # 0
    BY <2>2, ConcatProperties
  <2>4. QED BY <2>3, EmptySeq, Zenon
<1>6. CASE next_is_app_command
  <2>1. AppCommand(number)
    BY <1>6 DEF HandleCommand, number
  <2>2. Append(response_queue, IF number = 41 THEN 0 ELSE 255) \in Seq(Octet)
    BY AppendProperties DEF CardTypeOK, Octet
  <2>3. Append(response_queue, IF number = 41 THEN 0 ELSE 255) # <<>>
    <3>1. /\ response_queue \in Seq(Octet) /\ Len(response_queue) \in Nat
          /\ (IF number = 41 THEN 0 ELSE 255) \in Octet
      BY LenProperties DEF CardTypeOK, Octet
    <3>2. Len(Append(response_queue, IF number = 41 THEN 0 ELSE 255)) # 0
      BY <3>1, AppendProperties
    <3>3. QED BY <2>2, <3>2, EmptySeq, Zenon
  <2>4. QED BY <1>6, <2>1, <2>2, <2>3 DEF AppCommand, CardTypeOK
<1>7. CASE ~next_is_app_command
  <2>1. StandardCommand(number, Argument(bytes), bytes[6])
    BY <1>7 DEF HandleCommand, number
  <2>2. PICK fails \in ReadFails : response_queue' = response_queue \o
                   StandardResponse(number, Argument(bytes), bytes[6], fails)
    BY <2>1 DEF StandardCommand
  <2> DEFINE R == StandardResponse(number, Argument(bytes), bytes[6], fails)
  <2>3. IsResponse(R, number, Argument(bytes), bytes[6], fails)
    BY <1>2, <1>3, <1>4, Responses
  <2> HIDE DEF R
  <2>4. R \in Seq(Octet) /\ R # <<>>
    BY <1>2, <1>3, <1>4, <2>3, ResponseType DEF CardTypeOK
  <2>5. response_queue' \in Seq(Octet) /\ response_queue' # <<>>
    BY <1>5, <2>2, <2>4 DEF R
  <2>6. write_address' \in Blocks \cup {0}
    <3>1. \/ write_address' = write_address
          \/ write_address' = Argument(bytes) /\ Argument(bytes) < BlockCount
      BY <2>1 DEF StandardCommand
    <3>2. Argument(bytes) < BlockCount => Argument(bytes) \in Blocks
      BY <1>3, <1>4 DEF Blocks
    <3>3. QED BY <3>1, <3>2 DEF CardTypeOK
  <2>7. /\ ready' \in BOOLEAN /\ next_is_app_command' \in BOOLEAN
        /\ next_card_state' \in {"undefined", "idle", "data_token"}
    BY <2>1 DEF StandardCommand, CardTypeOK
  <2>8. QED BY <2>5, <2>6, <2>7
<1>8. QED BY <1>6, <1>7

\* An exchange keeps the types of the card.
LEMMA ExchangeTypes ==
    ASSUME CardTypeOK, NEW byte, Exchange(byte),
           card_state \in {"command", "data"} => byte \in Octet,
           card_state = "command" => Len(input_buffer) <= 5,
           enabled /\ card_state = "data" => image' \in [Blocks -> Contents]
    PROVE  CardTypeOK'
<1>1. enabled' \in BOOLEAN
  BY DEF Exchange, CardTypeOK
<1>2. CASE IgnoreByte
  BY <1>1, <1>2 DEF IgnoreByte, session_vars, CardTypeOK, Octet
<1>3. CASE CommandByte(byte)
  <2>1. byte \in Octet /\ Append(input_buffer, byte) \in Seq(Octet)
    BY <1>3 DEF CommandByte, CardTypeOK
  <2>2. sub_data_out' \in Octet /\ image' = image
    BY <1>3 DEF CommandByte, Octet
  <2>3. CASE Len(input_buffer) = 5
    <3>1. /\ HandleCommand(Append(input_buffer, byte))
          /\ input_buffer' = <<>> /\ card_state' = "response"
      BY <1>3, <2>3 DEF CommandByte
    <3> DEFINE bytes == Append(input_buffer, byte)
    <3>2. Len(bytes) = 6
      <4>1. input_buffer \in Seq(Octet)
        BY DEF CardTypeOK
      <4>2. Len(bytes) = Len(input_buffer) + 1
        BY <2>1, <4>1, AppendProperties
      <4>3. QED BY <2>3, <4>2
    <3>3. bytes \in Seq(Octet) /\ HandleCommand(bytes)
      BY <2>1, <3>1
    <3> HIDE DEF bytes
    <3>4. /\ ready' \in BOOLEAN /\ next_is_app_command' \in BOOLEAN
          /\ write_address' \in Blocks \cup {0}
          /\ next_card_state' \in {"undefined", "idle", "data_token"}
          /\ response_queue' \in Seq(Octet)
      BY <3>2, <3>3, HandleTypes
    <3>5. input_buffer' \in Seq(Octet) /\ card_state' \in CardStates
      BY <3>1 DEF CardStates
    <3>6. QED BY <1>1, <2>2, <3>4, <3>5 DEF CardTypeOK
  <2>4. CASE Len(input_buffer) # 5
    BY <1>1, <1>3, <2>1, <2>2, <2>4, SMTT(40) DEF CommandByte, session_vars, CardTypeOK
  <2>5. QED BY <2>3, <2>4
<1>4. CASE ResponseByte
  <2>1. CASE response_queue = <<>>
    BY <1>1, <1>4, <2>1 DEF ResponseByte, CardTypeOK, Octet
  <2>2. CASE response_queue # <<>>
    <3>1. Head(response_queue) \in Octet /\ Tail(response_queue) \in Seq(Octet)
      BY <2>2, HeadTailProperties DEF CardTypeOK
    <3>2. QED BY <1>1, <1>4, <2>2, <3>1 DEF ResponseByte, CardTypeOK, CardStates
  <2>3. QED BY <2>1, <2>2
<1>5. CASE TokenByte(byte)
  <2>1. sub_data_out' \in Octet /\ card_state' \in CardStates /\ input_buffer' \in Seq(Octet)
    <3>1. sub_data_out' \in Octet
      BY <1>5 DEF TokenByte, Octet
    <3>2. CASE byte = 254
      <4>1. card_state' = "data" /\ input_buffer' = <<>>
        BY <1>5, <3>2 DEF TokenByte
      <4>2. QED BY <3>1, <4>1 DEF CardStates
    <3>3. CASE byte # 254
      <4>1. UNCHANGED <<card_state, input_buffer>>
        BY <1>5, <3>3 DEF TokenByte
      <4>2. QED BY <3>1, <4>1 DEF CardTypeOK
    <3>4. QED BY <3>2, <3>3
  <2>2. UNCHANGED <<session_vars, response_queue, image>>
    BY <1>5 DEF TokenByte
  <2>3. QED BY <1>1, <2>1, <2>2 DEF session_vars, CardTypeOK
<1>6. CASE DataByte(byte)
  <2>1. byte \in Octet /\ Append(input_buffer, byte) \in Seq(Octet)
    BY <1>6 DEF DataByte, CardTypeOK
  <2>2. response_queue \o <<5, 0>> \in Seq(Octet)
    BY ConcatProperties DEF CardTypeOK, Octet
  <2>3. sub_data_out' \in Octet /\ image' \in [Blocks -> Contents] /\ UNCHANGED session_vars
    BY <1>6 DEF DataByte, Octet
  <2>4. /\ input_buffer' \in Seq(Octet) /\ card_state' \in CardStates
        /\ response_queue' \in Seq(Octet)
    <3>1. CASE Len(Append(input_buffer, byte)) = BlockBytes + 2
      <4>1. /\ input_buffer' = <<>> /\ card_state' = "response"
            /\ response_queue' = response_queue \o <<5, 0>>
        BY <1>6, <3>1 DEF DataByte
      <4>2. QED BY <2>2, <4>1 DEF CardStates
    <3>2. CASE Len(Append(input_buffer, byte)) # BlockBytes + 2
      <4>1. /\ input_buffer' = Append(input_buffer, byte)
            /\ UNCHANGED <<card_state, response_queue>>
        BY <1>6, <3>2 DEF DataByte
      <4>2. QED BY <2>1, <4>1 DEF CardTypeOK
    <3>3. QED BY <3>1, <3>2
  <2>5. QED BY <1>1, <2>3, <2>4 DEF session_vars, CardTypeOK
<1>7. QED BY <1>2, <1>3, <1>4, <1>5, <1>6 DEF Exchange

\* A card that is not selected takes no notice.
LEMMA Ignored ==
    ASSUME Unselected, NEW byte, Exchange(byte)
    PROVE  Unselected' /\ UNCHANGED <<session_vars, image>>
BY DEF Unselected, Exchange, IgnoreByte, CommandByte, ResponseByte, TokenByte, DataByte

\* A byte that is no token takes what the card has to say a byte further.
LEMMA Served ==
    ASSUME CardTypeOK, Serving, NEW byte, Exchange(byte),
           byte # 254 \/ response_queue # <<>>
    PROVE  /\ Serving' /\ CardTypeOK'
           /\ UNCHANGED <<ready, next_is_app_command, write_address, image>>
           /\ response_queue = <<>> =>
                sub_data_out' = 255 /\ response_queue' = <<>> /\ card_state' = card_state
           /\ response_queue # <<>> =>
                sub_data_out' = Head(response_queue) /\ response_queue' = Tail(response_queue)
           /\ response_queue # <<>> /\ Tail(response_queue) = <<>>
                /\ next_card_state = "data_token" => card_state' = "data_token"
<1>1. CardTypeOK'
  BY ExchangeTypes DEF Serving
<1>2. CASE response_queue = <<>>
  <2>1. card_state # "response" /\ byte # 254
    BY <1>2 DEF Serving
  <2>2. IgnoreByte \/ TokenByte(byte)
    BY <2>1 DEF Serving, Exchange, CommandByte, ResponseByte, DataByte
  <2>3. QED
    BY <1>1, <1>2, <2>1, <2>2
    DEF Serving, Exchange, IgnoreByte, TokenByte, session_vars
<1>3. CASE response_queue # <<>>
  <2>1. card_state = "response"
    BY <1>3 DEF Serving
  <2>2. ResponseByte
    BY <2>1 DEF Serving, Exchange, IgnoreByte, CommandByte, TokenByte, DataByte
  <2>3. QED
    BY <1>1, <1>3, <2>1, <2>2 DEF Serving, Exchange, ResponseByte, CardTypeOK
<1>4. QED BY <1>2, <1>3

\* Chip select.
LEMMA Selecting ==
    ASSUME CardTypeOK, ~enabled, ChipSelect(TRUE)
    PROVE  /\ CardTypeOK' /\ enabled' /\ card_state' = "command"
           /\ input_buffer' = <<>> /\ response_queue' = <<>> /\ sub_data_out' = 255
           /\ UNCHANGED <<session_vars, image>>
BY DEF ChipSelect, CardTypeOK, CardStates, Octet, session_vars

\* A card that is deselected forgets what it was receiving.
LEMMA Deselecting ==
    ASSUME CardTypeOK, AtBoot, ChipSelect(FALSE)
    PROVE  CardTypeOK' /\ Unselected' /\ UNCHANGED <<session_vars, image>>
<1>1. CASE enabled
  <2>1. /\ enabled' = FALSE /\ card_state' = IF ready THEN "ready" ELSE "idle"
        /\ sub_data_out' = 255
        /\ UNCHANGED <<session_vars, image, input_buffer, response_queue>>
    BY <1>1 DEF ChipSelect
  <2>2. card_state' \in {"idle", "ready"}
    BY <2>1
  <2>3. sub_data_out' \in Octet /\ card_state' \in CardStates
    BY <2>1, <2>2 DEF Octet, CardStates
  <2>4. QED BY <2>1, <2>2, <2>3 DEF Unselected, CardTypeOK, session_vars
<1>2. CASE ~enabled
  <2>1. UNCHANGED card_vars
    BY <1>2 DEF ChipSelect, CardTypeOK
  <2>2. QED BY <1>2, <2>1 DEF AtBoot, Unselected, CardTypeOK, card_vars, session_vars
<1>3. QED BY <1>1, <1>2

-------------------------------------------------------------------------------
(* The driver. *)

DriverTypeOK ==
    /\ phase \in Phases
    /\ command \in InitCommands \cup {ReadBlock, WriteBlock}
    /\ count \in Nat /\ a \in Octet
    /\ address \in Addresses \cup {0} /\ buffer \in Seq(DataBytes)
    /\ resets \in 0..MaxResets /\ app_at_start \in BOOLEAN

\* TypeOK is that of the card and that of the driver.
LEMMA TypeParts == TypeOK <=> CardTypeOK /\ DriverTypeOK
BY DEF TypeOK, CardTypeOK, DriverTypeOK, Octet

LEMMA TypePartsNext == TypeOK' <=> CardTypeOK' /\ DriverTypeOK'
BY TypeParts, PTL

\* The short answers are sequences of octets.
LEMMA AnswersTyped ==
    /\ <<1>> \in Seq(Octet) /\ 0 < Len(<<1>>)
    /\ <<255>> \in Seq(Octet) /\ 0 < Len(<<255>>)
    /\ <<0>> \in Seq(Octet) /\ 0 < Len(<<0>>)
    /\ <<5>> \in Seq(Octet) /\ 0 < Len(<<5>>)
    /\ <<64>> \in Seq(Octet) /\ 0 < Len(<<64>>)
    /\ <<0, 1>> \in Seq(Octet) /\ 0 < Len(<<0, 1>>)
    /\ <<5, 0>> \in Seq(Octet) /\ 0 < Len(<<5, 0>>)
    /\ <<1, 0, 0, 1, 170>> \in Seq(Octet) /\ 0 < Len(<<1, 0, 0, 1, 170>>)
    /\ <<0, 192, 255, 128, 0>> \in Seq(Octet) /\ 0 < Len(<<0, 192, 255, 128, 0>>)
BY DEF Octet

\* The commands the driver sends.
LEMMA Commands ==
    ASSUME TypeOK
    PROVE  command \in {0, 8, 41, 55, 58, 17, 24}
BY DEF TypeOK, InitCommands, ReadBlock, WriteBlock

\* What follows R1.
LEMMA AfterR1Is ==
    ASSUME TypeOK, NEW received
    PROVE  /\ command \in {0, 41, 55} => AfterR1(received) = "deselect"
           /\ command = 8 => AfterR1(received) = "skip"
           /\ command = 58 => AfterR1(received) = "ocr"
           /\ command = ReadBlock /\ received = 0 => AfterR1(received) = "token"
           /\ command = WriteBlock /\ received = 0 => AfterR1(received) = "start"
           /\ command \in {ReadBlock, WriteBlock} /\ received # 0 => AfterR1(received) = "deselect"
<1>1. command \in {0, 41, 55} => command # 8 /\ command # 58 /\ command # ReadBlock /\ command # WriteBlock
  BY DEF ReadBlock, WriteBlock
<1>2. command = 8 => command # 58 /\ command # ReadBlock /\ command # WriteBlock
  BY DEF ReadBlock, WriteBlock
<1>3. command = 58 => command # 8 /\ command # ReadBlock /\ command # WriteBlock
  BY DEF ReadBlock, WriteBlock
<1>4. command = ReadBlock => command # 8 /\ command # 58 /\ command # WriteBlock
  BY DEF ReadBlock, WriteBlock
<1>5. command = WriteBlock => command # 8 /\ command # 58 /\ command # ReadBlock
  BY DEF ReadBlock, WriteBlock
<1>6. command \in {0, 41, 55} => AfterR1(received) = "deselect"
  BY <1>1, Zenon DEF AfterR1
<1>7. command = 8 => AfterR1(received) = "skip"
  BY <1>2, Zenon DEF AfterR1
<1>8. command = 58 => AfterR1(received) = "ocr"
  BY <1>3, Zenon DEF AfterR1
<1>9. /\ command = ReadBlock /\ received = 0 => AfterR1(received) = "token"
      /\ command = ReadBlock /\ received # 0 => AfterR1(received) = "deselect"
  BY <1>4, Zenon DEF AfterR1
<1>10. /\ command = WriteBlock /\ received = 0 => AfterR1(received) = "start"
       /\ command = WriteBlock /\ received # 0 => AfterR1(received) = "deselect"
  BY <1>5, Zenon DEF AfterR1
<1>11. QED BY <1>6, <1>7, <1>8, <1>9, <1>10

\* The order of the commands of an initialisation.
LEMMA NextCommandIs ==
    ASSUME TypeOK, NEW received, NextCommand(received)
    PROVE  /\ command = 0 /\ received = 1 => Go("select") /\ command' = 8 /\ a' = received
           /\ command = 0 /\ received # 1 => Go("idle") /\ command' = command /\ a' = 1
           /\ command = 8 /\ received = 1 => Go("select") /\ command' = 55 /\ a' = received
           /\ command = 55 => Go("select") /\ command' = 41 /\ a' = received
           /\ command = 41 /\ received = 0 => Go("select") /\ command' = 58 /\ a' = received
           /\ command = 58 => Go("idle") /\ command' = command
                               /\ a' = IF received >= 192 THEN 0 ELSE 1
<1> DEFINE chosen == CASE command = 0 /\ received = 1 -> 8
                       [] command = 8 /\ received = 1 -> 55
                       [] command = 55 -> 41
                       [] command = 41 -> IF received = 0 THEN 58 ELSE 55
                       [] OTHER -> 0
<1>1. IF chosen # 0
        THEN Go("select") /\ command' = chosen /\ a' = received
        ELSE /\ Go("idle") /\ command' = command
             /\ a' = IF command = 58 /\ received >= 192 THEN 0 ELSE 1
  BY Zenon DEF NextCommand
<1>2. CASE command = 0 /\ received = 1
  <2>1. command # 8 /\ command # 55 /\ command # 41
    BY <1>2
  <2>2. chosen = 8
    BY <1>2, <2>1, Zenon
  <2> HIDE DEF chosen
  <2>3. QED BY <1>1, <1>2, <2>2
<1>3. CASE command = 0 /\ received # 1
  <2>1. command # 8 /\ command # 55 /\ command # 41
    BY <1>3
  <2>2. chosen = 0
    BY <1>3, <2>1, Zenon
  <2> HIDE DEF chosen
  <2>3. QED BY <1>1, <1>3, <2>2
<1>4. CASE command = 8
  <2>1. command # 0 /\ command # 55 /\ command # 41
    BY <1>4
  <2>2. received = 1 => chosen = 55
    BY <1>4, <2>1, Zenon
  <2> HIDE DEF chosen
  <2>3. QED BY <1>1, <1>4, <2>2
<1>5. CASE command = 55
  <2>1. command # 0 /\ command # 8 /\ command # 41
    BY <1>5
  <2>2. chosen = 41
    BY <1>5, <2>1, Zenon
  <2> HIDE DEF chosen
  <2>3. QED BY <1>1, <1>5, <2>2
<1>6. CASE command = 41
  <2>1. command # 0 /\ command # 8 /\ command # 55
    BY <1>6
  <2>2. received = 0 => chosen = 58
    BY <1>6, <2>1, Zenon
  <2> HIDE DEF chosen
  <2>3. QED BY <1>1, <1>6, <2>2
<1>7. CASE command = 58
  <2>1. command # 0 /\ command # 8 /\ command # 55 /\ command # 41
    BY <1>7
  <2>2. chosen = 0
    BY <2>1, Zenon
  <2> HIDE DEF chosen
  <2>3. QED BY <1>1, <1>7, <2>2
<1>8. CASE command \in {17, 24}
  BY <1>8
<1>9. QED BY <1>2, <1>3, <1>4, <1>5, <1>6, <1>7, <1>8, Commands

\* The sixth byte of a command makes the card answer it.
LEMMA CommandSent ==
    ASSUME TypeOK, AtSend, count = 5, Exchange(CommandBytes[6]),
           count' = 0, UNCHANGED <<command, address, buffer, app_at_start>>
    PROVE  AtR1' /\ CardTypeOK' /\ UNCHANGED image
           /\ (command \notin InitCommands => UNCHANGED ready)
<1> DEFINE bytes == Append(input_buffer, CommandBytes[6])
           argument == Argument(bytes)
<1>1. /\ CardTypeOK /\ \A i \in 1..6 : CommandBytes[i] \in Octet
      /\ CommandBytes[1] % 64 = command
  BY TypeParts, CommandCoded
<1>2. /\ input_buffer \in Seq(Octet) /\ Len(input_buffer) = 5 /\ CommandBytes[6] \in Octet
      /\ \A i \in 1..5 : input_buffer[i] = CommandBytes[i]
  BY <1>1 DEF AtSend, HasReceived, CardTypeOK
<1>3. /\ bytes \in Seq(Octet) /\ Len(bytes) = 6
      /\ bytes[1] = CommandBytes[1] /\ bytes[2] = CommandBytes[2] /\ bytes[3] = CommandBytes[3]
      /\ bytes[4] = CommandBytes[4] /\ bytes[5] = CommandBytes[5] /\ bytes[6] = CommandBytes[6]
  <2>1. /\ bytes \in Seq(Octet) /\ Len(bytes) = Len(input_buffer) + 1
        /\ \A i \in 1..Len(input_buffer) : bytes[i] = input_buffer[i]
        /\ bytes[Len(input_buffer) + 1] = CommandBytes[6]
    <3>1. input_buffer \in Seq(Octet) /\ CommandBytes[6] \in Octet
      BY <1>2
    <3>2. QED BY <3>1, AppendProperties
  <2> HIDE DEF bytes
  <2>2. QED BY <1>2, <2>1
<1>4. argument = Argument(CommandBytes)
  BY <1>3, Zenon DEF Argument
<1>5. CommandByte(CommandBytes[6])
  BY DEF Exchange, AtSend, IgnoreByte, ResponseByte, TokenByte, DataByte
<1>6. /\ sub_data_out' = 255 /\ image' = image /\ card_state' = "response"
      /\ HandleCommand(bytes) /\ enabled'
  BY <1>2, <1>5 DEF CommandByte, Exchange, AtSend
<1>7. CardTypeOK'
  BY <1>1, <1>2, ExchangeTypes DEF AtSend
<1> HIDE DEF bytes
<1>8. response_queue' \in Seq(Octet) /\ response_queue' # <<>>
  BY <1>1, <1>3, <1>6, HandleTypes
<1>9. Serving'
  BY <1>6, <1>8 DEF Serving
<1>10. Called'
  BY DEF AtSend, Called
<1>11. response_queue = <<>> /\ Prepared /\ (command = ReadBlock => buffer' = <<>>)
  BY DEF AtSend
<1>12. \A answer \in Seq(Octet) : response_queue' = answer => Stream(sub_data_out', response_queue', answer, count')
  BY <1>6, StreamStart
<1>16. count' < 2
  OBVIOUS
<1>13. CASE next_is_app_command
  <2>1. command \in {0, 41} /\ (command = 0 => app_at_start)
    BY <1>11, <1>13 DEF Prepared
  <2>2. AppCommand(command)
    BY <1>1, <1>3, <1>6, <1>13 DEF HandleCommand
  <2>3. response_queue' = <<IF command = 41 THEN 0 ELSE 255>>
    BY <1>11, <2>2 DEF AppCommand
  <2>4. /\ next_is_app_command' = FALSE /\ ready' = (ready \/ command = 41)
    BY <2>2 DEF AppCommand
  <2>5. Handled'
    <3>1. ~next_is_app_command' /\ command' # 55 /\ command' # 8 /\ command' # 58
      BY <2>1, <2>4
    <3>2. command' = 41 => ready'
      BY <2>4
    <3>3. QED BY <3>1, <3>2 DEF Handled
  <2>6. CASE command = 0
    <3>1. response_queue' = <<255>>
      BY <2>3, <2>6
    <3>2. Stream(sub_data_out', response_queue', <<255>>, count')
      BY <1>12, <3>1, AnswersTyped, Zenon
    <3>3. Responding'
      BY <2>1, <2>6, <3>2 DEF Responding, Answering
    <3>4. QED BY <1>6, <1>7, <1>9, <1>10, <1>11, <2>5, <2>6, <3>3 DEF AtR1, InitCommands, ReadBlock
  <2>7. CASE command = 41
    <3>1. Stream(sub_data_out', response_queue', <<0>>, count')
      BY <1>12, <2>3, <2>7, AnswersTyped
    <3>2. Responding'
      BY <2>7, <3>1 DEF Responding, Answering
    <3>3. QED BY <1>6, <1>7, <1>9, <1>10, <1>11, <2>5, <2>7, <3>2 DEF AtR1, InitCommands, ReadBlock
  <2>8. QED BY <2>1, <2>6, <2>7
<1>14. CASE ~next_is_app_command
  <2>1. command # 41
    BY <1>11, <1>14 DEF Prepared
  <2>2. StandardCommand(command, argument, CommandBytes[6])
    BY <1>1, <1>3, <1>6, <1>14 DEF HandleCommand
  <2>3. PICK fails \in ReadFails :
           response_queue' = response_queue
                               \o StandardResponse(command, argument, CommandBytes[6], fails)
    BY <2>2 DEF StandardCommand
  <2>4. /\ ready' = (ready /\ command # 0) /\ next_is_app_command' = (command = 55)
        /\ (command = WriteBlock /\ ready /\ argument < BlockCount =>
              next_card_state' = "data_token" /\ write_address' = argument)
    BY <2>2 DEF StandardCommand
  <2>5. Handled'
    <3>1. next_is_app_command' <=> command' = 55
      BY <2>4, Zenon
    <3>2. command' \in {8, 55} => ~ready'
      BY <1>11, <2>4 DEF Prepared
    <3>3. command' \in {41, 58} => ready'
      <4>1. command = 58 => ready /\ command # 0
        BY <1>11 DEF Prepared
      <4>2. command = 58 => ready'
        BY <2>4, <4>1, Zenon
      <4>3. QED BY <2>1, <4>2
    <3>4. QED BY <3>1, <3>2, <3>3 DEF Handled
  <2>6. command \notin InitCommands => UNCHANGED ready
    BY <1>1, <2>4 DEF InitCommands, CardTypeOK
  <2> DEFINE R == StandardResponse(command, argument, CommandBytes[6], fails)
  <2>7. command \in Nat /\ argument \in Nat /\ BlockCount \in Nat
    <3>1. /\ CommandBytes[1] \in 0..255 /\ CommandBytes[2] \in 0..255 /\ CommandBytes[3] \in 0..255
          /\ CommandBytes[4] \in 0..255 /\ CommandBytes[5] \in 0..255
      BY <1>1 DEF Octet
    <3>2. PICK w \in 0..255 : w = CommandBytes[2]
      BY <3>1
    <3>3. PICK x \in 0..255 : x = CommandBytes[3]
      BY <3>1
    <3>4. PICK y \in 0..255 : y = CommandBytes[4]
      BY <3>1
    <3>5. PICK z \in 0..255 : z = CommandBytes[5]
      BY <3>1
    <3>6. argument = ((w * 256 + x) * 256 + y) * 256 + z
      BY <1>4, <3>2, <3>3, <3>4, <3>5, Zenon DEF Argument
    <3> HIDE DEF argument
    <3>7. QED BY <3>6, Commands, BlocksAssumption
  <2> HIDE DEF argument
  <2>8. IsResponse(R, command, argument, CommandBytes[6], fails)
    BY <2>7, Responses
  <2> HIDE DEF R
  <2>9. R \in Seq(Octet)
    BY <1>1, <2>7, <2>8, ResponseType DEF CardTypeOK
  <2>10. response_queue' = R
    BY <1>11, <2>3, <2>9, ConcatEmptySeq DEF R
  <2>11. Stream(sub_data_out', response_queue', R, count')
    BY <1>12, <2>9, <2>10
  <2>12. ASSUME Responding' PROVE AtR1'
    BY <1>9, <1>10, <1>11, <2>5, <2>12 DEF AtR1
  <2>13. CASE command = 0
    <3>1. R = <<1>> /\ ~ready'
      BY <2>4, <2>8, <2>13, CommandCoded DEF IsResponse
    <3>2. Responding'
      BY <2>11, <2>13, <3>1 DEF Responding, Answering
    <3>3. QED BY <1>6, <1>7, <2>6, <2>12, <3>2
  <2>14. CASE command = 8
    <3>1. argument % 256 = 170
      BY <1>4, <2>14, CommandCoded
    <3>2. R = <<1, 0, 0, 1, 170>>
      BY <2>8, <2>14, <3>1, Zenon DEF IsResponse
    <3>3. Responding'
      BY <1>16, <2>11, <2>14, <3>2, Zenon DEF Responding, Answering
    <3>4. QED BY <1>6, <1>7, <2>6, <2>12, <3>3
  <2>15. CASE command = 55
    <3>1. R1Idle = 1
      BY <1>11, <2>15 DEF Prepared, R1Idle
    <3>2. R = <<1>>
      BY <2>8, <2>15, <3>1, Zenon DEF IsResponse
    <3>3. Responding'
      BY <2>11, <2>15, <3>2 DEF Responding, Answering
    <3>4. QED BY <1>6, <1>7, <2>6, <2>12, <3>3
  <2>16. CASE command = 58
    <3>1. R1Idle = 0 /\ ready
      BY <1>11, <2>16 DEF Prepared, R1Idle
    <3>2. R = <<0, 192, 255, 128, 0>>
      BY <2>8, <2>16, <3>1, Zenon DEF IsResponse
    <3>3. Responding'
      BY <1>16, <2>11, <2>16, <3>2, Zenon DEF Responding, Answering
    <3>4. QED BY <1>6, <1>7, <2>6, <2>12, <3>3
  <2>17. CASE command \in {ReadBlock, WriteBlock}
    <3>1. /\ argument = address /\ UNCHANGED <<ready, address, image>>
          /\ address \in Nat /\ command # 0
      <4>1. argument = address /\ command # 0
        BY <1>4, <2>17, CommandCoded DEF argument, ReadBlock, WriteBlock
      <4>2. UNCHANGED ready
        BY <1>1, <2>4, <4>1 DEF CardTypeOK
      <4>3. QED BY <1>6, <2>7, <4>1, <4>2
    <3>2. /\ Valid' <=> Valid
          /\ Valid <=> ready /\ address < BlockCount
          /\ ReadAnswer' = ReadAnswer
      BY <2>7, <3>1 DEF Valid, Blocks, ReadAnswer
    <3>3. CASE ~Valid
      <4>1. address >= BlockCount \/ ~ready
        BY <2>7, <3>1, <3>2, <3>3
      <4>2. R = <<5>> \/ R = <<64>>
        BY <2>8, <2>17, <3>1, <4>1, Zenon DEF IsResponse
      <4>3. Responding'
        BY <2>11, <2>17, <3>2, <3>3, <4>2, ZenonT(40) DEF Responding, Answering
      <4>4. QED BY <1>6, <1>7, <2>6, <2>12, <4>3
    <3>4. CASE Valid /\ command = ReadBlock
      <4>1. (R = <<0, 1>> /\ TRUE \in ReadFails) \/ R = ReadAnswer
        <5>1. R = IF fails THEN <<0, 1>> ELSE ReadAnswer
          BY <2>8, <3>1, <3>2, <3>4, Zenon DEF IsResponse, ReadAnswer
        <5>2. fails \in {TRUE, FALSE}
          BY ReadFailsAssumption
        <5>3. QED BY <5>1, <5>2
      <4>2. Responding'
        BY <1>16, <2>11, <3>2, <3>4, <4>1, Zenon DEF Responding, Answering
      <4>3. QED BY <1>6, <1>7, <2>6, <2>12, <4>2
    <3>5. CASE Valid /\ command = WriteBlock
      <4>1. R = <<0>>
        BY <2>8, <3>1, <3>2, <3>5, Zenon DEF IsResponse
      <4>2. write_address' = address' /\ next_card_state' = "data_token"
        BY <2>4, <3>1, <3>2, <3>5
      <4>3. Responding'
        BY <2>11, <3>2, <3>5, <4>1, <4>2 DEF Responding, Answering
      <4>4. QED BY <1>6, <1>7, <2>6, <2>12, <4>3
    <3>6. QED BY <2>17, <3>3, <3>4, <3>5
  <2>18. command \in {0, 8, 55, 58} \/ command \in {ReadBlock, WriteBlock}
    BY <2>1, Commands DEF ReadBlock, WriteBlock
  <2>19. QED BY <2>13, <2>14, <2>15, <2>16, <2>17, <2>18
<1>17. QED BY <1>13, <1>14

\* An exchange while the card answers.
LEMMA Advance ==
    ASSUME CardTypeOK, Serving, NEW answer \in Seq(Octet), NEW k, Answering(answer, k),
           k < Len(answer), NEW byte, Exchange(byte)
    PROVE  /\ Serving' /\ CardTypeOK'
           /\ UNCHANGED <<ready, next_is_app_command, write_address, image>>
           /\ Stream(sub_data_out', response_queue', answer, k + 1)
           /\ k + 1 = Len(answer) /\ next_card_state = "data_token" => card_state' = "data_token"
<1>1. response_queue \in Seq(Octet)
  BY DEF CardTypeOK
<1>2. /\ response_queue # <<>>
      /\ Stream(Head(response_queue), Tail(response_queue), answer, k + 1)
  BY <1>1, StreamNext DEF Answering
<1>3. Tail(response_queue) \in Seq(Octet)
  BY <1>1, <1>2, HeadTailProperties
<1>4. k + 1 = Len(answer) => Tail(response_queue) = <<>>
  <2>1. SUFFICES ASSUME k + 1 = Len(answer) PROVE Tail(response_queue) = <<>>
    OBVIOUS
  <2>2. Stream(Head(response_queue), Tail(response_queue), answer, Len(answer))
    BY <1>2, <2>1
  <2>3. QED BY <1>3, <2>2, StreamEnd
<1>5. QED BY <1>2, <1>4, Served

\* The answer to a read: R1, the token and the block.
LEMMA ReadAnswerTyped ==
    ASSUME CardTypeOK, address \in Blocks
    PROVE  /\ image[address] \in Contents
           /\ ReadAnswer \in Seq(Octet) /\ Len(ReadAnswer) = BlockBytes + 4
           /\ ReadAnswer[1] = 0 /\ ReadAnswer[2] = 254
           /\ \A i \in 1..BlockBytes : ReadAnswer[i + 2] = image[address][i]
<1>1. image[address] \in Contents
  BY DEF CardTypeOK
<1>2. QED BY <1>1, ReadAnswerType DEF ReadAnswer

\* How long the answers are.
LEMMA Lengths ==
    /\ Len(<<1>>) = 1 /\ Len(<<255>>) = 1 /\ Len(<<0>>) = 1 /\ Len(<<5>>) = 1 /\ Len(<<64>>) = 1
    /\ Len(<<0, 1>>) = 2 /\ Len(<<5, 0>>) = 2
    /\ Len(<<1, 0, 0, 1, 170>>) = 5 /\ Len(<<0, 192, 255, 128, 0>>) = 5
    /\ BlockBytes + 4 \in Nat /\ BlockBytes + 4 > 4
  BY BlocksAssumption

\* The first byte after a command is $ff, and get_r1 tries again.
LEMMA R1First ==
    ASSUME TypeOK, AtR1, count = 0, GetR1
    PROVE  CardTypeOK' /\ AtR1' /\ phase' = phase /\ count' = 1 /\ a' = 255 /\ UNCHANGED <<command, image, ready>>
<1>1. CardTypeOK /\ Serving /\ Exchange(255)
  BY TypeParts DEF AtR1, GetR1
<1>2. sub_data_out = 255
  BY Zenon DEF AtR1, Responding, Answering, Stream
<1>3. /\ phase' = phase /\ count' = 1 /\ a' = 255
      /\ UNCHANGED <<command, address, buffer, app_at_start>>
  BY <1>2, TriesAssumption DEF GetR1, Stay
<1>4. /\ Serving' /\ CardTypeOK'
      /\ UNCHANGED <<ready, next_is_app_command, write_address, image>>
  BY <1>1, Served
<1>5. Handled' /\ Called' /\ (command' = ReadBlock => buffer' = <<>>)
  BY <1>3, <1>4 DEF AtR1, Handled, Called
<1>6. Valid' = Valid /\ ReadAnswer' = ReadAnswer
  BY <1>3, <1>4 DEF Valid, ReadAnswer
<1>7. ASSUME NEW answer \in Seq(Octet), Answering(answer, count), 0 < Len(answer)
      PROVE  /\ Stream(sub_data_out', response_queue', answer, count')
             /\ Len(answer) = 1 /\ next_card_state = "data_token" => card_state' = "data_token"
  <2>1. Answering(answer, 0)
    BY <1>7, Zenon
  <2>2. 0 + 1 = count'
    BY <1>3
  <2>3. /\ Stream(sub_data_out', response_queue', answer, 0 + 1)
        /\ 0 + 1 = Len(answer) /\ next_card_state = "data_token" => card_state' = "data_token"
    BY <1>1, <1>7, <2>1, Advance
  <2>4. QED BY <2>2, <2>3
<1>8. count' < 2 /\ count' # 0
  BY <1>3
<1>9. Responding'
  <2>1. CASE command = 0 /\ ~ready /\ Answering(<<1>>, count)
    <3>1. Stream(sub_data_out', response_queue', <<1>>, count')
      BY <1>7, <2>1, AnswersTyped, Zenon
    <3>2. QED BY <1>3, <1>4, <2>1, <3>1, Zenon DEF Responding, Answering
  <2>2. CASE command = 0 /\ app_at_start /\ Answering(<<255>>, count)
    <3>1. Stream(sub_data_out', response_queue', <<255>>, count')
      BY <1>7, <2>2, AnswersTyped, Zenon
    <3>2. QED BY <1>3, <1>4, <2>2, <3>1, Zenon DEF Responding, Answering
  <2>3. CASE command = 8 /\ Answering(<<1, 0, 0, 1, 170>>, count)
    <3>1. Stream(sub_data_out', response_queue', <<1, 0, 0, 1, 170>>, count')
      BY <1>7, <2>3, AnswersTyped, Zenon
    <3>2. QED BY <1>3, <1>8, <2>3, <3>1, Zenon DEF Responding, Answering
  <2>4. CASE command = 55 /\ Answering(<<1>>, count)
    <3>1. Stream(sub_data_out', response_queue', <<1>>, count')
      BY <1>7, <2>4, AnswersTyped, Zenon
    <3>2. QED BY <1>3, <2>4, <3>1, Zenon DEF Responding, Answering
  <2>5. CASE command = 41 /\ Answering(<<0>>, count)
    <3>1. Stream(sub_data_out', response_queue', <<0>>, count')
      BY <1>7, <2>5, AnswersTyped, Zenon
    <3>2. QED BY <1>3, <2>5, <3>1, Zenon DEF Responding, Answering
  <2>6. CASE command = 58 /\ Answering(<<0, 192, 255, 128, 0>>, count)
    <3>1. Stream(sub_data_out', response_queue', <<0, 192, 255, 128, 0>>, count')
      BY <1>7, <2>6, AnswersTyped, Zenon
    <3>2. QED BY <1>3, <1>8, <2>6, <3>1, Zenon DEF Responding, Answering
  <2>7. CASE command = ReadBlock /\ Valid /\ Answering(ReadAnswer, count)
    <3>1. ReadAnswer \in Seq(Octet) /\ 0 < Len(ReadAnswer)
      BY <1>1, <2>7, ReadAnswerTyped, Lengths DEF Valid
    <3>2. Stream(sub_data_out', response_queue', ReadAnswer', count')
      BY <1>6, <1>7, <2>7, <3>1
    <3>3. QED BY <1>3, <1>6, <1>8, <2>7, <3>2, Zenon DEF Responding, Answering
  <2>8. CASE command = ReadBlock /\ Valid /\ TRUE \in ReadFails /\ Answering(<<0, 1>>, count)
    <3>1. Stream(sub_data_out', response_queue', <<0, 1>>, count')
      BY <1>7, <2>8, AnswersTyped, Zenon
    <3>2. QED BY <1>3, <1>6, <1>8, <2>8, <3>1, Zenon DEF Responding, Answering
  <2>9. CASE command \in {ReadBlock, WriteBlock} /\ ~Valid
               /\ (Answering(<<5>>, count) \/ Answering(<<64>>, count))
    <3>1. \/ Stream(sub_data_out', response_queue', <<5>>, count')
          \/ Stream(sub_data_out', response_queue', <<64>>, count')
      BY <1>7, <2>9, AnswersTyped, Zenon
    <3>2. QED BY <1>3, <1>6, <2>9, <3>1, Zenon DEF Responding, Answering
  <2>10. CASE command = WriteBlock /\ Valid /\ write_address = address /\ Answering(<<0>>, count)
               /\ next_card_state = "data_token"
    <3>1. Stream(sub_data_out', response_queue', <<0>>, count') /\ card_state' = "data_token"
      BY <1>7, <2>10, AnswersTyped, Lengths, Zenon
    <3>2. write_address' = address'
      BY <1>3, <1>4, <2>10
    <3>3. QED BY <1>3, <1>6, <1>8, <2>10, <3>1, <3>2, Zenon DEF Responding, Answering
  <2>11. ~(count > 1)
    OBVIOUS
  <2>12. QED
    BY <2>1, <2>2, <2>3, <2>4, <2>5, <2>6, <2>7, <2>8, <2>9, <2>10, <2>11 DEF AtR1, Responding
<1>10. QED BY <1>3, <1>4, <1>5, <1>9 DEF AtR1

\* The second byte is R1, unless the card took CMD0 for the command after an APP_CMD.
LEMMA R1Later ==
    ASSUME TypeOK, AtR1, count # 0, phase = "r1", GetR1
    PROVE  TypeOK' /\ IInv' /\ phase' \notin {"boot", "idle"} /\ UNCHANGED <<command, image, ready>>
<1>1. CardTypeOK /\ DriverTypeOK /\ Serving /\ Exchange(255) /\ count \in Nat \ {0}
  BY TypeParts DEF AtR1, GetR1, DriverTypeOK
<1>2. /\ Serving' /\ CardTypeOK'
      /\ UNCHANGED <<ready, next_is_app_command, write_address, image>>
      /\ response_queue = <<>> =>
            sub_data_out' = 255 /\ response_queue' = <<>> /\ card_state' = card_state
  BY <1>1, Served
<1>3. UNCHANGED <<address, buffer, resets, app_at_start>>
  BY DEF GetR1
<1>4. sub_data_out \in Octet
  BY <1>1 DEF CardTypeOK
<1>5. CASE sub_data_out >= 128 /\ count + 1 < R1Tries
  <2>1. /\ phase' = "r1" /\ count' = count + 1 /\ a' = sub_data_out /\ UNCHANGED command
    BY <1>5 DEF GetR1, Stay
  <2>2. Handled' /\ Called' /\ (command' = ReadBlock => buffer' = <<>>)
    BY <1>2, <1>3, <2>1 DEF AtR1, Handled, Called
  <2>3. /\ command = 0 /\ app_at_start /\ response_queue = <<>>
    <3>1. \/ command = 0 /\ app_at_start /\ Answering(<<255>>, count)
          \/ command = 0 /\ app_at_start /\ response_queue = <<>>
      <4>1. ASSUME NEW answer, Answering(answer, count), answer[1] < 128,
                   Len(answer) = 1 \/ count < 2
            PROVE  FALSE
        <5>1. count = 1
          BY <1>1, <4>1 DEF Answering, Stream
        <5>2. sub_data_out = answer[1]
          BY <4>1, <5>1 DEF Answering, Stream
        <5>3. QED BY <1>4, <1>5, <4>1, <5>2 DEF Octet
      <4>2. Valid => ReadAnswer[1] = 0
        BY <1>1, ReadAnswerTyped DEF Valid
      <4>3. ASSUME Valid, Answering(ReadAnswer, count), count < 2 PROVE FALSE
        BY <4>1, <4>2, <4>3
      <4>4. ~Answering(<<1>>, count) /\ ~Answering(<<0>>, count) /\ ~Answering(<<5>>, count)
            /\ ~Answering(<<64>>, count)
        BY <4>1
      <4>5. count < 2 => /\ ~Answering(<<1, 0, 0, 1, 170>>, count)
                         /\ ~Answering(<<0, 192, 255, 128, 0>>, count)
                         /\ ~Answering(<<0, 1>>, count)
        BY <4>1
      <4>6. QED BY <4>3, <4>4, <4>5, Zenon DEF AtR1, Responding
    <3>2. Answering(<<255>>, count) => response_queue = <<>>
      <4>1. HAVE Answering(<<255>>, count)
      <4>2. count = 1
        BY <1>1, <4>1 DEF Answering, Stream
      <4>3. Stream(sub_data_out, response_queue, <<255>>, Len(<<255>>))
        BY <4>1, <4>2 DEF Answering
      <4>4. response_queue \in Seq(Octet) /\ <<255>> \in Seq(Octet)
        BY <1>1, AnswersTyped DEF CardTypeOK
      <4>5. QED BY <4>3, <4>4, StreamEnd, Zenon
    <3>3. QED BY <3>1, <3>2
  <2>4. Responding'
    <3>1. sub_data_out' = 255 /\ response_queue' = <<>> /\ count' > 1
      BY <1>1, <1>2, <2>1, <2>3
    <3>2. QED BY <1>3, <2>1, <2>3, <3>1, Zenon DEF Responding
  <2>5. AtR1'
    BY <1>2, <2>2, <2>4 DEF AtR1
  <2>6. DriverTypeOK'
    BY <1>1, <1>3, <1>4, <2>1 DEF DriverTypeOK, Phases
  <2>7. QED BY <1>2, <2>1, <2>5, <2>6, TypePartsNext DEF IInv
<1>6. CASE ~(sub_data_out >= 128 /\ count + 1 < R1Tries)
  <2> DEFINE next == AfterR1(sub_data_out)
  <2>1. ASSUME ~(command = 58 /\ sub_data_out # 0)
        PROVE  phase' = next /\ count' = 0 /\ a' = sub_data_out /\ UNCHANGED command
    <3>1. ~(command = 58 /\ sub_data_out \in 1..127)
      BY <2>1
    <3>2. QED BY <1>6, <3>1, Zenon DEF GetR1, Go
  <2> HIDE DEF next
  <2>2. ASSUME NEW p \in Phases, next = p, ~(command = 58 /\ sub_data_out # 0)
        PROVE  DriverTypeOK' /\ Handled' /\ Called'
    <3>1. phase' = p /\ count' = 0 /\ a' = sub_data_out /\ UNCHANGED command
      BY <2>1, <2>2
    <3>2. DriverTypeOK'
      BY <1>1, <1>3, <1>4, <3>1 DEF DriverTypeOK
    <3>3. QED BY <1>2, <1>3, <3>1, <3>2 DEF AtR1, Handled, Called
  <2>3. ASSUME NEW answer \in Seq(Octet), Answering(answer, count), count < 2
        PROVE  /\ count = 1 /\ sub_data_out = answer[1]
               /\ 1 < Len(answer) => Stream(sub_data_out', response_queue', answer, 2)
    <3>1. count = 1
      BY <1>1, <2>3
    <3>2. sub_data_out = answer[1]
      BY <2>3, <3>1 DEF Answering, Stream
    <3>3. ASSUME 1 < Len(answer) PROVE Stream(sub_data_out', response_queue', answer, 2)
      <4>1. Stream(sub_data_out', response_queue', answer, 1 + 1)
        BY <1>1, <2>3, <3>1, <3>3, Advance
      <4>2. QED BY <4>1
    <3>4. QED BY <3>1, <3>2, <3>3
  <2>4. ASSUME NEW x \in Octet, Answering(<<x>>, count)
        PROVE  count = 1 /\ count < 2 /\ sub_data_out = x /\ response_queue = <<>>
    <3>1. count = 1 /\ <<x>> \in Seq(Octet) /\ Len(<<x>>) = 1
      BY <1>1, <2>4 DEF Answering, Stream
    <3>2. sub_data_out = x
      BY <2>4, <3>1 DEF Answering, Stream
    <3>3. Stream(sub_data_out, response_queue, <<x>>, Len(<<x>>))
      BY <2>4, <3>1 DEF Answering
    <3>4. response_queue = <<>>
      BY <1>1, <3>1, <3>3, StreamEnd DEF CardTypeOK
    <3>5. QED BY <3>1, <3>2, <3>4
  <2>5. {0, 1, 5, 64, 255} \subseteq Octet
    BY DEF Octet
  <2>6. ASSUME next = "deselect", command # 58, (a' = sub_data_out /\ UNCHANGED command) => Result'
        PROVE  TypeOK' /\ IInv' /\ phase' = "deselect" /\ UNCHANGED command
    <3>1. phase' = "deselect" /\ a' = sub_data_out /\ UNCHANGED command
      BY <2>1, <2>6
    <3>2. "deselect" \in Phases
      BY DEF Phases
    <3>3. DriverTypeOK' /\ Handled' /\ Called'
      BY <2>2, <2>6, <3>2
    <3>4. AtDeselect'
      BY <1>2, <2>6, <3>1, <3>3 DEF AtDeselect, Serving
    <3>5. QED BY <1>2, <3>1, <3>3, <3>4, TypePartsNext DEF IInv
  <2>7. CASE command = 0 /\ ~ready /\ Answering(<<1>>, count)
    <3>1. sub_data_out = 1
      BY <2>4, <2>5, <2>7
    <3>2. (a' = sub_data_out /\ UNCHANGED command) => Result'
      BY <1>2, <2>7, <3>1 DEF Result, ReadBlock, WriteBlock
    <3>3. next = "deselect"
      BY <2>7, AfterR1Is DEF next
    <3>4. QED BY <1>2, <2>6, <2>7, <3>2, <3>3
  <2>8. CASE command = 0 /\ app_at_start /\ sub_data_out = 255
    <3>1. (a' = sub_data_out /\ UNCHANGED command) => Result'
      BY <1>3, <2>8 DEF Result, ReadBlock, WriteBlock
    <3>2. next = "deselect"
      BY <2>8, AfterR1Is DEF next
    <3>3. QED BY <1>2, <2>6, <2>8, <3>1, <3>2
  <2>9. CASE command = 8 /\ Answering(<<1, 0, 0, 1, 170>>, count) /\ count < 2
    <3>1. sub_data_out = 1
      BY <2>3, <2>9, AnswersTyped
    <3>2. next = "skip" /\ "skip" \in Phases
      BY <2>9, AfterR1Is DEF next, Phases
    <3>3. phase' = "skip" /\ a' = 1 /\ UNCHANGED command
      BY <2>1, <2>9, <3>1, <3>2
    <3>4. DriverTypeOK' /\ Handled' /\ Called'
      BY <2>2, <2>9, <3>2
    <3>5. AtSkip'
      BY <1>2, <2>9, <3>3, <3>4 DEF AtSkip, Result, ReadBlock, WriteBlock
    <3>6. QED BY <1>2, <3>3, <3>4, <3>5, TypePartsNext DEF IInv
  <2>10. CASE command = 55 /\ Answering(<<1>>, count)
    <3>1. sub_data_out = 1
      BY <2>4, <2>5, <2>10
    <3>2. (a' = sub_data_out /\ UNCHANGED command) => Result'
      BY <2>10, <3>1 DEF Result, ReadBlock, WriteBlock
    <3>3. next = "deselect"
      BY <2>10, AfterR1Is DEF next
    <3>4. QED BY <1>2, <2>6, <2>10, <3>2, <3>3
  <2>11. CASE command = 41 /\ Answering(<<0>>, count)
    <3>1. sub_data_out = 0
      BY <2>4, <2>5, <2>11
    <3>2. (a' = sub_data_out /\ UNCHANGED command) => Result'
      BY <2>11, <3>1 DEF Result, ReadBlock, WriteBlock
    <3>3. next = "deselect"
      BY <2>11, AfterR1Is DEF next
    <3>4. QED BY <1>2, <2>6, <2>11, <3>2, <3>3
  <2>12. CASE command = 58 /\ Answering(<<0, 192, 255, 128, 0>>, count) /\ count < 2
    <3>1. sub_data_out = 0
      BY <2>3, <2>12, AnswersTyped
    <3>2. 1 < Len(<<0, 192, 255, 128, 0>>)
      BY Lengths
    <3>3. Stream(sub_data_out', response_queue', <<0, 192, 255, 128, 0>>, 2)
      BY <2>3, <2>12, <3>2, AnswersTyped, Zenon
    <3>4. next = "ocr" /\ "ocr" \in Phases
      BY <2>12, AfterR1Is DEF next, Phases
    <3>5. phase' = "ocr" /\ UNCHANGED command
      BY <2>1, <2>12, <3>1, <3>4
    <3>6. DriverTypeOK' /\ Handled' /\ Called'
      BY <2>2, <2>12, <3>1, <3>4
    <3>7. AtOcr'
      BY <1>2, <2>12, <3>3, <3>5, <3>6 DEF AtOcr, Answering
    <3>8. QED BY <1>2, <3>5, <3>6, <3>7, TypePartsNext DEF IInv
  <2>13. Valid' = Valid /\ ReadAnswer' = ReadAnswer /\ UNCHANGED <<ready, image, address, buffer>>
    BY <1>2, <1>3 DEF Valid, ReadAnswer
  <2>14. ASSUME command = ReadBlock, Valid, sub_data_out = 0,
                \/ Stream(sub_data_out', response_queue', ReadAnswer, 2)
                \/ Stream(sub_data_out', response_queue', <<0, 1>>, 2) /\ TRUE \in ReadFails
         PROVE  TypeOK' /\ IInv' /\ phase' = "token" /\ UNCHANGED command
    <3>1. next = "token" /\ "token" \in Phases
      BY <2>14, AfterR1Is DEF next, Phases
    <3>2. phase' = "token" /\ UNCHANGED command
      BY <2>1, <2>14, <3>1
    <3>3. DriverTypeOK' /\ Handled' /\ Called'
      BY <2>2, <2>14, <3>1
    <3>4. AtToken'
      BY <1>2, <2>13, <2>14, <3>2, <3>3 DEF AtToken, Answering, AtR1
    <3>5. QED BY <1>2, <3>2, <3>3, <3>4, TypePartsNext DEF IInv
  <2>15. command \in {ReadBlock, WriteBlock} => command # 58
    BY DEF ReadBlock, WriteBlock
  <2>16. CASE command = ReadBlock /\ Valid /\ Answering(ReadAnswer, count) /\ count < 2
    <3>1. ReadAnswer \in Seq(Octet) /\ 1 < Len(ReadAnswer) /\ ReadAnswer[1] = 0
      BY <1>1, <2>16, ReadAnswerTyped, Lengths DEF Valid
    <3>2. sub_data_out = 0 /\ Stream(sub_data_out', response_queue', ReadAnswer, 2)
      BY <2>3, <2>16, <3>1
    <3>3. QED BY <1>2, <2>14, <2>16, <3>2
  <2>17. CASE command = ReadBlock /\ Valid /\ TRUE \in ReadFails
               /\ Answering(<<0, 1>>, count) /\ count < 2
    <3>1. sub_data_out = 0
      BY <2>3, <2>17, AnswersTyped
    <3>2. 1 < Len(<<0, 1>>)
      BY Lengths
    <3>3. Stream(sub_data_out', response_queue', <<0, 1>>, 2)
      BY <2>3, <2>17, <3>2, AnswersTyped, Zenon
    <3>4. QED BY <1>2, <2>14, <2>17, <3>1, <3>3
  <2>18. CASE command \in {ReadBlock, WriteBlock} /\ ~Valid
               /\ (Answering(<<5>>, count) \/ Answering(<<64>>, count))
    <3>1. sub_data_out \in {5, 64}
      BY <2>4, <2>5, <2>18
    <3>2. next = "deselect"
      BY <2>18, <3>1, AfterR1Is DEF next
    <3>3. SUFFICES ASSUME a' = sub_data_out, UNCHANGED command PROVE Result'
      BY <1>2, <2>6, <2>15, <2>18, <3>2
    <3>4. a' # 0 /\ ~Valid'
      BY <2>13, <2>18, <3>1, <3>3
    <3>5. command' # 0 /\ command' \notin {8, 55} /\ command' # 41 /\ command' # 58
      BY <2>18, <3>3 DEF ReadBlock, WriteBlock
    <3>6. QED BY <3>4, <3>5, Zenon DEF Result
  <2>19. CASE command = WriteBlock /\ Valid /\ write_address = address /\ Answering(<<0>>, count)
               /\ card_state = "data_token"
    <3>1. sub_data_out = 0 /\ response_queue = <<>>
      BY <2>4, <2>5, <2>19
    <3>2. next = "start" /\ "start" \in Phases
      BY <2>19, <3>1, AfterR1Is DEF next, Phases
    <3>3. phase' = "start" /\ UNCHANGED command
      BY <2>1, <2>15, <2>19, <3>2
    <3>4. DriverTypeOK' /\ Handled' /\ Called'
      BY <2>2, <2>15, <2>19, <3>2
    <3>5. AtStart'
      BY <1>2, <1>3, <2>13, <2>19, <3>1, <3>3, <3>4 DEF AtStart, AtWrite, Serving
    <3>6. QED BY <1>2, <3>3, <3>4, <3>5, TypePartsNext DEF IInv
  <2>20. CASE command = 0 /\ app_at_start /\ Answering(<<255>>, count)
    BY <2>4, <2>5, <2>8, <2>20
  <2>21. QED
    BY <1>1, <2>7, <2>8, <2>9, <2>10, <2>11, <2>12, <2>16, <2>17, <2>18, <2>19, <2>20
    DEF AtR1, Responding
<1>7. QED BY <1>5, <1>6

\* Between the commands: the calls, and the chip select.
LEMMA CallSteps ==
    ASSUME TypeOK, IInv, Boot \/ CallInitialize \/ CallRead \/ CallWrite \/ Clocks
    PROVE  TypeOK' /\ IInv' /\ UNCHANGED <<ready, image>>
<1>1. CardTypeOK /\ DriverTypeOK
  BY TypeParts
<1>2. CASE Boot
  <2>1. /\ ChipSelect(FALSE) /\ AtBoot
        /\ phase' = "clocks" /\ count' = 0 /\ command' = 0
        /\ app_at_start' = next_is_app_command
        /\ UNCHANGED <<a, address, buffer, resets>>
    BY <1>2 DEF Boot, Go, IInv
  <2>2. CardTypeOK' /\ Unselected' /\ UNCHANGED <<session_vars, image>>
    BY <1>1, <2>1, Deselecting
  <2>3. Prepared'
    BY <2>1, <2>2 DEF Prepared, session_vars
  <2>4. DriverTypeOK'
    BY <1>1, <2>1 DEF DriverTypeOK, CardTypeOK, Phases, InitCommands
  <2>5. QED BY <2>1, <2>2, <2>3, <2>4, TypePartsNext DEF AtClocks, IInv, session_vars
<1>3. CASE CallInitialize
  <2>1. /\ AtIdle /\ phase' = "clocks" /\ count' = 0 /\ command' = 0
        /\ app_at_start' = next_is_app_command
        /\ UNCHANGED <<card_vars, a, address, buffer, resets>>
    BY <1>3 DEF CallInitialize, Go, IInv
  <2>2. CardTypeOK' /\ Unselected' /\ Prepared'
    BY <1>1, <2>1 DEF AtIdle, Unselected, Prepared, CardTypeOK, card_vars, session_vars
  <2>3. DriverTypeOK'
    BY <1>1, <2>1 DEF DriverTypeOK, CardTypeOK, Phases, InitCommands
  <2>4. QED BY <2>1, <2>2, <2>3, TypePartsNext DEF AtClocks, IInv, card_vars, session_vars
<1>4. CASE CallRead
  <2>1. /\ AtIdle /\ phase' = "select" /\ count' = 0 /\ command' = ReadBlock
        /\ address' \in Addresses /\ buffer' = <<>>
        /\ UNCHANGED <<card_vars, a, resets, app_at_start>>
    BY <1>4 DEF CallRead, Go, IInv
  <2>2. CardTypeOK' /\ Unselected' /\ Prepared' /\ Called'
    BY <1>1, <2>1
    DEF AtIdle, Unselected, Prepared, Called, CardTypeOK, card_vars, session_vars,
        ReadBlock, WriteBlock
  <2>3. DriverTypeOK'
    BY <1>1, <2>1 DEF DriverTypeOK, Phases
  <2>4. QED BY <2>1, <2>2, <2>3, TypePartsNext DEF AtSelect, IInv, card_vars, session_vars
<1>5. CASE CallWrite
  <2>1. /\ AtIdle /\ phase' = "select" /\ count' = 0 /\ command' = WriteBlock
        /\ address' \in Addresses /\ buffer' \in Contents
        /\ UNCHANGED <<card_vars, a, resets, app_at_start>>
    BY <1>5 DEF CallWrite, Go, IInv
  <2>2. CardTypeOK' /\ Unselected' /\ Prepared' /\ Called'
    BY <1>1, <2>1
    DEF AtIdle, Unselected, Prepared, Called, CardTypeOK, card_vars, session_vars,
        ReadBlock, WriteBlock
  <2>3. buffer' \in Seq(DataBytes)
    BY <2>1, BlocksAssumption DEF Contents
  <2>4. DriverTypeOK'
    BY <1>1, <2>1, <2>3 DEF DriverTypeOK, Phases
  <2>5. AtSelect'
    BY <2>1, <2>2 DEF AtSelect, ReadBlock, WriteBlock
  <2>6. QED BY <2>1, <2>2, <2>4, <2>5, TypePartsNext DEF IInv, card_vars, session_vars
<1>6. CASE Clocks
  <2>1. /\ AtClocks /\ Exchange(255) /\ UNCHANGED <<command, a, address, buffer, resets, app_at_start>>
        /\ phase' \in {"clocks", "select"} /\ count' \in Nat
    BY <1>1, <1>6 DEF Clocks, Go, Stay, IInv, DriverTypeOK
  <2>2. Unselected' /\ UNCHANGED <<session_vars, image>>
    BY <2>1, Ignored DEF AtClocks
  <2>3. CardTypeOK'
    BY <1>1, <2>1, ExchangeTypes DEF AtClocks, Unselected
  <2>4. Prepared' /\ Called' /\ command' = 0
    BY <2>1, <2>2 DEF AtClocks, Prepared, Called, session_vars, ReadBlock, WriteBlock
  <2>5. DriverTypeOK'
    BY <1>1, <2>1 DEF DriverTypeOK, Phases
  <2>6. AtClocks' /\ AtSelect'
    BY <2>2, <2>4 DEF AtClocks, AtSelect, ReadBlock
  <2>7. QED BY <2>1, <2>2, <2>3, <2>5, <2>6, TypePartsNext DEF IInv, session_vars
<1>7. QED BY <1>2, <1>3, <1>4, <1>5, <1>6

\* A command: the card is selected, and takes it byte by byte.
LEMMA CommandSteps ==
    ASSUME TypeOK, IInv, Select \/ SendCommand
    PROVE  /\ TypeOK' /\ IInv' /\ phase' \notin {"boot", "idle"}
           /\ UNCHANGED <<command, image, address, buffer>>
           /\ command \notin InitCommands => UNCHANGED ready
<1>1. CardTypeOK /\ DriverTypeOK
  BY TypeParts
<1>2. CASE Select
  <2>1. /\ AtSelect /\ ChipSelect(TRUE) /\ phase' = "send" /\ count' = 0
        /\ UNCHANGED <<command, a, address, buffer, resets, app_at_start>>
    BY <1>2 DEF Select, Go, IInv
  <2>2. /\ CardTypeOK' /\ enabled' /\ card_state' = "command"
        /\ input_buffer' = <<>> /\ response_queue' = <<>> /\ sub_data_out' = 255
        /\ UNCHANGED <<session_vars, image>>
    BY <1>1, <2>1, Selecting DEF AtSelect, Unselected
  <2>3. Prepared' /\ Called' /\ (command' = ReadBlock => buffer' = <<>>)
    BY <2>1, <2>2 DEF AtSelect, Prepared, Called, session_vars
  <2>4. HasReceived(CommandBytes, count)'
    BY <2>1, <2>2 DEF HasReceived
  <2>5. AtSend'
    BY <2>1, <2>2, <2>3, <2>4 DEF AtSend
  <2>6. DriverTypeOK'
    BY <1>1, <2>1 DEF DriverTypeOK, Phases
  <2>7. QED BY <2>1, <2>2, <2>5, <2>6, TypePartsNext DEF IInv, session_vars
<1>3. CASE SendCommand
  <2>1. /\ AtSend /\ Exchange(CommandBytes[count + 1])
        /\ UNCHANGED <<command, a, address, buffer, resets, app_at_start>>
    BY <1>3 DEF SendCommand, IInv
  <2>2. CASE count = 5
    <3>1. phase' = "r1" /\ count' = 0 /\ Exchange(CommandBytes[6])
      BY <1>3, <2>1, <2>2 DEF SendCommand, Go
    <3>2. AtR1' /\ CardTypeOK' /\ UNCHANGED image /\ (command \notin InitCommands => UNCHANGED ready)
      BY <2>1, <2>2, <3>1, CommandSent
    <3>3. DriverTypeOK'
      BY <1>1, <2>1, <3>1 DEF DriverTypeOK, Phases
    <3>4. QED BY <2>1, <3>1, <3>2, <3>3, TypePartsNext DEF IInv
  <2>3. CASE count # 5
    <3>1. phase' = "send" /\ count' = count + 1 /\ count \in 0..4
      BY <1>3, <2>1, <2>3 DEF SendCommand, Stay, AtSend
    <3>2. CommandBytes[count + 1] \in Octet
      BY <3>1, CommandCoded
    <3>3. CommandByte(CommandBytes[count + 1]) /\ enabled'
      BY <2>1 DEF AtSend, Exchange, IgnoreByte, ResponseByte, TokenByte, DataByte
    <3>4. /\ sub_data_out' = 255
          /\ input_buffer' = Append(input_buffer, CommandBytes[count + 1])
          /\ UNCHANGED <<session_vars, card_state, response_queue, image>>
      BY <2>1, <2>3, <3>3 DEF CommandByte, AtSend, HasReceived
    <3>5. CardTypeOK'
      <4>1. Len(input_buffer) <= 5
        BY <2>1, <3>1 DEF AtSend, HasReceived
      <4>2. QED BY <1>1, <2>1, <3>2, <4>1, ExchangeTypes DEF AtSend
    <3>6. CommandBytes' = CommandBytes
      BY <2>1 DEF CommandBytes, AddressBytes
    <3>7. HasReceived(CommandBytes, count)'
      <4>1. input_buffer \in Seq(Octet) /\ CommandBytes[count + 1] \in Octet
        BY <1>1, <3>2 DEF CardTypeOK
      <4>2. /\ Len(input_buffer') = Len(input_buffer) + 1
            /\ \A i \in 1..Len(input_buffer) : input_buffer'[i] = input_buffer[i]
            /\ input_buffer'[Len(input_buffer) + 1] = CommandBytes[count + 1]
        BY <3>4, <4>1, AppendProperties
      <4>3. Len(input_buffer) = count /\ \A i \in 1..count : input_buffer[i] = CommandBytes[i]
        BY <2>1 DEF AtSend, HasReceived
      <4>4. QED BY <3>1, <3>6, <4>2, <4>3 DEF HasReceived
    <3>8. Prepared' /\ Called' /\ (command' = ReadBlock => buffer' = <<>>)
      BY <2>1, <3>4 DEF AtSend, Prepared, Called, session_vars
    <3>9. AtSend'
      BY <2>1, <3>1, <3>3, <3>4, <3>7, <3>8 DEF AtSend
    <3>10. DriverTypeOK'
      BY <1>1, <2>1, <3>1 DEF DriverTypeOK, Phases
    <3>11. QED BY <2>1, <3>1, <3>4, <3>5, <3>9, <3>10, TypePartsNext DEF IInv, session_vars
  <2>4. QED BY <2>2, <2>3
<1>4. QED BY <1>2, <1>3

\* The answer to a command of the initialisation.
LEMMA ResponseSteps ==
    ASSUME TypeOK, IInv, GetR1 \/ ReceiveOcr \/ Skip
    PROVE  /\ TypeOK' /\ IInv' /\ phase' \notin {"boot", "idle"}
           /\ UNCHANGED <<command, image, ready, address, buffer>>
<1>1. CardTypeOK /\ DriverTypeOK
  BY TypeParts
<1>2. CASE GetR1
  <2>1. phase = "r1" /\ AtR1 /\ UNCHANGED <<address, buffer, resets, app_at_start>>
    BY <1>2 DEF GetR1, IInv
  <2>2. CASE count = 0
    <3>1. /\ CardTypeOK' /\ AtR1' /\ phase' = phase /\ count' = 1 /\ a' = 255
          /\ UNCHANGED <<command, image, ready>>
      BY <1>2, <2>1, <2>2, R1First
    <3>2. DriverTypeOK'
      BY <1>1, <2>1, <3>1 DEF DriverTypeOK, Octet
    <3>3. QED BY <2>1, <3>1, <3>2, TypePartsNext DEF IInv
  <2>3. CASE count # 0
    BY <1>2, <2>1, <2>3, R1Later
  <2>4. QED BY <2>2, <2>3
<1>3. CASE ReceiveOcr
  <2>1. /\ AtOcr /\ Exchange(255) /\ a' = sub_data_out /\ phase' = "skip" /\ count' = 0
        /\ UNCHANGED <<command, address, buffer, resets, app_at_start>>
    BY <1>3 DEF ReceiveOcr, Go, IInv
  <2>2. sub_data_out = 192
    BY <2>1 DEF AtOcr, Answering, Stream
  <2>3. Serving' /\ CardTypeOK' /\ UNCHANGED <<ready, next_is_app_command, image>>
    BY <1>1, <2>1, Served DEF AtOcr
  <2>4. Handled' /\ Result'
    BY <2>1, <2>2, <2>3 DEF AtOcr, Handled, Result, ReadBlock, WriteBlock
  <2>5. DriverTypeOK'
    BY <1>1, <2>1, <2>2 DEF DriverTypeOK, Phases, Octet
  <2>6. AtSkip'
    BY <2>1, <2>3, <2>4 DEF AtSkip, AtOcr
  <2>7. QED BY <2>1, <2>3, <2>5, <2>6, TypePartsNext DEF IInv
<1>4. CASE Skip
  <2>1. /\ AtSkip /\ Exchange(255) /\ phase' \in {"skip", "deselect"} /\ count' \in Nat
        /\ UNCHANGED <<command, a, address, buffer, resets, app_at_start>>
    BY <1>1, <1>4 DEF Skip, Go, Stay, IInv, DriverTypeOK
  <2>2. Serving' /\ CardTypeOK' /\ UNCHANGED <<ready, next_is_app_command, image>>
    BY <1>1, <2>1, Served DEF AtSkip
  <2>3. Handled' /\ Result' /\ Called'
    <3>1. /\ command' # 0 /\ command' # 55 /\ command' # 41
          /\ command' # ReadBlock /\ command' # WriteBlock
      BY <2>1 DEF AtSkip, ReadBlock, WriteBlock
    <3>2. (command' = 8 => a' = 1) /\ (command' = 58 => a' = 192)
      BY <2>1 DEF AtSkip, Result
    <3>3. Result'
      BY <3>1, <3>2, Zenon DEF Result
    <3>4. Handled' /\ Called'
      BY <2>1, <2>2, <3>1 DEF AtSkip, Handled, Called
    <3>5. QED BY <3>3, <3>4
  <2>4. DriverTypeOK'
    BY <1>1, <2>1 DEF DriverTypeOK, Phases
  <2>5. AtSkip' /\ AtDeselect'
    BY <2>1, <2>2, <2>3 DEF AtSkip, AtDeselect, Serving
  <2>6. QED BY <2>1, <2>2, <2>4, <2>5, TypePartsNext DEF IInv
<1>5. QED BY <1>2, <1>3, <1>4

\* The block of a read, behind its token; or the token of an error.
LEMMA ReadSteps ==
    ASSUME TypeOK, IInv, GetStartBlock \/ Receive
    PROVE  /\ TypeOK' /\ IInv' /\ phase' \notin {"boot", "idle"} /\ command = ReadBlock
           /\ UNCHANGED <<command, image, ready, address>>
<1>1. CardTypeOK /\ DriverTypeOK
  BY TypeParts
<1>2. BlockBytes \in Nat \ {0}
  BY BlocksAssumption
<1>3. CASE GetStartBlock
  <2>1. AtToken /\ Exchange(255) /\ UNCHANGED <<command, address, buffer, resets, app_at_start>>
    BY <1>3 DEF GetStartBlock, IInv
  <2>2. Serving' /\ CardTypeOK' /\ UNCHANGED <<ready, next_is_app_command, image>>
    BY <1>1, <2>1, Served DEF AtToken
  <2>3. /\ Handled' /\ Called' /\ Valid' /\ command' = ReadBlock /\ buffer' = <<>>
        /\ ReadAnswer' = ReadAnswer /\ image[address] \in Contents
        /\ ReadAnswer \in Seq(Octet) /\ Len(ReadAnswer) = BlockBytes + 4
        /\ ReadAnswer[2] = 254 /\ command = ReadBlock
    BY <1>1, <2>1, <2>2, ReadAnswerTyped DEF AtToken, Handled, Called, Valid, ReadAnswer
  <2>4. CASE Answering(ReadAnswer, 2)
    <3>1. sub_data_out = 254
      BY <2>3, <2>4 DEF Answering, Stream
    <3>2. phase' = "receive" /\ count' = 0 /\ a' = 254
      BY <1>3, <3>1 DEF GetStartBlock, Go
    <3>3. 2 < Len(ReadAnswer)
      BY <1>2, <2>3
    <3>4. Stream(sub_data_out', response_queue', ReadAnswer, 2 + 1)
      BY <1>1, <2>1, <2>3, <2>4, <3>3, Advance DEF AtToken
    <3>5. Stream(sub_data_out', response_queue', ReadAnswer', count' + 3)
      <4>1. 2 + 1 = count' + 3
        BY <3>2
      <4>2. QED BY <2>3, <3>4, <4>1, Zenon
    <3>6. AtReceive'
      BY <1>2, <2>2, <2>3, <3>2, <3>5 DEF AtReceive, Answering
    <3>7. DriverTypeOK'
      BY <1>1, <2>1, <3>2 DEF DriverTypeOK, Phases, Octet
    <3>8. QED BY <2>1, <2>2, <2>3, <3>2, <3>6, <3>7, TypePartsNext DEF IInv
  <2>5. CASE Answering(<<0, 1>>, 2) /\ TRUE \in ReadFails
    <3>1. sub_data_out = 1
      BY <2>5 DEF Answering, Stream
    <3>2. phase' = "deselect" /\ count' = 0 /\ a' = 129
      BY <1>3, <3>1 DEF GetStartBlock, Go, WithTopBit
    <3>3. Result'
      <4>1. /\ command' # 0 /\ command' # 8 /\ command' # 55 /\ command' # 41
            /\ command' # 58 /\ command' # WriteBlock /\ a' # 0
        BY <2>3, <3>2 DEF ReadBlock, WriteBlock
      <4>2. QED BY <2>5, <4>1, Zenon DEF Result
    <3>4. AtDeselect'
      BY <2>2, <2>3, <3>3 DEF AtDeselect, Serving
    <3>5. DriverTypeOK'
      BY <1>1, <2>1, <3>2 DEF DriverTypeOK, Phases, Octet
    <3>6. QED BY <2>1, <2>2, <2>3, <3>2, <3>4, <3>5, TypePartsNext DEF IInv
  <2>6. QED BY <2>1, <2>4, <2>5 DEF AtToken
<1>4. CASE Receive
  <2>1. /\ AtReceive /\ Exchange(CounterByte(count + 1)) /\ buffer' = Append(buffer, sub_data_out)
        /\ UNCHANGED <<command, a, address, resets, app_at_start>>
    BY <1>4 DEF Receive, IInv
  <2>2. /\ image[address] \in Contents
        /\ ReadAnswer \in Seq(Octet) /\ Len(ReadAnswer) = BlockBytes + 4
        /\ \A i \in 1..BlockBytes : ReadAnswer[i + 2] = image[address][i]
    BY <1>1, <2>1, ReadAnswerTyped DEF AtReceive, Valid
  <2>3. /\ count \in 0..BlockBytes - 1 /\ Answering(ReadAnswer, count + 3)
        /\ count + 3 < Len(ReadAnswer)
    BY <1>2, <2>1, <2>2 DEF AtReceive
  <2>4. /\ Serving' /\ CardTypeOK' /\ UNCHANGED <<ready, next_is_app_command, image>>
        /\ Stream(sub_data_out', response_queue', ReadAnswer, (count + 3) + 1)
    BY <1>1, <2>1, <2>2, <2>3, Advance DEF AtReceive
  <2>5. sub_data_out = image[address][count + 1]
    <3>1. sub_data_out = ReadAnswer[count + 3]
      BY <2>3 DEF Answering, Stream
    <3>2. count + 1 \in 1..BlockBytes /\ (count + 1) + 2 = count + 3
      BY <1>2, <2>3
    <3>3. QED BY <2>2, <3>1, <3>2
  <2>6. image[address] \in [1..BlockBytes -> DataBytes]
    BY <2>2 DEF Contents
  <2>7. sub_data_out \in DataBytes
    BY <1>2, <2>3, <2>5, <2>6
  <2>8. /\ buffer' \in Seq(DataBytes) /\ Len(buffer') = count + 1
        /\ \A i \in 1..count + 1 : buffer'[i] = image[address][i]
    <3>1. buffer \in Seq(DataBytes)
      BY <1>1 DEF DriverTypeOK
    <3>2. /\ buffer' \in Seq(DataBytes) /\ Len(buffer') = Len(buffer) + 1
          /\ \A i \in 1..Len(buffer) : buffer'[i] = buffer[i]
          /\ buffer'[Len(buffer) + 1] = sub_data_out
      BY <2>1, <2>7, <3>1, AppendProperties
    <3>3. Len(buffer) = count /\ \A i \in 1..count : buffer[i] = image[address][i]
      BY <2>1 DEF AtReceive
    <3>4. QED BY <2>3, <2>5, <3>2, <3>3
  <2>9. /\ Handled' /\ Called' /\ Valid' /\ command' = ReadBlock /\ command = ReadBlock
        /\ ReadAnswer' = ReadAnswer /\ image'[address'] = image[address]
    BY <2>1, <2>4 DEF AtReceive, Handled, Called, Valid, ReadAnswer, ReadBlock, WriteBlock
  <2>10. CASE count + 1 = BlockBytes
    <3>1. phase' = "crc" /\ count' = 0
      BY <1>4, <2>10 DEF Receive, Go
    <3>2. buffer' = image'[address']
      <4>1. buffer' \in [1..BlockBytes -> DataBytes]
        BY <2>8, <2>10
      <4>2. QED BY <2>6, <2>8, <2>9, <2>10, <4>1
    <3>3. AtCrc'
      BY <2>4, <2>9, <3>1, <3>2 DEF AtCrc
    <3>4. DriverTypeOK'
      BY <1>1, <2>1, <2>8, <3>1 DEF DriverTypeOK, Phases
    <3>5. QED BY <2>1, <2>4, <2>9, <3>1, <3>3, <3>4, TypePartsNext DEF IInv
  <2>11. CASE count + 1 # BlockBytes
    <3>1. phase' = "receive" /\ count' = count + 1
      BY <1>4, <2>11 DEF Receive, Stay
    <3>2. Stream(sub_data_out', response_queue', ReadAnswer', count' + 3)
      <4>1. (count + 3) + 1 = count' + 3
        BY <2>3, <3>1
      <4>2. QED BY <2>4, <2>9, <4>1, Zenon
    <3>3. AtReceive'
      <4>1. count' \in 0..BlockBytes - 1
        BY <1>2, <2>3, <2>11, <3>1
      <4>2. QED BY <2>4, <2>8, <2>9, <3>1, <3>2, <4>1 DEF AtReceive, Answering
    <3>4. DriverTypeOK'
      BY <1>1, <2>1, <2>8, <3>1 DEF DriverTypeOK, Phases
    <3>5. QED BY <2>1, <2>4, <2>9, <3>1, <3>3, <3>4, TypePartsNext DEF IInv
  <2>12. QED BY <2>10, <2>11
<1>5. QED BY <1>3, <1>4

\* The block of a write, into the image with the second byte of its CRC.
LEMMA WriteSteps ==
    ASSUME TypeOK, IInv, SendStartBlock \/ Transmit
    PROVE  /\ TypeOK' /\ IInv' /\ phase' \notin {"boot", "idle"} /\ command = WriteBlock
           /\ UNCHANGED <<command, image, ready, address, buffer>>
<1>1. CardTypeOK /\ DriverTypeOK
  BY TypeParts
<1>2. BlockBytes \in Nat \ {0}
  BY BlocksAssumption
<1>3. CASE SendStartBlock
  <2>1. /\ AtStart /\ Exchange(254) /\ phase' = "transmit" /\ count' = 0 /\ a' = 254
        /\ UNCHANGED <<command, address, buffer, resets, app_at_start>>
    BY <1>3 DEF SendStartBlock, Go, IInv
  <2>2. /\ card_state' = "data" /\ input_buffer' = <<>> /\ enabled' /\ sub_data_out' = 255
        /\ UNCHANGED <<session_vars, response_queue, image>>
    BY <2>1
    DEF AtStart, AtWrite, Exchange, IgnoreByte, CommandByte, ResponseByte, TokenByte, DataByte
  <2>3. CardTypeOK'
    BY <1>1, <2>1, ExchangeTypes DEF AtStart
  <2>4. AtWrite'
    BY <2>1, <2>2 DEF AtStart, AtWrite, Handled, Called, Valid, session_vars
  <2>5. InData'
    BY <2>1, <2>2, <2>4 DEF AtStart, InData, session_vars
  <2>6. AtTransmit'
    BY <1>2, <2>1, <2>2, <2>5 DEF AtTransmit, HasReceived
  <2>7. DriverTypeOK'
    BY <1>1, <2>1 DEF DriverTypeOK, Phases, Octet
  <2>8. command = WriteBlock /\ UNCHANGED <<ready, image>>
    BY <2>1, <2>2 DEF AtStart, AtWrite, session_vars
  <2>9. QED BY <2>1, <2>3, <2>6, <2>7, <2>8, TypePartsNext DEF IInv
<1>4. CASE Transmit
  <2>1. /\ AtTransmit /\ Exchange(buffer[count + 1]) /\ a' = buffer[count + 1]
        /\ UNCHANGED <<command, address, buffer, resets, app_at_start>>
    BY <1>4 DEF Transmit, IInv
  <2>2. count \in 0..BlockBytes - 1 /\ buffer[count + 1] \in DataBytes /\ buffer[count + 1] \in Octet
    <3>1. count \in 0..BlockBytes - 1 /\ buffer \in [1..BlockBytes -> DataBytes]
      BY <2>1 DEF AtTransmit, InData, AtWrite, Called, Contents
    <3>2. count + 1 \in 1..BlockBytes
      BY <1>2, <3>1
    <3>3. QED BY <3>1, <3>2, DataBytesAssumption DEF Octet
  <2> DEFINE byte == buffer[count + 1]
             received == Append(input_buffer, byte)
  <2> HIDE DEF byte
  <2>3. /\ received \in Seq(Octet) /\ Len(received) = count + 1
        /\ \A i \in 1..count + 1 : received[i] = buffer[i]
    <3>1. input_buffer \in Seq(Octet) /\ byte \in Octet
      BY <1>1, <2>2 DEF CardTypeOK, byte
    <3>2. /\ received \in Seq(Octet) /\ Len(received) = Len(input_buffer) + 1
          /\ \A i \in 1..Len(input_buffer) : received[i] = input_buffer[i]
          /\ received[Len(input_buffer) + 1] = byte
      BY <3>1, AppendProperties
    <3> HIDE DEF received
    <3>3. Len(input_buffer) = count /\ \A i \in 1..count : input_buffer[i] = buffer[i]
      BY <2>1 DEF AtTransmit, HasReceived
    <3>4. QED BY <2>2, <3>2, <3>3 DEF byte
  <2>4. DataByte(byte) /\ enabled'
    BY <2>1
    DEF AtTransmit, InData, AtWrite, Exchange, IgnoreByte, CommandByte, ResponseByte, TokenByte, byte
  <2>5. /\ input_buffer' = received /\ sub_data_out' = 255
        /\ UNCHANGED <<session_vars, image, response_queue, card_state>>
    <3>1. Len(received) # BlockBytes + 2
      BY <1>2, <2>2, <2>3
    <3>2. QED BY <2>4, <3>1 DEF DataByte
  <2>6. image' \in [Blocks -> Contents] /\ card_state = "data"
    BY <1>1, <2>1, <2>5 DEF CardTypeOK, AtTransmit, InData
  <2>7. CardTypeOK'
    BY <1>1, <2>1, <2>2, <2>6, ExchangeTypes
  <2>8. AtWrite'
    BY <2>1, <2>4, <2>5 DEF AtTransmit, InData, AtWrite, Handled, Called, Valid, session_vars
  <2>9. InData'
    BY <2>1, <2>5, <2>8 DEF AtTransmit, InData, session_vars
  <2>10. a' \in Octet
    BY <2>1, <2>2
  <2>11. command = WriteBlock /\ UNCHANGED <<ready, image>>
    BY <2>1, <2>5 DEF AtTransmit, InData, AtWrite, session_vars
  <2> HIDE DEF received
  <2>12. CASE count + 1 = BlockBytes
    <3>1. phase' = "crc" /\ count' = 0
      BY <1>4, <2>12 DEF Transmit, Go
    <3>2. AtCrc'
      BY <1>2, <2>1, <2>3, <2>5, <2>9, <2>12, <3>1 DEF AtCrc
    <3>3. DriverTypeOK'
      BY <1>1, <2>1, <2>10, <3>1 DEF DriverTypeOK, Phases
    <3>4. QED BY <2>1, <2>7, <2>11, <3>1, <3>2, <3>3, TypePartsNext DEF IInv
  <2>13. CASE count + 1 # BlockBytes
    <3>1. phase' = "transmit" /\ count' = count + 1 /\ count' \in 0..BlockBytes - 1
      BY <1>2, <1>4, <2>2, <2>13 DEF Transmit, Stay
    <3>2. AtTransmit'
      BY <2>1, <2>3, <2>5, <2>9, <3>1 DEF AtTransmit, HasReceived
    <3>3. DriverTypeOK'
      BY <1>1, <2>1, <2>10, <3>1 DEF DriverTypeOK, Phases
    <3>4. QED BY <2>1, <2>7, <2>11, <3>1, <3>2, <3>3, TypePartsNext DEF IInv
  <2>14. QED BY <2>12, <2>13
<1>5. QED BY <1>3, <1>4

\* The CRC of a block: that of a read ends the block, that of a write commits it.
LEMMA CrcStep ==
    ASSUME TypeOK, IInv, Crc
    PROVE  /\ TypeOK' /\ IInv' /\ phase' \notin {"boot", "idle"}
           /\ UNCHANGED <<command, ready, address, buffer>>
           /\ \/ UNCHANGED image
              \/ command = WriteBlock /\ Valid /\ image' = [image EXCEPT ![address] = buffer]
<1>1. CardTypeOK /\ DriverTypeOK
  BY TypeParts
<1>2. BlockBytes \in Nat \ {0}
  BY BlocksAssumption
<1>3. AtCrc /\ Exchange(255) /\ UNCHANGED <<command, address, buffer, resets, app_at_start>>
  BY DEF Crc, IInv
<1>4. ReadBlock # WriteBlock
  BY DEF ReadBlock, WriteBlock
<1>5. CASE Serving /\ Handled /\ Called /\ command = ReadBlock /\ Valid /\ buffer = image[address]
  <2>1. Serving' /\ CardTypeOK' /\ UNCHANGED <<ready, next_is_app_command, image>>
    BY <1>1, <1>3, <1>5, Served
  <2>2. /\ Handled' /\ Called' /\ command' = ReadBlock /\ Valid' /\ buffer' = image'[address']
    BY <1>3, <1>5, <2>1 DEF Handled, Called, Valid
  <2>3. CASE count = 0
    <3>1. phase' = "crc" /\ count' = 1 /\ a' = a
      BY <1>3, <2>3 DEF Crc, Stay
    <3>2. AtCrc'
      BY <2>1, <2>2, <3>1 DEF AtCrc
    <3>3. DriverTypeOK'
      BY <1>1, <1>3, <3>1 DEF DriverTypeOK, Phases
    <3>4. QED BY <1>3, <2>1, <3>1, <3>2, <3>3, TypePartsNext DEF IInv
  <2>4. CASE count = 1
    <3>1. phase' = "deselect" /\ count' = 0 /\ a' = 0
      BY <1>3, <1>5, <2>4 DEF Crc, Go
    <3>2. Result'
      <4>1. /\ command' # 0 /\ command' # 8 /\ command' # 55 /\ command' # 41
            /\ command' # 58 /\ command' # WriteBlock
        BY <2>2 DEF ReadBlock, WriteBlock
      <4>2. QED BY <2>2, <3>1, <4>1, Zenon DEF Result
    <3>3. AtDeselect'
      BY <2>1, <2>2, <3>2 DEF AtDeselect, Serving
    <3>4. DriverTypeOK'
      BY <1>1, <1>3, <3>1 DEF DriverTypeOK, Phases, Octet
    <3>5. QED BY <1>3, <2>1, <3>1, <3>3, <3>4, TypePartsNext DEF IInv
  <2>5. QED BY <1>3, <2>3, <2>4 DEF AtCrc
<1>6. CASE /\ InData /\ Len(input_buffer) = BlockBytes + count
           /\ \A i \in 1..BlockBytes : input_buffer[i] = buffer[i]
  <2> DEFINE received == Append(input_buffer, 255)
  <2>1. /\ received \in Seq(Octet) /\ Len(received) = BlockBytes + count + 1
        /\ \A i \in 1..BlockBytes : received[i] = buffer[i]
    <3>1. input_buffer \in Seq(Octet) /\ 255 \in Octet
      BY <1>1 DEF CardTypeOK, Octet
    <3>2. /\ received \in Seq(Octet) /\ Len(received) = Len(input_buffer) + 1
          /\ \A i \in 1..Len(input_buffer) : received[i] = input_buffer[i]
      BY <3>1, AppendProperties
    <3> HIDE DEF received
    <3>3. count \in {0, 1}
      BY <1>3 DEF AtCrc
    <3>4. \A i \in 1..BlockBytes : i \in 1..Len(input_buffer)
      BY <1>2, <1>6, <3>3
    <3>5. QED BY <1>6, <3>2, <3>4
  <2>2. DataByte(255) /\ enabled' /\ sub_data_out' = 255 /\ UNCHANGED session_vars
    BY <1>3, <1>6
    DEF InData, AtWrite, Exchange, IgnoreByte, CommandByte, ResponseByte, TokenByte, DataByte
  <2> HIDE DEF received
  <2>3. /\ Handled /\ Called /\ command = WriteBlock /\ Valid /\ write_address = address
        /\ buffer \in [1..BlockBytes -> DataBytes] /\ response_queue = <<>>
        /\ command # ReadBlock /\ card_state = "data" /\ 255 \in Octet
    BY <1>4, <1>6 DEF InData, AtWrite, Called, Contents, Octet
  <2>4. Handled' /\ Called' /\ Valid' /\ command' = WriteBlock /\ write_address' = address'
        /\ UNCHANGED ready
    BY <1>3, <2>2, <2>3 DEF Handled, Called, Valid, session_vars
  <2>5. CASE count = 0
    <3>1. phase' = "crc" /\ count' = 1 /\ a' = a
      BY <1>3, <2>5 DEF Crc, Stay
    <3>2. input_buffer' = received /\ UNCHANGED <<image, response_queue, card_state>>
      <4>1. Len(received) # BlockBytes + 2
        BY <1>2, <2>1, <2>5
      <4>2. QED BY <2>2, <4>1 DEF DataByte, received
    <3>3. CardTypeOK'
      BY <1>1, <1>3, <2>3, <3>2, ExchangeTypes DEF CardTypeOK
    <3>4. InData'
      BY <2>2, <2>3, <2>4, <3>2 DEF InData, AtWrite
    <3>5. AtCrc'
      BY <1>2, <1>3, <2>1, <2>5, <3>1, <3>2, <3>4 DEF AtCrc
    <3>6. DriverTypeOK'
      BY <1>1, <1>3, <3>1 DEF DriverTypeOK, Phases
    <3>7. QED BY <1>3, <2>4, <3>1, <3>2, <3>3, <3>5, <3>6, TypePartsNext DEF IInv
  <2>6. CASE count = 1
    <3>1. phase' = "data_response" /\ count' = 0 /\ a' = a
      BY <1>3, <2>3, <2>6 DEF Crc, Go
    <3>2. /\ image' = [image EXCEPT ![address] = SubSeq(received, 1, BlockBytes)]
          /\ input_buffer' = <<>> /\ card_state' = "response"
          /\ response_queue' = response_queue \o <<5, 0>>
      <4>1. Len(received) = BlockBytes + 2
        BY <1>2, <2>1, <2>6
      <4>2. QED BY <2>2, <2>3, <4>1 DEF DataByte, received
    <3>3. SubSeq(received, 1, BlockBytes) = buffer
      <4> DEFINE block == SubSeq(received, 1, BlockBytes)
      <4>1. \A i \in 1..BlockBytes : received[i] \in DataBytes
        BY <2>1, <2>3
      <4>2. /\ block \in Seq(DataBytes) /\ Len(block) = BlockBytes
            /\ \A i \in 1..BlockBytes : block[i] = received[i]
        <5>1. /\ block \in Seq(DataBytes)
              /\ Len(block) = IF 1 <= BlockBytes THEN BlockBytes - 1 + 1 ELSE 0
              /\ \A i \in 1..BlockBytes - 1 + 1 : block[i] = received[1 + i - 1]
          <6>1. 1 \in Int /\ BlockBytes \in Int
            BY <1>2
          <6>2. QED BY <4>1, <6>1, SubSeqProperties
        <5> HIDE DEF block
        <5>2. \A i \in 1..BlockBytes : i \in 1..BlockBytes - 1 + 1 /\ 1 + i - 1 = i
          BY <1>2
        <5>3. \A i \in 1..BlockBytes : block[i] = received[i]
          BY <5>1, <5>2
        <5>4. Len(block) = BlockBytes
          BY <1>2, <5>1
        <5>5. QED BY <5>1, <5>3, <5>4
      <4> HIDE DEF block
      <4>3. block \in [1..BlockBytes -> DataBytes]
        BY <4>2
      <4>4. block = buffer
        BY <2>1, <2>3, <4>2, <4>3
      <4>5. QED BY <4>4 DEF block
    <3>4. response_queue' = <<5, 0>>
      BY <2>3, <3>2, AnswersTyped, ConcatEmptySeq
    <3>5. image' = [image EXCEPT ![address] = buffer]
      BY <3>2, <3>3
    <3>6. image' \in [Blocks -> Contents] /\ image'[address'] = buffer'
      BY <1>1, <1>3, <2>3, <3>5 DEF CardTypeOK, Valid, Contents
    <3>7. CardTypeOK'
      BY <1>1, <1>3, <2>3, <3>6, ExchangeTypes
    <3>8. Serving'
      BY <2>2, <3>2, <3>4 DEF Serving
    <3>9. Written'
      BY <2>2, <2>4, <3>6, <3>8 DEF Written, AtWrite
    <3>10. Stream(sub_data_out', response_queue', <<5, 0>>, count')
      <4>1. Stream(255, <<5, 0>>, <<5, 0>>, 0)
        BY AnswersTyped, StreamStart
      <4>2. QED BY <2>2, <3>1, <3>4, <4>1, Zenon
    <3>11. AtDataResponse'
      BY <3>1, <3>9, <3>10 DEF AtDataResponse, Answering
    <3>12. DriverTypeOK'
      BY <1>1, <1>3, <3>1 DEF DriverTypeOK, Phases
    <3>13. QED BY <1>3, <2>3, <2>4, <3>1, <3>5, <3>7, <3>11, <3>12, TypePartsNext DEF IInv
  <2>7. QED BY <1>3, <2>5, <2>6 DEF AtCrc
<1>7. QED BY <1>3, <1>5, <1>6 DEF AtCrc

\* The end of a write.
LEMMA WrittenSteps ==
    ASSUME TypeOK, IInv, GetDataResponse \/ WaitBusy
    PROVE  /\ TypeOK' /\ IInv' /\ phase' \notin {"boot", "idle"} /\ command = WriteBlock
           /\ UNCHANGED <<command, image, ready, address, buffer>>
<1>1. CardTypeOK /\ DriverTypeOK
  BY TypeParts
<1>2. ASSUME Written, Exchange(255), UNCHANGED <<command, address, buffer>>
      PROVE  /\ Written' /\ CardTypeOK' /\ UNCHANGED <<ready, image>> /\ command = WriteBlock
             /\ response_queue = <<>> => sub_data_out' = 255 /\ response_queue' = <<>>
  <2>1. /\ Serving' /\ CardTypeOK' /\ UNCHANGED <<ready, next_is_app_command, image>>
        /\ response_queue = <<>> => sub_data_out' = 255 /\ response_queue' = <<>>
    BY <1>1, <1>2, Served DEF Written
  <2>2. QED BY <1>2, <2>1 DEF Written, AtWrite, Handled, Called, Valid, Serving
<1>3. CASE GetDataResponse
  <2>1. /\ AtDataResponse /\ Exchange(255) /\ a' = sub_data_out /\ phase = "data_response"
        /\ UNCHANGED <<command, address, buffer, resets, app_at_start>>
    BY <1>3 DEF GetDataResponse, IInv
  <2>2. Written' /\ CardTypeOK' /\ UNCHANGED <<ready, image>> /\ command = WriteBlock
    BY <1>2, <2>1 DEF AtDataResponse
  <2>3. /\ count \in {0, 1} /\ count < Len(<<5, 0>>)
        /\ <<5, 0>> \in Seq(Octet) /\ Serving /\ Answering(<<5, 0>>, count)
    BY <1>1, <2>1, AnswersTyped DEF AtDataResponse, Written, DriverTypeOK
  <2>4. Stream(sub_data_out', response_queue', <<5, 0>>, count + 1)
    BY <1>1, <2>1, <2>3, Advance, Zenon
  <2>5. a' \in Octet
    BY <1>1, <2>1 DEF CardTypeOK
  <2>6. CASE count = 0
    <3>1. sub_data_out = 255
      BY <2>3, <2>6 DEF Answering, Stream
    <3>2. phase' = "data_response" /\ count' = count + 1
      BY <1>3, <2>1, <2>6, <3>1, TriesAssumption DEF GetDataResponse, Stay
    <3>3. AtDataResponse'
      BY <2>2, <2>4, <2>6, <3>2 DEF AtDataResponse, Answering
    <3>4. DriverTypeOK'
      BY <1>1, <2>1, <2>5, <3>2 DEF DriverTypeOK, Phases
    <3>5. QED BY <2>1, <2>2, <3>2, <3>3, <3>4, TypePartsNext DEF IInv
  <2>7. CASE count = 1
    <3>1. sub_data_out = 5
      BY <2>3, <2>7 DEF Answering, Stream
    <3>2. phase' = "busy" /\ count' = 0 /\ a' = 5
      BY <1>3, <2>1, <2>7, <3>1 DEF GetDataResponse, Go
    <3>3. sub_data_out' = 0 /\ response_queue' = <<>>
      <4>1. sub_data_out' = 0
        BY <2>4, <2>7 DEF Stream
      <4>2. Stream(sub_data_out', response_queue', <<5, 0>>, Len(<<5, 0>>))
        BY <2>4, <2>7
      <4>3. response_queue' \in Seq(Octet)
        BY <2>2 DEF CardTypeOK
      <4>4. QED BY <2>3, <4>1, <4>2, <4>3, StreamEnd, Zenon
    <3>4. AtBusy'
      BY <2>2, <3>2, <3>3 DEF AtBusy
    <3>5. DriverTypeOK'
      BY <1>1, <2>1, <2>5, <3>2 DEF DriverTypeOK, Phases
    <3>6. QED BY <2>1, <2>2, <3>2, <3>4, <3>5, TypePartsNext DEF IInv
  <2>8. QED BY <2>3, <2>6, <2>7
<1>4. CASE WaitBusy
  <2>1. /\ AtBusy /\ Exchange(255) /\ phase = "busy"
        /\ UNCHANGED <<command, address, buffer, resets, app_at_start>>
    BY <1>4 DEF WaitBusy, IInv
  <2>2. /\ Written' /\ CardTypeOK' /\ UNCHANGED <<ready, image>> /\ command = WriteBlock
        /\ sub_data_out' = 255 /\ response_queue' = <<>>
    BY <1>2, <2>1 DEF AtBusy
  <2>3. CASE sub_data_out = 0
    <3>1. UNCHANGED <<phase, count, a>>
      BY <1>4, <2>3 DEF WaitBusy
    <3>2. AtBusy'
      BY <2>1, <2>2, <3>1 DEF AtBusy
    <3>3. DriverTypeOK'
      BY <1>1, <2>1, <3>1 DEF DriverTypeOK
    <3>4. QED BY <2>1, <2>2, <3>1, <3>2, <3>3, TypePartsNext DEF IInv
  <2>4. CASE sub_data_out # 0
    <3>1. a = 5 /\ ~Refused(5)
      BY <2>1 DEF AtBusy, Refused
    <3>2. phase' = "deselect" /\ count' = 0 /\ a' = 0
      BY <1>4, <2>4, <3>1 DEF WaitBusy, Go
    <3>3. Handled' /\ Called' /\ Valid' /\ command' = WriteBlock /\ enabled'
          /\ image'[address'] = buffer'
      BY <2>2 DEF Written, AtWrite
    <3>4. Result'
      <4>1. /\ command' # 0 /\ command' # 8 /\ command' # 55 /\ command' # 41
            /\ command' # 58 /\ command' # ReadBlock
        BY <3>3 DEF ReadBlock, WriteBlock
      <4>2. QED BY <3>2, <3>3, <4>1, Zenon DEF Result
    <3>5. AtDeselect'
      BY <3>3, <3>4 DEF AtDeselect
    <3>6. DriverTypeOK'
      BY <1>1, <2>1, <3>2 DEF DriverTypeOK, Phases, Octet
    <3>7. QED BY <2>1, <2>2, <3>2, <3>5, <3>6, TypePartsNext DEF IInv
  <2>5. QED BY <2>3, <2>4
<1>5. QED BY <1>3, <1>4

\* The end of a command, and the next of an initialisation.
LEMMA EndSteps ==
    ASSUME TypeOK, IInv, Deselect \/ Trailer
    PROVE  /\ TypeOK' /\ IInv' /\ UNCHANGED <<image, ready, address, buffer>>
           /\ phase' # "idle" => /\ phase' # "boot"
                                 /\ \/ UNCHANGED command
                                    \/ command \in InitCommands /\ command' \in InitCommands
           /\ phase' = "idle" => /\ UNCHANGED command
                                 /\ command \notin InitCommands => Result /\ UNCHANGED a
<1>1. CardTypeOK /\ DriverTypeOK
  BY TypeParts
<1>2. CASE Deselect
  <2>1. /\ AtDeselect /\ ChipSelect(FALSE) /\ phase' = "trailer" /\ count' = 0
        /\ UNCHANGED <<command, a, address, buffer, resets, app_at_start>>
    BY <1>2 DEF Deselect, Go, IInv
  <2>2. CardTypeOK' /\ Unselected' /\ UNCHANGED <<session_vars, image>>
    BY <1>1, <2>1, Deselecting DEF AtDeselect, AtBoot
  <2>3. Handled' /\ Called'
    BY <2>1, <2>2 DEF AtDeselect, Handled, Called, session_vars
  <2>4. Result'
    <3>1. UNCHANGED <<command, a, ready, image, address, buffer, app_at_start>>
      BY <2>1, <2>2 DEF session_vars
    <3>2. Result' <=> Result
      BY <3>1, Zenon DEF Result, Valid
    <3>3. QED BY <2>1, <3>2 DEF AtDeselect
  <2>5. AtTrailer'
    BY <2>2, <2>3, <2>4 DEF AtTrailer
  <2>6. DriverTypeOK'
    BY <1>1, <2>1 DEF DriverTypeOK, Phases
  <2>7. QED BY <2>1, <2>2, <2>5, <2>6, TypePartsNext DEF IInv, session_vars
<1>3. CASE Trailer
  <2>1. AtTrailer /\ Exchange(255) /\ UNCHANGED <<address, buffer, resets, app_at_start>>
    BY <1>3 DEF Trailer, IInv
  <2>2. Unselected' /\ UNCHANGED <<ready, next_is_app_command, image>>
    BY <2>1, Ignored DEF AtTrailer, session_vars
  <2>3. CardTypeOK'
    BY <1>1, <2>1, ExchangeTypes DEF AtTrailer, Unselected
  <2>4. ASSUME command' \in InitCommands, a' \in Octet, Go("select"), Prepared'
        PROVE  TypeOK' /\ IInv' /\ phase' = "select"
    <3>1. phase' = "select" /\ count' = 0
      BY <2>4 DEF Go
    <3>2. AtSelect'
      BY <2>2, <2>4 DEF AtSelect, Called, InitCommands, ReadBlock, WriteBlock
    <3>3. DriverTypeOK'
      BY <1>1, <2>1, <2>4, <3>1 DEF DriverTypeOK, Phases
    <3>4. QED BY <2>3, <3>1, <3>2, <3>3, TypePartsNext DEF IInv
  <2>5. ASSUME command' = command, a' \in Octet, Go("idle"), ~next_is_app_command,
               command \in InitCommands => a' \in {0, 1} /\ (IF a' = 0 THEN ready ELSE app_at_start)
        PROVE  TypeOK' /\ IInv' /\ phase' = "idle"
    <3>1. phase' = "idle" /\ count' = 0
      BY <2>5 DEF Go
    <3>2. AtIdle'
      BY <2>1, <2>2, <2>5 DEF AtIdle
    <3>3. DriverTypeOK'
      BY <1>1, <2>1, <2>5, <3>1 DEF DriverTypeOK, Phases
    <3>4. QED BY <2>3, <3>1, <3>2, <3>3, TypePartsNext DEF IInv
  <2>6. CASE command \in InitCommands
    <3>1. NextCommand(a) /\ command \in {0, 8, 55, 41, 58}
      BY <1>3, <2>6 DEF Trailer, InitCommands
    <3>2. /\ Handled
          /\ command = 0 => (IF a = 1 THEN ~ready ELSE app_at_start)
          /\ command \in {8, 55} => a = 1
          /\ command = 41 => a = 0
          /\ command = 58 => a = 192
      BY <2>1, Zenon DEF AtTrailer, Result
    <3>10. /\ command # 55 => ~next_is_app_command
           /\ command = 55 => next_is_app_command
           /\ command \in {8, 55} => ~ready
           /\ command \in {41, 58} => ready
      BY <3>2, Zenon DEF Handled
    <3>11. /\ command # 55 => ~next_is_app_command'
           /\ command = 55 => next_is_app_command'
           /\ ready' = ready
      BY <2>2, <3>10, Zenon
    <3>3. CASE command = 0 /\ a = 1
      <4>1. Go("select") /\ command' = 8 /\ a' = 1
        BY <3>1, <3>3, NextCommandIs
      <4>2. Prepared'
        BY <3>2, <3>10, <3>11, <3>3, <4>1 DEF Prepared
      <4>3. QED BY <2>1, <2>2, <2>4, <2>6, <4>1, <4>2 DEF InitCommands, Octet
    <3>4. CASE command = 0 /\ a # 1
      <4>1. Go("idle") /\ command' = command /\ a' = 1
        BY <3>1, <3>4, NextCommandIs
      <4>2. ~next_is_app_command /\ app_at_start
        BY <3>2, <3>10, <3>4
      <4>3. QED BY <2>1, <2>2, <2>5, <2>6, <4>1, <4>2 DEF Octet
    <3>5. CASE command = 8
      <4>1. Go("select") /\ command' = 55 /\ a' = 1
        BY <3>1, <3>2, <3>5, NextCommandIs
      <4>2. Prepared'
        BY <3>2, <3>10, <3>11, <3>5, <4>1 DEF Prepared
      <4>3. QED BY <2>1, <2>2, <2>4, <2>6, <4>1, <4>2 DEF InitCommands, Octet
    <3>6. CASE command = 55
      <4>1. Go("select") /\ command' = 41 /\ a' = 1
        BY <3>1, <3>2, <3>6, NextCommandIs
      <4>2. Prepared'
        BY <3>2, <3>10, <3>11, <3>6, <4>1 DEF Prepared
      <4>3. QED BY <2>1, <2>2, <2>4, <2>6, <4>1, <4>2 DEF InitCommands, Octet
    <3>7. CASE command = 41
      <4>1. Go("select") /\ command' = 58 /\ a' = 0
        BY <3>1, <3>2, <3>7, NextCommandIs
      <4>2. Prepared'
        BY <3>2, <3>10, <3>11, <3>7, <4>1 DEF Prepared
      <4>3. QED BY <2>1, <2>2, <2>4, <2>6, <4>1, <4>2 DEF InitCommands, Octet
    <3>8. CASE command = 58
      <4>1. Go("idle") /\ command' = command /\ a' = 0
        BY <3>1, <3>2, <3>8, NextCommandIs
      <4>2. ~next_is_app_command /\ ready
        BY <3>10, <3>8
      <4>3. QED BY <2>1, <2>2, <2>5, <2>6, <4>1, <4>2 DEF Octet
    <3>9. QED BY <3>1, <3>3, <3>4, <3>5, <3>6, <3>7, <3>8
  <2>7. CASE command \notin InitCommands
    <3>1. Go("idle") /\ command' = command /\ a' = a /\ a \in Octet
      BY <1>1, <1>3, <2>7 DEF Trailer, DriverTypeOK
    <3>2. ~next_is_app_command /\ Result
      BY <2>1, <2>7 DEF AtTrailer, Handled, InitCommands
    <3>3. QED BY <2>1, <2>2, <2>5, <2>7, <3>1, <3>2
  <2>8. QED BY <2>6, <2>7
<1>4. QED BY <1>2, <1>3

\* Wherever a reset comes, the card is selected, or between two commands.
LEMMA AlwaysBoot ==
    ASSUME TypeOK, IInv
    PROVE  AtBoot
<1>1. CASE phase = "boot"
  BY <1>1 DEF IInv
<1>2. CASE phase \in {"idle", "clocks", "select", "trailer"}
  BY <1>2 DEF IInv, AtIdle, AtClocks, AtSelect, AtTrailer, Unselected, AtBoot
<1>3. CASE phase \in {"send", "r1", "ocr", "skip", "deselect"}
  BY <1>3 DEF IInv, AtSend, AtR1, AtOcr, AtSkip, AtDeselect, Serving, AtBoot
<1>4. CASE phase \in {"token", "receive", "crc"}
  BY <1>4 DEF IInv, AtToken, AtReceive, AtCrc, Serving, InData, AtWrite, AtBoot
<1>5. CASE phase \in {"start", "transmit", "data_response", "busy"}
  BY <1>5
  DEF IInv, AtStart, AtTransmit, InData, AtDataResponse, AtBusy, Written, AtWrite, AtBoot
<1>6. QED BY <1>1, <1>2, <1>3, <1>4, <1>5 DEF TypeOK, Phases

\* A reset leaves the card in the middle of what it was doing.
LEMMA ResetStep ==
    ASSUME TypeOK, IInv, Reset
    PROVE  TypeOK' /\ IInv'
<1>1. /\ CardTypeOK /\ DriverTypeOK /\ AtBoot
  BY TypeParts, AlwaysBoot
<1>2. /\ phase' = "boot" /\ count' = 0 /\ resets' = resets + 1 /\ resets < MaxResets
      /\ UNCHANGED <<card_vars, command, a, address, buffer, app_at_start>>
  BY DEF Reset, Go
<1>3. CardTypeOK' /\ AtBoot'
  BY <1>1, <1>2 DEF CardTypeOK, AtBoot, card_vars, session_vars
<1>4. DriverTypeOK'
  BY <1>1, <1>2, MaxResetsAssumption DEF DriverTypeOK, Phases
<1>5. QED BY <1>2, <1>3, <1>4, TypePartsNext DEF IInv

-------------------------------------------------------------------------------
(* The invariant, and what follows from it. *)

\* The invariant holds when the computer is switched on ...
LEMMA InitInv == Init => TypeOK /\ IInv
<1> SUFFICES ASSUME Init PROVE TypeOK /\ IInv
  OBVIOUS
<1>1. CardTypeOK
  <2>1. /\ enabled \in BOOLEAN /\ ready \in BOOLEAN /\ next_is_app_command \in BOOLEAN
        /\ write_address \in Blocks \cup {0} /\ image \in [Blocks -> Contents]
    BY DEF Init
  <2>2. /\ card_state \in CardStates /\ next_card_state \in {"undefined", "idle", "data_token"}
        /\ sub_data_out \in Octet
    BY DEF Init, CardStates, Octet
  <2>3. input_buffer \in Seq(Octet) /\ response_queue \in Seq(Octet)
    BY DEF Init
  <2>4. QED BY <2>1, <2>2, <2>3 DEF CardTypeOK
<1>2. DriverTypeOK
  <2>1. phase \in Phases /\ command \in InitCommands \cup {ReadBlock, WriteBlock}
    BY DEF Init, Phases, InitCommands
  <2>2. count \in Nat /\ a \in Octet /\ address \in Addresses \cup {0} /\ resets \in 0..MaxResets
    BY MaxResetsAssumption DEF Init, Octet
  <2>3. buffer \in Seq(DataBytes) /\ app_at_start \in BOOLEAN
    <3>1. buffer = <<>> /\ app_at_start = FALSE
      BY DEF Init
    <3>2. <<>> \in Seq(DataBytes)
      BY EmptySeq, Zenon
    <3>3. QED BY <3>1, <3>2
  <2>4. QED BY <2>1, <2>2, <2>3 DEF DriverTypeOK
<1>3. phase = "boot" /\ AtBoot
  BY DEF Init, AtBoot
<1>4. QED BY <1>1, <1>2, <1>3, TypeParts DEF IInv

\* ... and every step preserves it.
LEMMA NextInv == TypeOK /\ IInv /\ [Next]_vars => TypeOK' /\ IInv'
<1> SUFFICES ASSUME TypeOK, IInv, [Next]_vars PROVE TypeOK' /\ IInv'
  OBVIOUS
<1>1. CASE Boot \/ Call \/ Clocks
  BY <1>1, CallSteps DEF Call
<1>2. CASE Select \/ SendCommand
  BY <1>2, CommandSteps
<1>3. CASE GetR1 \/ ReceiveOcr \/ Skip
  BY <1>3, ResponseSteps
<1>4. CASE GetStartBlock \/ Receive
  BY <1>4, ReadSteps
<1>5. CASE SendStartBlock \/ Transmit
  BY <1>5, WriteSteps
<1>6. CASE Crc
  BY <1>6, CrcStep
<1>7. CASE GetDataResponse \/ WaitBusy
  BY <1>7, WrittenSteps
<1>8. CASE Deselect \/ Trailer
  BY <1>8, EndSteps
<1>9. CASE Reset
  BY <1>9, ResetStep
<1>10. CASE UNCHANGED vars
  <2>1. TypeOK'
    <3>1. CardTypeOK' /\ DriverTypeOK'
      BY <1>10, TypeParts
      DEF vars, card_vars, driver_vars, session_vars, CardTypeOK, DriverTypeOK
    <3>2. QED BY <3>1, TypePartsNext
  <2>2. IInv' <=> IInv
    BY <1>10 DEF vars, card_vars, driver_vars, session_vars, IInv, AtBoot, AtIdle, AtClocks,
       AtSelect, AtSend, AtR1, AtOcr, AtSkip, AtToken, AtReceive, AtStart, AtTransmit, AtCrc,
       AtDataResponse, AtBusy, AtDeselect, AtTrailer, Unselected, Prepared, Called, Handled,
       HasReceived, CommandBytes, AddressBytes, Serving, Responding, Answering, Stream, Result,
       Valid, ReadAnswer, AtWrite, InData, Written
  <2>3. QED BY <2>1, <2>2
<1>11. QED
  BY <1>1, <1>2, <1>3, <1>4, <1>5, <1>6, <1>7, <1>8, <1>9, <1>10 DEF Next, Driver, Call

\* The variables keep their types: no byte goes to a buffer that has no room, and
\* each command and each address stays one that there is.
THEOREM TypeCorrectness == Spec => []TypeOK
<1>1. QED BY InitInv, NextInv, PTL DEF Spec

\* Between two calls the card is not selected and waits for no application
\* command, and an initialisation has only failed if the card waited for one when
\* it began.
THEOREM CleanBetweenCalls == Spec => []CleanWhenIdle
<1>1. IInv => CleanWhenIdle
  BY DEF IInv, AtIdle, Unselected, CleanWhenIdle
<1>2. QED BY <1>1, InitInv, NextInv, PTL DEF Spec

-------------------------------------------------------------------------------
(* Card and driver implement BlockStore. *)

\* What the block store sees of a call, case by case ...
LEMMA CallIs ==
    ASSUME TypeOK
    PROVE  /\ phase \in {"boot", "idle"} => StoreCall = [op |-> "none"]
           /\ phase \notin {"boot", "idle"} /\ command = ReadBlock =>
                StoreCall = [op |-> "read", address |-> address]
           /\ phase \notin {"boot", "idle"} /\ command = WriteBlock =>
                StoreCall = [op |-> "write", address |-> address, contents |-> buffer]
           /\ phase \notin {"boot", "idle"} /\ command \in InitCommands =>
                StoreCall = [op |-> "initialize"]
<1>1. phase \notin {"boot", "idle"} <=> Running
  BY DEF Running
<1>2. ReadBlock # WriteBlock /\ ReadBlock \notin InitCommands /\ WriteBlock \notin InitCommands
  BY DEF ReadBlock, WriteBlock, InitCommands
<1>3. ~Running => StoreCall = [op |-> "none"]
  BY Zenon DEF StoreCall
<1>4. Running /\ command = ReadBlock => StoreCall = [op |-> "read", address |-> address]
  BY <1>2, Zenon DEF StoreCall
<1>5. Running /\ command = WriteBlock =>
        StoreCall = [op |-> "write", address |-> address, contents |-> buffer]
  BY <1>2, Zenon DEF StoreCall
<1>6. Running /\ command \in InitCommands => StoreCall = [op |-> "initialize"]
  <2>1. command \in InitCommands => command # ReadBlock /\ command # WriteBlock
    BY <1>2
  <2>2. QED BY <2>1, Zenon DEF StoreCall
<1>7. QED BY <1>1, <1>3, <1>4, <1>5, <1>6, Zenon

\* ... and of an answer.
LEMMA AnswerIs ==
    /\ phase # "idle" => StoreAnswer = [result |-> "none"]
    /\ phase = "idle" /\ a # 0 => StoreAnswer = [result |-> "error"]
    /\ phase = "idle" /\ a = 0 /\ command = ReadBlock =>
          StoreAnswer = [result |-> "ok", contents |-> buffer]
    /\ phase = "idle" /\ a = 0 /\ command # ReadBlock => StoreAnswer = [result |-> "ok"]
BY Zenon DEF StoreAnswer

\* The same after a step.
LEMMA CallIsNext ==
    TypeOK' =>
       /\ (phase \in {"boot", "idle"} => StoreCall = [op |-> "none"])'
       /\ (phase \notin {"boot", "idle"} /\ command = ReadBlock =>
             StoreCall = [op |-> "read", address |-> address])'
       /\ (phase \notin {"boot", "idle"} /\ command = WriteBlock =>
             StoreCall = [op |-> "write", address |-> address, contents |-> buffer])'
       /\ (phase \notin {"boot", "idle"} /\ command \in InitCommands =>
             StoreCall = [op |-> "initialize"])'
BY CallIs, PTL

LEMMA AnswerIsNext ==
    /\ (phase # "idle" => StoreAnswer = [result |-> "none"])'
    /\ (phase = "idle" /\ a # 0 => StoreAnswer = [result |-> "error"])'
    /\ (phase = "idle" /\ a = 0 /\ command = ReadBlock =>
          StoreAnswer = [result |-> "ok", contents |-> buffer])'
    /\ (phase = "idle" /\ a = 0 /\ command # ReadBlock => StoreAnswer = [result |-> "ok"])'
BY AnswerIs, PTL

\* The block store begins where the card and the driver do.
LEMMA InitStore == Init => Store!Init
<1> SUFFICES ASSUME Init PROVE Store!Init
  OBVIOUS
<1>1. TypeOK /\ phase = "boot"
  BY InitInv DEF Init
<1>2. StoreCall = [op |-> "none"] /\ StoreAnswer = [result |-> "none"]
  BY <1>1, CallIs, AnswerIs
<1>3. QED BY <1>2 DEF Init, Store!Init, Store!NoCall, Store!NoAnswer

\* A step within a call that changes neither the image nor what was asked for.
LEMMA Unseen ==
    ASSUME TypeOK, TypeOK', phase \notin {"boot", "idle"}, phase' \notin {"boot", "idle"},
           \/ UNCHANGED <<command, address>> /\ (command = WriteBlock => UNCHANGED buffer)
           \/ command \in InitCommands /\ command' \in InitCommands
    PROVE  UNCHANGED <<StoreCall, StoreAnswer>>
<1>1. UNCHANGED StoreAnswer
  BY AnswerIs, AnswerIsNext
<1>2. command = ReadBlock \/ command = WriteBlock \/ command \in InitCommands
  BY DEF TypeOK
<1>3. ReadBlock # WriteBlock /\ ReadBlock \notin InitCommands /\ WriteBlock \notin InitCommands
  BY DEF ReadBlock, WriteBlock, InitCommands
<1>4. CASE command \in InitCommands /\ command' \in InitCommands
  <2>1. StoreCall = [op |-> "initialize"]
    BY <1>4, CallIs
  <2>2. StoreCall' = [op |-> "initialize"]
    BY <1>4, CallIsNext
  <2>3. QED BY <1>1, <2>1, <2>2
<1>5. CASE UNCHANGED <<command, address>> /\ command = ReadBlock
  <2>1. StoreCall = [op |-> "read", address |-> address]
    BY <1>5, CallIs
  <2>2. StoreCall' = [op |-> "read", address |-> address']
    BY <1>5, CallIsNext
  <2>3. QED BY <1>1, <1>5, <2>1, <2>2
<1>6. CASE UNCHANGED <<command, address, buffer>> /\ command = WriteBlock
  <2>1. StoreCall = [op |-> "write", address |-> address, contents |-> buffer]
    BY <1>6, CallIs
  <2>2. StoreCall' = [op |-> "write", address |-> address', contents |-> buffer']
    BY <1>6, CallIsNext
  <2>3. QED BY <1>1, <1>6, <2>1, <2>2
<1>7. CASE UNCHANGED command /\ command \in InitCommands
  BY <1>4, <1>7
<1>8. QED BY <1>2, <1>4, <1>5, <1>6, <1>7

\* Every step of card and driver is one of the store, or none.
LEMMA NextStore ==
    TypeOK /\ IInv /\ TypeOK' /\ IInv' /\ [Next]_vars => [Store!Next]_(Store!vars)
<1> SUFFICES ASSUME TypeOK, IInv, TypeOK', IInv', [Next]_vars PROVE [Store!Next]_(Store!vars)
  OBVIOUS
<1>1. ASSUME UNCHANGED <<image, ready, StoreCall, StoreAnswer>> PROVE UNCHANGED Store!vars
  BY <1>1 DEF Store!vars
<1>2. ReadBlock # WriteBlock /\ ReadBlock \notin InitCommands /\ WriteBlock \notin InitCommands
      /\ 0 \in InitCommands
  BY DEF ReadBlock, WriteBlock, InitCommands
<1>3. phase = "idle" => StoreAnswer # [result |-> "none"]
  <2>1. SUFFICES ASSUME phase = "idle" PROVE StoreAnswer.result # "none"
    OBVIOUS
  <2>2. \/ StoreAnswer = [result |-> "error"]
        \/ StoreAnswer = [result |-> "ok"]
        \/ StoreAnswer = [result |-> "ok", contents |-> buffer]
    BY <2>1, AnswerIs, Zenon
  <2>3. QED BY <2>2
<1>4. CASE Boot \/ Call
  <2>1. UNCHANGED <<ready, image>> /\ phase \in {"boot", "idle"} /\ phase' \in {"clocks", "select"}
    BY <1>4, CallSteps DEF Boot, Call, CallInitialize, CallRead, CallWrite, Go
  <2>2. StoreCall = [op |-> "none"] /\ StoreAnswer' = [result |-> "none"]
    BY <2>1, CallIs, AnswerIsNext
  <2>3. CASE Boot \/ CallInitialize
    <3>1. command' = 0
      BY <2>3 DEF Boot, CallInitialize
    <3>2. StoreCall' = [op |-> "initialize"]
      BY <1>2, <2>1, <3>1, CallIsNext
    <3>3. QED
      BY <2>1, <2>2, <3>2
      DEF Store!Next, Store!Start, Store!NoCall, Store!NoAnswer, Store!Calls
  <2>4. CASE CallRead
    <3>1. command' = ReadBlock /\ address' \in Addresses /\ phase = "idle"
      BY <2>4 DEF CallRead
    <3>2. StoreCall' = [op |-> "read", address |-> address']
      BY <2>1, <3>1, CallIsNext
    <3>3. StoreCall' \in Store!Calls
      BY <3>1, <3>2 DEF Store!Calls, Store!Read
    <3>4. QED
      BY <1>3, <2>1, <2>2, <3>1, <3>3
      DEF Store!Next, Store!Start, Store!NoCall, Store!NoAnswer
  <2>5. CASE CallWrite
    <3>1. command' = WriteBlock /\ address' \in Addresses /\ buffer' \in Contents /\ phase = "idle"
      BY <2>5 DEF CallWrite
    <3>2. StoreCall' = [op |-> "write", address |-> address', contents |-> buffer']
      BY <2>1, <3>1, CallIsNext
    <3>3. StoreCall' \in Store!Calls
      BY <3>1, <3>2 DEF Store!Calls, Store!Write
    <3>4. QED
      BY <1>3, <2>1, <2>2, <3>1, <3>3
      DEF Store!Next, Store!Start, Store!NoCall, Store!NoAnswer
  <2>6. QED BY <1>4, <2>3, <2>4, <2>5 DEF Call
<1>5. CASE Clocks
  <2>1. /\ UNCHANGED <<ready, image, command, address, buffer>> /\ phase = "clocks"
        /\ phase' \in {"clocks", "select"}
    BY <1>5, CallSteps DEF Clocks, Go, Stay
  <2>2. QED BY <1>1, <2>1, Unseen
<1>6. CASE Select \/ SendCommand
  <2>1. /\ UNCHANGED <<command, image, address, buffer>> /\ phase' \notin {"boot", "idle"}
        /\ command \notin InitCommands => UNCHANGED ready
    BY <1>6, CommandSteps
  <2>2. phase \notin {"boot", "idle"}
    BY <1>6 DEF Select, SendCommand
  <2>3. UNCHANGED <<StoreCall, StoreAnswer>>
    BY <2>1, <2>2, Unseen
  <2>4. CASE UNCHANGED ready
    BY <1>1, <2>1, <2>3, <2>4
  <2>5. CASE command \in InitCommands
    <3>1. StoreCall = [op |-> "initialize"] /\ ready' \in BOOLEAN
      BY <2>2, <2>5, CallIs DEF TypeOK
    <3>2. QED BY <2>1, <2>3, <3>1 DEF Store!Next, Store!Initialize
  <2>6. QED BY <2>1, <2>4, <2>5
<1>7. CASE GetR1 \/ ReceiveOcr \/ Skip
  <2>1. UNCHANGED <<command, image, ready, address, buffer>> /\ phase' \notin {"boot", "idle"}
    BY <1>7, ResponseSteps
  <2>2. phase \notin {"boot", "idle"}
    BY <1>7 DEF GetR1, ReceiveOcr, Skip
  <2>3. QED BY <1>1, <2>1, <2>2, Unseen
<1>8. CASE GetStartBlock \/ Receive
  <2>1. UNCHANGED <<command, image, ready, address>> /\ phase' \notin {"boot", "idle"}
        /\ command # WriteBlock
    BY <1>2, <1>8, ReadSteps
  <2>2. phase \notin {"boot", "idle"}
    BY <1>8 DEF GetStartBlock, Receive
  <2>3. QED BY <1>1, <2>1, <2>2, Unseen
<1>9. CASE SendStartBlock \/ Transmit \/ GetDataResponse \/ WaitBusy
  <2>1. UNCHANGED <<command, image, ready, address, buffer>> /\ phase' \notin {"boot", "idle"}
    BY <1>9, WriteSteps, WrittenSteps
  <2>2. phase \notin {"boot", "idle"}
    BY <1>9 DEF SendStartBlock, Transmit, GetDataResponse, WaitBusy
  <2>3. QED BY <1>1, <2>1, <2>2, Unseen
<1>10. CASE Crc
  <2>1. /\ UNCHANGED <<command, ready, address, buffer>> /\ phase' \notin {"boot", "idle"}
        /\ \/ UNCHANGED image
           \/ command = WriteBlock /\ Valid /\ image' = [image EXCEPT ![address] = buffer]
    BY <1>10, CrcStep
  <2>2. phase \notin {"boot", "idle"}
    BY <1>10 DEF Crc
  <2>3. UNCHANGED <<StoreCall, StoreAnswer>>
    BY <2>1, <2>2, Unseen
  <2>4. CASE UNCHANGED image
    BY <1>1, <2>1, <2>3, <2>4
  <2>5. CASE command = WriteBlock /\ Valid /\ image' = [image EXCEPT ![address] = buffer]
    <3>1. StoreCall = [op |-> "write", address |-> address, contents |-> buffer]
      BY <2>2, <2>5, CallIs
    <3>2. QED BY <2>1, <2>3, <2>5, <3>1 DEF Valid, Store!Next, Store!Commit
  <2>6. QED BY <2>1, <2>4, <2>5
<1>11. CASE Deselect \/ Trailer
  <2>1. /\ UNCHANGED <<image, ready, address, buffer>>
        /\ phase' # "idle" => /\ phase' # "boot"
                              /\ \/ UNCHANGED command
                                 \/ command \in InitCommands /\ command' \in InitCommands
        /\ phase' = "idle" => /\ UNCHANGED command
                              /\ command \notin InitCommands => Result /\ UNCHANGED a
    BY <1>11, EndSteps
  <2>2. phase \notin {"boot", "idle"}
    BY <1>11 DEF Deselect, Trailer
  <2>3. CASE phase' # "idle"
    BY <1>1, <2>1, <2>2, <2>3, Unseen
  <2>4. CASE phase' = "idle"
    <3>1. StoreCall' = [op |-> "none"] /\ UNCHANGED command
      BY <2>1, <2>4, CallIsNext
    <3>2. CASE command \in InitCommands
      <4>1. StoreCall = [op |-> "initialize"]
        BY <2>2, <3>2, CallIs
      <4>2. AtIdle' /\ command' \in InitCommands /\ command' # ReadBlock
        BY <1>2, <2>4, <3>1, <3>2 DEF IInv
      <4>3. \/ StoreAnswer' = [result |-> "error"]
            \/ StoreAnswer' = [result |-> "ok"] /\ ready
        BY <2>1, <2>4, <4>2, AnswerIsNext DEF AtIdle
      <4>4. QED
        BY <2>1, <3>1, <4>1, <4>3
        DEF Store!Next, Store!Return, Store!Returns, Store!NoCall, Store!Success, Store!Failure
    <3>3. CASE command = ReadBlock
      <4>1. StoreCall = [op |-> "read", address |-> address]
        BY <2>2, <3>3, CallIs
      <4>2. /\ a' = a /\ command' = ReadBlock
            /\ IF a = 0 THEN Valid /\ buffer = image[address] ELSE Valid => TRUE \in ReadFails
        BY <1>2, <2>1, <2>4, <3>3 DEF Result
      <4>3. /\ a = 0 => StoreAnswer' = [result |-> "ok", contents |-> image[address]]
            /\ a # 0 => StoreAnswer' = [result |-> "error"]
        BY <2>1, <2>4, <4>2, AnswerIsNext
      <4>4. QED
        BY <2>1, <3>1, <4>1, <4>2, <4>3
        DEF Valid, Store!Next, Store!Return, Store!Returns, Store!NoCall, Store!Found, Store!Failure
    <3>4. CASE command = WriteBlock
      <4>1. StoreCall = [op |-> "write", address |-> address, contents |-> buffer]
        BY <2>2, <3>4, CallIs
      <4>2. /\ a' = a /\ command' # ReadBlock
            /\ IF a = 0 THEN Valid /\ buffer = image[address] ELSE ~Valid
        BY <1>2, <2>1, <2>4, <3>4 DEF Result
      <4>3. /\ a = 0 => StoreAnswer' = [result |-> "ok"]
            /\ a # 0 => StoreAnswer' = [result |-> "error"]
        BY <2>4, <4>2, AnswerIsNext
      <4>4. QED
        BY <2>1, <3>1, <4>1, <4>2, <4>3
        DEF Valid, Store!Next, Store!Return, Store!Returns, Store!NoCall, Store!Success, Store!Failure
    <3>5. QED BY <3>2, <3>3, <3>4 DEF TypeOK
  <2>5. QED BY <2>3, <2>4
<1>12. CASE Reset
  <2>1. UNCHANGED <<image, ready>> /\ phase' = "boot"
    BY <1>12 DEF Reset, Go, card_vars, session_vars
  <2>2. StoreCall' = [op |-> "none"] /\ StoreAnswer' = [result |-> "none"]
    BY <2>1, CallIsNext, AnswerIsNext
  <2>3. QED BY <2>1, <2>2 DEF Store!Next, Store!Reset, Store!NoCall, Store!NoAnswer
<1>13. CASE UNCHANGED vars
  <2>1. UNCHANGED <<image, ready, phase, command, a, address, buffer>>
    BY <1>13 DEF vars, card_vars, session_vars, driver_vars
  <2>2. UNCHANGED <<StoreCall, StoreAnswer>>
    BY <2>1, Zenon DEF StoreCall, StoreAnswer, Running
  <2>3. QED BY <1>1, <2>1, <2>2
<1>14. QED
  BY <1>4, <1>5, <1>6, <1>7, <1>8, <1>9, <1>10, <1>11, <1>12, <1>13 DEF Next, Driver

\* Card and driver together are the store that BlockStore describes, whatever the
\* image of up to 2 GiB (OffsetsAssumption: sd_card_spi.cc:133, :222 multiply in 32
\* bits), its blocks and the number of resets: a read returns what was last written, a
\* write cut short by a reset is whole or has not happened, and success is reported of
\* nothing else.
THEOREM StoreImplemented == Spec => ImplementsBlockStore
<1>1. QED
  BY InitInv, NextInv, InitStore, NextStore, PTL DEF Spec, ImplementsBlockStore, Store!Spec
=============================================================================
