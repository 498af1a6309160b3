----------------------------- MODULE Programmer -----------------------------
(***************************************************************************)
(* The in-circuit programmer: pico_programmer.cpp, pin by pin, the memory  *)
(* behind the system bus, and the host's programmer.py, which drives it in *)
(* sessions of one-byte commands.                                          *)
(*                                                                         *)
(* A byte of the host may be late: an argument that is not there in 10 ms  *)
(* is given up, and its byte, when it comes, is taken for a command.       *)
(*                                                                         *)
(* Left out: the bridge to the serial port, and the buffers of the address *)
(* lines, which nothing ever enables.                                      *)
(***************************************************************************)
EXTENDS Integers, SequencesExt

CONSTANTS
    ByteSize,       \* the values of a byte: 256
    Code,           \* the letters' codes
    Sessions,       \* what the host may do: each a sequence of requests
    MaxSessions,    \* bound: sessions of a behaviour
    MaxStalls       \* bound: pauses of 10 ms or more while bytes are on their way

Commands == {"s", "x", "d", "l", "h", "w", "r"}
Letters == Commands \cup {"e"}
Byte == 0..ByteSize - 1
MemorySize == ByteSize * ByteSize
Address == 0..MemorySize - 1

ASSUME ByteSizeAssumption == ByteSize \in Nat \ {0}
ASSUME CodeAssumption ==
    /\ Code \in [Letters -> Byte]
    /\ \A a, b \in Letters : Code[a] = Code[b] => a = b
\* A command of programmer.py: standby, then writes only or one read, and out of standby
\* again.  A read of the whole address space, and one of no byte, has no end.
Requests ==
    [op : {"enter", "exit"}] \cup [op : {"write"}, at : Address, byte : Byte]
    \cup [op : {"read"}, at : Address, end : Address]
IsSession(s) ==
    /\ s \in Seq(Requests) /\ Len(s) >= 2
    /\ s[1].op = "enter" /\ s[Len(s)].op = "exit"
    /\ \/ \A i \in 2..Len(s) - 1 : s[i].op = "write"
       \/ Len(s) = 3 /\ s[2].op = "read" /\ s[2].at <= s[2].end
          /\ (s[2].end + 1) % MemorySize # s[2].at

ASSUME SessionsAssumption == \A s \in Sessions : IsSession(s)
ASSUME BoundsAssumption == MaxSessions \in Nat /\ MaxStalls \in Nat

NoByte == -1                \* PICO_ERROR_TIMEOUT; or what a bus in use carries

VARIABLES
    \* programmer.py
    todo,           \* the requests of the session it has not made
    wire,           \* the bytes it has sent and the programmer has not taken
    awaits,         \* how many bytes of answer it waits for
    sessions,       \* how many sessions it has begun
    \* pico_programmer.cpp
    command,        \* the command being executed, or "none"
    args,           \* the arguments it has taken, or given up
    steps,          \* the pin operations of the command it has still to do
    next, end,      \* read_data's i and end
    pins,           \* the pins, and the three latches
    replies,        \* what it has sent in this session
    \* the bus
    memory,
    \* for the properties and the bound
    intended,       \* the memory the host means there to be
    answers,        \* the answers it is due in this session
    reported,       \* the programmer has sent an error
    stalled,        \* the last argument came late
    stalls

host_vars == <<todo, wire, awaits, sessions, intended, answers>>
pico_vars == <<command, args, steps, next, end, pins, replies, memory, reported>>
programmer_vars == <<host_vars, pico_vars, stalled, stalls>>

Latches == {"data", "low", "high"}
Pins == [standby : BOOLEAN, write : BOOLEAN, clk : BOOLEAN, drives : BOOLEAN, data : Byte,
         latch : [Latches -> Byte], latches : BOOLEAN, data_latch : BOOLEAN, buffer : BOOLEAN]

ProgrammerTypeOK ==
    /\ wire \in Seq(Byte)
    /\ awaits \in Nat /\ sessions \in 0..MaxSessions /\ stalls \in 0..MaxStalls
    /\ command \in Commands \cup {"none", "reading"}
    /\ args \in Seq(Byte \cup {NoByte}) /\ Len(args) <= 4
    /\ next \in Address /\ end \in Address
    /\ pins \in Pins
    /\ replies \in Seq(Byte \cup {NoByte}) /\ answers \in Seq(Byte)
    /\ memory \in [Address -> Byte] /\ intended \in [Address -> Byte]
    /\ reported \in BOOLEAN /\ stalled \in BOOLEAN

\* init_pins.  A field is TRUE when the pin is as its comment says.
InitPins ==
    [standby |-> FALSE,         \* STBY low: the CPU is off the bus
     write |-> FALSE,           \* RW low
     clk |-> FALSE,             \* CLK high
     drives |-> TRUE,           \* the data pins are outputs
     data |-> 0,
     latch |-> [l \in Latches |-> 0],
     latches |-> FALSE,         \* the address latches are enabled
     data_latch |-> FALSE,      \* the data latch is enabled
     buffer |-> FALSE]          \* the data buffer is enabled

ProgrammerInit ==
    /\ todo = <<>> /\ wire = <<>> /\ awaits = 0 /\ sessions = 0
    /\ command = "none" /\ args = <<>> /\ steps = <<>> /\ next = 0 /\ end = 0
    /\ pins = InitPins /\ replies = <<>> /\ reported = FALSE
    /\ memory = [a \in Address |-> 0] /\ intended = memory /\ answers = <<>>
    /\ stalled = FALSE /\ stalls = 0

-------------------------------------------------------------------------------
(* The pins. *)

Put(pin, value) == [pin |-> pin, value |-> value]

EnterStandby == <<Put("buffer", FALSE), Put("standby", TRUE), Put("all_latches", TRUE)>>

\* A slip: the CPU is not started again.
ExitStandbyHalf == <<Put("all_latches", FALSE)>>

ExitStandby == <<Put("all_latches", FALSE), Put("standby", FALSE)>>

SetLatch(latch, byte) == <<Put("data", byte), Put("latch", latch)>>

SetAddress(a) == SetLatch("low", a % ByteSize) \o SetLatch("high", a \div ByteSize)

\* A slip: the buffer is enabled before the data pins are inputs.
ReadCycleHasty ==
    <<Put("write", FALSE), Put("data_latch", FALSE), Put("buffer", TRUE), Put("drives", FALSE),
      Put("clk", TRUE), Put("sample", TRUE), Put("clk", FALSE), Put("buffer", FALSE),
      Put("data_latch", TRUE), Put("drives", TRUE)>>

ReadCycle ==
    <<Put("write", FALSE), Put("drives", FALSE), Put("data_latch", FALSE), Put("buffer", TRUE),
      Put("clk", TRUE), Put("sample", TRUE), Put("clk", FALSE), Put("buffer", FALSE),
      Put("data_latch", TRUE), Put("drives", TRUE)>>

WriteCycle == <<Put("write", TRUE), Put("clk", TRUE), Put("clk", FALSE), Put("write", FALSE)>>

\* Off standby RW, CLK and the bus are the CPU's.
Selected == pins.latch["low"] + ByteSize * pins.latch["high"]
MemoryDrives == pins.standby /\ pins.clk /\ ~pins.write
MemoryTakes(step) ==
    step = Put("clk", FALSE) /\ pins.standby /\ pins.clk /\ pins.write /\ pins.data_latch

Operate(step) ==
    pins' = CASE step.pin = "all_latches" ->
                   [pins EXCEPT !.latches = step.value, !.data_latch = step.value]
              [] step.pin = "latch" -> [pins EXCEPT !.latch[step.value] = pins.data]
              [] step.pin = "sample" -> pins
              [] OTHER -> [pins EXCEPT ![step.pin] = step.value]

-------------------------------------------------------------------------------
(* pico_programmer.cpp. *)

ArgumentsOf(c) == CASE c \in {"d", "l", "h"} -> 1 [] c = "r" -> 4 [] OTHER -> 0
Complete == Len(args) = ArgumentsOf(command)
TakesArguments == command \in Commands /\ ~Complete
LatchOf == [d |-> "data", l |-> "low", h |-> "high"]

StepsOf(c) == CASE c = "s" -> EnterStandby [] c = "x" -> ExitStandby [] c = "w" -> WriteCycle
                [] OTHER -> <<>>

\* main's loop: the next byte is a command; one that is none is ignored.
TakeCommand ==
    /\ command = "none" /\ steps = <<>> /\ wire # <<>>
    /\ LET known == {c \in Commands : Code[c] = Head(wire)}
       IN  IF known = {} THEN UNCHANGED <<command, steps>>
           ELSE \E c \in known :
                  /\ steps' = StepsOf(c)
                  /\ command' = IF ArgumentsOf(c) = 0 THEN "none" ELSE c
    /\ wire' = Tail(wire)
    /\ stalled' = FALSE
    /\ UNCHANGED <<todo, awaits, sessions, intended, answers, args, next, end, pins, replies,
                   memory, reported, stalls>>

TakeArgument ==
    /\ TakesArguments /\ steps = <<>> /\ wire # <<>>
    /\ args' = Append(args, Head(wire))
    /\ wire' = Tail(wire)
    /\ stalled' = FALSE
    /\ UNCHANGED <<todo, awaits, sessions, intended, answers, command, steps, next, end, pins,
                   replies, memory, reported, stalls>>

\* 10 ms without a byte.  One pause of the host may outlast several arguments.
GiveUpArgument ==
    /\ TakesArguments /\ steps = <<>>
    /\ wire = <<>> \/ stalled \/ stalls < MaxStalls
    /\ args' = Append(args, NoByte)
    /\ stalled' = (wire # <<>>)
    /\ stalls' = IF wire = <<>> \/ stalled THEN stalls ELSE stalls + 1
    /\ UNCHANGED <<host_vars, command, steps, next, end, pins, replies, memory, reported>>

Answer(byte) == replies' = Append(replies, byte)

\* A slip: an argument that is missing is not reported.
ReportNot == UNCHANGED <<replies, reported>>

Report == Answer(Code["e"]) /\ reported' = TRUE

Word(low, high) == low + ByteSize * high

\* The arguments are there, or given up: a latch, or a read, or an error.
Execute ==
    /\ command \in Commands /\ Complete /\ steps = <<>>
    /\ \/ /\ NoByte \in Range(args)
          /\ Report
          /\ command' = "none"
          /\ UNCHANGED <<steps, next, end>>
       \/ /\ NoByte \notin Range(args)
          /\ command \in DOMAIN LatchOf
          /\ steps' = SetLatch(LatchOf[command], args[1])
          /\ command' = "none"
          /\ UNCHANGED <<next, end, replies, reported>>
       \/ /\ NoByte \notin Range(args)
          /\ command = "r"
          /\ Answer(Code["r"])
          /\ next' = Word(args[1], args[2])
          /\ end' = Word(args[3], args[4])
          /\ command' = "reading"
          /\ UNCHANGED <<steps, reported>>
    /\ args' = <<>>
    /\ UNCHANGED <<host_vars, pins, memory, stalled, stalls>>

\* The condition of read_data's loop, on 16 bits.
MoreToRead == next # (end + 1) % MemorySize

ReadNext ==
    /\ command = "reading" /\ steps = <<>>
    /\ IF MoreToRead
       THEN /\ steps' = SetAddress(next) \o ReadCycle
            /\ next' = (next + 1) % MemorySize
            /\ UNCHANGED command
       ELSE /\ command' = "none"
            /\ UNCHANGED <<steps, next>>
    /\ UNCHANGED <<host_vars, args, end, pins, replies, memory, reported, stalled, stalls>>

\* The next pin operation of the command.
Step ==
    /\ steps # <<>>
    /\ LET step == Head(steps)
       IN  /\ Operate(step)
           /\ memory' = IF MemoryTakes(step)
                        THEN [memory EXCEPT ![Selected] = pins.latch["data"]] ELSE memory
           /\ IF step.pin = "sample"
              THEN Answer(IF MemoryDrives THEN memory[Selected] ELSE NoByte)
              ELSE UNCHANGED replies
    /\ steps' = Tail(steps)
    /\ UNCHANGED <<host_vars, command, args, next, end, reported, stalled, stalls>>

-------------------------------------------------------------------------------
(* programmer.py. *)

Send(letter) == <<Code[letter]>>
SendWith(letter, byte) == <<Code[letter], byte>>

Low(a) == a % ByteSize
High(a) == a \div ByteSize

Bytes(r) ==
    CASE r.op = "enter" -> Send("s")
      [] r.op = "exit" -> Send("x")
      [] r.op = "write" -> SendWith("l", Low(r.at)) \o SendWith("h", High(r.at))
                           \o SendWith("d", r.byte) \o Send("w")
      [] r.op = "read" -> SendWith("r", Low(r.at))
                          \o <<High(r.at), Low(r.end), High(r.end)>>

\* The programmer is started again when the last session's bytes have all been
\* dealt with; what is left of its answers goes with the closed port.
Quiet == todo = <<>> /\ wire = <<>> /\ awaits = 0 /\ command = "none" /\ steps = <<>>

Begin ==
    /\ Quiet /\ sessions < MaxSessions
    /\ todo' \in Sessions
    /\ sessions' = sessions + 1
    /\ replies' = <<>> /\ answers' = <<>>
    /\ UNCHANGED <<wire, awaits, intended, command, args, steps, next, end, pins, memory,
                   reported, stalled, stalls>>

Ask ==
    /\ todo # <<>> /\ awaits = 0
    /\ LET r == Head(todo)
       IN  /\ wire' = wire \o Bytes(r)
           /\ intended' = IF r.op = "write" THEN [intended EXCEPT ![r.at] = r.byte] ELSE intended
           /\ IF r.op = "read"
              THEN /\ answers' = <<Code["r"]>>
                               \o [i \in 1..r.end - r.at + 1 |-> intended[r.at + i - 1]]
                   /\ awaits' = r.end - r.at + 2
              ELSE UNCHANGED <<answers, awaits>>
    /\ todo' = Tail(todo)
    /\ UNCHANGED <<sessions, pico_vars, stalled, stalls>>

\* read_data has the bytes it asked for, or raises, at a wrong first byte or when
\* no more come for half a second; __exit__ follows either way.
Hear ==
    /\ awaits > 0
    /\ \/ Len(replies) >= awaits
       \/ replies # <<>> /\ Head(replies) # Code["r"]
       \/ wire = <<>> /\ command = "none" /\ steps = <<>>
    /\ awaits' = 0
    /\ UNCHANGED <<todo, wire, sessions, intended, answers, pico_vars, stalled, stalls>>

Host == Begin \/ Ask \/ Hear
Pico == TakeCommand \/ TakeArgument \/ GiveUpArgument \/ Execute \/ ReadNext \/ Step
ProgrammerNext == Host \/ Pico

Fairness == WF_programmer_vars(Ask) /\ WF_programmer_vars(Hear) /\ WF_programmer_vars(Pico)
ProgrammerSpec == ProgrammerInit /\ [][ProgrammerNext]_programmer_vars /\ Fairness

-------------------------------------------------------------------------------
(* Properties. *)

\* No line has two drivers, after any pin operation and after a byte that came
\* late: the data pins and the data buffer, the data latch and the memory, the
\* latches and the CPU (enter_stby, exit_stby, read_cycle).
OneDriver ==
    /\ ~(pins.drives /\ pins.buffer)
    /\ ~(pins.data_latch /\ MemoryDrives)
    /\ (pins.latches \/ pins.data_latch) => pins.standby

\* After any number of sessions the memory is what the host wrote and its reads
\* returned what was there, unless the programmer has sent an error: no late
\* byte is swallowed without one (programmer_task).
ExactOrReported ==
    Quiet /\ ~reported => memory = intended /\ replies = answers

\* Every session ends, and gives the bus back to the CPU, unless the programmer
\* has sent an error (read_data's loop on 16 bits, the timeouts).
GivesBack ==
    (sessions > 0) ~> (Quiet /\ (reported \/ ~(pins.standby \/ pins.latches \/ pins.data_latch)))
=============================================================================
