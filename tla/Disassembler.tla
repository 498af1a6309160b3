----------------------------- MODULE Disassembler -----------------------------
(***************************************************************************)
(* The disassembler (disassembler/disassembler.cc): from the interrupt     *)
(* vectors, and from the addresses the emulator stops at (emulator.cc:297),*)
(* it follows the code with a worklist, and prints a line per instruction, *)
(* vector or run of data bytes.                                            *)
(*                                                                         *)
(* The bytes are an arbitrary program: what matters of the opcode at an    *)
(* address is its length, whether the next byte is code too, and where its *)
(* operand leads.  A line is what it shows: the addresses of its bytes,    *)
(* whether it defines its label, and the address whose label it refers to. *)
(* One step is one call, or one round of a loop of disassemble().          *)
(***************************************************************************)
EXTENDS Integers, Sequences, FiniteSets

CONSTANTS
    Size,       \* bytes of address space, 2^16
    Data,       \* the addresses set_data() filled
    Vectors,    \* the addresses of the interrupt vectors, start first
    LineBytes,  \* kMaxBytesPerLine
    Memories,   \* what the bytes may be: what the opcode at each address does,
                \* and where each vector leads
    MaxPasses,  \* bound: calls of disassemble()
    MaxHints    \* bound: addresses hinted

Addresses == 0..Size - 1
Nowhere == -1               \* std::nullopt for an address

\* length 0: illegal; next: the following byte is code; target: where the
\* operand of a branch, jmp or jsr leads, Nowhere for any other.  (bsr, which
\* instructions6301.h:175 lists with an immediate operand, is one of the others.)
OpcodeType == [length : 0..3, next : BOOLEAN, target : Addresses \cup {Nowhere}]
VectorAddresses == {Vectors[i] : i \in DOMAIN Vectors}

ASSUME SizeAssumption == Size \in Nat \ {0}
ASSUME DataAssumption == Data \subseteq Addresses
ASSUME VectorsAssumption == Vectors \in Seq(Addresses)
ASSUME LineBytesAssumption == LineBytes \in Nat \ {0}
ASSUME MemoriesAssumption ==
    \A m \in Memories : m.program \in [Data -> OpcodeType]
                       /\ m.vector \in [VectorAddresses -> Addresses]
ASSUME BoundsAssumption == MaxPasses \in Nat /\ MaxHints \in Nat

VARIABLES
    program,        \* memory_: the opcode each byte is
    vector,         \* memory_: where each vector leads
    annotations,    \* annotations_
    lines,          \* disassembly_
    worklist,       \* worklist_, its top last
    pc,             \* "idle", "hinted" since the last pass, or where disassemble()
                    \* is: "vectors", "work"
    next_vector,    \* decode_vectors(): which vector is next
    passes,         \* how often disassemble() was called
    hinted          \* the addresses given to set_instruction_boundary_hint()

memory_vars == <<program, vector>>
result_vars == <<annotations, lines, worklist>>
vars == <<memory_vars, result_vars, pc, next_vector, passes, hinted>>

\* instruction: no value, the default Instruction{}, or one that was looked up;
\* complete: data_ holds its bytes.
Annotation ==
    [instruction : {"none", "blank", "known"}, complete : BOOLEAN,
     destination : Addresses \cup {Nowhere}, label : BOOLEAN, vector : BOOLEAN,
     decoded : BOOLEAN, skip : BOOLEAN]
Line == [bytes : SUBSET Addresses, label : BOOLEAN, refers : Addresses \cup {Nowhere}]

Unannotated ==
    [instruction |-> "none", complete |-> FALSE, destination |-> Nowhere,
     label |-> FALSE, vector |-> FALSE, decoded |-> FALSE, skip |-> FALSE]
Operand == [Unannotated EXCEPT !.decoded = TRUE, !.skip = TRUE]
EmptyLine == [bytes |-> {}, label |-> FALSE, refers |-> Nowhere]

TypeOK ==
    /\ program \in [Data -> OpcodeType]
    /\ vector \in [VectorAddresses -> Addresses]
    /\ annotations \in [Data -> Annotation]
    /\ lines \in [Addresses -> Line]
    /\ worklist \in Seq(Data)
    /\ pc \in {"idle", "hinted", "vectors", "work"}
    /\ next_vector \in 1..Len(Vectors) + 1
    /\ passes \in 0..MaxPasses
    /\ hinted \subseteq Data

Init ==
    /\ \E m \in Memories : program = m.program /\ vector = m.vector
    /\ annotations = [a \in Data |-> Unannotated]
    /\ lines = [a \in Addresses |-> EmptyLine]
    /\ worklist = <<>>
    /\ pc = "idle" /\ next_vector = 1 /\ passes = 0 /\ hinted = {}

-------------------------------------------------------------------------------
(* One instruction.  Every address is 16 bits wide. *)

Span(a) == a..a + program[a].length - 1
Legal(a) == program[a].length # 0 /\ a + program[a].length - 1 < Size
Whole(a) == Legal(a) /\ Span(a) \subseteq Data
After(a) == (a + program[a].length) % Size

\* The addresses with data that the instruction at a leads to.
Following(a) ==
    ({program[a].target} \cup (IF program[a].next THEN {After(a)} ELSE {})) \cap Data

\* print_annotation(): the line for a, given the annotations.
PrintAnnotation(ann, a) ==
    IF a \notin Data \/ ann[a].skip
      THEN EmptyLine
      ELSE [bytes |-> CASE ann[a].instruction = "known" /\ ann[a].complete -> Span(a)
                        [] ann[a].instruction = "none" /\ ann[a].vector -> {a, a + 1}
                        [] OTHER -> {},
            label |-> ann[a].label,
            refers |-> IF ann[a].instruction # "none" /\ ann[a].destination # Nowhere
                            /\ ann[ann[a].destination].label
                         THEN ann[a].destination ELSE Nowhere]

\* A slip: the operands are left to be printed as data.
AnnotateOpcode(ann, a) ==
    IF ~Legal(a) THEN [ann EXCEPT ![a].instruction = "none", ![a].destination = Nowhere]
    ELSE [ann EXCEPT ![a].instruction = "known", ![a].destination = Nowhere,
                     ![a].complete = Whole(a), ![a].decoded = Whole(a)]

\* decode_instruction(): its own annotation and those of its operands; an
\* operand loses whatever annotation it had.
Annotate(ann, a) ==
    IF ~Legal(a) THEN [ann EXCEPT ![a].instruction = "none", ![a].destination = Nowhere]
    ELSE IF ~Whole(a) THEN [ann EXCEPT ![a].instruction = "known",
                                       ![a].destination = Nowhere]
    ELSE [b \in Data |->
            CASE b = a -> [ann[a] EXCEPT !.instruction = "known", !.complete = TRUE,
                                         !.destination = Nowhere, !.decoded = TRUE]
              [] b \in Span(a) \ {a} -> Operand
              [] OTHER -> ann[b]]

\* A slip: a branch is always taken.
FoundBranch(ann, a) ==
    LET new(b) == b \in Data /\ ann[b].instruction = "none"
        to == IF program[a].target = Nowhere THEN After(a) ELSE program[a].target
    IN  IF Whole(a) /\ new(to) /\ (to = After(a) => program[a].next) THEN <<to>> ELSE <<>>

\* What Annotate leaves to look at: the destination first, then the next byte.
Found(ann, a) ==
    IF ~Whole(a) THEN <<>>
    ELSE LET new(b) == b \in Data /\ ann[b].instruction = "none"
             branch == IF new(program[a].target) THEN <<program[a].target>> ELSE <<>>
             next == IF program[a].next /\ new(After(a)) /\ branch # <<After(a)>>
                       THEN <<After(a)>> ELSE <<>>
         IN  branch \o next

\* The whole of decode_instruction(), from the annotations before it.  A new
\* label is printed at once, with what is known of its address so far.
Decoded(before, a) ==
    LET own == Annotate(before, a)
        found == Found(own, a)
        blank == [b \in Data |-> IF \E i \in DOMAIN found : found[i] = b
                                   THEN [own[b] EXCEPT !.instruction = "blank"] ELSE own[b]]
        target == program[a].target
    IN  IF Whole(a) /\ target \in Data
          THEN [blank EXCEPT ![target].label = TRUE, ![a].destination = target]
          ELSE blank

\* A slip: a new label is not printed.
LabelledLater(before, a) == lines

LabelledLines(before, a) ==
    LET target == program[a].target
    IN  IF Whole(a) /\ target \in Data /\ ~Annotate(before, a)[target].label
          THEN [lines EXCEPT ![target] = PrintAnnotation(Decoded(before, a), target)]
          ELSE lines

\* The calls that decode the instruction at a, given what is on the worklist.
DecodeAt(before, a, rest) ==
    LET after == [Decoded(before, a) EXCEPT ![a].decoded = (@ \/ pc = "work")]
    IN  /\ annotations' = after
        /\ lines' = [LabelledLines(before, a) EXCEPT ![a] = PrintAnnotation(after, a)]
        /\ worklist' = rest \o Found(Annotate(before, a), a)

-------------------------------------------------------------------------------
(* The calls. *)

\* decode_vectors(): a vector and its destination must have data.
VectorUsed(v) == {v, v + 1, vector[v]} \subseteq Data
UsedVectors == {v \in VectorAddresses : VectorUsed(v)}

\* set_instruction_boundary_hint() at an address with data.  The emulator calls
\* it after the first pass, the tests before, for programs without vectors.
SetHint(a) ==
    /\ pc \in {"idle", "hinted"} /\ passes < MaxPasses
    /\ passes > 0 \/ UsedVectors = {}
    /\ pc' = "hinted"
    /\ a \in hinted \/ Cardinality(hinted) < MaxHints
    /\ hinted' = hinted \cup {a}
    /\ IF annotations[a].instruction # "none"
         THEN UNCHANGED result_vars
         ELSE DecodeAt([annotations EXCEPT ![a].instruction = "blank"], a, worklist)
    /\ UNCHANGED <<memory_vars, next_vector, passes>>

Disassemble ==
    /\ pc \in {"idle", "hinted"} /\ passes < MaxPasses
    /\ pc' = "vectors" /\ next_vector' = 1 /\ passes' = passes + 1
    /\ UNCHANGED <<memory_vars, result_vars, hinted>>

\* The annotations of the vector, with a label for the lowest one.
OwnAnnotations(v) ==
    [annotations EXCEPT ![v].vector = TRUE, ![v].decoded = TRUE,
                        ![v].label = (@ \/ v = Vectors[Len(Vectors)]),
                        ![v + 1].skip = TRUE]

DecodeVector ==
    /\ pc = "vectors" /\ next_vector <= Len(Vectors)
    /\ LET v == Vectors[next_vector]
           own == OwnAnnotations(v)
       IN  IF VectorUsed(v) /\ ~annotations[v].vector
             THEN /\ lines' = [lines EXCEPT ![v] = PrintAnnotation(own, v)]
                  /\ annotations' = [own EXCEPT ![vector[v]].instruction = "blank",
                                                ![vector[v]].destination = Nowhere,
                                                ![vector[v]].label = TRUE]
                  /\ worklist' = Append(worklist, vector[v])
             ELSE UNCHANGED result_vars
    /\ next_vector' = next_vector + 1
    /\ UNCHANGED <<memory_vars, pc, passes, hinted>>

VectorsDecoded ==
    /\ pc = "vectors" /\ next_vector > Len(Vectors)
    /\ pc' = "work"
    /\ UNCHANGED <<memory_vars, result_vars, next_vector, passes, hinted>>

\* A slip: an address is taken off the worklist after it was looked at.
NextAddressStays ==
    /\ pc = "work" /\ worklist # <<>>
    /\ LET a == worklist[Len(worklist)]
       IN  IF annotations[a].decoded
             THEN UNCHANGED result_vars
             ELSE DecodeAt(annotations, a, SubSeq(worklist, 1, Len(worklist) - 1))
    /\ UNCHANGED <<memory_vars, pc, next_vector, passes, hinted>>

\* disassemble(): the newest address on the worklist, unless it is decoded.
NextAddress ==
    /\ pc = "work" /\ worklist # <<>>
    /\ LET a == worklist[Len(worklist)]
           rest == SubSeq(worklist, 1, Len(worklist) - 1)
           marked == [annotations EXCEPT ![a].decoded = TRUE]
       IN  CASE annotations[a].decoded ->
                  worklist' = rest /\ UNCHANGED <<annotations, lines>>
             [] ~annotations[a].decoded /\ annotations[a].instruction # "none" ->
                  DecodeAt(annotations, a, rest)
             [] OTHER -> /\ annotations' = marked
                         /\ lines' = [lines EXCEPT ![a] = PrintAnnotation(marked, a)]
                         /\ worklist' = rest
    /\ UNCHANGED <<memory_vars, pc, next_vector, passes, hinted>>

\* print_unannotated(): up to LineBytes bytes share a line, which ends before an
\* annotated one.  Whether a byte has data is only asked of the first.
Annotated(a) == a \in Data /\ (annotations[a].skip \/ annotations[a].decoded)
RunEnd(a) ==
    CHOOSE j \in a + 1..Size :
        /\ j = Size \/ j = a + LineBytes \/ Annotated(j)
        /\ \A i \in a + 1..j - 1 : i < a + LineBytes /\ ~Annotated(i)

\* Where the run that reaches up to a, if any, ends.
runs[a \in -1..Size - 1] ==
    IF a = -1 THEN 0
    ELSE IF a >= runs[a - 1] /\ a \in Data /\ ~Annotated(a) THEN RunEnd(a)
    ELSE runs[a - 1]
RunStarts == {a \in Data : ~Annotated(a) /\ a >= runs[a - 1]}

PrintUnannotated ==
    /\ pc = "work" /\ worklist = <<>>
    /\ pc' = "idle"
    /\ lines' = [a \in Addresses |->
                    IF a \in RunStarts
                      THEN [EmptyLine EXCEPT !.bytes = a..RunEnd(a) - 1] ELSE lines[a]]
    /\ UNCHANGED <<memory_vars, annotations, worklist, next_vector, passes, hinted>>

Next ==
    \/ Disassemble \/ DecodeVector \/ VectorsDecoded \/ NextAddress \/ PrintUnannotated
    \/ \E a \in Data : SetHint(a)

\* A call of disassemble() runs to its end.
Spec == Init /\ [][Next]_vars
             /\ WF_vars(DecodeVector \/ VectorsDecoded \/ NextAddress \/ PrintUnannotated)

-------------------------------------------------------------------------------
(* What a listing should be. *)

Roots == hinted \cup {vector[v] : v \in UsedVectors}
DecodedInstructions ==
    {a \in Data : annotations[a].instruction = "known" /\ annotations[a].complete}

\* What a run of the program could execute, if no indexed jump leads elsewhere.
Reachable ==
    LET step[n \in 0..Cardinality(Data)] ==
          IF n = 0 THEN Roots
          ELSE step[n - 1] \cup UNION {Following(a) : a \in {b \in step[n - 1] : Whole(b)}}
    IN  step[Cardinality(Data)]

\* The program is one an assembler could have written: no reachable instruction is
\* illegal or cut off, and none overlaps another or a vector.
Tidy ==
    /\ \A a \in Reachable : Whole(a)
    /\ \A a, b \in Reachable : a # b => Span(a) \cap Span(b) = {}
    /\ \A a \in Reachable : \A v \in UsedVectors : Span(a) \cap {v, v + 1} = {}
    /\ \A v, w \in UsedVectors : v # w => {v, v + 1} \cap {w, w + 1} = {}

Finished == pc = "idle" /\ passes > 0

\* The listing takes the byte at a for code or a vector.
Decodes(a) ==
    \/ \E b \in DecodedInstructions : a \in Span(b)
    \/ \E v \in UsedVectors : a \in {v, v + 1}

\* Only reachable bytes are taken for instructions, whatever the program, and of a
\* tidy one all of them are, in any number of passes: nothing that was pushed is
\* forgotten and no branch that was followed keeps the next byte from it.
DecodesReachable ==
    /\ DecodedInstructions \subseteq Reachable
    /\ Finished /\ Tidy => DecodedInstructions = Reachable

\* The listing of a tidy program is the program: every byte is on a line, and after the
\* first pass on no other; and only behind a byte that is neither code nor a vector
\* does that line show a byte without data, as print_unannotated() does.
ListingExact ==
    Finished /\ Tidy =>
        /\ Data \subseteq UNION {lines[a].bytes : a \in Addresses}
        /\ passes = 1 =>
             /\ \A a, b \in Addresses :
                  a # b => lines[a].bytes \cap lines[b].bytes = {}
             /\ \A a \in Addresses : lines[a].bytes \subseteq Data \/ ~Decodes(a)

\* It assembles to the same bytes (RoundTripTest, disassembler_test.cc:113).  The
\* code violates this where data end in front of bytes without: they are listed
\* as $00.  It is in no passing run.
RoundTrip ==
    Finished /\ Tidy => UNION {lines[a].bytes : a \in Addresses} = Data

\* Every label a line refers to is defined by the line of its address.
LabelsDefined ==
    Finished /\ Tidy =>
        \A a \in Addresses :
            lines[a].refers # Nowhere => lines[lines[a].refers].label

\* disassemble() returns: a loop in the program does not keep the worklist busy.
Terminates == pc \in {"vectors", "work"} ~> pc = "idle"
=============================================================================
