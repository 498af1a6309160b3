------------------------------- MODULE Cpu6301 -------------------------------
(***************************************************************************)
(* The instructions of emulator/cpu6301.cc: what they do to the registers, *)
(* the flags and the memory, and the entry of an interrupt routine.        *)
(* Instructions are operators on the CPU, a record.  The specification     *)
(* lets it run short programs, the kind that firmware is made of, with an  *)
(* interrupt before any instruction, and compares what they compute with   *)
(* integer arithmetic.                                                     *)
(*                                                                         *)
(* Bytes and words have their width.  The code of a program is not in the  *)
(* memory: an instruction takes one address.  The logical instructions,    *)
(* whose only arithmetic is the host's, are left out.                      *)
(***************************************************************************)
EXTENDS Integers, Sequences

CONSTANTS
    Operands,       \* the words that programs start with
    Clusters,       \* the sectors per cluster, powers of two
    MaxInterrupts   \* bounds the interrupts

ByteMod == 256
WordMod == 65536
NibbleMod == 16
Byte == 0..ByteMod - 1
Word == 0..WordMod - 1

ASSUME ProgramAssumption ==
    /\ Operands \subseteq Word
    /\ Clusters \subseteq Byte
    /\ MaxInterrupts \in Nat

StatusRegister == [H : BOOLEAN, I : BOOLEAN, N : BOOLEAN, Z : BOOLEAN, V : BOOLEAN, C : BOOLEAN]

One(bit) == IF bit THEN 1 ELSE 0
High(word) == word \div ByteMod
Low(word) == word % ByteMod

\* The topmost bit of a byte, a word or a nibble.
Top(value, mod) == 2 * value >= mod

\* The status register as a byte, and back.
AsInteger(sr) ==
    192 + 32 * One(sr.H) + 16 * One(sr.I) + 8 * One(sr.N) + 4 * One(sr.Z) + 2 * One(sr.V) + One(sr.C)
FromInteger(r) ==
    LET bit(weight) == (r \div weight) % 2 = 1
    IN  [H |-> bit(32), I |-> bit(16), N |-> bit(8), Z |-> bit(4), V |-> bit(2), C |-> bit(1)]

-------------------------------------------------------------------------------
(* The flags, of a result modulo ByteMod or WordMod. *)

NZ(sr, result, mod) == [sr EXCEPT !.N = Top(result, mod), !.Z = (result = 0)]
NZV(sr, result, mod) == [NZ(sr, result, mod) EXCEPT !.V = FALSE]

\* A slip: an overflow is only looked for upwards.
CmpNoUnderflow(sr, dest, mem, mod) ==
    LET r == (dest - mem) % mod
    IN  [NZ(sr, r, mod) EXCEPT
            !.V = ~Top(dest, mod) /\ Top(mem, mod) /\ Top(r, mod),
            !.C = \/ ~Top(dest, mod) /\ Top(mem, mod)
                  \/ Top(mem, mod) /\ Top(r, mod)
                  \/ Top(r, mod) /\ ~Top(dest, mod)]

Cmp(sr, dest, mem, mod) ==
    LET r == (dest - mem) % mod
    IN  [NZ(sr, r, mod) EXCEPT
            !.V = \/ Top(dest, mod) /\ ~Top(mem, mod) /\ ~Top(r, mod)
                  \/ ~Top(dest, mod) /\ Top(mem, mod) /\ Top(r, mod),
            !.C = \/ ~Top(dest, mod) /\ Top(mem, mod)
                  \/ Top(mem, mod) /\ Top(r, mod)
                  \/ Top(r, mod) /\ ~Top(dest, mod)]

Sum(dest, mem, carry, mod) == (dest + mem + One(carry)) % mod
AddFlags(sr, dest, mem, r, mod) ==
    [NZ(sr, r, mod) EXCEPT
        !.V = \/ Top(dest, mod) /\ Top(mem, mod) /\ ~Top(r, mod)
              \/ ~Top(dest, mod) /\ ~Top(mem, mod) /\ Top(r, mod),
        !.C = \/ Top(dest, mod) /\ Top(mem, mod)
              \/ Top(mem, mod) /\ ~Top(r, mod)
              \/ ~Top(r, mod) /\ Top(dest, mod)]
HalfCarry(sr, dest, mem, r) ==
    LET bit3(v) == Top(v % NibbleMod, NibbleMod)
    IN  [sr EXCEPT !.H = \/ bit3(dest) /\ bit3(mem)
                         \/ bit3(mem) /\ ~bit3(r)
                         \/ ~bit3(r) /\ bit3(dest)]

RotFlags(sr, result, carry, mod) ==
    [NZ(sr, result, mod) EXCEPT !.V = (Top(result, mod) # carry), !.C = carry]

-------------------------------------------------------------------------------
(* The CPU and its memory.  Addresses wrap around; no program has a word at the last *)
(* address, which get16() and set16() refuse.                                        *)

At(address) == address % WordMod
D(cpu) == cpu.a * ByteMod + cpu.b
SetD(cpu, word) == [cpu EXCEPT !.a = High(word), !.b = Low(word)]
Get16(cpu, address) == cpu.mem[address] * ByteMod + cpu.mem[At(address + 1)]
Set16(cpu, address, word) ==
    [cpu EXCEPT !.mem = [@ EXCEPT ![address] = High(word), ![At(address + 1)] = Low(word)]]

Psh8(cpu, data) == [cpu EXCEPT !.mem = [@ EXCEPT ![cpu.sp] = data], !.sp = At(@ - 1)]
Psh16(cpu, word) ==
    [cpu EXCEPT !.mem = [@ EXCEPT ![cpu.sp] = Low(word), ![At(cpu.sp - 1)] = High(word)],
                !.sp = At(@ - 2)]
Pul8(cpu, register) ==
    [cpu EXCEPT !.sp = At(@ + 1), ![register] = cpu.mem[At(cpu.sp + 1)]]
Pul16(cpu, register) ==
    [cpu EXCEPT !.sp = At(@ + 2), ![register] = Get16(cpu, At(cpu.sp + 1))]

EnterInterrupt(cpu, vector) ==
    LET pushed == Psh8(Psh8(Psh8(Psh16(Psh16(cpu, cpu.pc), cpu.x), cpu.a), cpu.b), AsInteger(cpu.sr))
    IN  [pushed EXCEPT !.sr.I = TRUE, !.pc = vector]

PulSr(cpu) == [cpu EXCEPT !.sp = At(@ + 1), !.sr = FromInteger(cpu.mem[At(cpu.sp + 1)])]

\* A slip: the accumulators are pulled in the order in which they are pushed.
RtiSwapped(cpu) == Pul16(Pul16(Pul8(Pul8(PulSr(cpu), "a"), "b"), "x"), "pc")

Rti(cpu) == Pul16(Pul16(Pul8(Pul8(PulSr(cpu), "b"), "a"), "x"), "pc")

-------------------------------------------------------------------------------
(* The conditions of the branches. *)

Taken(sr, condition) ==
    CASE condition = "bra" -> TRUE
      [] condition = "brn" -> FALSE
      [] condition = "bhi" -> One(sr.C) + One(sr.Z) = 0
      [] condition = "bls" -> One(sr.C) + One(sr.Z) = 1
      [] condition = "bcc" -> ~sr.C
      [] condition = "bcs" -> sr.C
      [] condition = "bne" -> ~sr.Z
      [] condition = "beq" -> sr.Z
      [] condition = "bvc" -> ~sr.V
      [] condition = "bvs" -> sr.V
      [] condition = "bpl" -> ~sr.N
      [] condition = "bmi" -> sr.N
      [] condition = "bge" -> sr.N = sr.V
      [] condition = "blt" -> sr.N # sr.V
      [] condition = "bgt" -> One(sr.Z) + One(sr.N # sr.V) = 0
      [] condition = "ble" -> One(sr.Z) + One(sr.N # sr.V) = 1

-------------------------------------------------------------------------------
(* The instructions.  Those on one byte give a value and the flags. *)

Neg(v, sr) ==
    LET r == (-v) % ByteMod
    IN  [v |-> r, sr |-> [NZ(sr, r, ByteMod) EXCEPT !.V = (2 * r = ByteMod), !.C = (r # 0)]]
Com(v, sr) ==
    LET r == ByteMod - 1 - v
    IN  [v |-> r, sr |-> [NZV(sr, r, ByteMod) EXCEPT !.C = TRUE]]
Shifted(r, carry, sr) == [v |-> r, sr |-> RotFlags(sr, r, carry, ByteMod)]
Lsr(v, sr) == Shifted(v \div 2, v % 2 = 1, sr)
Ror(v, sr) == Shifted(v \div 2 + One(sr.C) * (ByteMod \div 2), v % 2 = 1, sr)
Asr(v, sr) == Shifted(v \div 2 + One(Top(v, ByteMod)) * (ByteMod \div 2), v % 2 = 1, sr)

Rol(v, sr) == Shifted((2 * v + One(sr.C)) % ByteMod, Top(v, ByteMod), sr)
Asl(v, sr) == Shifted((2 * v) % ByteMod, Top(v, ByteMod), sr)
Dec(v, sr) ==
    LET r == (v - 1) % ByteMod
    IN  [v |-> r, sr |-> [NZ(sr, r, ByteMod) EXCEPT !.V = (2 * v = ByteMod)]]
Inc(v, sr) ==
    LET r == (v + 1) % ByteMod
    IN  [v |-> r, sr |-> [NZ(sr, r, ByteMod) EXCEPT !.V = (2 * (v + 1) = ByteMod)]]
Clr(sr) == [v |-> 0, sr |-> [sr EXCEPT !.N = FALSE, !.Z = TRUE, !.V = FALSE, !.C = FALSE]]
Tst(v, sr) == [v |-> v, sr |-> Cmp(sr, v, 0, ByteMod)]

Add(dest, mem, carry, sr) ==
    LET r == Sum(dest, mem, carry, ByteMod)
    IN  [v |-> r, sr |-> HalfCarry(AddFlags(sr, dest, mem, r, ByteMod), dest, mem, r)]
Sub(dest, mem, sr) == [v |-> (dest - mem) % ByteMod, sr |-> Cmp(sr, dest, mem, ByteMod)]

\* The borrow is added to the byte that is compared, and the sum is a byte again.
Sbc(dest, mem, sr) ==
    [v |-> (dest - mem - One(sr.C)) % ByteMod,
     sr |-> Cmp(sr, dest, (mem + One(sr.C)) % ByteMod, ByteMod)]
Load(mem, sr) == [v |-> mem, sr |-> NZV(sr, mem, ByteMod)]

Byte1(op, v, sr) ==
    CASE op = "neg" -> Neg(v, sr)
      [] op = "com" -> Com(v, sr)
      [] op = "lsr" -> Lsr(v, sr)
      [] op = "ror" -> Ror(v, sr)
      [] op = "asr" -> Asr(v, sr)
      [] op = "rol" -> Rol(v, sr)
      [] op = "asl" -> Asl(v, sr)
      [] op = "dec" -> Dec(v, sr)
      [] op = "inc" -> Inc(v, sr)
      [] op = "clr" -> Clr(sr)
      [] op = "tst" -> Tst(v, sr)
Byte2(op, dest, mem, sr) ==
    CASE op = "add" -> Add(dest, mem, FALSE, sr)
      [] op = "adc" -> Add(dest, mem, sr.C, sr)
      [] op = "sub" -> Sub(dest, mem, sr)
      [] op = "sbc" -> Sbc(dest, mem, sr)
      [] op = "cmp" -> [v |-> dest, sr |-> Cmp(sr, dest, mem, ByteMod)]
      [] op = "lda" -> Load(mem, sr)

Addd(cpu, word) ==
    LET d == D(cpu)
        r == Sum(d, word, FALSE, WordMod)
    IN  [SetD(cpu, r) EXCEPT !.sr = AddFlags(cpu.sr, d, word, r, WordMod)]
Subd(cpu, word) ==
    [SetD(cpu, (D(cpu) - word) % WordMod) EXCEPT !.sr = Cmp(cpu.sr, D(cpu), word, WordMod)]
Asld(cpu) ==
    LET r == (2 * D(cpu)) % WordMod
    IN  [SetD(cpu, r) EXCEPT !.sr = RotFlags(cpu.sr, r, Top(D(cpu), WordMod), WordMod)]
Lsrd(cpu) ==
    LET r == D(cpu) \div 2
    IN  [SetD(cpu, r) EXCEPT !.sr = RotFlags(cpu.sr, r, D(cpu) % 2 = 1, WordMod)]
Mul(cpu) == [SetD(cpu, cpu.a * cpu.b) EXCEPT !.sr.C = Top((cpu.a * cpu.b) % ByteMod, ByteMod)]
AddZ(cpu, data) ==
    LET r == At(cpu.x + data)
    IN  [cpu EXCEPT !.x = r, !.sr.Z = (r = 0)]
NZV16(cpu, word) == [cpu EXCEPT !.sr = NZV(@, word, WordMod)]

Word1(op, cpu) ==
    CASE op = "asld" -> Asld(cpu)
      [] op = "lsrd" -> Lsrd(cpu)
      [] op = "mul" -> Mul(cpu)
      [] op = "xgdx" -> [SetD(cpu, cpu.x) EXCEPT !.x = D(cpu)]
      [] op = "inx" -> AddZ(cpu, 1)
      [] op = "dex" -> AddZ(cpu, -1)
      [] op = "abx" -> [cpu EXCEPT !.x = At(@ + cpu.b)]
      [] op = "tsx" -> [cpu EXCEPT !.x = At(cpu.sp + 1)]
      [] op = "ins" -> [cpu EXCEPT !.sp = At(@ + 1)]
      [] op = "psha" -> Psh8(cpu, cpu.a)
      [] op = "pshb" -> Psh8(cpu, cpu.b)
      [] op = "pula" -> Pul8(cpu, "a")
      [] op = "pulb" -> Pul8(cpu, "b")
      [] op = "pshx" -> Psh16(cpu, cpu.x)
      [] op = "pulx" -> Pul16(cpu, "x")
      [] op = "rts" -> Pul16(cpu, "pc")
      [] op = "rti" -> Rti(cpu)
      [] op = "aba" -> LET r == Add(cpu.a, cpu.b, FALSE, cpu.sr)
                       IN  [cpu EXCEPT !.a = r.v, !.sr = r.sr]
Word2(op, cpu, word) ==
    CASE op = "addd" -> Addd(cpu, word)
      [] op = "subd" -> Subd(cpu, word)
      [] op = "cpx" -> [cpu EXCEPT !.sr = Cmp(@, cpu.x, word, WordMod)]
      [] op = "ldd" -> NZV16(SetD(cpu, word), word)
      [] op = "ldx" -> NZV16([cpu EXCEPT !.x = word], word)
Store(op, cpu, address) ==
    CASE op = "staa" -> [cpu EXCEPT !.mem[address] = cpu.a, !.sr = NZV(@, cpu.a, ByteMod)]
      [] op = "stab" -> [cpu EXCEPT !.mem[address] = cpu.b, !.sr = NZV(@, cpu.b, ByteMod)]
      [] op = "std" -> NZV16(Set16(cpu, address, D(cpu)), D(cpu))
      [] op = "stx" -> NZV16(Set16(cpu, address, cpu.x), cpu.x)

\* An instruction: the kind says how its operand is found.
I(kind, op, reg, arg) == [kind |-> kind, op |-> op, reg |-> reg, arg |-> arg]
Acc(op, reg) == I("acc", op, reg, 0)
Memory(op, address) == I("memory", op, "a", address)
Imm(op, reg, value) == I("imm", op, reg, value)
Ext(op, reg, address) == I("ext", op, reg, address)
Imp(op) == I("imp", op, "a", 0)
ImmWord(op, value) == I("imm16", op, "a", value)
ExtWord(op, address) == I("ext16", op, "a", address)
IdxWord(op, offset) == I("idx16", op, "a", offset)
St(op, address) == I("store", op, "a", address)
Branch(condition, target) == I("branch", condition, "a", target)
Jsr(target) == I("jsr", "jsr", "a", target)

\* The program counter is already at the next instruction.
Execute(cpu, i) ==
    LET onByte(r) == [cpu EXCEPT ![i.reg] = r.v, !.sr = r.sr]
        inMemory(r) == [cpu EXCEPT !.mem[i.arg] = r.v, !.sr = r.sr]
    IN  CASE i.kind = "acc" -> onByte(Byte1(i.op, cpu[i.reg], cpu.sr))
          [] i.kind = "memory" -> inMemory(Byte1(i.op, cpu.mem[i.arg], cpu.sr))
          [] i.kind = "imm" -> onByte(Byte2(i.op, cpu[i.reg], i.arg, cpu.sr))
          [] i.kind = "ext" -> onByte(Byte2(i.op, cpu[i.reg], cpu.mem[i.arg], cpu.sr))
          [] i.kind = "imp" -> Word1(i.op, cpu)
          [] i.kind = "imm16" -> Word2(i.op, cpu, i.arg)
          [] i.kind = "ext16" -> Word2(i.op, cpu, Get16(cpu, i.arg))
          [] i.kind = "idx16" -> Word2(i.op, cpu, Get16(cpu, At(cpu.x + i.arg)))
          [] i.kind = "store" -> Store(i.op, cpu, i.arg)
          [] i.kind = "branch" -> IF Taken(cpu.sr, i.op) THEN [cpu EXCEPT !.pc = i.arg] ELSE cpu
          [] i.kind = "jsr" -> [Psh16(cpu, cpu.pc) EXCEPT !.pc = i.arg]

-------------------------------------------------------------------------------
(* The programs.  Each starts with a word in D and in X and another one in memory, and *)
(* ends in a branch to itself.  Those named for bytes do what another one does with an *)
(* instruction on words; file_init and fat_cluster_to_sector are of asm/include/file.inc. *)

Operand == 40           \* the word in memory, and fat_data_start_sector
BlockAddress == 44      \* sd_card_block_address
PerCluster == 48        \* fat_sectors_per_cluster
Mask == 49              \* fat_sectors_per_cluster_mask
PerFat == 50            \* fat_sectors_per_fat
Reserved == 52          \* fat_reserved_sectors
RootDir == 54           \* fat_root_dir_start_sector
Address == 0..63        \* the memory that is used
StackTop == 31
Vector == 30            \* where the interrupt routine is

\* What file_init computes of the boot sector, from the sectors per cluster on; an error
\* ends at the last instruction.
FileInit ==
    <<Ext("lda", "b", PerCluster), Acc("lsr", "b"), Branch("beq", 8), Acc("clr", "a"),
      Imp("aba"), Acc("lsr", "b"), Branch("bne", 5), St("staa", Mask),
      ExtWord("ldx", Operand), ImmWord("cpx", 2047), Branch("bgt", 28),
      ExtWord("ldx", PerFat), ImmWord("cpx", 254), Branch("bgt", 28),
      Imp("xgdx"), Imp("asld"), ExtWord("addd", Reserved), St("std", RootDir),
      Imp("xgdx"), ExtWord("ldd", Operand),
      Imp("lsrd"), Imp("lsrd"), Imp("lsrd"), Imp("lsrd"), Imp("abx"), St("stx", Operand),
      Branch("bra", 27), Branch("bra", 28)>>

\* fat_cluster_to_sector, called by the first instruction.
FatClusterToSector ==
    <<Jsr(3), Branch("bra", 2),
      Memory("clr", BlockAddress), Memory("clr", BlockAddress + 1),
      Memory("clr", BlockAddress + 2), Memory("clr", BlockAddress + 3),
      Imp("dex"), Imp("dex"), St("stx", BlockAddress + 2),
      Acc("clr", "a"), Ext("lda", "b", PerCluster), Acc("lsr", "b"), Branch("beq", 19),
      Imp("xgdx"), Imp("asld"), Imp("xgdx"), Acc("lsr", "b"), Branch("bne", 14),
      Imp("xgdx"), ExtWord("addd", Operand), St("std", BlockAddress + 2), Imp("rts")>>

Programs == [
    addd |-> <<ExtWord("addd", Operand), Branch("bra", 2)>>,
    addBytes |-> <<Ext("add", "b", Operand + 1), Ext("adc", "a", Operand), Branch("bra", 3)>>,
    addCall |-> <<Ext("add", "b", Operand + 1), Jsr(4), Branch("bra", 3),
                  Ext("adc", "a", Operand), Imp("rts")>>,
    subd |-> <<ExtWord("subd", Operand), Branch("bra", 2)>>,
    subBytes |-> <<Ext("sub", "b", Operand + 1), Ext("sbc", "a", Operand), Branch("bra", 3)>>,
    asld |-> <<Imp("asld"), Branch("bra", 2)>>,
    aslBytes |-> <<Acc("asl", "b"), Acc("rol", "a"), Branch("bra", 3)>>,
    lsrd |-> <<Imp("lsrd"), Branch("bra", 2)>>,
    lsrBytes |-> <<Acc("lsr", "a"), Acc("ror", "b"), Branch("bra", 3)>>,
    negBytes |-> <<Acc("neg", "a"), Acc("neg", "b"), Imm("sbc", "a", 0), Branch("bra", 4)>>,
    comBytes |-> <<Acc("com", "a"), Acc("com", "b"), Imp("xgdx"), Imp("inx"), Imp("xgdx"),
                   Branch("bra", 6)>>,
    incBytes |-> <<Acc("inc", "b"), Branch("bne", 4), Acc("inc", "a"), Branch("bra", 4)>>,
    decBytes |-> <<Acc("tst", "b"), Branch("bne", 4), Acc("dec", "a"), Acc("dec", "b"),
                   Branch("bra", 5)>>,
    mul |-> <<Imp("mul"), Branch("bra", 2)>>,
    push |-> <<Imp("pshb"), Imp("psha"), Acc("clr", "a"), Imp("pulx"), Imp("xgdx"),
               Branch("bra", 6)>>,
    frame |-> <<Imp("pshx"), Imp("tsx"), Acc("clr", "b"), IdxWord("ldd", 0),
                Imp("ins"), Imp("ins"), Branch("bra", 7)>>,
    store |-> <<St("stab", BlockAddress + 1), St("staa", BlockAddress), Acc("asr", "a"),
                ExtWord("ldx", BlockAddress), Imp("xgdx"), Branch("bra", 6)>>,
    file_init |-> FileInit,
    cpx |-> <<ExtWord("cpx", Operand), Branch("bra", 2)>>,
    cmpBytes |-> <<Ext("cmp", "a", Operand), Branch("bne", 4), Ext("cmp", "b", Operand + 1),
                   Branch("bra", 4)>>,
    fat_cluster_to_sector |-> FatClusterToSector]

\* An interrupt routine that uses all registers.
Routine == <<Imp("psha"), Acc("com", "a"), Imp("inx"), Ext("add", "b", Operand),
             Imp("pulb"), Imp("rti")>>

Fetch(program, pc) ==
    IF pc >= Vector THEN Routine[pc - Vector + 1] ELSE Programs[program][pc]

-------------------------------------------------------------------------------
VARIABLES
    cpu,            \* the registers and the memory
    task,           \* the program that runs, and what it starts with
    interrupts      \* how many there have been

vars == <<cpu, task, interrupts>>

Signed(word) == IF 2 * word >= WordMod THEN word - WordMod ELSE word

Tasks == [program : DOMAIN Programs, d : Operands, m : Operands, cluster : Clusters]

\* sector = fat_data_start_sector + (N - 2) * fat_sectors_per_cluster (file.inc:691).
SectorOf(t) == t.m + (t.d - 2) * t.cluster

\* Sbc() is not exact when the borrow carries out of the byte that is compared, or into
\* its sign: the carry or the overflow is then that of another subtraction.
BorrowExact(t) ==
    Low(t.d) < Low(t.m) =>
        High(t.m) # ByteMod - 1 /\ 2 * (High(t.m) + 1) # ByteMod

\* Cluster numbers start at 2, and the number of a sector is kept in a word: the clusters
\* that can be used, up to 254 (file.inc:25) of at most 128 sectors, end below that unless
\* half of it is reserved.  file_init compares with sign, and for a cluster of one sector
\* it leaves in A what was there.
Possible(t) ==
    /\ t.program = "subBytes" => BorrowExact(t)
    /\ t.program = "file_init" => Signed(t.d) >= 0 /\ Signed(t.m) >= 0 /\ t.cluster > 1
    /\ t.program = "fat_cluster_to_sector" => t.d >= 2 /\ SectorOf(t) \in Word
    /\ t.program \notin {"file_init", "fat_cluster_to_sector"} => t.cluster = 1

Init ==
    /\ task \in {t \in Tasks : Possible(t)}
    /\ \E flag \in BOOLEAN :
          cpu = [a |-> High(task.d), b |-> Low(task.d), x |-> task.d, sp |-> StackTop, pc |-> 1,
                 sr |-> [H |-> flag, I |-> FALSE, N |-> flag, Z |-> flag, V |-> flag, C |-> flag],
                 mem |-> [[address \in Address |-> 0] EXCEPT ![Operand] = High(task.m),
                             ![Operand + 1] = Low(task.m), ![PerCluster] = task.cluster, ![Reserved + 1] = 1,
                             ![PerFat] = High(task.d), ![PerFat + 1] = Low(task.d)]]
    /\ interrupts = 0

Instruction ==
    /\ cpu' = Execute([cpu EXCEPT !.pc = At(@ + 1)], Fetch(task.program, cpu.pc))
    /\ UNCHANGED <<task, interrupts>>

Interrupt ==
    /\ ~cpu.sr.I /\ interrupts < MaxInterrupts
    /\ cpu' = EnterInterrupt(cpu, Vector)
    /\ interrupts' = interrupts + 1
    /\ UNCHANGED task

Next == Instruction \/ Interrupt
Spec == Init /\ [][Next]_vars

-------------------------------------------------------------------------------
(* What the programs should compute: integer arithmetic. *)

\* The exact result, of words taken as numbers without and with sign.
Exact(t) ==
    CASE t.program \in {"addd", "addBytes", "addCall"} ->
             [value |-> t.d + t.m, signed |-> Signed(t.d) + Signed(t.m)]
      [] t.program \in {"subd", "subBytes", "cpx"} ->
             [value |-> t.d - t.m, signed |-> Signed(t.d) - Signed(t.m)]
      [] t.program \in {"asld", "aslBytes"} ->
             [value |-> 2 * t.d, signed |-> 2 * Signed(t.d)]

Arithmetic == {"addd", "addBytes", "addCall", "subd", "subBytes", "asld", "aslBytes"}
Comparisons == {"subd", "cpx", "cmpBytes"}

Result(t) ==
    CASE t.program \in Arithmetic -> Exact(t).value % WordMod
      [] t.program \in {"lsrd", "lsrBytes"} -> t.d \div 2
      [] t.program \in {"negBytes", "comBytes"} -> (-t.d) % WordMod
      [] t.program = "incBytes" -> (t.d + 1) % WordMod
      [] t.program = "decBytes" -> (t.d - 1) % WordMod
      [] t.program = "mul" -> High(t.d) * Low(t.d)
      [] t.program \in {"push", "frame", "store", "cpx", "cmpBytes"} -> t.d
      [] t.program = "fat_cluster_to_sector" -> SectorOf(t)

\* What file_init makes of the boot sector, unless it refuses it: more than 2047
\* entries in the root directory, or more than 255 sectors per FAT.  Up to 254 it
\* must accept.  Of 255 nothing is said: file.inc:21 and :204 support it, the
\* comparison at :207 refuses it (SupportsItsLimit).
LayoutOf(t) ==
    /\ cpu.mem[Mask] = t.cluster - 1
    /\ t.m > 2047 \/ t.d > 255 => cpu.pc = 28
    /\ t.m <= 2047 /\ t.d <= 254 => cpu.pc = 27
    /\ cpu.pc = 27 => /\ Get16(cpu, RootDir) = 1 + 2 * t.d
                      /\ Get16(cpu, Operand) = 1 + 2 * t.d + t.m \div 16

AtEnd ==
    /\ cpu.pc < Vector
    /\ Fetch(task.program, cpu.pc) = Branch("bra", cpu.pc)

\* Registers, flags and memory keep their widths, through every instruction, call and
\* interrupt: a shift, a sum or a step of the stack pointer is cut to its register.
TypeOK ==
    /\ cpu \in [a : Byte, b : Byte, x : Word, sp : Word, pc : Word, sr : StatusRegister,
                mem : [Address -> Byte]]
    /\ task \in Tasks
    /\ interrupts \in 0..MaxInterrupts

\* A program computes with bytes what integers say of words: the result, and for the
\* arithmetic the carry, the overflow and the sign, which the flags hand on from the low
\* byte to the high one through calls and interrupts.  The stack is as it was.
Computes ==
    AtEnd =>
        /\ cpu.sp = StackTop
        /\ task.program # "file_init" => D(cpu) = Result(task)
        /\ task.program \in Arithmetic \cup {"cpx"} =>
              /\ cpu.sr.C = (Exact(task).value \notin Word)
              /\ cpu.sr.V = (2 * Exact(task).signed \notin -WordMod..WordMod - 1)
              /\ cpu.sr.N = Top(Exact(task).value % WordMod, WordMod)
        /\ task.program \in {"lsrd", "lsrBytes"} => cpu.sr.C = (task.d % 2 = 1)
        /\ task.program \in {"addd", "subd", "asld", "cpx"} =>
              cpu.sr.Z = (Exact(task).value % WordMod = 0)
        /\ task.program = "fat_cluster_to_sector" =>
              Get16(cpu, BlockAddress) = 0 /\ Get16(cpu, BlockAddress + 2) = Result(task)
        /\ task.program = "file_init" => LayoutOf(task)

\* "At most 255 sectors per FAT" and "at most 2047 root directory entries" (file.inc:21)
\* are supported.  The code violates this at 255 sectors: it is in no passing run.
SupportsItsLimit ==
    AtEnd /\ task.program = "file_init" /\ task.m <= 2047 /\ task.d <= 255 => cpu.pc = 27

\* After a comparison, by word, by bytes or by subtraction, each branch is taken exactly
\* if the operands are in its order.
Decides ==
    AtEnd /\ task.program \in Comparisons =>
        /\ Taken(cpu.sr, "bhi") = (task.d > task.m)
        /\ Taken(cpu.sr, "bls") = (task.d <= task.m)
        /\ Taken(cpu.sr, "bcc") = (task.d >= task.m)
        /\ Taken(cpu.sr, "bcs") = (task.d < task.m)
        /\ Taken(cpu.sr, "beq") = (task.d = task.m)
        /\ Taken(cpu.sr, "bne") = (task.d # task.m)
        /\ task.program # "cmpBytes" =>
              /\ Taken(cpu.sr, "bge") = (Signed(task.d) >= Signed(task.m))
              /\ Taken(cpu.sr, "blt") = (Signed(task.d) < Signed(task.m))
              /\ Taken(cpu.sr, "bgt") = (Signed(task.d) > Signed(task.m))
              /\ Taken(cpu.sr, "ble") = (Signed(task.d) <= Signed(task.m))
=============================================================================
