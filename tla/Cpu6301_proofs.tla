---------------------------- MODULE Cpu6301_proofs ----------------------------
(***************************************************************************)
(* The arithmetic of Cpu6301 for all bytes and words: the flags say what   *)
(* integer arithmetic says, the branches after a comparison follow the     *)
(* order of the operands, bytes with a carry make up words, and a return   *)
(* from an interrupt undoes its entry.                                     *)
(***************************************************************************)
EXTENDS Cpu6301, TLAPS

\* The sign of a byte or a word.
SignedOf(value, mod) == IF Top(value, mod) THEN value - mod ELSE value

\* Remainders of numbers up to one width away.
LEMMA Remainders ==
    ASSUME NEW mod \in Nat \ {0}, NEW value \in Int
    PROVE  /\ value \in 0..mod - 1 => value % mod = value
           /\ -mod <= value /\ value < 0 => value % mod = value + mod
           /\ mod <= value /\ value < 2 * mod => value % mod = value - mod
  <1>1. ASSUME value \in 0..mod - 1 PROVE value % mod = value
    BY <1>1
  <1>2. ASSUME -mod <= value, value < 0 PROVE value % mod = value + mod
    BY <1>2
  <1>3. ASSUME mod <= value, value < 2 * mod PROVE value % mod = value - mod
    BY <1>3
  <1> QED
    BY <1>1, <1>2, <1>3

LEMMA Difference ==
    ASSUME NEW mod \in Nat \ {0}, NEW dest \in Nat, NEW mem \in Nat, dest < mod, mem < mod
    PROVE  (dest - mem) % mod = IF dest >= mem THEN dest - mem ELSE dest - mem + mod
  <1> DEFINE gap == dest - mem
  <1>1. gap \in Int /\ -mod <= gap /\ gap < mod
    OBVIOUS
  <1>2. CASE dest >= mem
    <2>1. gap \in 0..mod - 1
      BY <1>1, <1>2
    <2> HIDE DEF gap
    <2>2. gap % mod = gap
      BY <1>1, <2>1, Remainders
    <2> QED
      BY <1>2, <2>2 DEF gap
  <1>3. CASE dest < mem
    <2>1. gap < 0
      BY <1>3
    <2> HIDE DEF gap
    <2>2. gap % mod = gap + mod
      BY <1>1, <2>1, Remainders
    <2> QED
      BY <1>3, <2>2 DEF gap
  <1> QED
    BY <1>2, <1>3

\* The sum of two numbers below mod and a carry.
LEMMA SumModulo ==
    ASSUME NEW mod \in Nat \ {0}, NEW dest \in Nat, NEW mem \in Nat, dest < mod, mem < mod,
           NEW carry \in BOOLEAN
    PROVE  /\ One(carry) \in 0..1
           /\ Sum(dest, mem, carry, mod) =
                 IF dest + mem + One(carry) < mod
                   THEN dest + mem + One(carry) ELSE dest + mem + One(carry) - mod
  <1> DEFINE total == dest + mem + One(carry)
  <1>1. One(carry) \in 0..1
    BY DEF One
  <1>2. total \in Nat /\ total < 2 * mod
    BY <1>1
  <1>3. total % mod = IF total < mod THEN total ELSE total - mod
    BY <1>2, Remainders
  <1> QED
    BY <1>1, <1>3 DEF Sum

\* What cmp() and cmp16() compute from the topmost bits is the order of the operands, as
\* numbers without sign in C and with sign in N # V.
THEOREM CompareOrders ==
    ASSUME NEW mod \in {ByteMod, WordMod},
           NEW dest \in Nat, NEW mem \in Nat, dest < mod, mem < mod, NEW sr \in StatusRegister
    PROVE  LET flags == Cmp(sr, dest, mem, mod)
           IN  /\ flags.Z <=> dest = mem
               /\ flags.C <=> dest < mem
               /\ ~(flags.N <=> flags.V) <=> SignedOf(dest, mod) < SignedOf(mem, mod)
  <1> DEFINE r == (dest - mem) % mod
  <1>1. mod \in Nat \ {0} /\ (mod = 2 * 128 \/ mod = 2 * 32768)
    BY DEF ByteMod, WordMod
  <1>2. r = IF dest >= mem THEN dest - mem ELSE dest - mem + mod
    BY <1>1, Difference
  <1> DEFINE flags == Cmp(sr, dest, mem, mod)
  <1>3. (flags.N <=> Top(r, mod)) /\ (flags.Z <=> r = 0)
    BY DEF Cmp, NZ, StatusRegister
  <1>4. flags.V <=> \/ Top(dest, mod) /\ ~Top(mem, mod) /\ ~Top(r, mod)
                    \/ ~Top(dest, mod) /\ Top(mem, mod) /\ Top(r, mod)
    BY DEF Cmp, NZ, StatusRegister
  <1>5. flags.C <=> \/ ~Top(dest, mod) /\ Top(mem, mod)
                    \/ Top(mem, mod) /\ Top(r, mod)
                    \/ Top(r, mod) /\ ~Top(dest, mod)
    BY DEF Cmp, NZ, StatusRegister
  <1>6. r \in Nat /\ r < mod
    BY <1>1, <1>2
  <1> HIDE DEF r, flags
  <1>7. flags.C <=> dest < mem
    BY <1>1, <1>2, <1>5, <1>6 DEF Top
  <1>8. flags.Z <=> dest = mem
    BY <1>1, <1>2, <1>3, <1>6
  <1>9. ~(flags.N <=> flags.V) <=> SignedOf(dest, mod) < SignedOf(mem, mod)
    BY <1>1, <1>2, <1>3, <1>4, <1>6 DEF SignedOf, Top
  <1> QED
    BY <1>7, <1>8, <1>9 DEF flags

\* The flags of a sum with a carry, of add() and addd(): C says that it left the width,
\* and V that it did so with sign.
THEOREM AddExact ==
    ASSUME NEW mod \in {ByteMod, WordMod},
           NEW dest \in Nat, NEW mem \in Nat, dest < mod, mem < mod,
           NEW carry \in BOOLEAN, NEW sr \in StatusRegister
    PROVE  LET r == Sum(dest, mem, carry, mod)
               flags == AddFlags(sr, dest, mem, r, mod)
               signed == SignedOf(dest, mod) + SignedOf(mem, mod) + One(carry)
           IN  /\ flags.Z <=> r = 0
               /\ flags.N <=> Top(r, mod)
               /\ flags.C <=> dest + mem + One(carry) >= mod
               /\ r = dest + mem + One(carry) - (IF flags.C THEN mod ELSE 0)
               /\ flags.V <=> 2 * signed < -mod \/ 2 * signed >= mod
  <1> DEFINE c == One(carry)
  <1> DEFINE r == Sum(dest, mem, carry, mod)
  <1> DEFINE flags == AddFlags(sr, dest, mem, r, mod)
  <1>1. mod \in Nat \ {0} /\ (mod = 2 * 128 \/ mod = 2 * 32768)
    BY DEF ByteMod, WordMod
  <1>2. c \in 0..1 /\ r = IF dest + mem + c < mod THEN dest + mem + c ELSE dest + mem + c - mod
    BY <1>1, SumModulo
  <1>3. (flags.N <=> Top(r, mod)) /\ (flags.Z <=> r = 0)
    BY DEF AddFlags, NZ, StatusRegister
  <1>4. flags.V <=> \/ Top(dest, mod) /\ Top(mem, mod) /\ ~Top(r, mod)
                    \/ ~Top(dest, mod) /\ ~Top(mem, mod) /\ Top(r, mod)
    BY DEF AddFlags, NZ, StatusRegister
  <1>5. flags.C <=> \/ Top(dest, mod) /\ Top(mem, mod)
                    \/ Top(mem, mod) /\ ~Top(r, mod)
                    \/ ~Top(r, mod) /\ Top(dest, mod)
    BY DEF AddFlags, NZ, StatusRegister
  <1> HIDE DEF c, r, flags
  <1>6. flags.C <=> dest + mem + c >= mod
    BY <1>1, <1>2, <1>5 DEF Top
  <1>7. flags.V <=> \/ 2 * (SignedOf(dest, mod) + SignedOf(mem, mod) + c) < -mod
                    \/ 2 * (SignedOf(dest, mod) + SignedOf(mem, mod) + c) >= mod
    BY <1>1, <1>2, <1>4 DEF SignedOf, Top
  <1>8. r = dest + mem + c - (IF flags.C THEN mod ELSE 0)
    BY <1>1, <1>2, <1>6
  <1> QED
    BY <1>3, <1>6, <1>7, <1>8 DEF c, r, flags

\* Setting flags to truth values gives a status register.
LEMMA FlagsTyped ==
    ASSUME NEW sr \in StatusRegister, NEW dest, NEW mem, NEW r, NEW mod
    PROVE  /\ AddFlags(sr, dest, mem, r, mod) \in StatusRegister
           /\ Cmp(sr, dest, mem, mod) \in StatusRegister
           /\ HalfCarry(sr, dest, mem, r) \in StatusRegister
  <1>1. ASSUME NEW flags \in StatusRegister, NEW v \in BOOLEAN, NEW c \in BOOLEAN
        PROVE  /\ [flags EXCEPT !.V = v, !.C = c] \in StatusRegister
               /\ [flags EXCEPT !.N = v, !.Z = c] \in StatusRegister
               /\ [flags EXCEPT !.H = v] \in StatusRegister
    BY DEF StatusRegister
  <1>2. ASSUME NEW value PROVE NZ(sr, value, mod) \in StatusRegister
    <2> DEFINE n == Top(value, mod)
    <2> DEFINE z == (value = 0)
    <2>1. n \in BOOLEAN /\ z \in BOOLEAN
      BY DEF Top
    <2>2. NZ(sr, value, mod) = [sr EXCEPT !.N = n, !.Z = z]
      BY DEF NZ
    <2> HIDE DEF n, z
    <2> QED
      BY <1>1, <2>1, <2>2
  <1>3. AddFlags(sr, dest, mem, r, mod) \in StatusRegister
    BY <1>1, <1>2 DEF AddFlags, Top
  <1>4. Cmp(sr, dest, mem, mod) \in StatusRegister
    BY <1>1, <1>2 DEF Cmp, Top
  <1>5. HalfCarry(sr, dest, mem, r) \in StatusRegister
    BY <1>1 DEF HalfCarry, Top
  <1> QED
    BY <1>3, <1>4, <1>5

\* After a comparison each branch is taken exactly if the operands are in its order.  It
\* takes that C and Z are never both set: bls and ble compare the sum of two flags with 1.
THEOREM BranchesFollowOrder ==
    ASSUME NEW mod \in {ByteMod, WordMod},
           NEW dest \in Nat, NEW mem \in Nat, dest < mod, mem < mod, NEW sr \in StatusRegister
    PROVE  LET flags == Cmp(sr, dest, mem, mod)
               d == SignedOf(dest, mod)
               m == SignedOf(mem, mod)
           IN  /\ Taken(flags, "beq") <=> dest = mem
               /\ Taken(flags, "bne") <=> dest # mem
               /\ Taken(flags, "bcs") <=> dest < mem
               /\ Taken(flags, "bcc") <=> dest >= mem
               /\ Taken(flags, "bls") <=> dest <= mem
               /\ Taken(flags, "bhi") <=> dest > mem
               /\ Taken(flags, "blt") <=> d < m
               /\ Taken(flags, "bge") <=> d >= m
               /\ Taken(flags, "ble") <=> d <= m
               /\ Taken(flags, "bgt") <=> d > m
  <1> DEFINE flags == Cmp(sr, dest, mem, mod)
  <1> DEFINE d == SignedOf(dest, mod)
  <1> DEFINE m == SignedOf(mem, mod)
  <1>1. /\ flags.Z <=> dest = mem
        /\ flags.C <=> dest < mem
        /\ ~(flags.N <=> flags.V) <=> d < m
    BY CompareOrders
  <1>2. flags \in StatusRegister
    BY FlagsTyped
  <1>3. d \in Int /\ m \in Int /\ (d = m <=> dest = mem)
    BY DEF SignedOf, Top, ByteMod, WordMod
  <1> HIDE DEF flags, d, m
  <1>4. /\ flags.Z \in BOOLEAN /\ flags.C \in BOOLEAN /\ flags.N \in BOOLEAN /\ flags.V \in BOOLEAN
        /\ (flags.N # flags.V) <=> d < m
        /\ (flags.N = flags.V) <=> d >= m
    BY <1>1, <1>2, <1>3 DEF StatusRegister
  <1>5. /\ Taken(flags, "beq") <=> dest = mem
        /\ Taken(flags, "bne") <=> dest # mem
        /\ Taken(flags, "bcs") <=> dest < mem
        /\ Taken(flags, "bcc") <=> dest >= mem
    BY <1>1 DEF Taken
  <1>6. /\ Taken(flags, "bls") <=> dest <= mem
        /\ Taken(flags, "bhi") <=> dest > mem
    BY <1>1, <1>4 DEF Taken, One
  <1>7. /\ Taken(flags, "blt") <=> d < m
        /\ Taken(flags, "bge") <=> d >= m
    BY <1>4 DEF Taken
  <1>8. /\ Taken(flags, "ble") <=> d <= m
        /\ Taken(flags, "bgt") <=> d > m
    BY <1>1, <1>3, <1>4 DEF Taken, One
  <1> QED
    BY <1>5, <1>6, <1>7, <1>8 DEF flags, d, m

\* add() on bytes: AddExact with the half carry, which touches no other flag.
LEMMA AddByte ==
    ASSUME NEW dest \in Byte, NEW mem \in Byte, NEW carry \in BOOLEAN, NEW sr \in StatusRegister
    PROVE  LET r == Add(dest, mem, carry, sr)
               signed == SignedOf(dest, ByteMod) + SignedOf(mem, ByteMod) + One(carry)
           IN  /\ r.v \in Byte
               /\ r.sr \in StatusRegister
               /\ r.sr.C <=> dest + mem + One(carry) >= ByteMod
               /\ r.v = dest + mem + One(carry) - ByteMod * One(r.sr.C)
               /\ r.sr.V <=> 2 * signed < -ByteMod \/ 2 * signed >= ByteMod
  <1> DEFINE r == Add(dest, mem, carry, sr)
  <1> DEFINE sum == Sum(dest, mem, carry, ByteMod)
  <1> DEFINE flags == AddFlags(sr, dest, mem, sum, ByteMod)
  <1>1. r.v = sum /\ r.sr.C = flags.C /\ r.sr.V = flags.V /\ r.sr \in StatusRegister
    <2>1. flags \in StatusRegister
      BY FlagsTyped
    <2> HIDE DEF flags, sum
    <2>2. /\ HalfCarry(flags, dest, mem, sum).C = flags.C
          /\ HalfCarry(flags, dest, mem, sum).V = flags.V
          /\ HalfCarry(flags, dest, mem, sum) \in StatusRegister
      BY <2>1, FlagsTyped, ZenonT(40) DEF HalfCarry, StatusRegister
    <2>3. r = [v |-> sum, sr |-> HalfCarry(flags, dest, mem, sum)]
      BY DEF Add, flags, sum
    <2> QED
      BY <2>2, <2>3
  <1>2. /\ ByteMod \in Nat
        /\ dest \in Nat /\ mem \in Nat /\ dest < ByteMod /\ mem < ByteMod
    BY DEF ByteMod, Byte
  <1>3. /\ flags.C <=> dest + mem + One(carry) >= ByteMod
        /\ sum = dest + mem + One(carry) - (IF flags.C THEN ByteMod ELSE 0)
        /\ LET signed == SignedOf(dest, ByteMod) + SignedOf(mem, ByteMod) + One(carry)
           IN  flags.V <=> 2 * signed < -ByteMod \/ 2 * signed >= ByteMod
    BY <1>2, AddExact
  <1> HIDE DEF flags, sum, r
  <1>4. One(carry) \in 0..1 /\ One(r.sr.C) = IF flags.C THEN 1 ELSE 0
    BY <1>1 DEF One
  <1>5. sum \in Byte
    <2>1. CASE flags.C
      BY <1>2, <1>3, <1>4, <2>1, SMTT(40) DEF ByteMod, Byte
    <2>2. CASE ~flags.C
      BY <1>2, <1>3, <1>4, <2>2 DEF ByteMod, Byte
    <2> QED
      BY <2>1, <2>2
  <1>6. sum = dest + mem + One(carry) - ByteMod * One(r.sr.C)
    BY <1>2, <1>3, <1>4 DEF ByteMod
  <1> QED
    BY <1>1, <1>3, <1>5, <1>6 DEF r

\* Bytes added one after the other with the carry between them, as "addb; adca" and "adcb;
\* adca" do, are words added: the value, and the carry and the overflow of the high byte.
THEOREM AddBytesIsAddd ==
    ASSUME NEW dh \in Byte, NEW dl \in Byte, NEW mh \in Byte, NEW ml \in Byte,
           NEW carry \in BOOLEAN, NEW sr \in StatusRegister
    PROVE  LET low == Add(dl, ml, carry, sr)
               high == Add(dh, mh, low.sr.C, low.sr)
               dest == dh * ByteMod + dl
               mem == mh * ByteMod + ml
               signed == SignedOf(dest, WordMod) + SignedOf(mem, WordMod) + One(carry)
           IN  /\ high.sr.C <=> dest + mem + One(carry) >= WordMod
               /\ high.v * ByteMod + low.v = Sum(dest, mem, carry, WordMod)
               /\ high.sr.V <=> 2 * signed < -WordMod \/ 2 * signed >= WordMod
  <1> DEFINE low == Add(dl, ml, carry, sr)
  <1> DEFINE high == Add(dh, mh, low.sr.C, low.sr)
  <1> DEFINE dest == dh * ByteMod + dl
  <1> DEFINE mem == mh * ByteMod + ml
  <1> DEFINE c == One(carry)
  <1> DEFINE lowC == One(low.sr.C)
  <1> DEFINE highC == One(high.sr.C)
  <1>1. /\ low.v \in Byte /\ low.sr \in StatusRegister
        /\ low.sr.C <=> dl + ml + c >= ByteMod
        /\ low.v = dl + ml + c - ByteMod * lowC
    BY AddByte
  <1>2. low.sr.C \in BOOLEAN
    BY <1>1 DEF StatusRegister
  <1> HIDE DEF low
  <1>3. /\ high.v \in Byte
        /\ high.sr.C <=> dh + mh + lowC >= ByteMod
        /\ high.v = dh + mh + lowC - ByteMod * highC
        /\ high.sr.V <=> \/ 2 * (SignedOf(dh, ByteMod) + SignedOf(mh, ByteMod) + lowC) < -ByteMod
                         \/ 2 * (SignedOf(dh, ByteMod) + SignedOf(mh, ByteMod) + lowC) >= ByteMod
    BY <1>1, <1>2, AddByte
  <1> HIDE DEF high
  <1>4. /\ c \in 0..1 /\ lowC \in 0..1 /\ highC \in 0..1
        /\ (lowC = 1 <=> low.sr.C) /\ (highC = 1 <=> high.sr.C)
    BY DEF One
  <1> HIDE DEF c, lowC, highC
  <1>5. dest \in Nat /\ mem \in Nat /\ dest < WordMod /\ mem < WordMod
    BY DEF ByteMod, WordMod, Byte
  <1>6. high.v * 256 + low.v = dest + mem + c - 65536 * highC
    BY <1>1, <1>3, <1>4 DEF ByteMod, Byte
  <1>7. high.sr.C <=> dest + mem + c >= WordMod
    BY <1>1, <1>3, <1>4, <1>6 DEF ByteMod, WordMod, Byte
  <1>8. /\ SignedOf(dest, WordMod) = 256 * SignedOf(dh, ByteMod) + dl
        /\ SignedOf(mem, WordMod) = 256 * SignedOf(mh, ByteMod) + ml
        /\ SignedOf(dh, ByteMod) \in Int /\ SignedOf(mh, ByteMod) \in Int
    BY DEF ByteMod, WordMod, Byte, SignedOf, Top
  <1>9. high.sr.V <=> \/ 2 * (SignedOf(dest, WordMod) + SignedOf(mem, WordMod) + c) < -WordMod
                      \/ 2 * (SignedOf(dest, WordMod) + SignedOf(mem, WordMod) + c) >= WordMod
    BY <1>1, <1>3, <1>4, <1>8 DEF ByteMod, WordMod, Byte
  <1> HIDE DEF dest, mem
  <1>10. Sum(dest, mem, carry, WordMod) =
             IF dest + mem + c < WordMod THEN dest + mem + c ELSE dest + mem + c - WordMod
    <2>1. WordMod \in Nat \ {0}
      BY DEF WordMod
    <2> QED
      BY <1>5, <2>1, SumModulo DEF c
  <1>11. high.v * ByteMod + low.v = Sum(dest, mem, carry, WordMod)
    BY <1>4, <1>5, <1>6, <1>7, <1>10 DEF ByteMod, WordMod
  <1> QED
    BY <1>7, <1>9, <1>11 DEF low, high, dest, mem, c

\* sbc() subtracts the borrow, but takes the flags of a comparison with the sum of operand
\* and borrow, cut to a byte.  Carry and order are right unless that sum is cut.
THEOREM SubtractWithBorrow ==
    ASSUME NEW dest \in Byte, NEW mem \in Byte, NEW sr \in StatusRegister
    PROVE  LET r == Sbc(dest, mem, sr)
               exact == dest - mem - One(sr.C)
           IN  /\ r.v = exact % ByteMod
               /\ mem + One(sr.C) < ByteMod => (r.sr.C <=> exact < 0)
               /\ mem + One(sr.C) = ByteMod => ~r.sr.C /\ exact < 0
  <1> DEFINE r == Sbc(dest, mem, sr)
  <1> DEFINE borrowed == (mem + One(sr.C)) % ByteMod
  <1>1. One(sr.C) \in 0..1
    BY DEF One
  <1>2. borrowed \in Nat /\ borrowed < ByteMod
        /\ borrowed = IF mem + One(sr.C) < ByteMod THEN mem + One(sr.C) ELSE 0
    BY <1>1 DEF ByteMod, Byte
  <1>3. r.v = (dest - mem - One(sr.C)) % ByteMod /\ r.sr = Cmp(sr, dest, borrowed, ByteMod)
    BY DEF Sbc
  <1> HIDE DEF r, borrowed
  <1>4. ByteMod \in Nat /\ dest \in Nat /\ dest < ByteMod
    BY DEF ByteMod, Byte
  <1>5. r.sr.C <=> dest < borrowed
    BY <1>2, <1>3, <1>4, CompareOrders
  <1>6. mem + One(sr.C) < ByteMod => (r.sr.C <=> dest - mem - One(sr.C) < 0)
    BY <1>1, <1>2, <1>5 DEF Byte, ByteMod
  <1>7. mem + One(sr.C) = ByteMod => ~r.sr.C /\ dest - mem - One(sr.C) < 0
    BY <1>1, <1>2, <1>5 DEF Byte, ByteMod
  <1> QED
    BY <1>3, <1>6, <1>7 DEF r

-------------------------------------------------------------------------------
(* The stack. *)

LEMMA Halves ==
    ASSUME NEW word \in Word
    PROVE  High(word) \in Byte /\ Low(word) \in Byte /\ High(word) * ByteMod + Low(word) = word
  <1> DEFINE high == word \div 256
  <1> DEFINE low == word % 256
  <1>1. word \in Nat /\ word < 65536
    BY SMTT(40) DEF Word, WordMod
  <1>2. high \in Int /\ low \in Int
    BY <1>1
  <1>3. word = 256 * high + low /\ low >= 0 /\ low < 256
    BY <1>1, <1>2
  <1> HIDE DEF high, low
  <1>4. high \in 0..255 /\ low \in 0..255
    BY <1>1, <1>2, <1>3
  <1> QED
    BY <1>2, <1>3, <1>4 DEF High, Low, Byte, ByteMod, high, low

\* The status register survives its way through a byte.
LEMMA StatusAsByte ==
    ASSUME NEW sr \in StatusRegister
    PROVE  FromInteger(AsInteger(sr)) = sr /\ AsInteger(sr) \in Byte
  <1> DEFINE h == One(sr.H)
  <1> DEFINE i == One(sr.I)
  <1> DEFINE n == One(sr.N)
  <1> DEFINE z == One(sr.Z)
  <1> DEFINE v == One(sr.V)
  <1> DEFINE c == One(sr.C)
  <1> DEFINE r == AsInteger(sr)
  <1>1. /\ h \in 0..1 /\ i \in 0..1 /\ n \in 0..1 /\ z \in 0..1 /\ v \in 0..1 /\ c \in 0..1
        /\ (h = 1 <=> sr.H) /\ (i = 1 <=> sr.I) /\ (n = 1 <=> sr.N)
        /\ (z = 1 <=> sr.Z) /\ (v = 1 <=> sr.V) /\ (c = 1 <=> sr.C)
    BY DEF One
  <1>2. r = 192 + 32 * h + 16 * i + 8 * n + 4 * z + 2 * v + c
    BY DEF AsInteger
  <1> HIDE DEF h, i, n, z, v, c, r
  <1>3. /\ (r \div 32) % 2 = h /\ (r \div 16) % 2 = i /\ (r \div 8) % 2 = n
        /\ (r \div 4) % 2 = z /\ (r \div 2) % 2 = v /\ (r \div 1) % 2 = c
    BY <1>1, <1>2
  <1>4. FromInteger(r) =
            [H |-> h = 1, I |-> i = 1, N |-> n = 1, Z |-> z = 1, V |-> v = 1, C |-> c = 1]
    BY <1>3 DEF FromInteger
  <1>5. r \in Byte
    BY <1>1, <1>2 DEF Byte, ByteMod
  <1> QED
    BY <1>1, <1>4, <1>5 DEF StatusRegister, r

\* The CPU on a memory that has at least the addresses of the stack.
CPU(Ram) == [a : Byte, b : Byte, x : Word, sp : Word, pc : Word, sr : StatusRegister,
                mem : [Ram -> Byte]]

LEMMA Addresses ==
    /\ WordMod \in Nat \ {0}
    /\ \A address \in Nat : address < WordMod => address \in Word /\ At(address) = address
    /\ \A address \in Word : address \in Nat /\ address < WordMod
  <1>1. WordMod \in Nat \ {0}
    BY DEF WordMod
  <1>2. ASSUME NEW address \in Nat, address < WordMod PROVE address % WordMod = address
    BY <1>1, <1>2, Remainders
  <1> QED
    BY <1>1, <1>2 DEF At, Word

LEMMA PushByte ==
    ASSUME NEW Ram, NEW c \in CPU(Ram), NEW data \in Byte, c.sp > 0
    PROVE  LET pushed == Psh8(c, data)
           IN  /\ pushed \in CPU(Ram)
               /\ pushed.mem = [c.mem EXCEPT ![c.sp] = data]
               /\ pushed.sp = c.sp - 1
               /\ pushed.a = c.a /\ pushed.b = c.b /\ pushed.x = c.x
  <1>1. c.sp \in Word
    BY DEF CPU
  <1>2. At(c.sp - 1) = c.sp - 1 /\ c.sp - 1 \in Word
    BY <1>1, Addresses
  <1>3. Psh8(c, data) = [c EXCEPT !.mem = [c.mem EXCEPT ![c.sp] = data], !.sp = c.sp - 1]
    BY <1>2 DEF Psh8
  <1>4. [c.mem EXCEPT ![c.sp] = data] \in [Ram -> Byte]
    BY DEF CPU
  <1> QED
    BY <1>2, <1>3, <1>4 DEF CPU

LEMMA PushWord ==
    ASSUME NEW Ram, NEW c \in CPU(Ram), NEW word \in Word, c.sp > 1
    PROVE  LET pushed == Psh16(c, word)
           IN  /\ pushed \in CPU(Ram)
               /\ pushed.mem = [c.mem EXCEPT ![c.sp] = Low(word), ![c.sp - 1] = High(word)]
               /\ pushed.sp = c.sp - 2
               /\ pushed.a = c.a /\ pushed.b = c.b /\ pushed.x = c.x
  <1>1. c.sp \in Word
    BY DEF CPU
  <1>2. At(c.sp - 1) = c.sp - 1 /\ At(c.sp - 2) = c.sp - 2 /\ c.sp - 2 \in Word
    BY <1>1, Addresses
  <1> DEFINE mem == [c.mem EXCEPT ![c.sp] = Low(word), ![c.sp - 1] = High(word)]
  <1>3. Psh16(c, word) = [c EXCEPT !.mem = mem, !.sp = c.sp - 2]
    BY <1>2 DEF Psh16
  <1>4. mem \in [Ram -> Byte]
    BY Halves DEF CPU
  <1> HIDE DEF mem
  <1>5. LET pushed == [c EXCEPT !.mem = mem, !.sp = c.sp - 2]
        IN  /\ pushed \in CPU(Ram) /\ pushed.mem = mem /\ pushed.sp = c.sp - 2
            /\ pushed.a = c.a /\ pushed.b = c.b /\ pushed.x = c.x
    BY <1>2, <1>4 DEF CPU
  <1> QED
    BY <1>3, <1>5 DEF mem

\* A routine that leaves the stack as it found it returns to the interrupted program with
\* all of its registers and flags, whatever it did to them and to the rest of the memory.
THEOREM ReturnRestores ==
    ASSUME NEW Ram, NEW c \in CPU(Ram), NEW vector \in Word, NEW routine \in CPU(Ram),
           c.sp > 6, c.sp - 6..c.sp \subseteq Ram,
           LET entered == EnterInterrupt(c, vector)
           IN  /\ routine.sp = entered.sp
               /\ \A address \in c.sp - 6..c.sp : routine.mem[address] = entered.mem[address]
    PROVE  Rti(routine) = [c EXCEPT !.mem = routine.mem]
  <1> DEFINE c1 == Psh16(c, c.pc)
  <1> DEFINE c2 == Psh16(c1, c.x)
  <1> DEFINE c3 == Psh8(c2, c.a)
  <1> DEFINE c4 == Psh8(c3, c.b)
  <1> DEFINE c5 == Psh8(c4, AsInteger(c.sr))
  <1> DEFINE sp == c.sp
  <1> DEFINE status == AsInteger(c.sr)
  <1>1. /\ c.a \in Byte /\ c.b \in Byte /\ c.x \in Word /\ sp \in Word /\ c.pc \in Word
        /\ c.sr \in StatusRegister
    BY DEF CPU
  <1>2. sp \in Nat /\ sp < WordMod /\ status \in Byte
    BY <1>1, Addresses, StatusAsByte
  <1>3. /\ c1 \in CPU(Ram) /\ c1.sp = sp - 2 /\ c1.x = c.x /\ c1.a = c.a /\ c1.b = c.b
        /\ c1.mem = [c.mem EXCEPT ![sp] = Low(c.pc), ![sp - 1] = High(c.pc)]
    <2>1. c \in CPU(Ram) /\ c.pc \in Word /\ c.sp > 1
      BY <1>1, <1>2
    <2> HIDE DEF sp, status
    <2>2. /\ c1 \in CPU(Ram) /\ c1.sp = c.sp - 2 /\ c1.x = c.x /\ c1.a = c.a /\ c1.b = c.b
          /\ c1.mem = [c.mem EXCEPT ![c.sp] = Low(c.pc), ![c.sp - 1] = High(c.pc)]
      BY <2>1, PushWord
    <2> QED
      BY <2>2 DEF sp
  <1> HIDE DEF c1, sp, status
  <1>4. /\ c2 \in CPU(Ram) /\ c2.sp = sp - 4 /\ c2.a = c.a /\ c2.b = c.b
        /\ c2.mem = [c1.mem EXCEPT ![sp - 2] = Low(c.x), ![sp - 3] = High(c.x)]
    <2>1. c1.sp > 1 /\ c1.sp - 1 = sp - 3 /\ c1.sp - 2 = sp - 4
      BY <1>2, <1>3 DEF sp
    <2> QED
      <3>1. /\ c2 \in CPU(Ram) /\ c2.sp = c1.sp - 2 /\ c2.a = c1.a /\ c2.b = c1.b
            /\ c2.mem = [c1.mem EXCEPT ![c1.sp] = Low(c.x), ![c1.sp - 1] = High(c.x)]
        <4>1. c1 \in CPU(Ram) /\ c.x \in Word /\ c1.sp > 1
          BY <1>1, <1>3, <2>1
        <4> QED
          BY <4>1, PushWord
      <3> QED
        BY <1>3, <2>1, <3>1
  <1> HIDE DEF c2
  <1>5. c3 \in CPU(Ram) /\ c3.sp = sp - 5 /\ c3.b = c.b /\ c3.mem = [c2.mem EXCEPT ![sp - 4] = c.a]
    <2>1. c2.sp > 0 /\ c2.sp - 1 = sp - 5
      BY <1>2, <1>4 DEF sp
    <2> QED
      BY <1>1, <1>4, <2>1, PushByte
  <1> HIDE DEF c3
  <1>6. c4 \in CPU(Ram) /\ c4.sp = sp - 6 /\ c4.mem = [c3.mem EXCEPT ![sp - 5] = c.b]
    <2>1. c3.sp > 0 /\ c3.sp - 1 = sp - 6
      BY <1>2, <1>5 DEF sp
    <2> QED
      BY <1>1, <1>5, <2>1, PushByte
  <1> HIDE DEF c4
  <1>7. c5 \in CPU(Ram) /\ c5.sp = sp - 7 /\ c5.mem = [c4.mem EXCEPT ![sp - 6] = status]
    <2>1. c4.sp > 0 /\ c4.sp - 1 = sp - 7
      BY <1>2, <1>6 DEF sp
    <2> QED
      BY <1>2, <1>6, <2>1, PushByte DEF status
  <1> HIDE DEF c5
  <1>8. EnterInterrupt(c, vector) = [c5 EXCEPT !.sr.I = TRUE, !.pc = vector]
    BY DEF EnterInterrupt, c1, c2, c3, c4, c5
  <1>9. EnterInterrupt(c, vector).sp = sp - 7 /\ EnterInterrupt(c, vector).mem = c5.mem
    BY <1>7, <1>8 DEF CPU
  <1>10. /\ sp - 6 \in Ram /\ sp - 5 \in Ram /\ sp - 4 \in Ram /\ sp - 3 \in Ram
         /\ sp - 2 \in Ram /\ sp - 1 \in Ram /\ sp \in Ram
    BY <1>2 DEF sp
  <1>11. /\ c5.mem[sp - 6] = status /\ c5.mem[sp - 5] = c.b /\ c5.mem[sp - 4] = c.a
         /\ c5.mem[sp - 3] = High(c.x) /\ c5.mem[sp - 2] = Low(c.x)
         /\ c5.mem[sp - 1] = High(c.pc) /\ c5.mem[sp] = Low(c.pc)
    <2>1. /\ c.mem \in [Ram -> Byte] /\ c1.mem \in [Ram -> Byte] /\ c2.mem \in [Ram -> Byte]
          /\ c3.mem \in [Ram -> Byte] /\ c4.mem \in [Ram -> Byte]
      BY <1>3, <1>4, <1>5, <1>6 DEF CPU
    <2>2. c1.mem[sp] = Low(c.pc) /\ c1.mem[sp - 1] = High(c.pc)
      BY <1>2, <1>3, <1>10, <2>1
    <2>3. /\ c2.mem[sp] = Low(c.pc) /\ c2.mem[sp - 1] = High(c.pc)
          /\ c2.mem[sp - 2] = Low(c.x) /\ c2.mem[sp - 3] = High(c.x)
      BY <1>2, <1>4, <1>10, <2>1, <2>2
    <2>4. /\ c4.mem[sp] = Low(c.pc) /\ c4.mem[sp - 1] = High(c.pc)
          /\ c4.mem[sp - 2] = Low(c.x) /\ c4.mem[sp - 3] = High(c.x)
          /\ c4.mem[sp - 4] = c.a /\ c4.mem[sp - 5] = c.b
      BY <1>2, <1>5, <1>6, <1>10, <2>1, <2>3
    <2> QED
      BY <1>2, <1>7, <1>10, <2>1, <2>4
  <1> DEFINE mem == routine.mem
  <1>12. /\ routine.sp = sp - 7 /\ mem[sp - 6] = status /\ mem[sp - 5] = c.b /\ mem[sp - 4] = c.a
         /\ mem[sp - 3] = High(c.x) /\ mem[sp - 2] = Low(c.x)
         /\ mem[sp - 1] = High(c.pc) /\ mem[sp] = Low(c.pc)
    <2>1. /\ sp - 6 \in sp - 6..sp /\ sp - 5 \in sp - 6..sp /\ sp - 4 \in sp - 6..sp
          /\ sp - 3 \in sp - 6..sp /\ sp - 2 \in sp - 6..sp /\ sp - 1 \in sp - 6..sp
          /\ sp \in sp - 6..sp
      BY <1>2
    <2>2. \A address \in sp - 6..sp : mem[address] = c5.mem[address]
      BY <1>9 DEF sp
    <2>3. routine.sp = sp - 7
      BY <1>9
    <2> QED
      BY <1>11, <2>1, <2>2, <2>3
  <1>13. /\ At(sp - 6) = sp - 6 /\ At(sp - 5) = sp - 5 /\ At(sp - 4) = sp - 4 /\ At(sp - 3) = sp - 3
         /\ At(sp - 2) = sp - 2 /\ At(sp - 1) = sp - 1 /\ At(sp) = sp
    BY <1>2, Addresses DEF sp
  <1> DEFINE r1 == PulSr(routine)
  <1> DEFINE r2 == Pul8(r1, "b")
  <1> DEFINE r3 == Pul8(r2, "a")
  <1> DEFINE r4 == Pul16(r3, "x")
  <1>14. r1 = [routine EXCEPT !.sp = sp - 6, !.sr = c.sr]
    <2>1. At(routine.sp + 1) = sp - 6
      BY <1>2, <1>12, <1>13
    <2>2. FromInteger(mem[sp - 6]) = c.sr
      BY <1>1, <1>12, StatusAsByte DEF status
    <2> QED
      BY <2>1, <2>2 DEF PulSr
  <1> HIDE DEF r1
  <1>15. r2 = [routine EXCEPT !.sp = sp - 5, !.sr = c.sr, !.b = c.b]
    <2>1. r1.sp = sp - 6 /\ r1.mem = mem
      BY <1>14 DEF CPU
    <2>2. At(r1.sp + 1) = sp - 5
      BY <1>2, <1>13, <2>1
    <2>3. r2 = [r1 EXCEPT !.sp = sp - 5, !["b"] = c.b]
      BY <1>12, <2>1, <2>2 DEF Pul8
    <2> QED
      BY <1>14, <2>3 DEF CPU
  <1> HIDE DEF r2
  <1>16. r3 = [routine EXCEPT !.sp = sp - 4, !.sr = c.sr, !.b = c.b, !.a = c.a]
    <2>1. r2.sp = sp - 5 /\ r2.mem = mem
      BY <1>15 DEF CPU
    <2>2. At(r2.sp + 1) = sp - 4
      BY <1>2, <1>13, <2>1
    <2>3. r3 = [r2 EXCEPT !.sp = sp - 4, !["a"] = c.a]
      BY <1>12, <2>1, <2>2 DEF Pul8
    <2> QED
      BY <1>15, <2>3 DEF CPU
  <1> HIDE DEF r3
  <1>17. r4 = [routine EXCEPT !.sp = sp - 2, !.sr = c.sr, !.b = c.b, !.a = c.a, !.x = c.x]
    <2>1. r3.sp = sp - 4 /\ r3.mem = mem
      BY <1>16 DEF CPU
    <2>2. At(r3.sp + 1) = sp - 3 /\ At(r3.sp + 2) = sp - 2 /\ At(sp - 3 + 1) = sp - 2
      BY <1>2, <1>13, <2>1
    <2>3. Get16(r3, sp - 3) = c.x
      BY <1>1, <1>12, <2>1, <2>2, Halves DEF Get16
    <2>4. r4 = [r3 EXCEPT !.sp = sp - 2, !["x"] = c.x]
      BY <2>2, <2>3 DEF Pul16
    <2> QED
      BY <1>16, <2>4 DEF CPU
  <1> HIDE DEF r4
  <1>18. Pul16(r4, "pc") =
             [routine EXCEPT !.sp = sp, !.sr = c.sr, !.b = c.b, !.a = c.a, !.x = c.x, !.pc = c.pc]
    <2>1. r4.sp = sp - 2 /\ r4.mem = mem
      BY <1>17 DEF CPU
    <2>2. At(r4.sp + 1) = sp - 1 /\ At(r4.sp + 2) = sp /\ At(sp - 1 + 1) = sp
      BY <1>2, <1>13, <2>1
    <2>3. Get16(r4, sp - 1) = c.pc
      BY <1>1, <1>12, <2>1, <2>2, Halves DEF Get16
    <2>4. Pul16(r4, "pc") = [r4 EXCEPT !.sp = sp, !["pc"] = c.pc]
      BY <2>2, <2>3 DEF Pul16
    <2> QED
      BY <1>17, <2>4 DEF CPU
  <1>19. Rti(routine) = Pul16(r4, "pc")
    BY DEF Rti, r1, r2, r3, r4
  <1> QED
    BY <1>18, <1>19 DEF CPU, sp

=============================================================================
