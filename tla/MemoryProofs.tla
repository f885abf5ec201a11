---------------------------- MODULE MemoryProofs ----------------------------
(***************************************************************************)
(* The theorems about Memory, for any cells a program uses, any ports,     *)
(* pins and immediates.                                                    *)
(***************************************************************************)
EXTENDS Memory, FiniteSetTheorems, TLAPS

-----------------------------------------------------------------------------
(* A byte is the sum of what its bits are worth.                           *)
Digit(k, s) == IF k \in s THEN 1 ELSE 0

SumOf(x0, x1, x2, x3, x4, x5, x6, x7) ==
    x0 + 2 * x1 + 4 * x2 + 8 * x3 + 16 * x4 + 32 * x5 + 64 * x6 + 128 * x7

LEMMA Places ==
    /\ Place[0 + 1] = 1 /\ Place[1 + 1] = 2 /\ Place[2 + 1] = 4 /\ Place[3 + 1] = 8
    /\ Place[4 + 1] = 16 /\ Place[5 + 1] = 32 /\ Place[6 + 1] = 64 /\ Place[7 + 1] = 128
BY DEF Place

LEMMA BitOfSum ==
    ASSUME NEW x0 \in 0..1, NEW x1 \in 0..1, NEW x2 \in 0..1, NEW x3 \in 0..1,
           NEW x4 \in 0..1, NEW x5 \in 0..1, NEW x6 \in 0..1, NEW x7 \in 0..1,
           NEW n, n = SumOf(x0, x1, x2, x3, x4, x5, x6, x7)
    PROVE  /\ n \in Bytes
           /\ (n \div 1) % 2 = x0 /\ (n \div 2) % 2 = x1 /\ (n \div 4) % 2 = x2 /\ (n \div 8) % 2 = x3
           /\ (n \div 16) % 2 = x4 /\ (n \div 32) % 2 = x5 /\ (n \div 64) % 2 = x6 /\ (n \div 128) % 2 = x7
<1> USE DEF SumOf
<1>1. n \in Bytes
  BY DEF Bytes
<1>2. (n \div 1) % 2 = x0
  OBVIOUS
<1>3. (n \div 2) % 2 = x1
  OBVIOUS
<1>4. (n \div 4) % 2 = x2
  OBVIOUS
<1>5. (n \div 8) % 2 = x3
  OBVIOUS
<1>6. (n \div 16) % 2 = x4
  OBVIOUS
<1>7. (n \div 32) % 2 = x5
  OBVIOUS
<1>8. (n \div 64) % 2 = x6
  OBVIOUS
<1>9. (n \div 128) % 2 = x7
  OBVIOUS
<1> QED BY <1>1, <1>2, <1>3, <1>4, <1>5, <1>6, <1>7, <1>8, <1>9

LEMMA SumOfBits ==
    ASSUME NEW v \in Bytes
    PROVE  v = SumOf((v \div 1) % 2, (v \div 2) % 2, (v \div 4) % 2, (v \div 8) % 2,
                     (v \div 16) % 2, (v \div 32) % 2, (v \div 64) % 2, (v \div 128) % 2)
BY DEF SumOf, Bytes

LEMMA BytesOfBits ==
    ASSUME NEW s
    PROVE  Byte(s) \in Bytes /\ Bits(Byte(s)) = s \cap (0..7)
<1> DEFINE n == SumOf(Digit(0, s), Digit(1, s), Digit(2, s), Digit(3, s),
                      Digit(4, s), Digit(5, s), Digit(6, s), Digit(7, s))
<1>1. \A k : Digit(k, s) \in 0..1 /\ (Digit(k, s) = 1 <=> k \in s)
  BY DEF Digit
<1>2. Byte(s) = n
  BY Places DEF Byte, Digit, SumOf
<1> HIDE DEF n
<1>3. n = SumOf(Digit(0, s), Digit(1, s), Digit(2, s), Digit(3, s),
                Digit(4, s), Digit(5, s), Digit(6, s), Digit(7, s))
  BY DEF n
<1>4. /\ n \in Bytes
      /\ (n \div 1) % 2 = Digit(0, s) /\ (n \div 2) % 2 = Digit(1, s)
      /\ (n \div 4) % 2 = Digit(2, s) /\ (n \div 8) % 2 = Digit(3, s)
      /\ (n \div 16) % 2 = Digit(4, s) /\ (n \div 32) % 2 = Digit(5, s)
      /\ (n \div 64) % 2 = Digit(6, s) /\ (n \div 128) % 2 = Digit(7, s)
  BY <1>1, <1>3, BitOfSum
<1>5. \A k \in 0..7 : (n \div Place[k + 1]) % 2 = Digit(k, s)
  BY <1>4, Places
<1>6. Bits(n) = s \cap (0..7)
  BY <1>1, <1>5 DEF Bits
<1> QED BY <1>2, <1>4, <1>6

-----------------------------------------------------------------------------
(* Parity.  The ones of a byte are counted one bit after the other; the    *)
(* table counts those of the two halves laid over each other.              *)
LEMMA OneMoreBit ==
    ASSUME NEW s \in SUBSET (0..7), NEW j \in 0..7, NEW n \in Nat,
           IsFiniteSet(s \cap (0 .. j - 1)), Cardinality(s \cap (0 .. j - 1)) = n
    PROVE  /\ IsFiniteSet(s \cap (0 .. j))
           /\ Cardinality(s \cap (0 .. j)) = n + Digit(j, s)
<1> DEFINE below == s \cap (0 .. j - 1)
<1>1. j \notin below
  OBVIOUS
<1>2. CASE j \in s
  <2>1. s \cap (0 .. j) = below \cup {j}
    BY <1>2
  <2> QED BY <1>1, <1>2, <2>1, FS_AddElement DEF Digit
<1>3. CASE j \notin s
  <2>1. s \cap (0 .. j) = below
    BY <1>3
  <2> QED BY <1>3, <2>1 DEF Digit
<1> QED BY <1>2, <1>3

LEMMA CountOfBits ==
    ASSUME NEW s \in SUBSET (0..7)
    PROVE  Cardinality(s) = Digit(0, s) + Digit(1, s) + Digit(2, s) + Digit(3, s)
                              + Digit(4, s) + Digit(5, s) + Digit(6, s) + Digit(7, s)
<1> DEFINE Count(j, n) == IsFiniteSet(s \cap (0 .. j)) /\ Cardinality(s \cap (0 .. j)) = n
<1>1. \A k : Digit(k, s) \in 0..1
  BY DEF Digit
<1>2. ASSUME NEW j \in 0..7, NEW n \in Nat, Count(j - 1, n) PROVE Count(j, n + Digit(j, s))
  BY <1>2, OneMoreBit
<1>3. Count(-1, 0)
  <2>1. s \cap (0 .. -1) = {}
    OBVIOUS
  <2> QED BY <2>1, FS_EmptySet
<1> HIDE DEF Count
<1> DEFINE n0 == 0 + Digit(0, s)
           n1 == n0 + Digit(1, s)
           n2 == n1 + Digit(2, s)
           n3 == n2 + Digit(3, s)
           n4 == n3 + Digit(4, s)
           n5 == n4 + Digit(5, s)
           n6 == n5 + Digit(6, s)
           n7 == n6 + Digit(7, s)
<1>4. /\ n0 \in Nat /\ n1 \in Nat /\ n2 \in Nat /\ n3 \in Nat
      /\ n4 \in Nat /\ n5 \in Nat /\ n6 \in Nat
  BY <1>1
<1>5. Count(0, n0)
  BY <1>2, <1>3, 0 - 1 = -1
<1> HIDE DEF n0
<1>6. Count(1, n1)
  BY <1>2, <1>4, <1>5, 1 - 1 = 0
<1> HIDE DEF n1
<1>7. Count(2, n2)
  BY <1>2, <1>4, <1>6, 2 - 1 = 1
<1> HIDE DEF n2
<1>8. Count(3, n3)
  BY <1>2, <1>4, <1>7, 3 - 1 = 2
<1> HIDE DEF n3
<1>9. Count(4, n4)
  BY <1>2, <1>4, <1>8, 4 - 1 = 3
<1> HIDE DEF n4
<1>10. Count(5, n5)
  BY <1>2, <1>4, <1>9, 5 - 1 = 4
<1> HIDE DEF n5
<1>11. Count(6, n6)
  BY <1>2, <1>4, <1>10, 6 - 1 = 5
<1> HIDE DEF n6
<1>12. Count(7, n7)
  BY <1>2, <1>4, <1>11, 7 - 1 = 6
<1>13. s \cap (0..7) = s
  OBVIOUS
<1>14. n7 = Digit(0, s) + Digit(1, s) + Digit(2, s) + Digit(3, s)
              + Digit(4, s) + Digit(5, s) + Digit(6, s) + Digit(7, s)
  BY <1>1 DEF n0, n1, n2, n3, n4, n5, n6
<1> QED BY <1>12, <1>13, <1>14 DEF Count

LEMMA BitsOfHalves ==
    ASSUME NEW v \in Bytes
    PROVE  /\ v \div 16 \in Bytes /\ v % 16 \in Bytes
           /\ \A k \in 0..3 : /\ k \in Bits(v % 16) <=> k \in Bits(v)
                              /\ k \in Bits(v \div 16) <=> k + 4 \in Bits(v)
           /\ \A k \in 4..7 : k \notin Bits(v % 16) /\ k \notin Bits(v \div 16)
<1>1. v \div 16 \in Bytes /\ v % 16 \in Bytes
  BY DEF Bytes
<1>2. /\ ((v % 16) \div 1) % 2 = (v \div 1) % 2 /\ ((v % 16) \div 2) % 2 = (v \div 2) % 2
      /\ ((v % 16) \div 4) % 2 = (v \div 4) % 2 /\ ((v % 16) \div 8) % 2 = (v \div 8) % 2
  BY DEF Bytes
<1>3. /\ ((v \div 16) \div 1) % 2 = (v \div 16) % 2 /\ ((v \div 16) \div 2) % 2 = (v \div 32) % 2
      /\ ((v \div 16) \div 4) % 2 = (v \div 64) % 2 /\ ((v \div 16) \div 8) % 2 = (v \div 128) % 2
  BY DEF Bytes
<1>4. \A w \in 0..15 : /\ (w \div 16) % 2 = 0 /\ (w \div 32) % 2 = 0
                        /\ (w \div 64) % 2 = 0 /\ (w \div 128) % 2 = 0
  OBVIOUS
<1>5. v \div 16 \in 0..15 /\ v % 16 \in 0..15
  BY DEF Bytes
<1>6. \A k \in 0..3 : k \in Bits(v % 16) <=> k \in Bits(v)
  BY <1>2, Places DEF Bits
<1>7. \A k \in 0..3 : k \in Bits(v \div 16) <=> k + 4 \in Bits(v)
  BY <1>3, Places DEF Bits
<1>8. \A k \in 4..7 : k \notin Bits(v % 16) /\ k \notin Bits(v \div 16)
  BY <1>4, <1>5, Places DEF Bits
<1> QED BY <1>1, <1>6, <1>7, <1>8

LEMMA ParityIsOdd ==
    ASSUME NEW v \in Bytes
    PROVE  Parity(v) = Cardinality(Bits(v)) % 2
<1> DEFINE b == Bits(v)
           hi == Bits(v \div 16)
           lo == Bits(v % 16)
           s == (hi \cup lo) \ (hi \cap lo)
<1>1. b \in SUBSET (0..7) /\ s \in SUBSET (0..7)
  BY DEF Bits
<1>2. \A k \in 0..3 : k \in s <=> ~(k \in b <=> k + 4 \in b)
  BY BitsOfHalves
<1>3. \A k \in 4..7 : k \notin s
  BY BitsOfHalves
<1> HIDE DEF b, s
<1>4. Xor(v \div 16, v % 16) = Byte(s)
  BY DEF Xor, s
<1>5. /\ \A k : Digit(k, b) \in 0..1 /\ (Digit(k, b) = 1 <=> k \in b)
      /\ \A k : Digit(k, s) \in 0..1 /\ (Digit(k, s) = 1 <=> k \in s)
  BY DEF Digit
<1>6. /\ Digit(4, s) = 0 /\ Digit(5, s) = 0 /\ Digit(6, s) = 0 /\ Digit(7, s) = 0
  BY <1>3 DEF Digit
<1>7. Byte(s) = Digit(0, s) + 2 * Digit(1, s) + 4 * Digit(2, s) + 8 * Digit(3, s)
  <2>1. Byte(s) = SumOf(Digit(0, s), Digit(1, s), Digit(2, s), Digit(3, s),
                        Digit(4, s), Digit(5, s), Digit(6, s), Digit(7, s))
    BY Places DEF Byte, Digit, SumOf
  <2> QED BY <1>5, <1>6, <2>1 DEF SumOf
<1>8. Byte(s) \in OddParity <=> (Digit(0, s) + Digit(1, s) + Digit(2, s) + Digit(3, s)) % 2 = 1
  BY <1>5, <1>7 DEF OddParity
<1>9. /\ Digit(0, s) = (Digit(0, b) + Digit(4, b)) % 2 /\ Digit(1, s) = (Digit(1, b) + Digit(5, b)) % 2
      /\ Digit(2, s) = (Digit(2, b) + Digit(6, b)) % 2 /\ Digit(3, s) = (Digit(3, b) + Digit(7, b)) % 2
  <2>1. ASSUME NEW k \in 0..3 PROVE Digit(k, s) = (Digit(k, b) + Digit(k + 4, b)) % 2
    BY <1>2 DEF Digit
  <2> QED BY <2>1, 0 + 4 = 4, 1 + 4 = 5, 2 + 4 = 6, 3 + 4 = 7
<1>10. Cardinality(b) = Digit(0, b) + Digit(1, b) + Digit(2, b) + Digit(3, b)
                          + Digit(4, b) + Digit(5, b) + Digit(6, b) + Digit(7, b)
  BY <1>1, CountOfBits
<1>11. (Digit(0, s) + Digit(1, s) + Digit(2, s) + Digit(3, s)) % 2 = Cardinality(b) % 2
  BY <1>5, <1>9, <1>10
<1>12. Cardinality(b) % 2 \in {0, 1}
  BY <1>5, <1>10
<1> QED BY <1>4, <1>8, <1>11, <1>12 DEF Parity, b

-----------------------------------------------------------------------------
(* What is read and computed is a byte, whatever the operands.             *)
Memories == [Cells -> Bytes]

TypeOK == mem \in Memories /\ pout \in [Ports -> Pins]

LEMMA CombinedType ==
    ASSUME NEW v, NEW w, NEW k, NEW on
    PROVE  And(v, w) \in Bytes /\ Or(v, w) \in Bytes /\ Xor(v, w) \in Bytes
           /\ WithBit(v, k, on) \in Bytes
BY BytesOfBits DEF And, Or, Xor, WithBit

LEMMA WrapType ==
    ASSUME NEW n \in Int
    PROVE  Wrap(n) \in Bytes
BY DEF Wrap, Bytes

LEMMA ReadType ==
    ASSUME TypeOK, NEW c
    PROVE  Read(c) \subseteq Bytes
<1>1. CASE c \notin Cells
  BY <1>1 DEF Read, BadValue, Bytes
<1>2. CASE c \in Cells /\ c[1] = "sfr" /\ c[2] \in Ports
  <2>1. pout[c[2]] \in Bytes
    BY <1>2, OperandsAssumption DEF TypeOK
  <2>2. ReadPort(pout[c[2]], mem[c]) \subseteq Bytes
    BY <2>1, CombinedType DEF ReadPort
  <2> QED BY <1>2, <2>2 DEF Read
<1>3. CASE c \in Cells /\ ~(c[1] = "sfr" /\ c[2] \in Ports)
  BY <1>3 DEF Read, TypeOK, Memories
<1> QED BY <1>1, <1>2, <1>3

LEMMA Accumulator ==
    ASSUME TypeOK
    PROVE  A \in Bytes /\ mem[PSW] \in Bytes /\ mem[DPL] \in Bytes /\ mem[DPH] \in Bytes
BY CellsAssumption DEF TypeOK, Memories, A

LEMMA StoredType ==
    ASSUME NEW m \in Memories, NEW c, NEW v \in Bytes
    PROVE  [m EXCEPT ![c] = v] \in Memories
BY DEF Memories

(* tick() changes P in PSW and nothing else.                               *)
LEMMA TickedType ==
    ASSUME NEW m \in Memories
    PROVE  /\ AfterTick(m) \in Memories
           /\ \A c \in Cells \ {PSW} : AfterTick(m)[c] = m[c]
           /\ AfterTick(m)[PSW] = 2 * (m[PSW] \div 2) + Parity(m[ACC])
           /\ Parity(m[ACC]) \in {0, 1}
<1>1. PSW \in Cells /\ m[PSW] \in Bytes
  BY CellsAssumption DEF Memories
<1>2. Parity(m[ACC]) \in {0, 1}
  BY DEF Parity
<1>3. 2 * (m[PSW] \div 2) + Parity(m[ACC]) \in Bytes
  <2> DEFINE v == m[PSW]
             p == Parity(m[ACC])
  <2>1. v \in Bytes /\ p \in {0, 1}
    BY <1>1, <1>2
  <2> HIDE DEF v, p
  <2>2. 2 * (v \div 2) + p \in Bytes
    BY <2>1 DEF Bytes
  <2> QED BY <2>2 DEF v, p
<1> QED BY <1>1, <1>2, <1>3 DEF AfterTick, Memories

-----------------------------------------------------------------------------
(* The instructions, by what they leave: most of them some memory of bytes *)
(* and no bit of one; those on a bit, one bit; exchanges and JBC, which    *)
(* are looked at by themselves.                                            *)
Plainly(m, how) == \E jump : Jumps(m, how, jump)

Hows == {"a", "direct", "pointer", "register", "pointedToDirect", "external", "none"}

Simple == \E m \in Memories, how \in Hows : Plainly(m, how)

LEMMA LeavesSimple ==
    ASSUME NEW m \in Memories, NEW how \in Hows, Leaves(m, how)
    PROVE  Simple
<1>1. Plainly(m, how)
  BY Zenon DEF Leaves, Plainly
<1> QED BY <1>1 DEF Simple

LEMMA StoreSimple ==
    ASSUME TypeOK, NEW c, NEW v \in Bytes, NEW how \in Hows, Store(c, v, how)
    PROVE  Simple
<1>1. [mem EXCEPT ![c] = v] \in Memories
  BY StoredType DEF TypeOK
<1> QED BY <1>1, LeavesSimple DEF Store

LEMMA JumpSimple ==
    ASSUME NEW m \in Memories, NEW how \in Hows, NEW jump, Jumps(m, how, jump)
    PROVE  Simple
<1>1. Plainly(m, how)
  BY Zenon DEF Plainly
<1> QED BY <1>1 DEF Simple

LEMMA MovesSimple ==
    ASSUME TypeOK,
           \/ MoveToA \/ MoveToDirect \/ MoveToPointed \/ MoveToRegister
           \/ \E c \in DirectCells, i \in {0, 1} : MovePointedToDirect(c[2], i)
    PROVE  Simple
<1> USE DEF Hows
<1>0. A \in Bytes /\ Immediates \subseteq Bytes
  BY Accumulator, OperandsAssumption
<1>1. CASE MoveToA
  BY <1>1, StoreSimple, ReadType DEF MoveToA
<1>2. CASE MoveToDirect
  BY <1>0, <1>2, StoreSimple, ReadType DEF MoveToDirect
<1>3. CASE MoveToPointed
  BY <1>0, <1>3, StoreSimple, ReadType DEF MoveToPointed
<1>4. CASE MoveToRegister
  BY <1>0, <1>4, StoreSimple, ReadType DEF MoveToRegister
<1>5. ASSUME NEW a, NEW i, MovePointedToDirect(a, i) PROVE Simple
  BY <1>5, StoreSimple, ReadType DEF MovePointedToDirect
<1> QED BY <1>1, <1>2, <1>3, <1>4, <1>5

LEMMA LogicSimple ==
    ASSUME TypeOK,
           ChangeA \/ CombineImmediate \/ CombineFrom \/ CombineRegister \/ CombineIntoDirect
    PROVE  Simple
<1> USE DEF Hows
<1>0. A \in Bytes /\ Not(A) \in Bytes /\ 0 \in Bytes
  BY Accumulator DEF Not, Bytes
<1>1. CASE ChangeA
  BY <1>0, <1>1, StoreSimple DEF ChangeA
<1>2. ASSUME NEW w, CombineIntoA(w) PROVE Simple
  BY <1>2, StoreSimple, CombinedType DEF CombineIntoA, Combined
<1>3. CASE CombineImmediate \/ CombineFrom \/ CombineRegister
  BY <1>2, <1>3 DEF CombineImmediate, CombineFrom, CombineRegister
<1>4. CASE AndInto \/ XorInto \/ OrInto
  BY <1>4, StoreSimple, CombinedType DEF AndInto, XorInto, OrInto
<1>5. CASE CombineConstant
  BY <1>5, StoreSimple, CombinedType DEF CombineConstant, Combined
<1> QED BY <1>1, <1>3, <1>4, <1>5 DEF CombineIntoDirect

LEMMA CountsSimple ==
    ASSUME TypeOK,
           \/ \E step \in {1, -1} : CountDirect(step) \/ CountPointed(step) \/ CountRegister(step)
           \/ DecrementDirect \/ DecrementRegister
    PROVE  Simple
<1> USE DEF Hows
<1>0. ASSUME NEW v \in Bytes, NEW step \in {1, -1} PROVE Wrap(v + step) \in Bytes
  <2>1. v + step \in Int
    BY DEF Bytes
  <2> QED BY <2>1, WrapType
<1>1. ASSUME NEW c, NEW v \in Read(c), NEW step \in {1, -1} PROVE Wrap(v + step) \in Bytes
  <2>1. v \in Bytes
    BY ReadType
  <2> QED BY <1>0, <2>1
<1>2. ASSUME NEW c \in Cells, NEW step \in {1, -1} PROVE Wrap(mem[c] + step) \in Bytes
  <2>1. mem[c] \in Bytes
    BY DEF TypeOK, Memories
  <2> QED BY <1>0, <2>1
<1>3. ASSUME NEW step \in {1, -1}, CountDirect(step) PROVE Simple
  BY <1>1, <1>3, StoreSimple DEF CountDirect
<1>4. ASSUME NEW step \in {1, -1}, CountPointed(step) PROVE Simple
  BY <1>1, <1>4, StoreSimple DEF CountPointed
<1>5. ASSUME NEW step \in {1, -1}, CountRegister(step) PROVE Simple
  <2>1. PICK c \in Registers : Store(c, Wrap(mem[c] + step), "register")
    BY <1>5 DEF CountRegister
  <2>2. c \in Cells
    BY DEF Registers
  <2> QED BY <1>2, <2>1, <2>2, StoreSimple
<1>6. ASSUME NEW c, NEW v, Wrap(v - 1) \in Bytes, NEW how \in Hows, DecrementAndJump(c, v, how)
      PROVE  Simple
  <2>1. [mem EXCEPT ![c] = Wrap(v - 1)] \in Memories
    BY <1>6, StoredType DEF TypeOK
  <2>2. Plainly([mem EXCEPT ![c] = Wrap(v - 1)], how)
    BY <1>6, Zenon DEF DecrementAndJump, Plainly
  <2> QED BY <2>1, <2>2 DEF Simple
<1>7. \A v \in Int : v - 1 = v + (-1)
  OBVIOUS
<1>8. CASE DecrementDirect
  <2>1. PICK c \in DirectCells : \E v \in Read(c) : DecrementAndJump(c, v, "direct")
    BY <1>8 DEF DecrementDirect
  <2>2. PICK v \in Read(c) : DecrementAndJump(c, v, "direct")
    BY <2>1
  <2>3. Wrap(v - 1) \in Bytes
    BY <1>1, <1>7, ReadType DEF Bytes
  <2> QED BY <1>6, <2>2, <2>3
<1>9. CASE DecrementRegister
  <2>1. PICK c \in Registers : DecrementAndJump(c, mem[c], "register")
    BY <1>9 DEF DecrementRegister
  <2>2. c \in Cells /\ mem[c] \in Int
    BY DEF Registers, TypeOK, Memories, Bytes
  <2>3. Wrap(mem[c] - 1) \in Bytes
    BY <1>2, <1>7, <2>2
  <2> QED BY <1>6, <2>1, <2>3
<1> QED BY <1>3, <1>4, <1>5, <1>8, <1>9

(* The tests of bits and what they do to the carry.                        *)
LEMMA BitTestsSimple ==
    ASSUME TypeOK, NEW b \in BitAddresses,
           \/ MoveBitToCarry(b) \/ OrBit(b) \/ OrNotBit(b) \/ AndBit(b) \/ AndNotBit(b)
           \/ JumpIfBit(b) \/ JumpIfNotBit(b)
    PROVE  Simple
<1> USE DEF Hows
<1>1. ASSUME NEW on, IntoCarry(on) PROVE Simple
  <2>1. WithCarry(mem, on) \in Memories
    BY CombinedType DEF WithCarry, TypeOK, Memories
  <2> QED BY <1>1, <2>1, LeavesSimple DEF IntoCarry
<1>2. CASE MoveBitToCarry(b) \/ OrBit(b) \/ OrNotBit(b) \/ AndBit(b) \/ AndNotBit(b)
  BY <1>1, <1>2, Zenon DEF MoveBitToCarry, OrBit, OrNotBit, AndBit, AndNotBit
<1>3. mem \in Memories
  BY DEF TypeOK
<1>4. ASSUME NEW jump, Jumps(mem, "none", jump) PROVE Simple
  BY <1>3, <1>4, JumpSimple
<1>5. CASE JumpIfBit(b) \/ JumpIfNotBit(b)
  BY <1>4, <1>5, Zenon DEF JumpIfBit, JumpIfNotBit
<1> QED BY <1>2, <1>5

LEMMA CarrySimple ==
    ASSUME TypeOK, CarryAlone \/ JumpOnCarry \/ JumpOnA
    PROVE  Simple
<1> USE DEF Hows
<1>1. CASE CarryAlone
  <2>1. PICK on \in BOOLEAN : IntoCarry(on)
    BY <1>1 DEF CarryAlone
  <2>2. WithCarry(mem, on) \in Memories
    BY CombinedType DEF WithCarry, TypeOK, Memories
  <2> QED BY <2>1, <2>2, LeavesSimple DEF IntoCarry
<1>2. ASSUME NEW jump, Jumps(mem, "none", jump) PROVE Simple
  BY <1>2, JumpSimple DEF TypeOK
<1>3. CASE JumpOnCarry
  BY <1>2, <1>3, Zenon DEF JumpOnCarry
<1>4. CASE JumpOnA
  BY <1>2, <1>4, Zenon DEF JumpOnA
<1> QED BY <1>1, <1>3, <1>4

LEMMA DigitSimple ==
    ASSUME TypeOK, ExchangeDigit
    PROVE  Simple
<1>1. PICK c \in Pointed : \E v \in Read(c) :
        LET a == 16 * (A \div 16) + (v % 16)
        IN  Leaves([mem EXCEPT ![ACC] = a, ![c] = 16 * (v \div 16) + (a % 16)], "pointer")
  BY DEF ExchangeDigit
<1>2. PICK v \in Read(c) :
        LET a == 16 * (A \div 16) + (v % 16)
        IN  Leaves([mem EXCEPT ![ACC] = a, ![c] = 16 * (v \div 16) + (a % 16)], "pointer")
  BY <1>1
<1>3. ASSUME NEW x \in Bytes, NEW y \in Bytes PROVE 16 * (x \div 16) + (y % 16) \in Bytes
  BY DEF Bytes
<1> DEFINE a == 16 * (A \div 16) + (v % 16)
           low == 16 * (v \div 16) + (a % 16)
<1>4. a \in Bytes /\ low \in Bytes
  BY <1>3, Accumulator, ReadType
<1>5. Leaves([mem EXCEPT ![ACC] = a, ![c] = low], "pointer")
  BY <1>2
<1> HIDE DEF a, low
<1>6. [mem EXCEPT ![ACC] = a, ![c] = low] \in Memories
  BY <1>4 DEF TypeOK, Memories
<1> QED BY <1>5, <1>6, LeavesSimple DEF Hows

LEMMA DptrSimple ==
    ASSUME TypeOK, LoadDptr \/ IncrementDptr
    PROVE  Simple
<1>1. CASE LoadDptr
  <2>1. PICK hi \in Immediates, lo \in Immediates :
          Leaves([mem EXCEPT ![DPH] = hi, ![DPL] = lo], "direct")
    BY <1>1 DEF LoadDptr
  <2>2. [mem EXCEPT ![DPH] = hi, ![DPL] = lo] \in Memories
    BY OperandsAssumption DEF TypeOK, Memories
  <2> QED BY <2>1, <2>2, LeavesSimple DEF Hows
<1>2. CASE IncrementDptr
  <2> DEFINE lo == Wrap(mem[DPL] + 1)
             m == [mem EXCEPT ![DPL] = lo, ![DPH] = IF lo = 0 THEN Wrap(@ + 1) ELSE @]
  <2>1. \A v \in Bytes : Wrap(v + 1) \in Bytes
    <3>1. \A v \in Bytes : v + 1 \in Int
      BY DEF Bytes
    <3> QED BY <3>1, WrapType
  <2>2. lo \in Bytes
    BY <2>1, Accumulator
  <2>3. Leaves(m, "direct")
    BY <1>2 DEF IncrementDptr
  <2> HIDE DEF lo
  <2>4. m \in Memories
    BY <2>1, <2>2 DEF TypeOK, Memories
  <2> QED BY <2>3, <2>4, LeavesSimple DEF Hows
<1> QED BY <1>1, <1>2

(* An external address is taken modulo the size of the memory there is.    *)
LEMMA ExternalCells ==
    ASSUME TypeOK
    PROVE  External \subseteq Cells
<1>1. PICK n \in {1, 2, 4, 8, 16, 32, 64, 128, 256} :
        Cells \cap ({"ext"} \X Bytes) = {"ext"} \X (0 .. n - 1)
  BY CellsAssumption
<1>2. {c \in Cells : c[1] = "ext"} = {"ext"} \X (0 .. n - 1)
  <2>1. \A c \in Cells : c[1] = "ext" <=> c \in {"ext"} \X Bytes
    BY CellsAssumption
  <2> QED BY <1>1, <2>1
<1>3. ExternalSize = n
  <2>1. IsFiniteSet({"ext"}) /\ Cardinality({"ext"}) = 1
    BY FS_Singleton
  <2>2. IsFiniteSet(0 .. n - 1) /\ Cardinality(0 .. n - 1) = n
    BY FS_Interval
  <2> DEFINE indices == 0 .. n - 1
  <2> HIDE DEF indices
  <2>3. Cardinality({"ext"} \X indices) = Cardinality({"ext"}) * Cardinality(indices)
    BY <2>1, <2>2, FS_Product DEF indices
  <2>4. ExternalSize = Cardinality({"ext"} \X indices)
    BY <1>2 DEF ExternalSize, indices
  <2>5. n \in Nat
    OBVIOUS
  <2> QED BY <2>1, <2>2, <2>3, <2>4, <2>5 DEF indices
<1>4. \A a \in Nat : <<"ext", a % n>> \in Cells
  BY <1>1
<1>5. 256 * mem[DPH] + mem[DPL] \in Nat
  <2>1. \A x \in Bytes, y \in Bytes : 256 * x + y \in Nat
    BY DEF Bytes
  <2> QED BY <2>1, Accumulator
<1>6. \A i \in RegisterNumbers : Register(i) \in Cells => mem[Register(i)] \in Nat
  BY DEF TypeOK, Memories, Bytes
<1> QED BY <1>3, <1>4, <1>5, <1>6 DEF External

LEMMA ExternalSimple ==
    ASSUME TypeOK, ReadExternal \/ WriteExternal
    PROVE  Simple
<1>1. CASE ReadExternal
  <2>1. PICK c \in External : Store(ACC, mem[c], "a")
    BY <1>1 DEF ReadExternal
  <2>2. mem[c] \in Bytes
    BY ExternalCells DEF TypeOK, Memories
  <2> QED BY <2>1, <2>2, StoreSimple DEF Hows
<1>2. CASE WriteExternal
  BY <1>2, Accumulator, StoreSimple DEF WriteExternal, Hows
<1> QED BY <1>1, <1>2

(* The instructions that write one bit.                                    *)
BitWritten == \E b \in BitAddresses : \E on : Leaves(WriteBit(b, on), "bit")

Exchanged == \E c : \E how \in Hows : Exchange(c, how)

LEMMA InstructionKinds ==
    ASSUME TypeOK, Instruction
    PROVE  Simple \/ BitWritten \/ Exchanged \/ \E b \in BitAddresses : JumpAndClear(b)
<1>1. CASE \/ MoveToA \/ MoveToDirect \/ MoveToPointed \/ MoveToRegister
           \/ \E c \in DirectCells, i \in {0, 1} : MovePointedToDirect(c[2], i)
  BY <1>1, MovesSimple
<1>2. CASE ChangeA \/ CombineImmediate \/ CombineFrom \/ CombineRegister \/ CombineIntoDirect
  BY <1>2, LogicSimple
<1>3. CASE \/ \E step \in {1, -1} : CountDirect(step) \/ CountPointed(step) \/ CountRegister(step)
           \/ DecrementDirect \/ DecrementRegister
  BY <1>3, CountsSimple
<1>4. CASE Exchanges
  <2>1. ASSUME NEW c, NEW how \in Hows, Exchange(c, how) PROVE Exchanged
    BY <2>1 DEF Exchanged
  <2>2. "direct" \in Hows /\ "pointer" \in Hows /\ "register" \in Hows
    BY DEF Hows
  <2> QED BY <1>4, <2>1, <2>2 DEF Exchanges
<1>5. CASE ExchangeDigit
  BY <1>5, DigitSimple
<1>6. ASSUME NEW b \in BitAddresses,
             SetBit(b) \/ ClearBit(b) \/ ComplementBit(b) \/ MoveCarryToBit(b)
      PROVE  BitWritten
  BY <1>6, Zenon DEF SetBit, ClearBit, ComplementBit, MoveCarryToBit, BitWritten
<1>7. ASSUME NEW b \in BitAddresses,
             \/ MoveBitToCarry(b) \/ OrBit(b) \/ OrNotBit(b) \/ AndBit(b) \/ AndNotBit(b)
             \/ JumpIfBit(b) \/ JumpIfNotBit(b)
      PROVE  Simple
  BY <1>7, BitTestsSimple
<1>8. CASE CarryAlone \/ JumpOnCarry \/ JumpOnA
  BY <1>8, CarrySimple
<1>9. CASE LoadDptr \/ IncrementDptr
  BY <1>9, DptrSimple
<1>10. CASE ReadExternal \/ WriteExternal
  BY <1>10, ExternalSimple
<1> QED BY <1>1, <1>2, <1>3, <1>4, <1>5, <1>6, <1>7, <1>8, <1>9, <1>10 DEF Instruction

-----------------------------------------------------------------------------
(* Whatever the instruction, memory is left as tick() leaves some bytes.   *)
LEMMA WriteBitType ==
    ASSUME TypeOK, NEW b, NEW on
    PROVE  WriteBit(b, on) \in Memories
BY CombinedType DEF WriteBit, TypeOK, Memories

LEMMA ClearedType ==
    ASSUME TypeOK, NEW c, NEW k
    PROVE  Cleared(mem, c, k) \in Memories
BY CombinedType DEF Cleared, TypeOK, Memories

LEMMA SwappedType ==
    ASSUME TypeOK, NEW c, NEW v \in Bytes
    PROVE  Swapped(mem, c, v) \in Memories
BY CellsAssumption DEF Swapped, TypeOK, Memories

LEMMA LeftByTick ==
    ASSUME TypeOK, Instruction
    PROVE  /\ \E m \in Memories : mem' = AfterTick(m)
           /\ pout' = pout
<1>1. CASE Simple
  BY <1>1 DEF Simple, Plainly, Jumps, Ends
<1>2. CASE BitWritten
  BY <1>2, WriteBitType DEF BitWritten, Leaves, Jumps, Ends
<1>3. CASE Exchanged
  BY <1>3, ReadType, SwappedType DEF Exchanged, Exchange, Ends
<1>4. ASSUME NEW b \in BitAddresses, JumpAndClear(b)
      PROVE  (\E m \in Memories : mem' = AfterTick(m)) /\ pout' = pout
  <2>1. mem \in Memories
    BY DEF TypeOK
  <2> QED BY <1>4, <2>1, ClearedType DEF JumpAndClear, Ends
<1> QED BY <1>1, <1>2, <1>3, <1>4, InstructionKinds

LEMMA BytesKept == TypeOK /\ [Next]_vars => TypeOK'
<1> SUFFICES ASSUME TypeOK, [Next]_vars PROVE TypeOK'
  OBVIOUS
<1>1. CASE Instruction
  BY <1>1, LeftByTick, TickedType DEF TypeOK
<1>2. CASE DevicesDrive
  BY <1>2 DEF DevicesDrive, TypeOK
<1>3. CASE UNCHANGED vars
  BY <1>3 DEF vars, TypeOK
<1> QED BY <1>1, <1>2, <1>3 DEF Next

LEMMA StartType == Init => TypeOK
<1> SUFFICES ASSUME Init PROVE TypeOK
  OBVIOUS
<1>1. PICK m \in Start : mem = AfterTick(m)
  BY DEF Init
<1>2. m \in Memories
  BY StartAssumption DEF Memories
<1> QED BY <1>1, <1>2, TickedType DEF Init, TypeOK

(* Memory holds bytes, of any cells the program uses; so the reads of the  *)
(* ports and of what is not there.                                         *)
THEOREM MemoryHoldsBytes == Spec => []TypeOK
<1> QED BY StartType, BytesKept, PTL DEF Spec

(* P is the parity of A after every instruction of any program.            *)
LEMMA TickSetsParity ==
    ASSUME NEW m \in Memories
    PROVE  AfterTick(m)[PSW] % 2 = Cardinality(Bits(AfterTick(m)[ACC])) % 2
<1>1. ACC \in Cells \ {PSW} /\ PSW \in Cells
  BY CellsAssumption DEF ACC, PSW
<1>2. AfterTick(m)[ACC] = m[ACC] /\ m[ACC] \in Bytes
  BY <1>1, TickedType DEF Memories
<1>3. AfterTick(m)[PSW] % 2 = Parity(m[ACC])
  <2> DEFINE v == m[PSW]
             p == Parity(m[ACC])
  <2>1. v \in Bytes /\ p \in {0, 1} /\ AfterTick(m)[PSW] = 2 * (v \div 2) + p
    BY <1>1, TickedType DEF Memories
  <2> HIDE DEF v, p
  <2>2. (2 * (v \div 2) + p) % 2 = p
    BY <2>1 DEF Bytes
  <2> QED BY <2>1, <2>2 DEF p
<1> QED BY <1>2, <1>3, ParityIsOdd

THEOREM ParityFollowsA == Spec => []ParityOfA
<1>1. Init => ParityOfA
  <2> SUFFICES ASSUME Init PROVE ParityOfA
    OBVIOUS
  <2>1. PICK m \in Memories : mem = AfterTick(m)
    BY StartAssumption DEF Init, Memories
  <2> QED BY <2>1, TickSetsParity DEF ParityOfA, A
<1>2. TypeOK /\ ParityOfA /\ [Next]_vars => ParityOfA'
  <2> SUFFICES ASSUME TypeOK, ParityOfA, [Next]_vars PROVE ParityOfA'
    OBVIOUS
  <2>1. CASE Instruction
    <3>1. PICK m \in Memories : mem' = AfterTick(m)
      BY <2>1, LeftByTick
    <3> QED BY <3>1, TickSetsParity DEF ParityOfA, A
  <2>2. CASE UNCHANGED mem
    BY <2>2 DEF ParityOfA, A
  <2> QED BY <2>1, <2>2 DEF Next, DevicesDrive, vars
<1> QED BY <1>1, <1>2, MemoryHoldsBytes, PTL DEF Spec

-----------------------------------------------------------------------------
(* What an instruction does to a bit, up to P.                             *)
LEMMA TickedBits ==
    ASSUME NEW m \in Memories
    PROVE  /\ \A c \in Cells \ {PSW} : Bits(AfterTick(m)[c]) = Bits(m[c])
           /\ \A k \in 1..7 : k \in Bits(AfterTick(m)[PSW]) <=> k \in Bits(m[PSW])
<1>1. \A c \in Cells \ {PSW} : Bits(AfterTick(m)[c]) = Bits(m[c])
  BY TickedType
<1> DEFINE v == m[PSW]
           w == AfterTick(m)[PSW]
<1>2. PICK p \in {0, 1} : w = 2 * (v \div 2) + p
  BY TickedType
<1>3. v \in Bytes
  BY CellsAssumption DEF Memories
<1> HIDE DEF v, w
<1>4. /\ w \div 2 = v \div 2 /\ w \div 4 = v \div 4 /\ w \div 8 = v \div 8
      /\ w \div 16 = v \div 16 /\ w \div 32 = v \div 32
      /\ w \div 64 = v \div 64 /\ w \div 128 = v \div 128
  <2>1. w \in Int /\ v \in Int
    BY <1>2, <1>3 DEF Bytes
  <2>2. w \div 2 = v \div 2
    BY <1>2, <2>1
  <2>3. \A x \in Int : /\ x \div 4 = (x \div 2) \div 2 /\ x \div 8 = (x \div 2) \div 4
                      /\ x \div 16 = (x \div 2) \div 8 /\ x \div 32 = (x \div 2) \div 16
                      /\ x \div 64 = (x \div 2) \div 32 /\ x \div 128 = (x \div 2) \div 64
    OBVIOUS
  <2> QED BY <2>1, <2>2, <2>3
<1>5. \A k \in 1..7 : (w \div Place[k + 1]) % 2 = (v \div Place[k + 1]) % 2
  BY <1>4, Places
<1>6. \A k \in 1..7 : k \in Bits(w) <=> k \in Bits(v)
  BY <1>5 DEF Bits
<1> QED BY <1>1, <1>6 DEF v, w

LEMMA TickLeavesLocks ==
    ASSUME NEW m \in Memories, NEW b \in Locks
    PROVE  IsSet(AfterTick(m), b) <=> IsSet(m, b)
<1>1. b \in Bytes /\ b # ParityBit /\ BitCell(b) \in Cells
  BY BitsAssumption, OperandsAssumption
<1>2. b % 8 \in 0..7
  BY <1>1 DEF Bytes
<1>3. CASE BitCell(b) = PSW
  <2>1. b % 8 # 0
    BY <1>1, <1>3 DEF BitCell, PSW, ParityBit, Bytes
  <2>2. b % 8 \in 1..7
    BY <1>2, <2>1
  <2> QED BY <1>3, <2>2, TickedBits DEF IsSet
<1>4. CASE BitCell(b) # PSW
  BY <1>1, <1>4, TickedBits DEF IsSet
<1> QED BY <1>3, <1>4

LEMMA ClearedBits ==
    ASSUME TypeOK, NEW c \in Cells, NEW k \in 0..7
    PROVE  /\ \A d \in Cells : Bits(Cleared(mem, c, k)[d]) \subseteq Bits(mem[d])
           /\ k \notin Bits(Cleared(mem, c, k)[c])
<1>1. Bits(WithBit(mem[c], k, FALSE)) = (Bits(mem[c]) \ {k}) \cap (0..7)
  BY BytesOfBits DEF WithBit
<1> QED BY <1>1 DEF Cleared, TypeOK, Memories

(* A lock that was taken is clear until it is set, which counts it as free *)
(* again: JBC finds it set only then.  P could not be one: tick() sets it. *)
TakenAreClear ==
    /\ granted \in [Locks -> 0..1]
    /\ \A b \in Locks : granted[b] = 1 => ~IsSet(mem, b)

LEMMA LocksSetKeep ==
    ASSUME TakenAreClear, LocksSet
    PROVE  TakenAreClear'
<1>1. \A b \in Locks : granted'[b] = (IF ~IsSet(mem, b) /\ IsSet(mem', b) THEN 0 ELSE granted[b])
  BY DEF LocksSet
<1>2. granted' \in [Locks -> 0..1]
  BY <1>1 DEF LocksSet, TakenAreClear
<1>3. \A b \in Locks : granted'[b] = 1 => ~IsSet(mem', b)
  BY <1>1 DEF TakenAreClear
<1> QED BY <1>2, <1>3 DEF TakenAreClear, IsSet

LEMMA TakingKeeps ==
    ASSUME TypeOK, TakenAreClear, NEW b \in BitAddresses, JumpAndClear(b)
    PROVE  TakenAreClear'
<1> DEFINE c == BitCell(b)
           m == IF IsSet(mem, b) THEN Cleared(mem, c, b % 8) ELSE mem
<1>1. c \in Cells /\ b % 8 \in 0..7
  BY BitsAssumption, OperandsAssumption DEF Bytes
<1>2. /\ mem' = AfterTick(m)
      /\ granted' = IF IsSet(mem, b) /\ b \in Locks THEN [granted EXCEPT ![b] = @ + 1] ELSE granted
  BY DEF JumpAndClear, Ends, Latch, IsSet
<1>3. m \in Memories
  BY ClearedType DEF TypeOK
<1>4. \A d \in Cells : Bits(m[d]) \subseteq Bits(mem[d])
  BY <1>1, ClearedBits
<1>5. IsSet(mem, b) => ~IsSet(m, b)
  BY <1>1, ClearedBits DEF IsSet
<1> HIDE DEF m
<1>6. \A l \in Locks : BitCell(l) \in Cells
  BY BitsAssumption
<1>7. \A l \in Locks : IsSet(mem', l) <=> IsSet(m, l)
  BY <1>2, <1>3, TickLeavesLocks
<1>8. \A l \in Locks : IsSet(m, l) => IsSet(mem, l)
  BY <1>4, <1>6 DEF IsSet
<1>9. CASE IsSet(mem, b) /\ b \in Locks
  <2>1. granted[b] = 0
    BY <1>9 DEF TakenAreClear
  <2>2. granted' = [granted EXCEPT ![b] = 1]
    BY <1>2, <1>9, <2>1
  <2>3. granted' \in [Locks -> 0..1]
    <3>1. granted \in [Locks -> 0..1] /\ 1 \in 0..1
      BY DEF TakenAreClear
    <3> QED BY ONLY <1>9, <2>2, <3>1
  <2>4. \A l \in Locks : granted'[l] = 1 => ~IsSet(mem', l)
    BY <1>5, <1>7, <1>8, <1>9, <2>2 DEF TakenAreClear
  <2> QED BY <2>3, <2>4 DEF TakenAreClear, IsSet
<1>10. CASE ~(IsSet(mem, b) /\ b \in Locks)
  <2>1. granted' = granted
    BY <1>2, <1>10
  <2>2. \A l \in Locks : granted'[l] = 1 => ~IsSet(mem', l)
    BY <1>7, <1>8, <2>1 DEF TakenAreClear
  <2> QED BY <2>1, <2>2 DEF TakenAreClear, IsSet
<1> QED BY <1>9, <1>10

LEMMA TakenStayClear == TypeOK /\ TakenAreClear /\ [Next]_vars => TakenAreClear'
<1> SUFFICES ASSUME TypeOK, TakenAreClear, [Next]_vars PROVE TakenAreClear'
  OBVIOUS
<1>1. CASE Instruction
  <2>1. CASE Simple \/ BitWritten \/ Exchanged
    <3>1. LocksSet
      BY <2>1 DEF Simple, Plainly, BitWritten, Leaves, Jumps, Exchanged, Exchange
    <3> QED BY <3>1, LocksSetKeep
  <2> QED BY <1>1, <2>1, TakingKeeps, InstructionKinds
<1>2. CASE UNCHANGED <<mem, granted>>
  BY <1>2 DEF TakenAreClear, IsSet
<1> QED BY <1>1, <1>2 DEF Next, DevicesDrive, vars, history

(* A lock that JBC took is not taken again until the program set it.       *)
THEOREM LocksAreTakenOnce == Spec => []LockGrantedOnce
<1>1. Init => TakenAreClear
  BY DEF Init, TakenAreClear
<1>2. TakenAreClear => LockGrantedOnce
  BY DEF TakenAreClear, LockGrantedOnce
<1> QED BY <1>1, <1>2, TakenStayClear, MemoryHoldsBytes, PTL DEF Spec

-----------------------------------------------------------------------------
(* What a step changed of a byte, bit by bit: the other bits of a byte.    *)
Changed(c) == Bits(Xor(mem[c], mem'[c]))

Differ(v, w) == {k \in 0..7 : ~(k \in Bits(v) <=> k \in Bits(w))}

LEMMA BitsOfXor ==
    ASSUME NEW v, NEW w
    PROVE  Bits(Xor(v, w)) = Differ(v, w)
<1>1. Bits(v) \subseteq 0..7 /\ Bits(w) \subseteq 0..7
  BY DEF Bits
<1>2. Bits(Xor(v, w)) = ((Bits(v) \cup Bits(w)) \ (Bits(v) \cap Bits(w))) \cap (0..7)
  BY BytesOfBits DEF Xor
<1> QED BY <1>1, <1>2 DEF Differ

LEMMA OneBitWritten ==
    ASSUME TypeOK, NEW b \in BitAddresses, NEW on, NEW c \in Cells,
           NEW m, m = [mem EXCEPT ![BitCell(b)] = WithBit(mem[BitCell(b)], b % 8, on)],
           mem' = AfterTick(m)
    PROVE  Changed(c) \subseteq (IF c = BitCell(b) THEN {b % 8} ELSE {}) \cup (IF c = PSW THEN {0} ELSE {})
<1> DEFINE k == b % 8
<1>1. k \in 0..7 /\ BitCell(b) \in Cells
  BY BitsAssumption, OperandsAssumption DEF Bytes
<1> HIDE DEF k
<1>2. m \in Memories
  BY CombinedType DEF TypeOK, Memories
<1>3. \A j \in (0..7) \ {k} : j \in Bits(WithBit(mem[BitCell(b)], k, on)) <=> j \in Bits(mem[BitCell(b)])
  <2>1. \A j \in (0..7) \ {k} : j \in Bits(Byte(Bits(mem[BitCell(b)]) \cup {k})) <=> j \in Bits(mem[BitCell(b)])
    BY BytesOfBits
  <2>2. \A j \in (0..7) \ {k} : j \in Bits(Byte(Bits(mem[BitCell(b)]) \ {k})) <=> j \in Bits(mem[BitCell(b)])
    BY BytesOfBits
  <2> QED BY <2>1, <2>2 DEF WithBit
<1>4. Differ(mem[c], m[c]) \subseteq IF c = BitCell(b) THEN {k} ELSE {}
  <2>1. CASE c = BitCell(b)
    <3>1. m[c] = WithBit(mem[BitCell(b)], k, on)
      BY <1>1, <2>1 DEF TypeOK, Memories, k
    <3> QED BY <1>3, <2>1, <3>1 DEF Differ
  <2>2. CASE c # BitCell(b)
    <3>1. m[c] = mem[c]
      BY <2>2 DEF TypeOK, Memories
    <3> QED BY <2>2, <3>1 DEF Differ
  <2> QED BY <2>1, <2>2
<1>5. Differ(m[c], mem'[c]) \subseteq IF c = PSW THEN {0} ELSE {}
  <2>1. CASE c = PSW
    <3>1. \A j \in 1..7 : j \in Bits(mem'[c]) <=> j \in Bits(m[c])
      BY <1>2, <2>1, TickedBits
    <3> QED BY <2>1, <3>1 DEF Differ
  <2>2. CASE c # PSW
    <3>1. Bits(mem'[c]) = Bits(m[c])
      BY <1>2, <2>2, TickedBits
    <3> QED BY <2>2, <3>1 DEF Differ
  <2> QED BY <2>1, <2>2
<1>6. Differ(mem[c], mem'[c]) \subseteq Differ(mem[c], m[c]) \cup Differ(m[c], mem'[c])
  BY DEF Differ
<1>7. Changed(c) = Differ(mem[c], mem'[c])
  BY BitsOfXor DEF Changed
<1> QED BY <1>4, <1>5, <1>6, <1>7 DEF k

LEMMA NothingWritten ==
    ASSUME TypeOK, NEW c \in Cells, mem' = AfterTick(mem)
    PROVE  Changed(c) \subseteq IF c = PSW THEN {0} ELSE {}
<1>1. mem \in Memories
  BY DEF TypeOK
<1>2. CASE c = PSW
  <2>1. \A j \in 1..7 : j \in Bits(mem'[c]) <=> j \in Bits(mem[c])
    BY <1>1, <1>2, TickedBits
  <2> QED BY <1>2, <2>1, BitsOfXor DEF Differ, Changed
<1>3. CASE c # PSW
  <2>1. Bits(mem'[c]) = Bits(mem[c])
    BY <1>1, <1>3, TickedBits
  <2> QED BY <1>3, <2>1, BitsOfXor DEF Differ, Changed
<1> QED BY <1>2, <1>3

OneBit(b) == \A c \in Cells :
    Changed(c) \subseteq (IF c = BitCell(b) THEN {b % 8} ELSE {}) \cup (IF c = PSW THEN {0} ELSE {})

LEMMA BitKinds ==
    ASSUME TypeOK, Instruction, by' = "bit"
    PROVE  \E b \in BitAddresses : OneBit(b)
<1>1. ASSUME Simple PROVE FALSE
  BY <1>1 DEF Simple, Plainly, Jumps, Ends, Hows
<1>2. ASSUME Exchanged PROVE FALSE
  BY <1>2 DEF Exchanged, Exchange, Ends, Hows
<1>3. ASSUME NEW b \in BitAddresses, NEW on, Leaves(WriteBit(b, on), "bit")
      PROVE  OneBit(b)
  <2> DEFINE m == [mem EXCEPT ![BitCell(b)] = WithBit(mem[BitCell(b)], b % 8, on)]
  <2>1. mem' = AfterTick(m)
    BY <1>3 DEF Leaves, Jumps, Ends, WriteBit, Latch
  <2> QED BY <2>1, OneBitWritten DEF OneBit
<1>4. ASSUME NEW b \in BitAddresses, JumpAndClear(b)
      PROVE  OneBit(b)
  <2>1. CASE IsSet(mem, b)
    <3> DEFINE m == [mem EXCEPT ![BitCell(b)] = WithBit(mem[BitCell(b)], b % 8, FALSE)]
    <3>1. mem' = AfterTick(m)
      BY <1>4, <2>1 DEF JumpAndClear, Ends, Latch, IsSet, Cleared
    <3> QED BY <3>1, OneBitWritten DEF OneBit
  <2>2. CASE ~IsSet(mem, b)
    <3>1. mem' = AfterTick(mem)
      BY <1>4, <2>2 DEF JumpAndClear, Ends, Latch, IsSet
    <3> QED BY <3>1, NothingWritten DEF OneBit
  <2> QED BY <2>1, <2>2
<1> QED BY <1>1, <1>2, <1>3, <1>4, InstructionKinds DEF BitWritten

(* An instruction on one bit changes no other, of a port's latch neither,  *)
(* whatever its pins are.                                                  *)
THEOREM BitsAreWrittenAlone == Spec => OtherBitsKept
<1>1. TypeOK /\ [Next]_vars =>
        [by' = "bit" /\ ops' # ops => \E b \in BitAddresses : OneBit(b)]_vars
  <2> SUFFICES ASSUME TypeOK, [Next]_vars, by' = "bit", ops' # ops
               PROVE  \E b \in BitAddresses : OneBit(b)
    OBVIOUS
  <2>1. Instruction
    BY DEF Next, DevicesDrive, vars, history
  <2> QED BY <2>1, BitKinds
<1>2. TypeOK /\ [Next]_vars =>
        [by' = "bit" /\ ops' # ops =>
         \E b \in BitAddresses : \A c \in Cells : LET changed == Bits(Xor(mem[c], mem'[c]))
                                                 IN  changed \subseteq (IF c = BitCell(b) THEN {b % 8} ELSE {})
                                                         \cup (IF c = PSW THEN {0} ELSE {})]_vars
  BY <1>1 DEF OneBit, Changed
<1> QED BY <1>2, MemoryHoldsBytes, PTL DEF Spec, OtherBitsKept

-----------------------------------------------------------------------------
(* Exchanges.  After one, the cell holds what A held and A what was read   *)
(* from the cell, until another instruction or as long as only pins move.  *)
Plain(c) == c \in Cells \ {PSW} /\ c[2] \notin Ports

ExchangeHolds ==
    exchanged # Nothing /\ Plain(exchanged.cell) =>
        mem[exchanged.cell] = exchanged.a /\ mem[ACC] = exchanged.value

LEMMA OfAnExchange ==
    ASSUME TypeOK, NEW c, NEW how, Exchange(c, how)
    PROVE  /\ exchanged'.cell = c
           /\ Plain(c) => /\ mem'[c] = mem[ACC] /\ mem'[ACC] = mem[c]
                          /\ exchanged'.a = mem[ACC] /\ exchanged'.value = mem[c]
<1>1. PICK v \in Read(c) : /\ mem' = AfterTick(Swapped(mem, c, v))
                           /\ exchanged' = [cell |-> c, a |-> A, value |-> v]
  BY DEF Exchange, Ends
<1>2. v \in Bytes
  BY ReadType
<1>3. Swapped(mem, c, v) \in Memories
  BY <1>2, SwappedType
<1>4. ACC \in Cells \ {PSW}
  BY CellsAssumption DEF ACC, PSW
<1>5. CASE Plain(c)
  <2>1. v = mem[c]
    BY <1>5 DEF Plain, Read
  <2>2. mem'[c] = Swapped(mem, c, v)[c] /\ mem'[ACC] = Swapped(mem, c, v)[ACC]
    BY <1>1, <1>3, <1>4, <1>5, TickedType DEF Plain
  <2>3. Swapped(mem, c, v)[c] = mem[ACC] /\ Swapped(mem, c, v)[ACC] = mem[c]
    BY <1>4, <1>5, <2>1 DEF Swapped, TypeOK, Memories, Plain
  <2> QED BY <1>1, <2>1, <2>2, <2>3 DEF A
<1> QED BY <1>1, <1>5

LEMMA NoExchange ==
    ASSUME TypeOK, Instruction, ~Exchanged
    PROVE  exchanged' = Nothing
<1>1. CASE Simple \/ BitWritten
  BY <1>1 DEF Simple, Plainly, BitWritten, Leaves, Jumps
<1>2. ASSUME NEW b, JumpAndClear(b) PROVE exchanged' = Nothing
  BY <1>2 DEF JumpAndClear
<1> QED BY <1>1, <1>2, InstructionKinds

LEMMA HoldingKept == TypeOK /\ ExchangeHolds /\ [Next]_vars => ExchangeHolds'
<1> SUFFICES ASSUME TypeOK, ExchangeHolds, [Next]_vars PROVE ExchangeHolds'
  OBVIOUS
<1>1. CASE Instruction /\ Exchanged
  <2>1. PICK c : \E how \in Hows : Exchange(c, how)
    BY <1>1 DEF Exchanged
  <2> QED BY <2>1, OfAnExchange DEF ExchangeHolds, Plain
<1>2. CASE Instruction /\ ~Exchanged
  BY <1>2, NoExchange DEF ExchangeHolds, Nothing
<1>3. CASE UNCHANGED <<mem, exchanged>>
  BY <1>3 DEF ExchangeHolds, Plain
<1> QED BY <1>1, <1>2, <1>3 DEF Next, DevicesDrive, vars, history

(* Exchanging A with a cell twice undoes it.                               *)
THEOREM ExchangesUndo == Spec => ExchangeTwice
<1>1. Init => ExchangeHolds
  BY DEF Init, ExchangeHolds
<1>2. TypeOK /\ ExchangeHolds /\ [Next]_vars =>
        [(exchanged # Nothing /\ exchanged' # Nothing /\ ops' # ops /\ exchanged.cell = exchanged'.cell
          /\ exchanged.cell \in Cells \ {PSW} /\ exchanged.cell[2] \notin Ports)
         => mem'[ACC] = exchanged.a /\ mem'[exchanged.cell] = exchanged.value]_vars
  <2> SUFFICES ASSUME TypeOK, ExchangeHolds, [Next]_vars, exchanged # Nothing, exchanged' # Nothing,
                      ops' # ops, exchanged.cell = exchanged'.cell, Plain(exchanged.cell)
               PROVE  mem'[ACC] = exchanged.a /\ mem'[exchanged.cell] = exchanged.value
    BY DEF Plain
  <2>1. Instruction
    BY DEF Next, DevicesDrive, vars, history
  <2>2. Exchanged
    BY <2>1, NoExchange
  <2>3. PICK c : \E how \in Hows : Exchange(c, how)
    BY <2>2 DEF Exchanged
  <2>4. exchanged.cell = c
    BY <2>3, OfAnExchange
  <2> QED BY <2>3, <2>4, OfAnExchange DEF ExchangeHolds
<1> QED BY <1>1, <1>2, HoldingKept, MemoryHoldsBytes, PTL DEF Spec, ExchangeTwice
=============================================================================
