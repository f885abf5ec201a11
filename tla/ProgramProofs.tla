--------------------------- MODULE ProgramProofs ----------------------------
(***************************************************************************)
(* What a load leaves in the code memory, for any records, any place where *)
(* the file may stop and any program executed between two loads; then that *)
(* the disassembler names what such a program takes and where it goes.     *)
(***************************************************************************)
EXTENDS Program, FiniteSetTheorems, SequenceTheorems, TLAPS

(* Induction over Nat, from the pigeon hole: if m were not in S, then       *)
(* n |-> n + 1 would map S \cap 0..m into itself without its 0.             *)
LEMMA SetInduction ==
    ASSUME NEW S, 0 \in S, \A n \in Nat : n \in S => n + 1 \in S
    PROVE  Nat \subseteq S
<1> SUFFICES ASSUME NEW m \in Nat, m \notin S PROVE FALSE
  OBVIOUS
<1> DEFINE X == S \cap (0 .. m)
           Y == X \ {0}
           f == [n \in X |-> n + 1]
<1>1. 0 \in X
  BY m \in Nat, 0 \in 0 .. m
<1>2. IsFiniteSet(X)
  <2>1. IsFiniteSet(0 .. m)
    BY FS_Interval
  <2> QED BY <2>1, FS_Subset
<1>3. f \in [X -> Y]
  <2>1. ASSUME NEW n \in X PROVE n + 1 \in Y
    <3>1. n \in Nat /\ n <= m /\ n \in S /\ n # m
      OBVIOUS
    <3>2. n + 1 \in S /\ n + 1 \in 0 .. m /\ n + 1 # 0
      BY <3>1
    <3> QED BY <3>2
  <2> QED BY <2>1
<1>4. \A x, y \in X : f[x] = f[y] => x = y
  OBVIOUS
<1> HIDE DEF X, f
<1>5. IsFiniteSet(Y) /\ Cardinality(Y) = Cardinality(X) - 1
  BY <1>1, <1>2, FS_RemoveElement
<1>6. Cardinality(X) \in Nat
  BY <1>2, FS_CardinalityType
<1> HIDE DEF Y
<1>7. Cardinality(Y) < Cardinality(X)
  BY <1>5, <1>6
<1>8. \E x, y \in X : x # y /\ f[x] = f[y]
  BY <1>2, <1>5, <1>7, <1>3, FS_PigeonHole
<1> QED BY <1>4, <1>8

(* The local function of Sum, over the first n numbers of r.               *)
Recurs(r, n, f) == f = [k \in 0 .. n |-> IF k = 0 THEN 0 ELSE f[k - 1] + r[k]]

LEMMA RecursionExists ==
    ASSUME NEW r, NEW n \in Nat
    PROVE  \E f : Recurs(r, n, f)
<1> DEFINE S == {m \in Nat : \E f : Recurs(r, m, f)}
<1>1. 0 \in S
  <2> DEFINE f == [k \in 0 .. 0 |-> 0]
  <2>1. f = [k \in 0 .. 0 |-> IF k = 0 THEN 0 ELSE f[k - 1] + r[k]]
    OBVIOUS
  <2> HIDE DEF f
  <2> QED BY <2>1 DEF Recurs
<1>2. ASSUME NEW m \in Nat, m \in S PROVE m + 1 \in S
  <2>1. PICK f : Recurs(r, m, f)
    BY <1>2
  <2> DEFINE g == [k \in 0 .. m + 1 |-> IF k = m + 1 THEN f[m] + r[m + 1] ELSE f[k]]
  <2>2. \A k \in 0 .. m : f[k] = IF k = 0 THEN 0 ELSE f[k - 1] + r[k]
    BY <2>1 DEF Recurs
  <2>3. \A k \in 0 .. m + 1 : g[k] = IF k = 0 THEN 0 ELSE g[k - 1] + r[k]
    <3> TAKE k \in 0 .. m + 1
    <3>1. CASE k = m + 1
      <4>1. g[k] = f[m] + r[k] /\ g[k - 1] = f[m] /\ k # 0
        BY <3>1
      <4> HIDE DEF g
      <4> QED BY <4>1
    <3>2. CASE k = 0
      BY <3>2, <2>2
    <3>3. CASE k # 0 /\ k # m + 1
      <4>1. g[k] = f[k] /\ g[k - 1] = f[k - 1] /\ k \in 0 .. m
        BY <3>3
      <4> HIDE DEF g
      <4> QED BY <4>1, <3>3, <2>2
    <3> QED BY <3>1, <3>2, <3>3
  <2>4. g = [k \in 0 .. m + 1 |-> IF k = 0 THEN 0 ELSE g[k - 1] + r[k]]
    <3>1. g = [k \in 0 .. m + 1 |-> g[k]]
      OBVIOUS
    <3> HIDE DEF g
    <3> QED BY <2>3, <3>1
  <2> HIDE DEF g
  <2> QED BY <2>4 DEF Recurs
<1> HIDE DEF S
<1>3. Nat \subseteq S
  BY <1>1, <1>2, SetInduction
<1> QED BY <1>3 DEF S

LEMMA RecursionAgrees ==
    ASSUME NEW r, NEW q, NEW f, NEW g, NEW n \in Nat, NEW m \in Nat, n <= m,
           \A k \in 1 .. n : r[k] = q[k],
           Recurs(r, n, f), Recurs(q, m, g)
    PROVE  f[n] = g[n]
<1>1. /\ \A k \in 0 .. n : f[k] = IF k = 0 THEN 0 ELSE f[k - 1] + r[k]
      /\ \A k \in 0 .. m : g[k] = IF k = 0 THEN 0 ELSE g[k - 1] + q[k]
  BY DEF Recurs
<1> DEFINE S == {k \in Nat : k <= n => f[k] = g[k]}
<1>2. 0 \in S
  BY <1>1
<1>3. ASSUME NEW k \in Nat, k \in S PROVE k + 1 \in S
  <2> SUFFICES ASSUME k + 1 <= n PROVE f[k + 1] = g[k + 1]
    OBVIOUS
  <2>1. f[k] = g[k]
    BY <1>3
  <2>2. k + 1 \in 0 .. n /\ k + 1 \in 0 .. m /\ k + 1 # 0 /\ (k + 1) - 1 = k /\ k + 1 \in 1 .. n
    OBVIOUS
  <2>3. f[k + 1] = f[k] + r[k + 1] /\ g[k + 1] = g[k] + q[k + 1]
    BY <1>1, <2>2
  <2> QED BY <2>1, <2>2, <2>3
<1> HIDE DEF S
<1>4. n \in S
  BY <1>2, <1>3, SetInduction
<1> QED BY <1>4 DEF S

LEMMA SumIs ==
    ASSUME NEW T, NEW r \in Seq(T)
    PROVE  \E f : Recurs(r, Len(r), f) /\ Sum(r) = f[Len(r)]
<1> DEFINE f == CHOOSE h : Recurs(r, Len(r), h)
<1>1. Recurs(r, Len(r), f)
  BY RecursionExists
<1>2. Sum(r) = f[Len(r)]
  BY DEF Sum, Recurs
<1> QED BY <1>1, <1>2

(* One more byte adds its value to the sum (load_obj, emu.c:574-583).      *)
LEMMA SumAppend ==
    ASSUME NEW T, NEW r \in Seq(T), NEW v \in T
    PROVE  Sum(Append(r, v)) = Sum(r) + v
<1> DEFINE q == Append(r, v)
           n == Len(r)
<1>1. /\ q \in Seq(T) /\ Len(q) = n + 1 /\ n \in Nat
      /\ q[n + 1] = v /\ \A k \in 1 .. n : r[k] = q[k]
  OBVIOUS
<1>2. PICK f : Recurs(r, n, f) /\ Sum(r) = f[n]
  BY SumIs
<1>3. PICK g : Recurs(q, n + 1, g) /\ Sum(q) = g[n + 1]
  BY <1>1, SumIs
<1> HIDE DEF q, n
<1>4. f[n] = g[n]
  <2>1. PICK m \in Nat : m = n + 1 /\ n <= m
    BY <1>1
  <2>2. Recurs(q, m, g) /\ Recurs(r, n, f)
    BY <1>2, <1>3, <2>1
  <2>3. \A k \in 1 .. n : r[k] = q[k]
    BY <1>1
  <2> QED BY <1>1, <2>1, <2>2, <2>3, RecursionAgrees, SMT
<1>5. g[n + 1] = g[n] + q[n + 1]
  <2>1. n + 1 \in 0 .. n + 1 /\ n + 1 # 0 /\ (n + 1) - 1 = n
    BY <1>1
  <2>2. \A k \in 0 .. n + 1 : g[k] = IF k = 0 THEN 0 ELSE g[k - 1] + q[k]
    BY <1>3 DEF Recurs
  <2> QED BY <2>1, <2>2
<1> QED BY <1>1, <1>2, <1>3, <1>4, <1>5 DEF q

(* The header's four.                                                      *)
LEMMA SumOfFour ==
    ASSUME NEW g \in Seq(Int), Len(g) = 4
    PROVE  Sum(g) = g[1] + g[2] + g[3] + g[4]
<1>1. PICK f : Recurs(g, 4, f) /\ Sum(g) = f[4]
  <2>1. PICK f : Recurs(g, Len(g), f) /\ Sum(g) = f[Len(g)]
    BY SumIs, Zenon
  <2> QED BY <2>1, Zenon
<1>2. \A k \in 0 .. 4 : f[k] = IF k = 0 THEN 0 ELSE f[k - 1] + g[k]
  BY <1>1 DEF Recurs
<1>3. f[0] = 0 /\ f[1] = f[0] + g[1] /\ f[2] = f[1] + g[2]
      /\ f[3] = f[2] + g[3] /\ f[4] = f[3] + g[4]
  BY <1>2
<1>4. g[1] \in Int /\ g[2] \in Int /\ g[3] \in Int /\ g[4] \in Int
  <2>1. \A k \in 1 .. 4 : g[k] \in Int
    BY ElementOfSeq
  <2> QED BY <2>1
<1> QED BY <1>1, <1>3, <1>4

-----------------------------------------------------------------------------
(* Where load_obj is, and what its locals have to do with the bytes read.  *)
Reading ==
    /\ line \in Seq(Bytes) /\ got \in Seq(Bytes)
    /\ recordlength = LengthOf(got) /\ address = StartOf(got)
    /\ i \in 0 .. recordlength /\ Len(got) = 4 + i
    /\ Len(line) >= recordlength + 5
    /\ checksum = Sum(got) /\ checksum \in Nat

IsFunction(m) == m = [a \in DOMAIN m |-> m[a]]

LInv ==
    /\ at \in {"idle", "header", "data", "skip"}
    /\ IsFunction(codemem) /\ IsFunction(image)
    /\ count \in 0 .. MaxRecords
    /\ at = "header" => count < MaxRecords
    /\ at = "data" => Reading
    /\ at # "idle" => sound /\ result = NoLoad
    /\ LoadedAsWritten

LEMMA LInvInit == Init => LInv
<1> SUFFICES ASSUME Init PROVE LInv
  OBVIOUS
<1>1. MaxRecords \in Nat
  BY RecordsAssumption DEF MaxRecords
<1>2. IsFunction(<<>>)
  BY DEF IsFunction
<1> QED BY <1>1, <1>2 DEF Init, LoaderInit, LInv, LoadedAsWritten, NoLoad

LEMMA HeaderBytes ==
    ASSUME NEW g \in Seq(Bytes), Len(g) >= 4
    PROVE  g[1] \in Nat /\ g[2] \in Nat /\ g[3] \in Nat /\ g[4] \in Nat
<1>1. Len(g) \in Nat /\ \A k \in 1 .. Len(g) : g[k] \in Bytes
  BY LenProperties, ElementOfSeq
<1>2. 1 \in 1 .. Len(g) /\ 2 \in 1 .. Len(g) /\ 3 \in 1 .. Len(g) /\ 4 \in 1 .. Len(g)
  BY <1>1
<1>3. g[1] \in Bytes /\ g[2] \in Bytes /\ g[3] \in Bytes /\ g[4] \in Bytes
  BY <1>1, <1>2
<1>4. Bytes \subseteq Nat
  BY DEF Bytes
<1> QED BY <1>3, <1>4, Zenon

(* A record of which no data was read yet changes nothing.                 *)
LEMMA OverlaidByHeader ==
    ASSUME NEW m, IsFunction(m), NEW g \in Seq(Bytes), Len(g) = 4
    PROVE  Overlaid(m, g) = m
<1>1. DataRead(g) = SubSeq(g, 5, IF 4 < 4 + g[1] THEN 4 ELSE 4 + g[1])
  BY DEF DataRead, LengthOf
<1>2. g[1] \in Nat /\ g[2] \in Nat /\ g[3] \in Nat
  BY HeaderBytes
<1>3. Len(DataRead(g)) = 0
  <2>1. DataRead(g) = SubSeq(g, 5, 4)
    BY <1>1, <1>2
  <2>2. SubSeq(g, 5, 4) = <<>>
    BY SubSeqEmpty
  <2> QED BY <2>1, <2>2
<1>4. StartOf(g) .. StartOf(g) + Len(DataRead(g)) - 1 = {}
  <2>1. StartOf(g) \in Int
    BY <1>2 DEF StartOf
  <2> QED BY <1>3, <2>1
<1> QED BY <1>4 DEF Overlaid, IsFunction

LEMMA DataSlice ==
    ASSUME NEW g \in Seq(Bytes), NEW k \in Nat, Len(g) >= 4 + k
    PROVE  /\ SubSeq(g, 5, 4 + k) \in Seq(Bytes)
           /\ Len(SubSeq(g, 5, 4 + k)) = k
           /\ \A n \in 1 .. k : SubSeq(g, 5, 4 + k)[n] = g[n + 4]
<1>1. Len(g) \in Nat /\ \A n \in 1 .. Len(g) : g[n] \in Bytes
  BY LenProperties, ElementOfSeq
<1>2. \A n \in 5 .. 4 + k : g[n] \in Bytes
  BY <1>1
<1> DEFINE e == 4 + k
<1>3. e \in Int /\ 5 \in Int /\ e - 5 + 1 = k
  OBVIOUS
<1> HIDE DEF e
<1>4. /\ SubSeq(g, 5, e) \in Seq(Bytes)
      /\ Len(SubSeq(g, 5, e)) = IF 5 <= e THEN e - 5 + 1 ELSE 0
      /\ \A n \in 1 .. e - 5 + 1 : SubSeq(g, 5, e)[n] = g[5 + n - 1]
  BY <1>2, <1>3, SubSeqProperties DEF e
<1>5. \A n \in 1 .. k : 5 + n - 1 = n + 4
  OBVIOUS
<1> QED BY <1>3, <1>4, <1>5 DEF e

(* One more byte of data lies behind those read before.                    *)
LEMMA OverlaidByByte ==
    ASSUME NEW m, NEW g \in Seq(Bytes), NEW v \in Bytes, NEW k \in Nat,
           Len(g) = 4 + k, k < LengthOf(g)
    PROVE  Stored(Overlaid(m, g), StartOf(g) + k, v) = Overlaid(m, Append(g, v))
<1> DEFINE q == Append(g, v)
<1>1. /\ q \in Seq(Bytes) /\ Len(q) = 5 + k
      /\ q[1] = g[1] /\ q[2] = g[2] /\ q[3] = g[3]
      /\ q[5 + k] = v /\ \A n \in 1 .. 4 + k : q[n] = g[n]
  OBVIOUS
<1>2. g[1] \in Nat /\ g[2] \in Nat /\ g[3] \in Nat
  BY HeaderBytes
<1>3. StartOf(q) = StartOf(g) /\ LengthOf(q) = LengthOf(g) /\ StartOf(g) \in Nat
  BY <1>1, <1>2 DEF StartOf, LengthOf
<1>4. DataRead(g) = SubSeq(g, 5, 4 + k) /\ DataRead(q) = SubSeq(q, 5, 5 + k)
  BY <1>1, <1>2, <1>3 DEF DataRead, LengthOf
<1> HIDE DEF q
<1>5. /\ Len(DataRead(g)) = k /\ Len(DataRead(q)) = k + 1
      /\ \A n \in 1 .. k : DataRead(g)[n] = g[n + 4]
      /\ \A n \in 1 .. k + 1 : DataRead(q)[n] = q[n + 4]
  <2>1. /\ Len(SubSeq(g, 5, 4 + k)) = k
        /\ \A n \in 1 .. k : SubSeq(g, 5, 4 + k)[n] = g[n + 4]
    BY DataSlice
  <2>2. /\ Len(SubSeq(q, 5, 4 + (k + 1))) = k + 1
        /\ \A n \in 1 .. k + 1 : SubSeq(q, 5, 4 + (k + 1))[n] = q[n + 4]
    <3>1. k + 1 \in Nat /\ Len(q) >= 4 + (k + 1)
      BY <1>1
    <3> QED BY <1>1, <3>1, DataSlice
  <2>3. 4 + (k + 1) = 5 + k
    OBVIOUS
  <2> QED BY <1>4, <2>1, <2>2, <2>3
<1> DEFINE s == StartOf(g)
           old == s .. s + Len(DataRead(g)) - 1
           new == s .. s + Len(DataRead(q)) - 1
<1>6. s \in Nat
  BY <1>3
<1>7. new = old \cup {s + k} /\ s + k \notin old
  <2>1. old = s .. s + k - 1 /\ new = s .. s + (k + 1) - 1
    BY <1>5
  <2> HIDE DEF old, new, s
  <2> QED BY <1>6, <2>1
<1>8. \A a \in old : DataRead(q)[a - s + 1] = DataRead(g)[a - s + 1]
  <2> TAKE a \in old
  <2>1. a - s + 1 \in 1 .. k
    BY <1>5, <1>6
  <2>2. (a - s + 1) + 4 \in 1 .. 4 + k /\ a - s + 1 \in 1 .. k + 1
    BY <2>1
  <2> QED BY <1>1, <1>5, <2>1, <2>2
<1>9. DataRead(q)[(s + k) - s + 1] = v
  <2>1. (s + k) - s + 1 = k + 1 /\ k + 1 \in 1 .. k + 1 /\ (k + 1) + 4 = 5 + k
    BY <1>6
  <2> QED BY <1>1, <1>5, <2>1
<1>10. Overlaid(m, g) = [a \in DOMAIN m \cup old |-> IF a \in old THEN DataRead(g)[a - s + 1] ELSE m[a]]
  BY DEF Overlaid
<1>11. Overlaid(m, q) = [a \in DOMAIN m \cup new |-> IF a \in new THEN DataRead(q)[a - s + 1] ELSE m[a]]
  BY <1>3 DEF Overlaid
<1> HIDE DEF old, new, s
<1>12. Stored(Overlaid(m, g), s + k, v)
         = [a \in DOMAIN m \cup new |->
              IF a = s + k THEN v ELSE Overlaid(m, g)[a]]
  BY <1>7, <1>10 DEF Stored
<1>13. \A a \in DOMAIN m \cup new :
          (IF a = s + k THEN v ELSE Overlaid(m, g)[a])
            = IF a \in new THEN DataRead(q)[a - s + 1] ELSE m[a]
  BY <1>7, <1>8, <1>9, <1>10
<1> QED BY <1>11, <1>12, <1>13 DEF q, s

(* The checksum is not data.                                               *)
LEMMA OverlaidByChecksum ==
    ASSUME NEW m, NEW g \in Seq(Bytes), NEW v \in Bytes,
           NEW n \in Nat, LengthOf(g) = n, Len(g) = 4 + n
    PROVE  Overlaid(m, Append(g, v)) = Overlaid(m, g)
<1> DEFINE q == Append(g, v)
<1>1. g[1] = n
  BY DEF LengthOf
<1>2. /\ q \in Seq(Bytes) /\ Len(q) = 5 + n /\ n \in Nat
      /\ q[1] = g[1] /\ q[2] = g[2] /\ q[3] = g[3]
      /\ \A k \in 1 .. 4 + n : q[k] = g[k]
  BY <1>1 DEF LengthOf
<1>3. StartOf(q) = StartOf(g) /\ LengthOf(q) = n
  BY <1>2 DEF StartOf, LengthOf
<1> HIDE DEF q
<1>4. DataRead(g) = SubSeq(g, 5, 4 + n) /\ DataRead(q) = SubSeq(q, 5, 4 + n)
  BY <1>2, <1>3 DEF DataRead
<1>5. SubSeq(q, 5, 4 + n) = SubSeq(g, 5, 4 + n)
  <2> DEFINE x == SubSeq(q, 5, 4 + n)
             y == SubSeq(g, 5, 4 + n)
  <2>1. /\ y \in Seq(Bytes) /\ Len(y) = n /\ \A k \in 1 .. n : y[k] = g[k + 4]
    BY <1>2, DataSlice
  <2>2. /\ x \in Seq(Bytes) /\ Len(x) = n /\ \A k \in 1 .. n : x[k] = q[k + 4]
    BY <1>2, DataSlice
  <2>3. \A k \in 1 .. n : k + 4 \in 1 .. 4 + n
    BY <1>2
  <2> HIDE DEF x, y
  <2>4. \A k \in 1 .. Len(x) : x[k] = y[k]
    BY <1>2, <2>1, <2>2, <2>3
  <2>5. x = y
    BY <2>1, <2>2, <2>4, SeqEqual
  <2> QED BY <2>5 DEF x, y
<1> QED BY <1>3, <1>4, <1>5 DEF Overlaid, q

LEMMA StoredIsFunction ==
    ASSUME NEW m, NEW c, NEW v
    PROVE  IsFunction(Stored(m, c, v))
BY DEF IsFunction, Stored

LEMMA OverlaidIsFunction ==
    ASSUME NEW m, NEW g
    PROVE  IsFunction(Overlaid(m, g))
BY DEF IsFunction, Overlaid

-----------------------------------------------------------------------------
(* readbyte returns a byte at or behind the end of the file, too.          *)
LEMMA ReadsBytes ==
    ASSUME NEW b \in Bytes, NEW read \in Readable(b)
    PROVE  read[1] \in Bytes
<1>1. b \div 16 \in Bytes /\ 0 \in Bytes
  BY DEF Bytes
<1>2. \/ read = <<0, TRUE>>
      \/ read = <<b, FALSE>>
      \/ read = <<b \div 16, TRUE>>
  BY DEF Readable
<1>3. read[1] = 0 \/ read[1] = b \/ read[1] = b \div 16
  <2>1. CASE read = <<0, TRUE>>
    BY <2>1
  <2>2. CASE read = <<b, FALSE>>
    BY <2>2
  <2>3. CASE read = <<b \div 16, TRUE>>
    BY <2>3
  <2> QED BY <1>2, <2>1, <2>2, <2>3, Zenon
<1> QED BY <1>1, <1>3, Zenon

(* The header as it was read, whole or cut.                                *)
LEMMA HeaderRead ==
    ASSUME NEW k \in 1 .. MaxRecords, NEW r \in Records[k], NEW n \in 0 .. 4,
           NEW digit, digit \in IF n < 4 THEN {0, r[n + 1] \div 16} ELSE {0}
    PROVE  LET h == Stopped(r, n, digit)
           IN  /\ r \in Seq(Bytes) /\ Len(r) = r[1] + 5 /\ r[1] \in Nat
               /\ h \in Seq(Bytes) /\ Len(h) = 4
               /\ LengthOf(h) <= LengthOf(r)
               /\ TypeOf(h) = 1 => n = 4
<1> DEFINE h == Stopped(r, n, digit)
<1>1. r \in Seq(Bytes) /\ Len(r) >= 5 /\ Len(r) = r[1] + 5 /\ r[4] < 16
  <2>1. Records[k] \in SUBSET Seq(Bytes)
    BY RecordsAssumption, ElementOfSeq, Zenon DEF MaxRecords
  <2> QED BY <2>1, RecordsAssumption DEF LengthOf, TypeOf
<1>2. Len(r) \in Nat /\ \A m \in 1 .. Len(r) : r[m] \in Bytes
  BY <1>1, LenProperties, ElementOfSeq, Zenon
<1>3. r[1] \in Bytes /\ r[2] \in Bytes /\ r[3] \in Bytes /\ r[4] \in Bytes
  <2>1. 1 \in 1 .. Len(r) /\ 2 \in 1 .. Len(r) /\ 3 \in 1 .. Len(r) /\ 4 \in 1 .. Len(r)
    BY <1>1, <1>2
  <2> QED BY <1>2, <2>1, Zenon
<1>4. r[1] \in Nat /\ r[4] \div 16 = 0
  <2>1. r[4] \in 0 .. 15
    <3>1. r[4] \in 0 .. 255
      BY <1>3 DEF Bytes
    <3>2. r[4] < 16
      BY <1>1
    <3> QED BY <3>1, <3>2
  <2>2. \A x \in 0 .. 15 : x \div 16 = 0
    OBVIOUS
  <2> QED BY <1>3, <2>1, <2>2 DEF Bytes
<1>5. digit \in Bytes /\ (n < 4 => digit = 0 \/ digit = r[n + 1] \div 16)
  <2>1. CASE n = 4
    BY <2>1 DEF Bytes
  <2>2. CASE n < 4
    <3>1. n + 1 \in {1, 2, 3, 4}
      BY <2>2
    <3>2. r[n + 1] \in Bytes
      BY <1>3, <3>1
    <3>3. r[n + 1] \div 16 \in Bytes /\ 0 \in Bytes
      BY <3>2 DEF Bytes
    <3> QED BY <2>2, <3>3
  <2> QED BY <2>1, <2>2
<1>6. \A m \in 1 .. 4 : h[m] = CASE m <= n -> r[m] [] m = n + 1 -> digit [] OTHER -> 0
  BY DEF Stopped
<1>7. h \in [1 .. 4 -> Bytes]
  <2>1. ASSUME NEW m \in 1 .. 4
        PROVE (CASE m <= n -> r[m] [] m = n + 1 -> digit [] OTHER -> 0) \in Bytes
    <3>1. r[m] \in Bytes /\ 0 \in Bytes
      BY <1>3 DEF Bytes
    <3>2. CASE m <= n
      BY <3>1, <3>2
    <3>3. CASE m = n + 1
      <4>1. ~(m <= n)
        BY <3>3
      <4> QED BY <1>5, <3>3, <4>1
    <3>4. CASE ~(m <= n) /\ m # n + 1
      BY <3>1, <3>4
    <3> QED BY <3>2, <3>3, <3>4
  <2> QED BY <2>1 DEF Stopped
<1>8. h \in Seq(Bytes) /\ Len(h) = 4
  <2>1. h \in UNION {[1 .. m -> Bytes] : m \in Nat}
    <3>1. 4 \in Nat
      OBVIOUS
    <3> QED BY <1>7, <3>1
  <2>2. h \in Seq(Bytes)
    BY <2>1, SeqDef
  <2>3. DOMAIN h = 1 .. 4 /\ DOMAIN h = 1 .. Len(h) /\ Len(h) \in Nat
    BY <1>7, <2>2, LenProperties
  <2> QED BY <2>2, <2>3
<1>9. LengthOf(h) <= LengthOf(r)
  <2>1. CASE n = 0
    <3>1. h[1] = digit /\ (digit = 0 \/ digit = r[1] \div 16)
      BY <1>5, <1>6, <2>1
    <3> QED BY <1>4, <3>1 DEF LengthOf
  <2>2. CASE n # 0
    <3>1. h[1] = r[1]
      BY <1>6, <2>2
    <3> QED BY <1>4, <3>1 DEF LengthOf
  <2> QED BY <2>1, <2>2
<1>10. TypeOf(h) = 1 => n = 4
  <2>1. CASE n = 3
    <3>1. h[4] = digit /\ (digit = 0 \/ digit = r[4] \div 16)
      BY <1>5, <1>6, <2>1
    <3> QED BY <1>4, <3>1 DEF TypeOf
  <2>2. CASE n < 3
    <3>1. h[4] = 0
      BY <1>6, <2>2
    <3> QED BY <3>1 DEF TypeOf
  <2> QED BY <2>1, <2>2
<1> QED BY <1>1, <1>4, <1>8, <1>9, <1>10

-----------------------------------------------------------------------------
LEMMA OpenKeeps ==
    ASSUME LInv, Open
    PROVE  LInv'
<1>1. /\ codemem' = codemem /\ image' = codemem /\ sound' = TRUE
      /\ count' = count /\ count < MaxRecords
      /\ \/ at' = "idle" /\ result' = -2
         \/ at' = "header" /\ result' = NoLoad
  BY DEF Open, Close
<1> QED BY <1>1 DEF LInv, LoadedAsWritten, IsFunction, NoLoad

LEMMA HeaderKeeps ==
    ASSUME LInv, Header
    PROVE  LInv'
<1> DEFINE Reads(h, n, r) ==
             /\ got' = h /\ eof' = (n < 4)
             /\ CASE TypeOf(h) = 1 -> Close(0)
                  [] TypeOf(h) = 0 ->
                       /\ at' = "data" /\ line' = r /\ junk' = 0
                       /\ recordlength' = LengthOf(h) /\ address' = StartOf(h) /\ i' = 0
                       /\ checksum' = ChecksumOfHeader(LengthOf(h), StartOf(h))
                       /\ UNCHANGED result
                  [] OTHER -> Close(-3)
<1>1. PICK r \in Records[count + 1], n \in 0 .. 4 :
         \E digit \in IF n < 4 THEN {0, r[n + 1] \div 16} ELSE {0} :
            Reads(Stopped(r, n, digit), n, r)
  <2>1. PICK r \in Records[count + 1] : \E n \in IF r \in Whole THEN {4} ELSE 0 .. 4 :
           \E digit \in IF n < 4 THEN {0, r[n + 1] \div 16} ELSE {0} :
              Reads(Stopped(r, n, digit), n, r)
    BY DEF Header
  <2>2. (IF r \in Whole THEN {4} ELSE 0 .. 4) \subseteq 0 .. 4
    OBVIOUS
  <2> QED BY <2>1, <2>2
<1>2. PICK digit \in IF n < 4 THEN {0, r[n + 1] \div 16} ELSE {0} :
         Reads(Stopped(r, n, digit), n, r)
  BY <1>1
<1> DEFINE h == Stopped(r, n, digit)
<1>3. /\ count + 1 \in 1 .. MaxRecords /\ MaxRecords \in Nat
      /\ at = "header" /\ codemem = image /\ sound /\ result = NoLoad
      /\ codemem' = codemem /\ image' = image /\ sound' = sound
      /\ count' = count + 1
      /\ IsFunction(image)
  <2>1. MaxRecords \in Nat
    BY RecordsAssumption, LenProperties DEF MaxRecords
  <2> QED BY <2>1 DEF LInv, LoadedAsWritten, Header
<1>4. /\ r \in Seq(Bytes) /\ Len(r) = r[1] + 5 /\ r[1] \in Nat
      /\ h \in Seq(Bytes) /\ Len(h) = 4
      /\ LengthOf(h) <= LengthOf(r)
      /\ TypeOf(h) = 1 => n = 4
  BY <1>3, HeaderRead
<1> HIDE DEF h
<1>5. CASE TypeOf(h) = 1
  <2>1. Reads(h, n, r)
    BY <1>2 DEF h
  <2>2. at' = "idle" /\ result' = 0
    BY <2>1, <1>5 DEF Close
  <2>3. n = 4 /\ eof' = (n < 4)
    BY <1>4, <1>5, <2>1
  <2>4. ~eof'
    <3>1. ~(n < 4)
      BY <2>3
    <3> QED BY <2>3, <3>1, Zenon
  <2> QED BY <1>3, <2>2, <2>4 DEF LInv, LoadedAsWritten, NoLoad, IsFunction
<1>6. CASE TypeOf(h) = 0
  <2>1. /\ got' = h /\ at' = "data" /\ line' = r
        /\ recordlength' = LengthOf(h) /\ address' = StartOf(h) /\ i' = 0
        /\ checksum' = ChecksumOfHeader(LengthOf(h), StartOf(h))
        /\ result' = result
    BY <1>2, <1>6 DEF h
  <2>2. Overlaid(image, h) = image
    BY <1>3, <1>4, OverlaidByHeader
  <2>3. h[1] \in Nat /\ h[2] \in Nat /\ h[3] \in 0 .. 255 /\ h[4] = 0
    <3>1. \A m \in 1 .. 4 : h[m] \in Bytes
      BY <1>4, ElementOfSeq
    <3>2. h[1] \in Bytes /\ h[2] \in Bytes /\ h[3] \in Bytes
      BY <3>1
    <3> QED BY <1>6, <3>2 DEF TypeOf, Bytes
  <2>4. ChecksumOfHeader(LengthOf(h), StartOf(h)) = h[1] + h[2] + h[3]
    <3>1. /\ (256 * h[2] + h[3]) % 256 = h[3]
          /\ (256 * h[2] + h[3]) \div 256 = h[2]
      BY <2>3
    <3> QED BY <2>3, <3>1 DEF ChecksumOfHeader, LengthOf, StartOf
  <2>5. Sum(h) = h[1] + h[2] + h[3]
    <3>1. h \in Seq(Int)
      <4>1. Bytes \subseteq Int
        BY DEF Bytes
      <4> QED BY <1>4, <4>1, SeqMonotonic
    <3> QED BY <1>4, <2>3, <3>1, SumOfFour
  <2>6. Reading'
    <3>1. recordlength' = h[1] /\ h[1] <= r[1] /\ i' = 0 /\ checksum' = h[1] + h[2] + h[3]
      BY <1>4, <2>1, <2>4 DEF LengthOf
    <3>2. i' \in 0 .. recordlength' /\ Len(line') >= recordlength' + 5 /\ checksum' \in Nat
      <4>1. Len(line') = h[1] + 5 + (r[1] - h[1]) /\ h[1] \in Nat /\ r[1] \in Nat
        BY <1>4, <2>1, <2>3
      <4>2. i' \in 0 .. recordlength' /\ Len(line') >= recordlength' + 5
        BY <3>1, <4>1
      <4>3. checksum' \in Nat
        BY <2>3, <3>1
      <4> QED BY <4>2, <4>3
    <3>3. Len(got') = 4 + i'
      BY <1>4, <2>1
    <3> QED BY <1>4, <2>1, <2>4, <2>5, <3>1, <3>2, <3>3 DEF Reading
  <2> QED BY <1>3, <2>1, <2>2, <2>6 DEF LInv, LoadedAsWritten, NoLoad, IsFunction
<1>7. CASE TypeOf(h) \notin {0, 1}
  <2>1. at' = "idle" /\ result' = -3
    BY <1>2, <1>7 DEF h, Close
  <2> QED BY <1>3, <2>1 DEF LInv, LoadedAsWritten, NoLoad, IsFunction
<1> QED BY <1>5, <1>6, <1>7

LEMMA ReadingType ==
    ASSUME Reading
    PROVE  /\ Len(line) \in Nat /\ recordlength \in Nat /\ address \in Nat
           /\ i \in Nat /\ Len(got) \in Nat /\ Len(got) >= 4
<1>1. Len(line) \in Nat /\ Len(got) \in Nat
  BY LenProperties DEF Reading
<1>2. i \in Int /\ 0 <= i
  BY DEF Reading
<1>3. Len(got) >= 4
  BY <1>1, <1>2 DEF Reading
<1>4. got[1] \in Nat /\ got[2] \in Nat /\ got[3] \in Nat
  BY <1>3, HeaderBytes DEF Reading
<1> QED BY <1>1, <1>2, <1>3, <1>4 DEF Reading, LengthOf, StartOf

(* What the next byte of the record is read as.                            *)
LEMMA NextByte ==
    ASSUME Reading, NEW read \in Readable(line[Len(got) + 1])
    PROVE  /\ read[1] \in Bytes
           /\ Append(got, read[1]) \in Seq(Bytes)
           /\ Sum(Append(got, read[1])) = checksum + read[1]
<1>1. Len(got) + 1 \in 1 .. Len(line)
  <2>1. Len(line) \in Nat /\ recordlength \in Nat
    BY ReadingType
  <2> QED BY <2>1 DEF Reading
<1>2. line[Len(got) + 1] \in Bytes
  BY <1>1, ElementOfSeq DEF Reading
<1>3. read[1] \in Bytes
  BY <1>2, ReadsBytes
<1> QED BY <1>3, SumAppend DEF Reading

LEMMA DataByteKeeps ==
    ASSUME LInv, DataByte
    PROVE  LInv'
<1>1. /\ at = "data" /\ i < recordlength /\ Reading
      /\ codemem = Overlaid(image, got) /\ sound /\ result = NoLoad
  BY DEF DataByte, LInv, LoadedAsWritten
<1>2. PICK v \in Bytes :
         /\ checksum' = checksum + v
         /\ codemem' = Stored(codemem, address + i, v)
         /\ got' = Append(got, v)
         /\ Append(got, v) \in Seq(Bytes)
         /\ Sum(Append(got, v)) = checksum + v
  BY <1>1, NextByte DEF DataByte
<1>3. /\ i' = i + 1
      /\ UNCHANGED <<at, recordlength, address, result, line, count, junk, image, sound>>
  BY DEF DataByte
<1>4. codemem' = Overlaid(image, got')
  BY <1>1, <1>2, OverlaidByByte DEF Reading
<1>5. /\ LengthOf(got') = LengthOf(got) /\ StartOf(got') = StartOf(got)
      /\ Len(got') = Len(got) + 1
  BY <1>1, <1>2 DEF Reading, LengthOf, StartOf
<1>6. Reading'
  <2>1. v \in Nat
    BY DEF Bytes
  <2>2. recordlength \in Nat /\ i \in Nat /\ Len(got) = 4 + i
    BY <1>1, ReadingType DEF Reading
  <2>3. i' \in 0 .. recordlength' /\ Len(got') = 4 + i'
    BY <1>1, <1>3, <1>5, <2>2
  <2>4. checksum' \in Nat /\ checksum' = Sum(got')
    BY <1>1, <1>2, <2>1 DEF Reading
  <2> QED BY <1>1, <1>2, <1>3, <1>5, <2>3, <2>4 DEF Reading
<1>7. IsFunction(codemem')
  BY <1>2, StoredIsFunction
<1> QED BY <1>1, <1>3, <1>4, <1>6, <1>7 DEF LInv, LoadedAsWritten, NoLoad, IsFunction

(* The test of load_obj is that of the format (emu.c:581-583).             *)
LEMMA MatchesIsValid ==
    ASSUME NEW c \in Nat, NEW v \in 0 .. 255
    PROVE  Matches(c, v) <=> (c + v) % 256 = 0
<1>1. PICK q \in Nat, m \in 0 .. 255 : c = 256 * q + m
  <2>1. c = 256 * (c \div 256) + (c % 256) /\ c \div 256 \in Nat /\ c % 256 \in 0 .. 255
    OBVIOUS
  <2> QED BY <2>1
<1>2. c % 256 = m
  BY <1>1
<1>3. (c + v) % 256 = (m + v) % 256
  BY <1>1
<1>4. (m + v) % 256 = 0 <=> m + v = 0 \/ m + v = 256
  <2>1. \A s \in 0 .. 255 : s % 256 = s
    OBVIOUS
  <2>2. \A s \in 256 .. 510 : s % 256 = s - 256
    OBVIOUS
  <2>3. m + v \in 0 .. 255 \/ m + v \in 256 .. 510
    BY <1>1
  <2>4. CASE m + v \in 0 .. 255
    <3>1. (m + v) % 256 = m + v
      BY <2>1, <2>4
    <3> QED BY <2>4, <3>1
  <2>5. CASE m + v \in 256 .. 510
    <3>1. (m + v) % 256 = m + v - 256
      BY <2>2, <2>5
    <3> QED BY <2>5, <3>1
  <2> QED BY <2>3, <2>4, <2>5
<1>5. v = (256 - m) % 256 <=> m + v = 0 \/ m + v = 256
  <2>1. CASE m = 0
    BY <2>1
  <2>2. CASE m > 0
    <3>1. 256 - m \in 0 .. 255
      BY <1>1, <2>2
    <3>2. (256 - m) % 256 = 256 - m
      BY <3>1
    <3> QED BY <1>1, <2>2, <3>2
  <2> QED BY <1>1, <2>1, <2>2
<1> QED BY <1>2, <1>3, <1>4, <1>5 DEF Matches

LEMMA CheckKeeps ==
    ASSUME LInv, Check
    PROVE  LInv'
<1>1. /\ at = "data" /\ i = recordlength /\ Reading
      /\ codemem = Overlaid(image, got) /\ sound /\ result = NoLoad
      /\ codemem' = codemem /\ count' = count
  BY DEF Check, LInv, LoadedAsWritten
<1>2. PICK v \in Bytes :
         /\ got' = Append(got, v)
         /\ IF Matches(checksum, v)
            THEN at' = "skip" /\ UNCHANGED <<record, result, line, junk>>
            ELSE Close(-4)
         /\ sound' = (sound /\ Valid(got'))
         /\ image' = IF Valid(got') THEN Overlaid(image, got') ELSE image
         /\ Sum(Append(got, v)) = checksum + v
  BY <1>1, NextByte DEF Check
<1>3. Valid(got') <=> Matches(checksum, v)
  <2>1. checksum \in Nat /\ v \in 0 .. 255
    BY <1>1, <1>2 DEF Reading, Bytes
  <2>2. Sum(got') = checksum + v
    BY <1>2
  <2>3. Matches(checksum, v) <=> (checksum + v) % 256 = 0
    BY <2>1, MatchesIsValid
  <2> QED BY <2>2, <2>3 DEF Valid
<1>4. Overlaid(image, got') = Overlaid(image, got)
  <2>1. /\ got \in Seq(Bytes) /\ recordlength \in Nat
        /\ LengthOf(got) = recordlength /\ Len(got) = 4 + recordlength
    BY <1>1, LenProperties DEF Reading
  <2> QED BY <1>2, <2>1, OverlaidByChecksum
<1>5. CASE Matches(checksum, v)
  <2>1. at' = "skip" /\ result' = result /\ sound' /\ image' = codemem
    BY <1>1, <1>2, <1>3, <1>4, <1>5
  <2> QED BY <1>1, <2>1 DEF LInv, LoadedAsWritten, NoLoad, IsFunction
<1>6. CASE ~Matches(checksum, v)
  <2>1. at' = "idle" /\ result' = -4 /\ ~sound' /\ image' = image
    BY <1>2, <1>3, <1>6 DEF Close
  <2> QED BY <1>1, <1>4, <2>1 DEF LInv, LoadedAsWritten, NoLoad, IsFunction
<1> QED BY <1>5, <1>6

LEMMA SkipKeeps ==
    ASSUME LInv, Skip
    PROVE  LInv'
<1>1. /\ at = "skip" /\ codemem = image /\ sound /\ result = NoLoad
      /\ UNCHANGED <<codemem, got, count, image, sound>>
      /\ \/ at' = "header" /\ count < MaxRecords /\ result' = result
         \/ at' = at /\ result' = result
         \/ at' = "idle" /\ result' = -5
  BY DEF Skip, Close, LInv, LoadedAsWritten
<1> QED BY <1>1 DEF LInv, LoadedAsWritten, NoLoad, IsFunction

(* The other steps of the program do not take part in a load.              *)
LEMMA OthersKeepLoad ==
    ASSUME LInv, UNCHANGED <<codemem, loader, image>>
    PROVE  LInv'
BY DEF LInv, Reading, LoadedAsWritten, IsFunction, loader, record, file

LEMMA ResetKeepsLoad ==
    ASSUME LInv, NEW wipe, Reset(wipe)
    PROVE  LInv'
<1>1. CASE wipe
  <2>1. IsFunction(<<>>)
    BY DEF IsFunction
  <2>2. MaxRecords \in Nat
    BY RecordsAssumption, LenProperties DEF MaxRecords
  <2> QED BY <1>1, <2>1, <2>2 DEF Reset, LInv, LoadedAsWritten, NoLoad
<1>2. CASE ~wipe
  BY <1>2, OthersKeepLoad DEF Reset
<1> QED BY <1>1, <1>2

LEMMA LInvNext == LInv /\ [Next]_vars => LInv'
<1> SUFFICES ASSUME LInv, [Next]_vars PROVE LInv'
  OBVIOUS
<1>1. CASE Load
  BY <1>1, OpenKeeps DEF Load
<1>2. CASE Loading
  BY <1>2, HeaderKeeps, DataByteKeeps, CheckKeeps, SkipKeeps DEF Loading, LoadStep
<1>3. ASSUME NEW wipe \in BOOLEAN, Reset(wipe) PROVE LInv'
  BY <1>3, ResetKeepsLoad
<1>4. CASE Jump \/ ShortJump \/ Branch \/ Return \/ StepOver
  <2>1. UNCHANGED <<codemem, loader, image>>
    BY <1>4 DEF Jump, ShortJump, Branch, Return, StepOver, Executes
  <2> QED BY <2>1, OthersKeepLoad
<1>5. CASE Sleep \/ Interrupt \/ GoTo \/ UNCHANGED vars
  <2>1. UNCHANGED <<codemem, loader, image>>
    BY <1>5 DEF Sleep, Interrupt, GoTo, vars
  <2> QED BY <2>1, OthersKeepLoad
<1> QED BY <1>1, <1>2, <1>3, <1>4, <1>5 DEF Next

LEMMA LInvAlways == Spec => []LInv
<1> QED BY LInvInit, LInvNext, PTL DEF Spec

(* After every load of any file the code memory is what its valid records  *)
(* make it, up to the record that failed, and the result says so           *)
(* (load_obj, emu.c:548-590).                                              *)
THEOREM LoadsAsWritten == Spec => []LoadedAsWritten
<1>1. LInv => LoadedAsWritten
  BY DEF LInv
<1> QED BY <1>1, LInvAlways, PTL

-----------------------------------------------------------------------------
(* The two tables of opcodes, compared for any operand bytes.              *)
Instruction == Bytes \X Bytes \X Bytes

Agree(taken, listed) ==
    /\ Len(taken) = Len(listed)
    /\ \A k \in 1 .. Len(taken) : SameOperand(taken[k], listed[k])

LEMMA SameAgree ==
    ASSUME NEW taken, NEW listed, taken = listed
    PROVE  Agree(taken, listed)
BY DEF Agree, SameOperand

LEMMA OneAgrees ==
    ASSUME NEW x, NEW y, SameOperand(x, y)
    PROVE  Agree(<<x>>, <<y>>)
BY DEF Agree

LEMMA FirstAgrees ==
    ASSUME NEW x, NEW y, NEW z, SameOperand(x, y)
    PROVE  Agree(<<x, z>>, <<y, z>>)
<1>1. SameOperand(z, z)
  BY DEF SameOperand
<1> QED BY <1>1 DEF Agree

LEMMA SecondAgrees ==
    ASSUME NEW x, NEW y, NEW z, SameOperand(x, y)
    PROVE  Agree(<<z, x>>, <<z, y>>)
<1>1. SameOperand(z, z)
  BY DEF SameOperand
<1> QED BY <1>1 DEF Agree

(* The bit a handler accesses is the one printed, but for the byte of the  *)
(* bits below 80h (opcodes.c:260-289, disasm.c:140-214).                   *)
LEMMA BitsAgree ==
    ASSUME NEW v \in Bytes
    PROVE  /\ SameOperand(AccessedBit(v), PrintedBit(v))
           /\ SameOperand(Complement(AccessedBit(v)), Complement(PrintedBit(v)))
<1>1. CASE v > 127
  <2>1. v - (v % 8) = 8 * (v \div 8)
    BY DEF Bytes
  <2>2. AccessedBit(v) = PrintedBit(v)
    BY <1>1, <2>1 DEF AccessedBit, PrintedBit
  <2> QED BY <2>2 DEF SameOperand
<1>2. CASE v <= 127
  <2> DEFINE n == v \div 8
             m == v % 8
  <2>1. n \in 0 .. 15 /\ (32 + n) - 32 = n
    BY <1>2 DEF Bytes
  <2>2. AccessedBit(v) = <<"bit", 32 + n, m>> /\ PrintedBit(v) = <<"bit", n, m>>
    BY <1>2 DEF AccessedBit, PrintedBit, Bit, Bytes
  <2> HIDE DEF n, m
  <2>3. <<"bit", n, m>> = [<<"bit", 32 + n, m>> EXCEPT ![2] = @ - 32]
    BY <2>1
  <2>4. SameOperand(AccessedBit(v), PrintedBit(v))
    BY <2>1, <2>2, <2>3 DEF SameOperand
  <2>5. SameOperand(Complement(AccessedBit(v)), Complement(PrintedBit(v)))
    BY <2>1, <2>2, <2>3 DEF SameOperand, Complement
  <2> QED BY <2>4, <2>5
<1> QED BY <1>1, <1>2 DEF Bytes

(* The parts of the tables an opcode is found in.                          *)
LEMMA ListedAt ==
    ASSUME NEW pc, NEW b \in Instruction
    PROVE  /\ b[1] = 0 => Listed(pc, b) = <<>>
           /\ b[1] # 0 /\ Row(b) \in 0..3 => Listed(pc, b) = ListedRows0to3(pc, b)
           /\ Row(b) \in 4..7 => Listed(pc, b) = ListedRows4to7(pc, b)
           /\ Row(b) \in 8..11 => Listed(pc, b) = ListedRows8toB(pc, b)
           /\ Row(b) \in 12..15 => Listed(pc, b) = ListedRowsCtoF(pc, b)
<1>1. Row(b) \in 0..15 /\ (b[1] = 0 => Row(b) = 0)
  BY DEF Row, Instruction, Bytes
<1> QED BY <1>1 DEF Listed

LEMMA HandledAt ==
    ASSUME NEW pc, NEW b \in Instruction
    PROVE  /\ Column(b) = 0 => Handled(pc, b) = HandledColumn0(b)
           /\ Column(b) = 1 => Handled(pc, b) = <<Address(PageTarget(pc, b))>>
           /\ Column(b) = 2 => Handled(pc, b) = HandledColumn2(b)
           /\ Column(b) = 3 => Handled(pc, b) = HandledColumn3(b)
           /\ Column(b) = 4 => Handled(pc, b) = HandledColumn4(b)
           /\ Column(b) = 5 => Handled(pc, b) = HandledColumn5(b)
           /\ Column(b) \in 6..15 => Handled(pc, b) = HandledRegister(b)
<1>1. Column(b) \in 0..15
  BY DEF Column, Instruction, Bytes
<1> QED BY <1>1 DEF Handled

LEMMA OpcodeDigits ==
    ASSUME NEW b \in Instruction
    PROVE  /\ b[1] = 16 * Row(b) + Column(b)
           /\ Row(b) \in 0..15 /\ Column(b) \in 0..15
           /\ b[1] \in 0..255 /\ b[2] \in 0..255 /\ b[3] \in 0..255
BY DEF Row, Column, Instruction, Bytes

(* RX_ADDRESS, INDIR_RX_ADDRESS and the registers printed. *)
LEMMA PrintedRegister ==
    ASSUME NEW b \in Instruction, Column(b) \in 6..15
    PROVE  Printed(b) = RxOf(b)
<1>1. b[1] \in 0..255
  BY OpcodeDigits
<1>2. /\ Column(b) < 8 => Column(b) % 2 = b[1] % 2
      /\ Column(b) > 7 => Column(b) % 8 = b[1] % 8
  BY <1>1 DEF Column
<1> HIDE DEF Column
<1> QED BY <1>2 DEF Printed, RxOf


(* NOP, the jumps on a bit or a flag, MOV DPTR, PUSH, POP, MOVX.            *)
LEMMA Column0Agrees ==
    ASSUME NEW pc \in Addresses, NEW b \in Instruction, Column(b) = 0
    PROVE  Agree(Handled(pc, b), Listed(pc, b))
<1>1. /\ b[1] = 16 * Row(b) + 0 /\ Row(b) \in 0..15 /\ b[2] \in Bytes /\ LongTarget(b) = Long(b)
  BY OpcodeDigits DEF Bytes, LongTarget, Long
<1>2. Handled(pc, b) = HandledColumn0(b)
  BY HandledAt
<1>3. CASE Row(b) = 0
  <2>1. HandledColumn0(b) = <<>> /\ Listed(pc, b) = <<>>
    BY <1>1, <1>3, ListedAt DEF HandledColumn0
  <2> QED BY <1>2, <2>1, SameAgree
<1>4. CASE Row(b) \in {1, 2, 3}
  <2>1. HandledColumn0(b) = <<AccessedBit(b[2]), Offset(Signed(b[3]))>>
    BY <1>1, <1>4 DEF HandledColumn0
  <2>2. ListedRows0to3(pc, b) = <<PrintedBit(b[2]), Offset(Signed(b[3]))>>
    BY <1>1, <1>4 DEF ListedRows0to3
  <2> QED BY <1>1, <1>2, <1>4, <2>1, <2>2, ListedAt, FirstAgrees, BitsAgree
<1>5. CASE Row(b) \in {4, 5, 6, 7}
  <2>1. HandledColumn0(b) = <<Offset(Signed(b[2]))>>
    BY <1>1, <1>5 DEF HandledColumn0
  <2>2. ListedRows4to7(pc, b) = <<Offset(Signed(b[2]))>>
    BY <1>1, <1>5 DEF ListedRows4to7
  <2> QED BY <1>1, <1>2, <1>5, <2>1, <2>2, ListedAt, SameAgree
<1>6. CASE Row(b) = 8
  <2>1. HandledColumn0(b) = <<Offset(Signed(b[2]))>>
    BY <1>1, <1>6 DEF HandledColumn0
  <2>2. ListedRows8toB(pc, b) = <<Offset(Signed(b[2]))>>
    BY <1>1, <1>6 DEF ListedRows8toB
  <2> QED BY <1>1, <1>2, <1>6, <2>1, <2>2, ListedAt, SameAgree
<1>7. CASE Row(b) = 9
  <2>1. HandledColumn0(b) = <<DPTR, Immediate(Long(b))>>
    BY <1>1, <1>7 DEF HandledColumn0
  <2>2. ListedRows8toB(pc, b) = <<DPTR, Immediate(Long(b))>>
    BY <1>1, <1>7 DEF ListedRows8toB
  <2> QED BY <1>1, <1>2, <1>7, <2>1, <2>2, ListedAt, SameAgree
<1>8. CASE Row(b) \in {10, 11}
  <2>1. HandledColumn0(b) = <<C, Complement(AccessedBit(b[2]))>>
    BY <1>1, <1>8 DEF HandledColumn0
  <2>2. ListedRows8toB(pc, b) = <<C, Complement(PrintedBit(b[2]))>>
    BY <1>1, <1>8 DEF ListedRows8toB
  <2> QED BY <1>1, <1>2, <1>8, <2>1, <2>2, ListedAt, SecondAgrees, BitsAgree
<1>9. CASE Row(b) \in {12, 13}
  <2>1. HandledColumn0(b) = <<Direct(b[2])>>
    BY <1>1, <1>9 DEF HandledColumn0
  <2>2. ListedRowsCtoF(pc, b) = <<Direct(b[2])>>
    BY <1>1, <1>9 DEF ListedRowsCtoF
  <2> QED BY <1>1, <1>2, <1>9, <2>1, <2>2, ListedAt, SameAgree
<1>10. CASE Row(b) = 14
  <2>1. HandledColumn0(b) = <<A, AtDPTR>>
    BY <1>1, <1>10 DEF HandledColumn0
  <2>2. ListedRowsCtoF(pc, b) = <<A, AtDPTR>>
    BY <1>1, <1>10 DEF ListedRowsCtoF
  <2> QED BY <1>1, <1>2, <1>10, <2>1, <2>2, ListedAt, SameAgree
<1>11. CASE Row(b) = 15
  <2>1. HandledColumn0(b) = <<AtDPTR, A>>
    BY <1>1, <1>11 DEF HandledColumn0
  <2>2. ListedRowsCtoF(pc, b) = <<AtDPTR, A>>
    BY <1>1, <1>11 DEF ListedRowsCtoF
  <2> QED BY <1>1, <1>2, <1>11, <2>1, <2>2, ListedAt, SameAgree
<1> QED BY <1>1, <1>3, <1>4, <1>5, <1>6, <1>7, <1>8, <1>9, <1>10, <1>11

(* LJMP, LCALL, returns, logic with A, bits and C, MOVX.                   *)
LEMMA Column2Agrees ==
    ASSUME NEW pc \in Addresses, NEW b \in Instruction, Column(b) = 2
    PROVE  Agree(Handled(pc, b), Listed(pc, b))
<1>1. /\ b[1] = 16 * Row(b) + 2 /\ Row(b) \in 0..15 /\ b[2] \in Bytes /\ LongTarget(b) = Long(b)
      /\ RxOf(b) = Indirect(b[1] % 2)
  BY OpcodeDigits DEF Bytes, LongTarget, Long, RxOf
<1>2. Handled(pc, b) = HandledColumn2(b)
  BY HandledAt
<1>3. CASE Row(b) \in {0, 1}
  <2>1. HandledColumn2(b) = <<Address(Long(b))>>
    BY <1>1, <1>3 DEF HandledColumn2
  <2>2. ListedRows0to3(pc, b) = <<Address(Long(b))>>
    BY <1>1, <1>3 DEF ListedRows0to3
  <2> QED BY <1>1, <1>2, <1>3, <2>1, <2>2, ListedAt, SameAgree
<1>4. CASE Row(b) \in {2, 3}
  <2>1. HandledColumn2(b) = <<>>
    BY <1>1, <1>4 DEF HandledColumn2
  <2>2. ListedRows0to3(pc, b) = <<>>
    BY <1>1, <1>4 DEF ListedRows0to3
  <2> QED BY <1>1, <1>2, <1>4, <2>1, <2>2, ListedAt, SameAgree
<1>5. CASE Row(b) \in {4, 5, 6}
  <2>1. HandledColumn2(b) = <<Direct(b[2]), A>>
    BY <1>1, <1>5 DEF HandledColumn2
  <2>2. ListedRows4to7(pc, b) = <<Direct(b[2]), A>>
    BY <1>1, <1>5 DEF ListedRows4to7
  <2> QED BY <1>1, <1>2, <1>5, <2>1, <2>2, ListedAt, SameAgree
<1>6. CASE Row(b) = 7
  <2>1. HandledColumn2(b) = <<C, AccessedBit(b[2])>>
    BY <1>1, <1>6 DEF HandledColumn2
  <2>2. ListedRows4to7(pc, b) = <<C, PrintedBit(b[2])>>
    BY <1>1, <1>6 DEF ListedRows4to7
  <2> QED BY <1>1, <1>2, <1>6, <2>1, <2>2, ListedAt, SecondAgrees, BitsAgree
<1>7. CASE Row(b) \in {8, 10}
  <2>1. HandledColumn2(b) = <<C, AccessedBit(b[2])>>
    BY <1>1, <1>7 DEF HandledColumn2
  <2>2. ListedRows8toB(pc, b) = <<C, PrintedBit(b[2])>>
    BY <1>1, <1>7 DEF ListedRows8toB
  <2> QED BY <1>1, <1>2, <1>7, <2>1, <2>2, ListedAt, SecondAgrees, BitsAgree
<1>8. CASE Row(b) = 9
  <2>1. HandledColumn2(b) = <<AccessedBit(b[2]), C>>
    BY <1>1, <1>8 DEF HandledColumn2
  <2>2. ListedRows8toB(pc, b) = <<PrintedBit(b[2]), C>>
    BY <1>1, <1>8 DEF ListedRows8toB
  <2> QED BY <1>1, <1>2, <1>8, <2>1, <2>2, ListedAt, FirstAgrees, BitsAgree
<1>9. CASE Row(b) = 11
  <2>1. HandledColumn2(b) = <<AccessedBit(b[2])>>
    BY <1>1, <1>9 DEF HandledColumn2
  <2>2. ListedRows8toB(pc, b) = <<PrintedBit(b[2])>>
    BY <1>1, <1>9 DEF ListedRows8toB
  <2> QED BY <1>1, <1>2, <1>9, <2>1, <2>2, ListedAt, OneAgrees, BitsAgree
<1>10. CASE Row(b) \in {12, 13}
  <2>1. HandledColumn2(b) = <<AccessedBit(b[2])>>
    BY <1>1, <1>10 DEF HandledColumn2
  <2>2. ListedRowsCtoF(pc, b) = <<PrintedBit(b[2])>>
    BY <1>1, <1>10 DEF ListedRowsCtoF
  <2> QED BY <1>1, <1>2, <1>10, <2>1, <2>2, ListedAt, OneAgrees, BitsAgree
<1>11. CASE Row(b) \in {14, 15}
  <2>1. HandledColumn2(b) = ListedRowsCtoF(pc, b)
    BY <1>1, <1>11 DEF HandledColumn2, ListedRowsCtoF
  <2> QED BY <1>1, <1>2, <1>11, <2>1, ListedAt, SameAgree
<1> QED BY <1>1, <1>3, <1>4, <1>5, <1>6, <1>7, <1>8, <1>9, <1>10, <1>11

(* Rotations, logic with a constant, JMP and MOVC, C, MOVX.                *)
LEMMA Column3Agrees ==
    ASSUME NEW pc \in Addresses, NEW b \in Instruction, Column(b) = 3
    PROVE  Agree(Handled(pc, b), Listed(pc, b))
<1>1. /\ b[1] = 16 * Row(b) + 3 /\ Row(b) \in 0..15 /\ b[2] \in Bytes
      /\ RxOf(b) = Indirect(b[1] % 2)
  BY OpcodeDigits DEF Bytes, RxOf
<1>2. Handled(pc, b) = HandledColumn3(b)
  BY HandledAt
<1>3. CASE Row(b) \in {0, 1, 2, 3}
  <2>1. HandledColumn3(b) = ListedRows0to3(pc, b)
    BY <1>1, <1>3 DEF HandledColumn3, ListedRows0to3
  <2> QED BY <1>1, <1>2, <1>3, <2>1, ListedAt, SameAgree
<1>4. CASE Row(b) \in {4, 5, 6, 7}
  <2>1. HandledColumn3(b) = ListedRows4to7(pc, b)
    BY <1>1, <1>4 DEF HandledColumn3, ListedRows4to7
  <2> QED BY <1>1, <1>2, <1>4, <2>1, ListedAt, SameAgree
<1>5. CASE Row(b) = 8
  <2>1. HandledColumn3(b) = <<A, Indexed("PC")>>
    BY <1>1, <1>5 DEF HandledColumn3
  <2>2. ListedRows8toB(pc, b) = <<A, Indexed("PC")>>
    BY <1>1, <1>5 DEF ListedRows8toB
  <2> QED BY <1>1, <1>2, <1>5, <2>1, <2>2, ListedAt, SameAgree
<1>6. CASE Row(b) = 9
  <2>1. HandledColumn3(b) = <<A, Indexed("DPTR")>>
    BY <1>1, <1>6 DEF HandledColumn3
  <2>2. ListedRows8toB(pc, b) = <<A, Indexed("DPTR")>>
    BY <1>1, <1>6 DEF ListedRows8toB
  <2> QED BY <1>1, <1>2, <1>6, <2>1, <2>2, ListedAt, SameAgree
<1>7. CASE Row(b) = 10
  <2>1. HandledColumn3(b) = <<DPTR>>
    BY <1>1, <1>7 DEF HandledColumn3
  <2>2. ListedRows8toB(pc, b) = <<DPTR>>
    BY <1>1, <1>7 DEF ListedRows8toB
  <2> QED BY <1>1, <1>2, <1>7, <2>1, <2>2, ListedAt, SameAgree
<1>8. CASE Row(b) = 11
  <2>1. HandledColumn3(b) = <<C>>
    BY <1>1, <1>8 DEF HandledColumn3
  <2>2. ListedRows8toB(pc, b) = <<C>>
    BY <1>1, <1>8 DEF ListedRows8toB
  <2> QED BY <1>1, <1>2, <1>8, <2>1, <2>2, ListedAt, SameAgree
<1>9. CASE Row(b) \in {12, 13, 14, 15}
  <2>1. HandledColumn3(b) = ListedRowsCtoF(pc, b)
    BY <1>1, <1>9 DEF HandledColumn3, ListedRowsCtoF
  <2> QED BY <1>1, <1>2, <1>9, <2>1, ListedAt, SameAgree
<1> QED BY <1>1, <1>3, <1>4, <1>5, <1>6, <1>7, <1>8, <1>9

(* A alone or with a constant, MUL and DIV.                                *)
LEMMA Column4Agrees ==
    ASSUME NEW pc \in Addresses, NEW b \in Instruction, Column(b) = 4
    PROVE  Agree(Handled(pc, b), Listed(pc, b))
<1>1. /\ b[1] = 16 * Row(b) + 4 /\ Row(b) \in 0..15 /\ b[2] \in Bytes
  BY OpcodeDigits DEF Bytes
<1>2. Handled(pc, b) = HandledColumn4(b)
  BY HandledAt
<1>3. CASE Row(b) \in {0, 1, 2, 3}
  <2>1. HandledColumn4(b) = ListedRows0to3(pc, b)
    BY <1>1, <1>3 DEF HandledColumn4, Arithmetic, ListedRows0to3, Printed
  <2> QED BY <1>1, <1>2, <1>3, <2>1, ListedAt, SameAgree
<1>4. CASE Row(b) \in {4, 5, 6, 7}
  <2>1. HandledColumn4(b) = ListedRows4to7(pc, b)
    BY <1>1, <1>4 DEF HandledColumn4, Arithmetic, ListedRows4to7, Printed
  <2> QED BY <1>1, <1>2, <1>4, <2>1, ListedAt, SameAgree
<1>5. CASE Row(b) \in {8, 9, 10, 11}
  <2>1. HandledColumn4(b) = ListedRows8toB(pc, b)
    BY <1>1, <1>5 DEF HandledColumn4, Arithmetic, ListedRows8toB, Printed
  <2> QED BY <1>1, <1>2, <1>5, <2>1, ListedAt, SameAgree
<1>6. CASE Row(b) \in {12, 13, 14, 15}
  <2>1. HandledColumn4(b) = ListedRowsCtoF(pc, b)
    BY <1>1, <1>6 DEF HandledColumn4, Arithmetic, ListedRowsCtoF, Printed
  <2> QED BY <1>1, <1>2, <1>6, <2>1, ListedAt, SameAgree
<1> QED BY <1>1, <1>3, <1>4, <1>5, <1>6

(* A direct address.                                                       *)
LEMMA Column5Agrees ==
    ASSUME NEW pc \in Addresses, NEW b \in Instruction, Column(b) = 5
    PROVE  Agree(Handled(pc, b), Listed(pc, b))
<1>1. /\ b[1] = 16 * Row(b) + 5 /\ Row(b) \in 0..15 /\ b[2] \in Bytes
  BY OpcodeDigits DEF Bytes
<1>2. Handled(pc, b) = HandledColumn5(b)
  BY HandledAt
<1>3. CASE Row(b) \in {0, 1}
  <2>1. HandledColumn5(b) = <<Direct(b[2])>>
    BY <1>3 DEF HandledColumn5, Arithmetic
  <2>2. b[1] \in {\h05, \h15}
    BY <1>1, <1>3
  <2>3. ListedRows0to3(pc, b) = <<Direct(b[2])>>
    BY <1>3, <2>2 DEF ListedRows0to3, Printed
  <2>4. Listed(pc, b) = ListedRows0to3(pc, b)
    BY <1>3, <2>2, ListedAt
  <2> QED BY <1>2, <2>1, <2>3, <2>4, SameAgree
<1>9. CASE Row(b) \in {2, 3}
  <2>1. HandledColumn5(b) = <<A, Direct(b[2])>>
    BY <1>9 DEF HandledColumn5, Arithmetic
  <2>2. b[1] \in {\h25, \h35}
    BY <1>1, <1>9
  <2>3. ListedRows0to3(pc, b) = <<A, Direct(b[2])>>
    BY <1>9, <2>2 DEF ListedRows0to3, Printed
  <2>4. Listed(pc, b) = ListedRows0to3(pc, b)
    BY <1>9, <2>2, ListedAt
  <2> QED BY <1>2, <2>1, <2>3, <2>4, SameAgree
<1>4. CASE Row(b) \in {4, 5, 6, 7}
  <2>1. HandledColumn5(b) = ListedRows4to7(pc, b)
    BY <1>1, <1>4 DEF HandledColumn5, Arithmetic, ListedRows4to7, Printed
  <2> QED BY <1>1, <1>2, <1>4, <2>1, ListedAt, SameAgree
<1>5. CASE Row(b) \in {8, 9, 10, 11}
  <2>1. HandledColumn5(b) = ListedRows8toB(pc, b)
    BY <1>1, <1>5 DEF HandledColumn5, Arithmetic, ListedRows8toB, Printed
  <2> QED BY <1>1, <1>2, <1>5, <2>1, ListedAt, SameAgree
<1>6. CASE Row(b) \in {12, 14}
  <2>1. HandledColumn5(b) = <<A, Direct(b[2])>>
    BY <1>1, <1>6 DEF HandledColumn5, Arithmetic
  <2>2. ListedRowsCtoF(pc, b) = <<A, Direct(b[2])>>
    BY <1>1, <1>6 DEF ListedRowsCtoF, Printed
  <2> QED BY <1>1, <1>2, <1>6, <2>1, <2>2, ListedAt, SameAgree
<1>7. CASE Row(b) = 13
  <2>1. HandledColumn5(b) = <<Direct(b[2]), Offset(Signed(b[3]))>>
    BY <1>1, <1>7 DEF HandledColumn5, Arithmetic
  <2>2. ListedRowsCtoF(pc, b) = <<Direct(b[2]), Offset(Signed(b[3]))>>
    BY <1>1, <1>7 DEF ListedRowsCtoF, Printed
  <2> QED BY <1>1, <1>2, <1>7, <2>1, <2>2, ListedAt, SameAgree
<1>8. CASE Row(b) = 15
  <2>1. HandledColumn5(b) = <<Direct(b[2]), A>>
    BY <1>1, <1>8 DEF HandledColumn5, Arithmetic
  <2>2. ListedRowsCtoF(pc, b) = <<Direct(b[2]), A>>
    BY <1>1, <1>8 DEF ListedRowsCtoF, Printed
  <2> QED BY <1>1, <1>2, <1>8, <2>1, <2>2, ListedAt, SameAgree
<1> QED BY <1>1, <1>3, <1>4, <1>5, <1>6, <1>7, <1>8, <1>9

(* The opcodes of rows 8 to B that are listed by a line of their own. *)
Singled8toB ==
    {\h80, \h90, \hA0, \hB0, \h82, \hA2, \h92, \hB2, \h83, \h93, \hA3, \hB3, \h84, \hA4, \hA5, \h85}

(* The page of AJMP and ACALL. *)
LEMMA PagesAgree ==
    ASSUME NEW pc \in Addresses, NEW b \in Instruction, Column(b) = 1
    PROVE  Agree(Handled(pc, b), Listed(pc, b))
<1>1. b[1] = 16 * Row(b) + 1 /\ Row(b) \in 0..15
  BY OpcodeDigits
<1>2. Address(PageTarget(pc, b)) = InPage(pc, b)
  BY DEF PageTarget, InPage, Page
<1>3. Handled(pc, b) = <<InPage(pc, b)>>
  BY <1>2, HandledAt
<1>4. CASE Row(b) \in 0..3
  <2>1. ListedRows0to3(pc, b) = <<InPage(pc, b)>>
    BY <1>1, <1>4 DEF ListedRows0to3
  <2> QED BY <1>1, <1>3, <1>4, <2>1, ListedAt, SameAgree
<1>5. CASE Row(b) \in 4..7
  <2>1. ListedRows4to7(pc, b) = <<InPage(pc, b)>>
    BY <1>1, <1>5 DEF ListedRows4to7
  <2> QED BY <1>1, <1>3, <1>5, <2>1, ListedAt, SameAgree
<1>6. CASE Row(b) \in 8..11
  <2>1. ListedRows8toB(pc, b) = <<InPage(pc, b)>>
    <3>1. b[1] \notin Singled8toB
      BY <1>1, <1>6 DEF Singled8toB
    <3>2. Row(b) # 8 \/ ~(Column(b) > 5)
      OBVIOUS
    <3> QED BY <1>6, <3>1 DEF Singled8toB, ListedRows8toB
  <2> QED BY <1>1, <1>3, <1>6, <2>1, ListedAt, SameAgree
<1>7. CASE Row(b) \in 12..15
  <2>1. ListedRowsCtoF(pc, b) = <<InPage(pc, b)>>
    BY <1>1, <1>7 DEF ListedRowsCtoF
  <2> QED BY <1>1, <1>3, <1>7, <2>1, ListedAt, SameAgree
<1> QED BY <1>1, <1>4, <1>5, <1>6, <1>7

(* A register, or the memory one points to. *)
LEMMA RegistersAgree ==
    ASSUME NEW pc, NEW b \in Instruction, Column(b) \in 6..15, b[1] \notin {\h86, \h87}
    PROVE  Agree(Handled(pc, b), Listed(pc, b))
<1>0. SUFFICES Handled(pc, b) = Listed(pc, b)
  BY SameAgree
<1>1. b[1] = 16 * Row(b) + Column(b) /\ Row(b) \in 0..15
  BY OpcodeDigits
<1>18. /\ b[1] # 0 /\ Row(b) \in 0..3 => Listed(pc, b) = ListedRows0to3(pc, b)
       /\ Row(b) \in 4..7 => Listed(pc, b) = ListedRows4to7(pc, b)
       /\ Row(b) \in 8..11 => Listed(pc, b) = ListedRows8toB(pc, b)
       /\ Row(b) \in 12..15 => Listed(pc, b) = ListedRowsCtoF(pc, b)
  BY ListedAt
<1>2. Handled(pc, b) = HandledRegister(b) /\ Printed(b) = RxOf(b)
  BY HandledAt, PrintedRegister
<1>3. Column(b) \notin {0, 1, 2, 3, 4, 5} /\ Column(b) > 5 /\ Column(b) > 3
  OBVIOUS
<1> HIDE DEF Column, Row
<1>4. CASE Row(b) \in {0, 1}
  <2>1. HandledRegister(b) = <<RxOf(b)>>
    BY <1>3, <1>4 DEF HandledRegister, Arithmetic
  <2>2. b[1] # 0 /\ b[1] \notin {\h02, \h12, \h22, \h32, \h04, \h14}
    BY <1>1, <1>4
  <2>3. ListedRows0to3(pc, b) = <<RxOf(b)>>
    BY <1>2, <1>3, <1>4, <2>2 DEF ListedRows0to3
  <2> QED BY <1>2, <1>4, <2>1, <2>2, <2>3, <1>18
<1>5. CASE Row(b) = 2
  <2>1. HandledRegister(b) = <<A, RxOf(b)>>
    BY <1>3, <1>5 DEF HandledRegister, Arithmetic
  <2>2. b[1] # 0 /\ b[1] \notin {\h02, \h12, \h22, \h32, \h04, \h14}
    BY <1>1, <1>5
  <2>3. ListedRows0to3(pc, b) = <<A, RxOf(b)>>
    BY <1>2, <1>3, <1>5, <2>2 DEF ListedRows0to3
  <2> QED BY <1>2, <1>5, <2>1, <2>2, <2>3, <1>18
<1>6. CASE Row(b) = 3
  <2>1. HandledRegister(b) = <<A, RxOf(b)>>
    BY <1>3, <1>6 DEF HandledRegister, Arithmetic
  <2>2. b[1] # 0 /\ b[1] \notin {\h02, \h12, \h22, \h32, \h04, \h14}
    BY <1>1, <1>6
  <2>3. ListedRows0to3(pc, b) = <<A, RxOf(b)>>
    BY <1>2, <1>3, <1>6, <2>2 DEF ListedRows0to3
  <2> QED BY <1>2, <1>6, <2>1, <2>2, <2>3, <1>18
<1>7. CASE Row(b) \in {4, 5, 6}
  <2>1. HandledRegister(b) = <<A, RxOf(b)>>
    BY <1>3, <1>7 DEF HandledRegister, Arithmetic
  <2>2. b[1] \in \h46 .. \h4F \/ b[1] \in \h56 .. \h5F \/ b[1] \in \h66 .. \h6F
    BY <1>1, <1>7
  <2>3. ListedRows4to7(pc, b) = <<A, RxOf(b)>>
    BY <1>2, <1>3, <1>7, <2>2 DEF ListedRows4to7
  <2> QED BY <1>2, <1>7, <2>1, <2>2, <2>3, <1>18
<1>8. CASE Row(b) = 7
  <2>1. HandledRegister(b) = <<RxOf(b), Immediate(b[2])>>
    BY <1>3, <1>8 DEF HandledRegister, Arithmetic
  <2>2. b[1] \in \h76 .. \h7F
    BY <1>1, <1>8
  <2>3. ListedRows4to7(pc, b) = <<RxOf(b), Immediate(b[2])>>
    BY <1>2, <1>3, <1>8, <2>2 DEF ListedRows4to7
  <2> QED BY <1>2, <1>8, <2>1, <2>2, <2>3, <1>18
<1>9. CASE Row(b) = 9
  <2>1. HandledRegister(b) = <<A, RxOf(b)>>
    BY <1>3, <1>9 DEF HandledRegister, Arithmetic
  <2>2. b[1] \notin Singled8toB
    BY <1>1, <1>9 DEF Singled8toB
  <2>3. ListedRows8toB(pc, b) = <<A, RxOf(b)>>
    BY <1>2, <1>3, <1>9, <2>2 DEF ListedRows8toB, Singled8toB
  <2> QED BY <1>2, <1>9, <2>1, <2>2, <2>3, <1>18
<1>10. CASE Row(b) = 10
  <2>1. HandledRegister(b) = <<RxOf(b), Direct(b[2])>>
    BY <1>3, <1>10 DEF HandledRegister, Arithmetic
  <2>2. b[1] \notin Singled8toB
    BY <1>1, <1>10 DEF Singled8toB
  <2>3. ListedRows8toB(pc, b) = <<RxOf(b), Direct(b[2])>>
    BY <1>2, <1>3, <1>10, <2>2 DEF ListedRows8toB, Singled8toB
  <2> QED BY <1>2, <1>10, <2>1, <2>2, <2>3, <1>18
<1>11. CASE Row(b) = 11
  <2>1. HandledRegister(b) = <<RxOf(b), Immediate(b[2]), Offset(Signed(b[3]))>>
    BY <1>3, <1>11 DEF HandledRegister, Arithmetic
  <2>2. b[1] \notin Singled8toB
    BY <1>1, <1>11 DEF Singled8toB
  <2>3. /\ Column(b) # 1 /\ ~(Row(b) = 11 /\ Column(b) \in {4, 5})
        /\ Row(b) # 8 /\ Row(b) # 9 /\ Row(b) # 10
    BY <1>3, <1>11
  <2>4. ListedRows8toB(pc, b) = <<Printed(b), Immediate(b[2]), Offset(Signed(b[3]))>>
    BY <2>2, <2>3, SMT DEF ListedRows8toB, Singled8toB
  <2> QED BY <1>2, <1>11, <2>1, <2>4, <1>18
<1>12. CASE Row(b) = 12
  <2>1. HandledRegister(b) = <<A, RxOf(b)>>
    BY <1>3, <1>12 DEF HandledRegister, Arithmetic
  <2>2. b[1] \in \hC6 .. \hCF
    BY <1>1, <1>12
  <2>3. ListedRowsCtoF(pc, b) = <<A, RxOf(b)>>
    BY <1>2, <1>3, <1>12, <2>2 DEF ListedRowsCtoF
  <2> QED BY <1>2, <1>12, <2>1, <2>2, <2>3, <1>18
<1>13. CASE Row(b) = 14
  <2>1. HandledRegister(b) = <<A, RxOf(b)>>
    BY <1>3, <1>13 DEF HandledRegister, Arithmetic
  <2>2. b[1] \in \hE6 .. \hEF
    BY <1>1, <1>13
  <2>3. ListedRowsCtoF(pc, b) = <<A, RxOf(b)>>
    BY <1>2, <1>3, <1>13, <2>2 DEF ListedRowsCtoF
  <2> QED BY <1>2, <1>13, <2>1, <2>2, <2>3, <1>18
<1>14. CASE Row(b) = 15
  <2>1. HandledRegister(b) = <<RxOf(b), A>>
    BY <1>3, <1>14 DEF HandledRegister, Arithmetic
  <2>2. b[1] \in \hF6 .. \hFF
    BY <1>1, <1>14
  <2>3. ListedRowsCtoF(pc, b) = <<RxOf(b), A>>
    BY <1>2, <1>3, <1>14, <2>2 DEF ListedRowsCtoF
  <2> QED BY <1>2, <1>14, <2>1, <2>2, <2>3, <1>18
<1>15. CASE Row(b) = 13 /\ Column(b) < 8
  <2>1. HandledRegister(b) = <<A, RxOf(b)>>
    BY <1>15 DEF HandledRegister, Arithmetic
  <2>2. b[1] \in {\hD6, \hD7}
    BY <1>1, <1>15
  <2>3. ListedRowsCtoF(pc, b) = <<A, RxOf(b)>>
    BY <1>2, <1>3, <1>15, <2>2 DEF ListedRowsCtoF
  <2> QED BY <1>2, <1>15, <2>1, <2>3, <1>18
<1>16. CASE Row(b) = 13 /\ ~(Column(b) < 8)
  <2>1. HandledRegister(b) = <<RxOf(b), Offset(Signed(b[2]))>>
    BY <1>16 DEF HandledRegister, Arithmetic
  <2>2. b[1] \in \hD8 .. \hDF
    BY <1>1, <1>16
  <2>3. ListedRowsCtoF(pc, b) = <<RxOf(b), Offset(Signed(b[2]))>>
    BY <1>2, <1>3, <1>16, <2>2 DEF ListedRowsCtoF
  <2> QED BY <1>2, <1>16, <2>1, <2>3, <1>18
<1>17. CASE Row(b) = 8
  <2>1. Column(b) > 7 /\ ~(Column(b) < 8)
    BY <1>1, <1>17
  <2>2. HandledRegister(b) = <<Direct(b[2]), RxOf(b)>>
    BY <1>17, <2>1 DEF HandledRegister, Arithmetic
  <2>3. b[1] \notin Singled8toB
    BY <1>1, <1>17 DEF Singled8toB
  <2>4. ListedRows8toB(pc, b) = <<Direct(b[2]), RxOf(b)>>
    BY <1>2, <1>3, <1>17, <2>3 DEF ListedRows8toB, Singled8toB
  <2> QED BY <1>2, <1>17, <2>2, <2>4, <1>18
<1> QED BY <1>1, <1>4, <1>5, <1>6, <1>7, <1>8, <1>9, <1>10, <1>11, <1>12, <1>13, <1>14, <1>15, <1>16, <1>17

LEMMA TablesAgree ==
    ASSUME NEW pc \in Addresses, NEW b \in Instruction, b[1] \notin {\h86, \h87}
    PROVE  Agree(Handled(pc, b), Listed(pc, b))
BY OpcodeDigits, Column0Agrees, PagesAgree, Column2Agrees, Column3Agrees, Column4Agrees,
   Column5Agrees, RegistersAgree

-----------------------------------------------------------------------------
(* An address is a number of 16 bits. *)
LEMMA AddressBounds ==
    ASSUME NEW a
    PROVE  a \in Addresses <=> a \in Int /\ 0 <= a /\ a < CodeSize
<1>1. CodeSize \in Int
  BY DEF CodeSize
<1> QED BY <1>1 DEF Addresses

(* Where a line says that the program goes on.  A handler that takes a     *)
(* target or an offset finds the same one in the line.                     *)
LEMMA TargetListed ==
    ASSUME NEW pc \in Addresses, NEW b \in Instruction, b[1] \notin {\h86, \h87},
           NEW k \in 1 .. Len(Handled(pc, b)), NEW n,
           Handled(pc, b)[k] \in {Offset(n), Address(n)}
    PROVE  k \in 1 .. Len(Listed(pc, b)) /\ Listed(pc, b)[k] = Handled(pc, b)[k]
<1>1. k \in 1 .. Len(Listed(pc, b)) /\ SameOperand(Handled(pc, b)[k], Listed(pc, b)[k])
  BY TablesAgree DEF Agree
<1>2. Handled(pc, b)[k][1] \in {"offset", "address"}
  BY DEF Offset, Address
<1> QED BY <1>1, <1>2 DEF SameOperand

LEMMA NextListed ==
    ASSUME NEW pc, NEW b, b[1] \notin Computed
    PROVE  /\ ListedJumps(pc, b) \subseteq ListedNext(pc, b)
           /\ b[1] \notin Always => (pc + ListedBytes(b[1])) % 65536 \in ListedNext(pc, b)
<1>1. CASE b[1] \in Always
  <2>1. ListedNext(pc, b) = ListedJumps(pc, b)
    BY <1>1 DEF ListedNext
  <2> QED BY <1>1, <2>1
<1>2. CASE b[1] \notin Always
  <2>1. ListedNext(pc, b) = ListedJumps(pc, b) \cup {(pc + ListedBytes(b[1])) % 65536}
    BY <1>2 DEF ListedNext
  <2> QED BY <2>1
<1> QED BY <1>1, <1>2

LEMMA OffsetLeads ==
    ASSUME NEW pc \in Addresses, NEW b \in Instruction, b[1] \notin {\h86, \h87} \cup Computed,
           NEW k \in 1 .. Len(Handled(pc, b)), NEW v \in Bytes,
           Handled(pc, b)[k] = Offset(Signed(v)),
           NEW n \in 1..3, ListedBytes(b[1]) = n
    PROVE  Relative(pc, n, v) \in ListedNext(pc, b)
<1>1. k \in 1 .. Len(Listed(pc, b)) /\ Listed(pc, b)[k] = Offset(Signed(v))
  BY TargetListed
<1>2. Relative(pc, n, v) = (((pc + n) % 65536) + Signed(v)) % 65536
  <2>1. pc \in Int /\ Signed(v) \in Int
    BY AddressBounds DEF Signed, Bytes
  <2> QED BY <2>1, SMT DEF Relative
<1>3. Relative(pc, n, v) = LeadsTo(pc, b, Listed(pc, b)[k])
  BY <1>1, <1>2 DEF LeadsTo, Offset, Address
<1>4. Relative(pc, n, v) \in ListedJumps(pc, b)
  BY <1>1, <1>3 DEF ListedJumps, Offset, Address
<1> QED BY <1>4, NextListed

LEMMA AddressLeads ==
    ASSUME NEW pc \in Addresses, NEW b \in Instruction, b[1] \notin {\h86, \h87} \cup Computed,
           NEW k \in 1 .. Len(Handled(pc, b)), NEW target,
           Handled(pc, b)[k] = Address(target)
    PROVE  target \in ListedNext(pc, b)
<1>1. k \in 1 .. Len(Listed(pc, b)) /\ Listed(pc, b)[k] = Address(target)
  BY TargetListed
<1>2. target = LeadsTo(pc, b, Listed(pc, b)[k])
  BY <1>1 DEF LeadsTo, Offset, Address
<1>3. target \in ListedJumps(pc, b)
  BY <1>1, <1>2 DEF ListedJumps, Offset, Address
<1> QED BY <1>3, NextListed

(* The bytes a handler steps over and those its line takes. *)
LEMMA BytesCounted ==
    ASSUME NEW op \in Bytes,
           op \notin Jumps \cup {\h80} \cup BranchesOfTwo \cup BranchesOfThree \cup Popped
    PROVE  StepsOver(op) = ListedBytes(op) /\ op \notin Always /\ op \notin Computed
<1> DEFINE r == op \div 16
           c == op % 16
<1>1. op = 16 * r + c /\ r \in 0..15 /\ c \in 0..15
  BY DEF Bytes
<1>2. \A R, K : op \in Rows(R, K) <=> r \in R /\ c \in K
  BY DEF Rows, Bytes
<1> HIDE DEF r, c
<1>3. c # 1
  <2>1. op \notin AjmpAcall
    BY DEF Jumps
  <2> QED BY <1>1, <1>2, <2>1 DEF AjmpAcall
<1>4. \A row \in 0..15 : op # 16 * row + 1
  BY <1>1, <1>3
<1>5. op \in PlusThree <=> op \in ThreeBytes
  BY <1>1, <1>2 DEF PlusThree, ThreeBytes, Jumps, BranchesOfThree
<1>6. op \in PlusTwo <=> op \in TwoBytes
  <2>1. CASE c = 0
    BY <1>1, <1>2, <1>4, <2>1 DEF PlusTwo, TwoBytes, BranchesOfThree, BranchesOfTwo
  <2>2. CASE c = 2
    BY <1>1, <1>2, <1>4, <2>2 DEF PlusTwo, TwoBytes, BranchesOfThree
  <2>3. CASE c = 3
    BY <1>1, <1>2, <1>4, <2>3 DEF PlusTwo, TwoBytes, BranchesOfThree
  <2>4. CASE c = 4
    BY <1>1, <1>2, <1>4, <2>4 DEF PlusTwo, TwoBytes, BranchesOfThree
  <2>5. CASE c = 5
    BY <1>1, <1>2, <1>4, <2>5 DEF PlusTwo, TwoBytes, BranchesOfThree
  <2>6. CASE c > 5
    BY <1>1, <1>2, <1>4, <2>6 DEF PlusTwo, TwoBytes, BranchesOfTwo, BranchesOfThree
  <2> QED BY <1>1, <1>3, <2>1, <2>2, <2>3, <2>4, <2>5, <2>6
<1>7. ~(op \in PlusThree /\ op \in PlusTwo) /\ ~(op \in ThreeBytes /\ op \in TwoBytes)
  BY <1>1, <1>2, <1>4 DEF PlusTwo, PlusThree, ThreeBytes, TwoBytes
<1>8. op \notin Always /\ op \notin Computed
  BY <1>4 DEF Always, Computed, Jumps, Popped
<1> QED BY <1>5, <1>6, <1>7, <1>8 DEF StepsOver, ListedBytes

(* The jumps and branches, each with its line. *)
LEMMA JumpsAsListed ==
    ASSUME NEW pc \in Addresses, NEW b \in Instruction, b[1] \in Jumps
    PROVE  IF b[1] \in AjmpAcall THEN PageTarget(pc, b) \in ListedNext(pc, b)
                                 ELSE LongTarget(b) \in ListedNext(pc, b)
<1>1. CASE b[1] \in AjmpAcall
  <2>1. Column(b) = 1
    BY <1>1 DEF AjmpAcall, Rows, Column
  <2>2. b[1] \notin {\h86, \h87} \cup Computed
    BY <2>1, OpcodeDigits DEF Computed
  <2>3. Handled(pc, b) = <<Address(PageTarget(pc, b))>>
    BY <2>1, HandledAt
  <2>4. 1 \in 1 .. Len(Handled(pc, b)) /\ Handled(pc, b)[1] = Address(PageTarget(pc, b))
    BY <2>3
  <2> QED BY <1>1, <2>2, <2>4, AddressLeads
<1>2. CASE b[1] \notin AjmpAcall
  <2>1. b[1] \in {\h02, \h12}
    BY <1>2 DEF Jumps
  <2>2. Column(b) = 2
    BY <2>1 DEF Column
  <2>3. Handled(pc, b) = <<Address(LongTarget(b))>>
    <3>1. HandledColumn2(b) = <<Address(LongTarget(b))>>
      BY <2>1 DEF HandledColumn2
    <3> QED BY <2>2, <3>1, HandledAt
  <2>4. 1 \in 1 .. Len(Handled(pc, b)) /\ Handled(pc, b)[1] = Address(LongTarget(b))
    BY <2>3
  <2>5. b[1] \notin {\h86, \h87} \cup Computed
    BY <2>1 DEF Computed
  <2> QED BY <1>2, <2>4, <2>5, AddressLeads
<1> QED BY <1>1, <1>2

LEMMA OffsetsOfTwo ==
    ASSUME NEW pc \in Addresses, NEW b \in Instruction, b[1] \in BranchesOfTwo \cup {\h80}
    PROVE  /\ \E k \in 1 .. Len(Handled(pc, b)) : Handled(pc, b)[k] = Offset(Signed(b[2]))
           /\ ListedBytes(b[1]) = 2 /\ b[1] \notin Computed \cup {\h86, \h87}
           /\ b[1] # \h80 => b[1] \notin Always
<1>1. b[1] \in {\h40, \h50, \h60, \h70, \h80} \cup \hD8 .. \hDF
  BY DEF BranchesOfTwo, Rows
<1>2. ListedBytes(b[1]) = 2 /\ b[1] \notin Computed \cup {\h86, \h87}
  <2>1. b[1] \in TwoBytes /\ b[1] \notin ThreeBytes
    BY <1>1 DEF TwoBytes, ThreeBytes
  <2> QED BY <1>1, <2>1 DEF ListedBytes, Computed
<1>3. b[1] # \h80 => b[1] \notin Always
  BY <1>1 DEF Always
<1>4. CASE b[1] \in {\h40, \h50, \h60, \h70, \h80}
  <2>1. Column(b) = 0
    BY <1>4 DEF Column
  <2>2. HandledColumn0(b) = <<Offset(Signed(b[2]))>>
    BY <1>4 DEF HandledColumn0
  <2>3. Handled(pc, b) = <<Offset(Signed(b[2]))>>
    BY <2>1, <2>2, HandledAt
  <2>4. 1 \in 1 .. Len(Handled(pc, b)) /\ Handled(pc, b)[1] = Offset(Signed(b[2]))
    BY <2>3
  <2> QED BY <1>2, <1>3, <2>4
<1>5. CASE b[1] \in \hD8 .. \hDF
  <2>1. Row(b) = 13 /\ Column(b) \in 8..15
    BY <1>5 DEF Row, Column
  <2>2. HandledRegister(b) = <<RxOf(b), Offset(Signed(b[2]))>>
    BY <2>1 DEF HandledRegister, Arithmetic
  <2>3. Handled(pc, b) = <<RxOf(b), Offset(Signed(b[2]))>>
    BY <2>1, <2>2, HandledAt
  <2>4. 2 \in 1 .. Len(Handled(pc, b)) /\ Handled(pc, b)[2] = Offset(Signed(b[2]))
    BY <2>3
  <2> QED BY <1>2, <1>3, <2>4
<1> QED BY <1>1, <1>4, <1>5

LEMMA OffsetsOfThree ==
    ASSUME NEW pc \in Addresses, NEW b \in Instruction, b[1] \in BranchesOfThree
    PROVE  /\ \E k \in 1 .. Len(Handled(pc, b)) : Handled(pc, b)[k] = Offset(Signed(b[3]))
           /\ ListedBytes(b[1]) = 3 /\ b[1] \notin Computed \cup {\h86, \h87}
           /\ b[1] \notin Always
<1>1. b[1] \in {\h10, \h20, \h30, \hD5} \cup \hB4 .. \hBF
  BY DEF BranchesOfThree, Rows
<1>2. ListedBytes(b[1]) = 3 /\ b[1] \notin Computed \cup {\h86, \h87} /\ b[1] \notin Always
  <2>1. b[1] \in ThreeBytes /\ b[1] \notin TwoBytes
    BY <1>1 DEF ThreeBytes, TwoBytes
  <2>2. b[1] \notin Always
    BY <1>1 DEF Always
  <2> QED BY <1>1, <2>1, <2>2 DEF ListedBytes, Computed
<1> DEFINE o == Offset(Signed(b[3]))
<1>3. CASE b[1] \in {\h10, \h20, \h30}
  <2>1. HandledColumn0(b) = <<AccessedBit(b[2]), o>>
    BY <1>3 DEF HandledColumn0
  <2>2. Column(b) = 0
    BY <1>3 DEF Column
  <2>3. Handled(pc, b) = <<AccessedBit(b[2]), o>>
    BY <2>1, <2>2, HandledAt
  <2>4. 2 \in 1 .. Len(Handled(pc, b)) /\ Handled(pc, b)[2] = o
    BY <2>3
  <2> QED BY <1>2, <2>4
<1>4. CASE b[1] = \hD5
  <2>1. Row(b) = 13 /\ Column(b) = 5
    BY <1>4 DEF Row, Column
  <2>2. HandledColumn5(b) = <<Direct(b[2]), o>>
    BY <2>1 DEF HandledColumn5, Arithmetic
  <2>3. Handled(pc, b) = <<Direct(b[2]), o>>
    BY <2>1, <2>2, HandledAt
  <2>4. 2 \in 1 .. Len(Handled(pc, b)) /\ Handled(pc, b)[2] = o
    BY <2>3
  <2> QED BY <1>2, <2>4
<1>5. CASE b[1] \in \hB4 .. \hBF
  <2>1. Row(b) = 11 /\ Column(b) \in 4..15
    BY <1>5 DEF Row, Column
  <2>2. \E x, y : Handled(pc, b) = <<x, y, o>>
    <3>1. CASE Column(b) = 4
      <4>1. HandledColumn4(b) = <<A, Immediate(b[2]), o>>
        BY <2>1 DEF HandledColumn4, Arithmetic
      <4> QED BY <3>1, <4>1, HandledAt
    <3>2. CASE Column(b) = 5
      <4>1. HandledColumn5(b) = <<A, Direct(b[2]), o>>
        BY <2>1 DEF HandledColumn5, Arithmetic
      <4> QED BY <3>2, <4>1, HandledAt
    <3>3. CASE Column(b) \in 6..15
      <4>1. HandledRegister(b) = <<RxOf(b), Immediate(b[2]), o>>
        BY <2>1 DEF HandledRegister, Arithmetic
      <4> QED BY <3>3, <4>1, HandledAt
    <3> QED BY <2>1, <3>1, <3>2, <3>3
  <2>3. 3 \in 1 .. Len(Handled(pc, b)) /\ Handled(pc, b)[3] = o
    BY <2>2
  <2> QED BY <1>2, <2>3
<1> QED BY <1>1, <1>3, <1>4, <1>5

-----------------------------------------------------------------------------
(* The program that runs: bytes in the code memory, and an address in PC.  *)
CpuType ==
    /\ \A a \in DOMAIN codemem : codemem[a] \in Bytes
    /\ mPC \in Addresses /\ steps \in Nat

PInv == LInv /\ CpuType

LEMMA Wrapped ==
    ASSUME NEW m \in Int
    PROVE  m % 65536 \in Addresses
<1>1. m % 65536 \in Int /\ 0 <= m % 65536 /\ m % 65536 < 65536
  BY SMT
<1> QED BY <1>1, AddressBounds, SMT DEF CodeSize

LEMMA AllAddresses == Addresses = 0 .. LastAddress
<1>1. LastAddress = CodeSize - 1
  BY SMT DEF CodeSize, LastAddress
<1> QED BY <1>1 DEF Addresses

LEMMA FetchedType ==
    ASSUME CpuType
    PROVE  Fetched(mPC) \in Instruction
<1>1. \A a : CodeAt(a) \in Bytes
  BY DEF CpuType, CodeAt, Bytes
<1> QED BY <1>1 DEF Fetched, Instruction

LEMMA TargetTypes ==
    ASSUME NEW pc \in Addresses, NEW b \in Instruction
    PROVE  /\ PageTarget(pc, b) \in Addresses /\ LongTarget(b) \in Addresses
           /\ \A n \in 1..3 : Behind(pc, n) \in Addresses
           /\ \A n \in 1..3, v \in Bytes : Relative(pc, n, v) \in Addresses
<1>1. pc \in Int /\ b[1] \in 0..255 /\ b[2] \in 0..255 /\ b[3] \in 0..255
  <2>1. pc \in Int
    BY AddressBounds
  <2> QED BY <2>1, OpcodeDigits
<1>2. PageTarget(pc, b) \in Addresses
  <2> DEFINE m == pc + 2
             k == m % 65536
             p == k \div 2048
             q == b[1] \div 32
  <2>1. m \in Int
    BY <1>1
  <2> HIDE DEF m
  <2>2. k \in Int /\ 0 <= k /\ k < 65536
    BY <2>1, SMT
  <2> HIDE DEF k
  <2>3. p \in 0..31
    BY <2>2, SMT
  <2>4. q \in 0..7
    BY <1>1, SMT
  <2>5. PageTarget(pc, b) = p * 2048 + b[2] + q * 256
    BY DEF PageTarget, m, k
  <2> HIDE DEF p, q
  <2>6. p * 2048 + b[2] + q * 256 \in Int
    BY <1>1, <2>3, <2>4, SMT
  <2>7. 0 <= p * 2048 + b[2] + q * 256 /\ p * 2048 + b[2] + q * 256 < 65536
    BY <1>1, <2>3, <2>4, SMT
  <2> QED BY <2>5, <2>6, <2>7, AddressBounds, SMT DEF CodeSize
<1>3. LongTarget(b) \in Addresses
  <2> DEFINE h == b[2]
             l == b[3]
  <2>1. h \in 0..255 /\ l \in 0..255 /\ LongTarget(b) = h * 256 + l
    BY <1>1 DEF LongTarget
  <2> HIDE DEF h, l
  <2>2. h * 256 + l \in Int /\ 0 <= h * 256 + l /\ h * 256 + l < 65536
    BY <2>1, SMT
  <2> QED BY <2>1, <2>2, AddressBounds, SMT DEF CodeSize
<1>4. \A n \in 1..3 : Behind(pc, n) \in Addresses
  <2> SUFFICES ASSUME NEW n \in 1..3 PROVE Behind(pc, n) \in Addresses
    OBVIOUS
  <2>1. pc + n \in Int
    BY <1>1, SMT
  <2> QED BY <2>1, Wrapped, SMT DEF Behind
<1>5. \A n \in 1..3, v \in Bytes : Relative(pc, n, v) \in Addresses
  <2> SUFFICES ASSUME NEW n \in 1..3, NEW v \in Bytes PROVE Relative(pc, n, v) \in Addresses
    OBVIOUS
  <2>1. pc + n + Signed(v) \in Int
    BY <1>1, SMT DEF Signed, Bytes
  <2> QED BY <2>1, Wrapped, SMT DEF Relative
<1> QED BY <1>2, <1>3, <1>4, <1>5

LEMMA StoredType ==
    ASSUME NEW m, \A a \in DOMAIN m : m[a] \in Bytes, NEW cell, NEW v \in Bytes
    PROVE  \A a \in DOMAIN Stored(m, cell, v) : Stored(m, cell, v)[a] \in Bytes
BY DEF Stored

LEMMA LoadKeepsType ==
    ASSUME PInv, Load \/ Loading
    PROVE  CpuType'
<1>1. UNCHANGED cpu
  BY DEF Load, Loading
<1>2. CASE codemem' = codemem
  BY <1>1, <1>2 DEF PInv, CpuType, cpu
<1>3. CASE DataByte
  <2>1. Reading
    BY <1>3 DEF DataByte, PInv, LInv
  <2>2. PICK v \in Bytes : codemem' = Stored(codemem, address + i, v)
    BY <1>3, <2>1, NextByte DEF DataByte
  <2> QED BY <1>1, <2>2, StoredType DEF PInv, CpuType, cpu
<1> QED BY <1>2, <1>3 DEF Load, Open, Loading, LoadStep, Header, Check, Skip

(* Each instruction, and what its line says of it.                         *)
LEMMA ExecutesListed ==
    ASSUME PInv, Jump \/ ShortJump \/ Branch \/ Return \/ StepOver
    PROVE  CpuType' /\ power = "run" /\ mPC' \in ListedNext(mPC, Fetched(mPC))
<1> DEFINE b == Fetched(mPC)
<1>1. b \in Instruction /\ mPC \in Addresses /\ b[1] \in Bytes /\ b[2] \in Bytes /\ b[3] \in Bytes
  BY FetchedType DEF PInv, CpuType, Instruction
<1>2. Executes(b)
  BY DEF Jump, ShortJump, Branch, Return, StepOver
<1>3. power = "run" /\ UNCHANGED codemem /\ steps' \in Nat
  BY <1>2 DEF Executes, PInv, CpuType
<1>4. mPC' \in Addresses /\ mPC' \in ListedNext(mPC, b)
  <2>1. CASE Jump
    <3>1. b[1] \in Jumps /\ mPC' = IF b[1] \in AjmpAcall THEN PageTarget(mPC, b) ELSE LongTarget(b)
      BY <2>1 DEF Jump
    <3> HIDE DEF b
    <3> QED BY <1>1, <3>1, JumpsAsListed, TargetTypes
  <2>2. CASE ShortJump
    <3>1. b[1] \in BranchesOfTwo \cup {\h80} /\ mPC' = Relative(mPC, 2, b[2])
      BY <2>2 DEF ShortJump
    <3> HIDE DEF b
    <3>2. mPC' \in ListedNext(mPC, b)
      BY <1>1, <3>1, OffsetsOfTwo, OffsetLeads
    <3>3. Relative(mPC, 2, b[2]) \in Addresses
      BY <1>1, TargetTypes, SMT
    <3> QED BY <3>1, <3>2, <3>3
  <2>3. CASE Branch
    <3>1. \/ b[1] \in BranchesOfTwo /\ mPC' \in {Behind(mPC, 2), Relative(mPC, 2, b[2])}
          \/ b[1] \in BranchesOfThree /\ mPC' \in {Behind(mPC, 3), Relative(mPC, 3, b[3])}
      BY <2>3 DEF Branch
    <3> HIDE DEF b
    <3>2. CASE b[1] \in BranchesOfTwo /\ mPC' \in {Behind(mPC, 2), Relative(mPC, 2, b[2])}
      <4>1. b[1] \in BranchesOfTwo \cup {\h80} /\ b[1] # \h80
        BY <3>2 DEF BranchesOfTwo, Rows
      <4>2. Relative(mPC, 2, b[2]) \in ListedNext(mPC, b)
        BY <1>1, <4>1, OffsetsOfTwo, OffsetLeads
      <4>3. Behind(mPC, 2) \in ListedNext(mPC, b)
        <5>1. ListedBytes(b[1]) = 2 /\ b[1] \notin Computed /\ b[1] \notin Always
          BY <1>1, <4>1, OffsetsOfTwo
        <5> QED BY <5>1, NextListed DEF Behind
      <4> QED BY <1>1, <3>2, <4>2, <4>3, TargetTypes
    <3>3. CASE b[1] \in BranchesOfThree /\ mPC' \in {Behind(mPC, 3), Relative(mPC, 3, b[3])}
      <4>1. Relative(mPC, 3, b[3]) \in ListedNext(mPC, b)
        BY <1>1, <3>3, OffsetsOfThree, OffsetLeads
      <4>2. Behind(mPC, 3) \in ListedNext(mPC, b)
        <5>1. ListedBytes(b[1]) = 3 /\ b[1] \notin Computed /\ b[1] \notin Always
          BY <1>1, <3>3, OffsetsOfThree
        <5> QED BY <5>1, NextListed DEF Behind
      <4> QED BY <1>1, <3>3, <4>1, <4>2, TargetTypes
    <3> QED BY <3>1, <3>2, <3>3
  <2>4. CASE Return
    <3>1. b[1] \in Computed /\ mPC' \in Elsewhere
      BY <2>4 DEF Return, Popped, Computed
    <3> HIDE DEF b
    <3>2. b[1] \notin Always
      BY <3>1, SMT DEF Computed, Always
    <3>3. ListedNext(mPC, b) = Addresses
      BY <3>1, <3>2, AllAddresses DEF ListedNext
    <3> QED BY <3>1, <3>3, AddressAssumption
  <2>5. CASE StepOver
    <3>1. /\ b[1] \notin Jumps \cup {\h80} \cup BranchesOfTwo \cup BranchesOfThree \cup Popped
          /\ mPC' = Behind(mPC, StepsOver(b[1]))
      BY <2>5 DEF StepOver
    <3> HIDE DEF b
    <3>2. ListedBytes(b[1]) = StepsOver(b[1]) /\ b[1] \notin Always /\ b[1] \notin Computed
      BY <1>1, <3>1, BytesCounted
    <3>3. ListedBytes(b[1]) \in 1..3
      BY DEF ListedBytes
    <3> QED BY <1>1, <3>1, <3>2, <3>3, NextListed, TargetTypes DEF Behind
  <2> QED BY <2>1, <2>2, <2>3, <2>4, <2>5
<1> QED BY <1>3, <1>4 DEF PInv, CpuType

LEMMA PInvAlways == Spec => []PInv
<1>0. 0 \in Addresses
  BY AddressBounds, SMT DEF CodeSize
<1>1. Init => CpuType
  BY <1>0 DEF Init, LoaderInit, CpuType
<1>2. PInv /\ [Next]_vars => CpuType'
  <2> SUFFICES ASSUME PInv, [Next]_vars PROVE CpuType'
    OBVIOUS
  <2>1. CASE Load \/ Loading
    BY <2>1, LoadKeepsType
  <2>2. CASE Jump \/ ShortJump \/ Branch \/ Return \/ StepOver
    BY <2>2, ExecutesListed
  <2>3. CASE Sleep
    BY <2>3 DEF Sleep, PInv, CpuType
  <2>6. CASE Interrupt
    <3>1. mPC' \in Addresses
      BY <2>6, AddressAssumption DEF Interrupt
    <3> QED BY <2>6, <3>1 DEF Interrupt, PInv, CpuType
  <2>7. CASE GoTo
    <3>1. mPC' \in Addresses
      BY <1>0, <2>7, AddressAssumption DEF GoTo
    <3> QED BY <2>7, <3>1 DEF GoTo, PInv, CpuType
  <2>4. ASSUME NEW wipe \in BOOLEAN, Reset(wipe) PROVE CpuType'
    BY <1>0, <2>4 DEF Reset, PInv, CpuType
  <2>5. CASE UNCHANGED vars
    BY <2>5 DEF vars, cpu, PInv, CpuType
  <2> QED BY <2>1, <2>2, <2>3, <2>4, <2>5, <2>6, <2>7 DEF Next
<1>3. Spec => []LInv
  BY LInvAlways
<1> QED BY <1>1, <1>2, <1>3, LInvInit, LInvNext, PTL DEF Spec, PInv

(* For every opcode but 86h and 87h and any bytes behind it, wherever it   *)
(* is: the line of the disassembler names the operands the handler takes,  *)
(* in the same order (the tables of opcodes.c:1370-1533 and                *)
(* disasm.c:982-1145).                                                     *)
THEOREM NamesOperands == Spec => []ListsOperands
<1>1. PInv => ListsOperands
  <2> SUFFICES ASSUME PInv, Fetched(mPC)[1] \notin {\h86, \h87} PROVE ListsOperands
    BY DEF ListsOperands
  <2>1. Agree(Handled(mPC, Fetched(mPC)), Listed(mPC, Fetched(mPC)))
    BY FetchedType, TablesAgree DEF PInv, CpuType
  <2> QED BY <2>1 DEF ListsOperands, Agree
<1> QED BY <1>1, PInvAlways, PTL

(* Whatever runs goes on where its line says that it may, and stays where  *)
(* it is when the CPU sleeps, in any program.                              *)
THEOREM GoesWhereListed == Spec => ExecutesAsListed
<1> DEFINE E == Executed => mPC' \in IF power = "run" THEN ListedNext(mPC, Fetched(mPC)) ELSE {mPC}
<1>1. PInv /\ [Next]_vars => [E]_vars
  <2> SUFFICES ASSUME PInv, Next, Executed PROVE E
    OBVIOUS
  <2>1. CASE Jump \/ ShortJump \/ Branch \/ Return \/ StepOver
    BY <2>1, ExecutesListed
  <2>2. CASE Sleep
    BY <2>2 DEF Sleep
  <2>3. steps' # steps + 1 \/ Jump \/ ShortJump \/ Branch \/ Return \/ StepOver \/ Sleep
    <3>1. steps \in Nat
      BY DEF PInv, CpuType
    <3>2. Interrupt \/ Load \/ Loading => steps' = steps
      BY DEF Interrupt, Load, Loading, cpu
    <3>3. GoTo \/ (\E wipe \in BOOLEAN : Reset(wipe)) => steps' = 0
      BY DEF GoTo, Reset
    <3> QED BY <3>1, <3>2, <3>3 DEF Next
  <2> QED BY <2>1, <2>2, <2>3 DEF Executed
<1> HIDE DEF E
<1>2. Spec => [][E]_vars
  BY PInvAlways, <1>1, PTL DEF Spec
<1> QED BY <1>2 DEF ExecutesAsListed, E
=============================================================================
