--------------------------- MODULE EditorsProofs ----------------------------
(***************************************************************************)
(* The theorems about the editors, for every size of the memories, every   *)
(* width of a line, every height of the terminal and any keys.             *)
(***************************************************************************)
EXTENDS Editors, TLAPS

Windows == [offset : Int, cursor : Int]
Byte == 0 .. 255

-----------------------------------------------------------------------------
(* The number of lines a cursor has to move to cover n digits, rounded up. *)
LEMMA LinesCover ==
    ASSUME NEW n \in Nat \ {0}
    PROVE  /\ LinesFor(n) \in Nat \ {0}
           /\ n <= 2 * (LinesFor(n) * Width)
           /\ 2 * ((LinesFor(n) - 1) * Width) < n
<1> DEFINE L == 2 * Width
           q == (n + L - 1) \div L
           r == (n + L - 1) % L
<1>1. Width \in Nat /\ Width > 0 /\ L \in Nat /\ L > 0 /\ n \in Nat /\ n > 0
  BY SizeAssumption
<1>2. q \in Int /\ r \in 0 .. L - 1 /\ n + L - 1 = L * q + r
  BY <1>1
<1>3. LinesFor(n) = q
  BY DEF LinesFor, LineDigits
<1>4. L * q = 2 * (q * Width) /\ (q - 1) * Width = q * Width - Width
  BY <1>1, <1>2
<1>5. q > 0
  <2> SUFFICES ASSUME q <= 0 PROVE FALSE
    BY <1>2
  <2>1. L * q <= 0
    BY <1>1, <1>2
  <2> QED BY <1>1, <1>2, <2>1
<1> QED BY <1>1, <1>2, <1>3, <1>4, <1>5

(* A multiple of the width is so many lines, and more lines more bytes.    *)
LEMMA WholeLines ==
    ASSUME NEW o \in Nat, o % Width = 0
    PROVE  \E k \in Nat : o = k * Width
<1>1. Width \in Nat /\ Width > 0
  BY SizeAssumption
<1>2. o \div Width \in Nat /\ o = Width * (o \div Width) + (o % Width)
  BY <1>1
<1>3. o = (o \div Width) * Width
  BY <1>1, <1>2
<1> QED BY <1>2, <1>3

LEMMA LinesInOrder ==
    ASSUME NEW k \in Int, NEW m \in Int
    PROVE  /\ k <= m => k * Width <= m * Width
           /\ (k - m) * Width = k * Width - m * Width
           /\ (k + m) * Width = k * Width + m * Width
           /\ k * Width \in Int
<1>1. Width \in Nat /\ Width > 0
  BY SizeAssumption
<1>2. k <= m => k * Width <= m * Width
  <2> SUFFICES ASSUME k <= m PROVE k * Width <= m * Width
    OBVIOUS
  <2>1. m - k \in Nat /\ (m - k) * Width \in Nat
    BY <1>1
  <2>2. (m - k) * Width = m * Width - k * Width
    BY <1>1
  <2> QED BY <1>1, <2>1, <2>2
<1> QED BY <1>1, <1>2

LEMMA LinesAreWhole ==
    ASSUME NEW k \in Nat
    PROVE  (k * Width) % Width = 0
<1>1. Width \in Nat /\ Width > 0
  BY SizeAssumption
<1>2. PICK n \in Nat : n = k * Width
  BY <1>1
<1>3. PICK q \in Int, r \in 0 .. Width - 1 : n = Width * q + r /\ r = n % Width
  <2>1. n \div Width \in Int /\ n % Width \in 0 .. Width - 1
    BY <1>1
  <2>2. n = Width * (n \div Width) + (n % Width)
    BY <1>1
  <2> QED BY <2>1, <2>2
<1>4. PICK j \in Int : j = k - q
  OBVIOUS
<1>5. r = j * Width
  <2>1. (k - q) * Width = k * Width - q * Width
    BY LinesInOrder
  <2> QED BY <1>1, <1>2, <1>3, <1>4, <2>1
<1>6. j < 1
  <2> SUFFICES ASSUME 1 <= j PROVE FALSE
    OBVIOUS
  <2>1. 1 * Width <= j * Width
    BY LinesInOrder
  <2>2. 1 * Width = Width
    BY <1>1
  <2> QED BY <1>1, <1>5, <2>1, <2>2
<1>7. j * Width <= 0 * Width
  BY <1>6, LinesInOrder
<1>8. r = 0
  BY <1>1, <1>3, <1>5, <1>7
<1> QED BY <1>2, <1>3, <1>8

-----------------------------------------------------------------------------
(* What scrolling comes to: the window is on the memory, the cursor in the *)
(* window, and both together on the digit asked for, or on the first or    *)
(* the last one if that is beyond the memory.                              *)
Held(p, last) == IF p < 0 THEN 0 ELSE IF p > last THEN last ELSE p

Landed(v, w, rows, size) ==
    /\ v \in Windows
    /\ InWindow(v, rows, size)
    /\ Position(v) = Held(Position(w), 2 * size - 1)

(* The steps start from a window whose cursor has been moved, out of the   *)
(* window perhaps.                                                         *)
Moved(w, rows, size) ==
    /\ rows \in Nat \ {0} /\ size \in Nat /\ size % Width = 0 /\ rows * Width <= size
    /\ w \in Windows
    /\ w.offset \in 0 .. size - rows * Width /\ w.offset % Width = 0

LEMMA ScrollsUp ==
    ASSUME NEW w, NEW rows, NEW size, Moved(w, rows, size), w.cursor < 0
    PROVE  Landed(ScrolledUp(w), w, rows, size)
<1> DEFINE o == w.offset
           c == w.cursor
           over == LinesFor(-c)
<1>1. /\ Width \in Nat /\ Width > 0 /\ o \in Nat /\ c \in Int /\ -c \in Nat \ {0}
      /\ rows \in Nat /\ rows > 0 /\ size \in Nat
      /\ o <= size - rows * Width /\ rows * Width <= size /\ o % Width = 0
  BY SizeAssumption DEF Moved, Windows
<1>2. /\ over \in Nat /\ over > 0
      /\ -c <= 2 * (over * Width)
      /\ 2 * ((over - 1) * Width) < -c
  BY <1>1, LinesCover
<1>3. PICK k \in Nat : o = k * Width
  BY <1>1, WholeLines
<1>4. rows * Width \in Nat /\ Width <= rows * Width
  <2>1. 1 * Width = Width
    BY <1>1
  <2>2. 1 * Width <= rows * Width /\ rows * Width \in Int
    BY <1>1, LinesInOrder
  <2> QED BY <1>1, <2>1, <2>2
<1> HIDE DEF o, c, over
<1> DEFINE x == over * Width
           y == (over - 1) * Width
<1>5. x \in Int /\ y \in Int /\ x = y + Width
  <2>1. (over - 1) * Width = over * Width - 1 * Width /\ 1 * Width = Width
    BY <1>1, <1>2, LinesInOrder
  <2>2. over * Width \in Int /\ (over - 1) * Width \in Int
    BY <1>2, LinesInOrder
  <2> QED BY <1>1, <2>1, <2>2
<1>6. over * LineDigits = 2 * x
  BY <1>1, <1>2 DEF LineDigits
<1>7. rows * LineDigits = 2 * (rows * Width)
  BY <1>1 DEF LineDigits
<1>8. CASE x > o
  <2>1. k <= over - 1
    <3> SUFFICES ASSUME over <= k PROVE FALSE
      BY <1>2, <1>3
    <3>1. over * Width <= k * Width
      BY <1>2, <1>3, LinesInOrder
    <3> QED BY <1>1, <1>3, <1>5, <1>8, <3>1
  <2>2. o <= y
    <3>1. k * Width <= (over - 1) * Width
      BY <1>2, <1>3, <2>1, LinesInOrder
    <3> QED BY <1>3, <3>1
  <2>3. ScrolledUp(w) = Top
    BY <1>8 DEF ScrolledUp, over, x, o, c
  <2>4. 2 * o + c < 0
    BY <1>1, <1>2, <1>5, <2>2
  <2>5. 0 % Width = 0
    BY <1>1
  <2>6. Top \in Windows /\ InWindow(Top, rows, size)
    BY <1>1, <1>4, <1>7, <2>5 DEF Top, InWindow, Windows
  <2>7. Position(Top) = 0 /\ Position(w) = 2 * o + c
    BY DEF Position, Top, o, c
  <2> QED BY <2>3, <2>4, <2>6, <2>7 DEF Landed, Held
<1>9. CASE ~(x > o)
  <2> DEFINE v == [offset |-> o - x, cursor |-> c + 2 * x]
  <2>1. ScrolledUp(w) = v
    BY <1>6, <1>9 DEF ScrolledUp, over, x, o, c
  <2>2. over <= k
    <3> SUFFICES ASSUME k + 1 <= over PROVE FALSE
      BY <1>2, <1>3
    <3>1. k + 1 \in Int /\ over \in Int /\ k \in Int /\ 1 \in Int
      BY <1>2
    <3>2. (k + 1) * Width <= over * Width /\ (k + 1) * Width = k * Width + 1 * Width
      BY <3>1, LinesInOrder
    <3>3. 1 * Width = Width
      BY <1>1
    <3> QED BY <1>1, <1>3, <1>5, <1>9, <3>2, <3>3
  <2>3. (o - x) % Width = 0
    <3>1. k - over \in Nat
      BY <1>2, <1>3, <2>2
    <3>2. (k - over) * Width = k * Width - over * Width
      BY <1>2, <1>3, LinesInOrder
    <3> QED BY <1>3, <3>1, <3>2, LinesAreWhole
  <2>4. c + 2 * x \in 0 .. 2 * (rows * Width) - 1 /\ o - x \in 0 .. size - rows * Width
    BY <1>1, <1>2, <1>4, <1>5, <1>9
  <2>5. v \in Windows /\ InWindow(v, rows, size)
    BY <1>1, <1>4, <1>5, <1>7, <2>3, <2>4 DEF InWindow, Windows
  <2>6. Position(v) = 2 * o + c /\ Position(w) = 2 * o + c
    BY <1>1, <1>5 DEF Position, o, c
  <2>7. 2 * o + c \in 0 .. 2 * size - 1
    BY <1>1, <1>4, <1>5, <2>4
  <2> QED BY <1>1, <2>1, <2>5, <2>6, <2>7 DEF Landed, Held
<1> QED BY <1>1, <1>5, <1>8, <1>9

LEMMA ScrollsDown ==
    ASSUME NEW w, NEW rows, NEW size, Moved(w, rows, size), rows * LineDigits <= w.cursor
    PROVE  Landed(ScrolledDown(w, rows, size), w, rows, size)
<1> DEFINE o == w.offset
           c == w.cursor
           R == rows * Width
           n == c - 2 * R + 1
           over == LinesFor(n)
<1>1. /\ Width \in Nat /\ Width > 0 /\ o \in Nat /\ c \in Int
      /\ rows \in Nat /\ rows > 0 /\ size \in Nat
      /\ o <= size - R /\ R <= size /\ o % Width = 0 /\ size % Width = 0
  BY SizeAssumption DEF Moved, Windows
<1>2. rows * LineDigits = 2 * R
  BY <1>1 DEF LineDigits
<1>3. R \in Nat /\ Width <= R
  <2>1. 1 * Width = Width
    BY <1>1
  <2>2. 1 * Width <= rows * Width /\ rows * Width \in Int
    BY <1>1, LinesInOrder
  <2> QED BY <1>1, <2>1, <2>2
<1>4. n \in Nat \ {0}
  BY <1>1, <1>2, <1>3
<1>5. /\ over \in Nat /\ over > 0
      /\ n <= 2 * (over * Width)
      /\ 2 * ((over - 1) * Width) < n
  BY <1>4, LinesCover
<1>6. PICK k \in Nat : o = k * Width
  BY <1>1, WholeLines
<1>7. PICK s \in Nat : size = s * Width
  BY <1>1, WholeLines
<1>8. w.cursor - rows * LineDigits + 1 = n
  BY <1>2
<1> HIDE DEF o, c, over, R
<1> DEFINE x == over * Width
           y == (over - 1) * Width
<1>9. x \in Int /\ y \in Int /\ x = y + Width
  <2>1. (over - 1) * Width = over * Width - 1 * Width /\ 1 * Width = Width
    BY <1>1, <1>5, LinesInOrder
  <2>2. over * Width \in Int /\ (over - 1) * Width \in Int
    BY <1>5, LinesInOrder
  <2> QED BY <1>1, <2>1, <2>2
<1>10. over * LineDigits = 2 * x
  BY <1>1, <1>5 DEF LineDigits
<1>11. /\ rows <= s
       /\ (s - rows) * Width = size - R
  <2>1. (s - rows) * Width = s * Width - rows * Width
    BY <1>1, <1>7, LinesInOrder
  <2>2. rows <= s
    <3> SUFFICES ASSUME s + 1 <= rows PROVE FALSE
      BY <1>1, <1>7
    <3>1. (s + 1) * Width <= rows * Width /\ (s + 1) * Width = s * Width + 1 * Width
      BY <1>1, <1>7, LinesInOrder
    <3>2. 1 * Width = Width
      BY <1>1
    <3> QED BY <1>1, <1>3, <1>7, <3>1, <3>2 DEF R
  <2> QED BY <1>7, <2>1, <2>2 DEF R
<1>12. Position(w) = 2 * o + c
  BY DEF Position, o, c
<1>13. CASE o + x > size - R
  <2> DEFINE v == [offset |-> size - R, cursor |-> 2 * R - 1]
  <2>1. ScrolledDown(w, rows, size) = v
    BY <1>2, <1>8, <1>13 DEF ScrolledDown, over, x, o, c, R
  <2>2. s - rows <= k + (over - 1)
    <3> SUFFICES ASSUME k + over <= s - rows PROVE FALSE
      BY <1>1, <1>5, <1>6, <1>7
    <3>1. (k + over) * Width <= (s - rows) * Width /\ (k + over) * Width = k * Width + over * Width
      BY <1>1, <1>5, <1>6, <1>7, LinesInOrder
    <3> QED BY <1>1, <1>3, <1>6, <1>9, <1>11, <1>13, <3>1
  <2>3. size - R <= o + y
    <3>1. /\ (s - rows) * Width <= (k + (over - 1)) * Width
          /\ (k + (over - 1)) * Width = k * Width + (over - 1) * Width
      BY <1>1, <1>5, <1>6, <1>7, <2>2, LinesInOrder
    <3> QED BY <1>6, <1>11, <3>1
  <2>4. 2 * o + c > 2 * size - 1
    BY <1>1, <1>3, <1>5, <1>9, <2>3
  <2>5. (size - R) % Width = 0
    <3>1. s - rows \in Nat
      BY <1>1, <1>7, <1>11
    <3> QED BY <1>11, <3>1, LinesAreWhole
  <2>6. v \in Windows /\ InWindow(v, rows, size)
    BY <1>1, <1>2, <1>3, <2>5 DEF InWindow, Windows, R
  <2>7. Position(v) = 2 * size - 1
    BY <1>1, <1>3 DEF Position
  <2> QED BY <1>1, <1>12, <2>1, <2>4, <2>6, <2>7 DEF Landed, Held
<1>14. CASE ~(o + x > size - R)
  <2> DEFINE v == [offset |-> o + x, cursor |-> c - 2 * x]
  <2>1. ScrolledDown(w, rows, size) = v
    BY <1>8, <1>10, <1>14 DEF ScrolledDown, over, x, o, c, R
  <2>2. (o + x) % Width = 0
    <3>1. k + over \in Nat /\ (k + over) * Width = k * Width + over * Width
      BY <1>5, <1>6, LinesInOrder
    <3> QED BY <1>6, <3>1, LinesAreWhole
  <2>3. c - 2 * x \in 0 .. 2 * R - 1 /\ o + x \in 0 .. size - R
    BY <1>1, <1>3, <1>5, <1>9, <1>14
  <2>4. v \in Windows /\ InWindow(v, rows, size)
    BY <1>1, <1>2, <1>3, <1>9, <2>2, <2>3 DEF InWindow, Windows, R
  <2>5. Position(v) = 2 * o + c
    BY <1>1, <1>9 DEF Position
  <2>6. 2 * o + c \in 0 .. 2 * size - 1
    BY <1>1, <1>3, <1>9, <2>3
  <2> QED BY <1>1, <1>12, <2>1, <2>4, <2>5, <2>6 DEF Landed, Held
<1> QED BY <1>1, <1>3, <1>9, <1>13, <1>14

LEMMA ScrollLands ==
    ASSUME NEW w, NEW rows, NEW size, Moved(w, rows, size)
    PROVE  Landed(Scrolled(w, rows, size), w, rows, size)
<1>1. /\ w.cursor \in Int /\ w.offset \in Nat /\ rows \in Nat /\ Width \in Nat
      /\ size \in Nat /\ w.offset <= size - rows * Width /\ rows * Width \in Nat
      /\ rows * LineDigits = 2 * (rows * Width)
  BY SizeAssumption DEF Moved, Windows, LineDigits
<1>2. CASE w.cursor < 0
  <2> DEFINE up == ScrolledUp(w)
  <2>1. Landed(up, w, rows, size)
    BY <1>2, ScrollsUp
  <2>2. up.cursor \in 0 .. rows * LineDigits - 1
    BY <2>1 DEF Landed, InWindow
  <2> HIDE DEF up
  <2>3. ~(up.cursor >= rows * LineDigits)
    BY <1>1, <2>2
  <2> QED BY <1>2, <2>1, <2>3 DEF Scrolled, up
<1>3. CASE w.cursor >= rows * LineDigits
  BY <1>1, <1>3, ScrollsDown DEF Scrolled
<1>4. CASE w.cursor \in 0 .. rows * LineDigits - 1
  <2>1. Scrolled(w, rows, size) = w
    BY <1>1, <1>4 DEF Scrolled
  <2>2. InWindow(w, rows, size) /\ w \in Windows
    BY <1>4 DEF InWindow, Moved
  <2>3. Position(w) \in 0 .. 2 * size - 1
    BY <1>1, <1>4 DEF Position
  <2> QED BY <1>1, <2>1, <2>2, <2>3 DEF Landed, Held
<1> QED BY <1>1, <1>2, <1>3, <1>4

(* And of any window at all, scrolling makes a window.                     *)
LEMMA ScrollsToWindow ==
    ASSUME NEW w \in Windows, NEW rows \in Int, NEW size \in Int
    PROVE  Scrolled(w, rows, size) \in Windows
<1>1. \A n \in Int : LinesFor(n) * Width \in Int /\ LinesFor(n) * LineDigits \in Int
  <2>1. Width \in Nat /\ LineDigits \in Nat /\ LineDigits > 0
    BY SizeAssumption DEF LineDigits
  <2>2. ASSUME NEW n \in Int PROVE LinesFor(n) \in Int
    BY <2>1 DEF LinesFor
  <2> QED BY <2>1, <2>2
<1>2. Width \in Int /\ LineDigits \in Int
  BY SizeAssumption DEF LineDigits
<1>3. rows * Width \in Int /\ rows * LineDigits \in Int
  BY <1>2
<1>4. ASSUME NEW v \in Windows
      PROVE  ScrolledUp(v) \in Windows /\ ScrolledDown(v, rows, size) \in Windows
  <2>1. v.offset \in Int /\ v.cursor \in Int
    BY DEF Windows
  <2>2. -v.cursor \in Int /\ v.cursor - rows * LineDigits + 1 \in Int
    BY <1>3, <2>1
  <2> QED BY <1>1, <1>3, <2>1, <2>2 DEF ScrolledUp, ScrolledDown, Top, Windows
<1> QED BY <1>4 DEF Scrolled

-----------------------------------------------------------------------------
(* The inductive invariant: the property, the types of what it talks of,   *)
(* and where the main box stands whatever memory it shows.                 *)
IsMemories(m) ==
    /\ m = [a \in Areas |-> m[a]]
    /\ \A a \in Areas : m[a] \in [0 .. Size[a] - 1 -> Byte]

TypeOK ==
    /\ IsMemories(mem)
    /\ view \in {"main", "memory", "other"}
    /\ height \in Heights /\ built \in Heights
    /\ eds \in [Areas -> Windows]
    /\ main \in [mode : Areas, area : Areas, offset : Int, cursor : Int]
    /\ regs \in [focus : BOOLEAN, cursor : Nat]

IInv == TypeOK /\ CursorsOnMemory /\ InWindow(main, MainRows, Size[main.mode])

LEMMA RowsWhole ==
    ASSUME NEW h \in Heights, NEW a \in Areas
    PROVE  /\ Rows(h, a) \in Int
           /\ Fits(h, a) => Rows(h, a) \in Nat \ {0} /\ Rows(h, a) * Width <= Size[a]
<1>1. h \in Nat /\ h \div 3 \in Int /\ h \div 2 \in Int
  BY HeightsAssumption
<1>2. Rows(h, a) \in Int
  BY <1>1 DEF Rows, Areas
<1> QED BY <1>2 DEF Fits

LEMMA TopInWindow ==
    ASSUME NEW rows \in Nat \ {0}, NEW size \in Nat, rows * Width <= size
    PROVE  Top \in Windows /\ InWindow(Top, rows, size) /\ Position(Top) = 0
<1>1. Width \in Nat /\ Width > 0 /\ rows * Width \in Nat
  BY SizeAssumption
<1>2. rows * LineDigits = 2 * (rows * Width)
  BY <1>1 DEF LineDigits
<1>3. 1 * Width <= rows * Width /\ 1 * Width = Width
  BY <1>1, LinesInOrder
<1>4. 0 % Width = 0
  BY <1>1
<1> QED BY <1>1, <1>2, <1>3, <1>4 DEF Top, Windows, InWindow, Position

LEMMA NewDigit ==
    ASSUME NEW b \in Byte, NEW h \in 0 .. 15
    PROVE  /\ 16 * (b \div 16) + h \in Byte /\ (b % 16) + 16 * h \in Byte
           /\ (16 * (b \div 16) + h) \div 16 = b \div 16 /\ (16 * (b \div 16) + h) % 16 = h
           /\ ((b % 16) + 16 * h) \div 16 = h /\ ((b % 16) + 16 * h) % 16 = b % 16
BY DEF Byte

LEMMA ByteWithDigit ==
    ASSUME NEW b \in Byte, NEW right \in BOOLEAN, NEW h \in Digits
    PROVE  /\ WithDigit(b, right, h) \in Byte
           /\ WithDigit(b, right, h) \div 16 = IF right THEN b \div 16 ELSE h
           /\ WithDigit(b, right, h) % 16 = IF right THEN h ELSE b % 16
<1>1. h \in 0 .. 15
  BY BytesAssumption
<1>2. CASE right
  BY <1>1, <1>2, NewDigit DEF WithDigit
<1>3. CASE ~right
  BY <1>1, <1>3, NewDigit DEF WithDigit
<1> QED BY <1>2, <1>3

(* A byte stored is the only change, wherever it goes.                     *)
LEMMA StoredByte ==
    ASSUME IsMemories(mem), NEW a \in Areas, NEW i \in 0 .. Size[a] - 1, NEW v \in Byte,
           NEW m, m = [mem EXCEPT ![a][i] = v]
    PROVE  /\ IsMemories(m)
           /\ \A b \in Areas : b # a => m[b] = mem[b]
           /\ m[a] = [mem[a] EXCEPT ![i] = v]
BY DEF IsMemories

LEMMA TypedByte ==
    ASSUME IsMemories(mem), NEW a \in Areas, NEW w, w.offset \in Int, w.cursor \in Int,
           NEW h \in Digits, NEW m \in Typed(a, w, h)
    PROVE  IsMemories(m)
<1> DEFINE half == IF w.cursor < 0 THEN -((-w.cursor) \div 2) ELSE w.cursor \div 2
           i == w.offset + half
           right == w.cursor % 2 = 1
<1>1. right \in BOOLEAN
  OBVIOUS
<1>2. Typed(a, w, h) =
        IF i \in 0 .. Size[a] - 1 THEN {[mem EXCEPT ![a][i] = WithDigit(@, right, h)]}
        ELSE {mem} \cup UNION {{[mem EXCEPT ![b][j] = WithDigit(@, right, h)] :
                                 j \in 0 .. Size[b] - 1} : b \in Areas \ {a}}
  BY DEF Typed
<1> HIDE DEF i, right
<1>3. ASSUME NEW b \in Areas, NEW j \in 0 .. Size[b] - 1,
             m = [mem EXCEPT ![b][j] = WithDigit(@, right, h)]
      PROVE  IsMemories(m)
  <2>1. mem[b][j] \in Byte
    BY DEF IsMemories
  <2>2. WithDigit(mem[b][j], right, h) \in Byte
    BY <1>1, <2>1, ByteWithDigit
  <2>3. m = [mem EXCEPT ![b][j] = WithDigit(mem[b][j], right, h)]
    BY <1>3, <2>1 DEF IsMemories
  <2> QED BY <2>2, <2>3, StoredByte
<1>4. CASE i \in 0 .. Size[a] - 1
  BY <1>2, <1>3, <1>4
<1>5. CASE i \notin 0 .. Size[a] - 1
  <2>1. \/ m = mem
        \/ \E b \in Areas : \E j \in 0 .. Size[b] - 1 :
             m = [mem EXCEPT ![b][j] = WithDigit(@, right, h)]
    BY <1>2, <1>5
  <2> QED BY <1>3, <2>1
<1> QED BY <1>4, <1>5

(* The register box.  A digit of DPTR is worth its place; the others are   *)
(* bytes of the bank PSW selects, which is in lower RAM, or SFRs.          *)
Words == 65536

LEMMA DigitOfDptr ==
    ASSUME NEW d \in Nat, d < Words, NEW q \in 0 .. 3, NEW h \in Nat, h < 16
    PROVE  WithDptrDigit(d, q, h) \in Nat /\ WithDptrDigit(d, q, h) < Words
<1> DEFINE Put(p) == d - ((d \div p) % 16) * p + h * p
<1>1. /\ Put(4096) \in Nat /\ Put(4096) < Words
      /\ Put(256) \in Nat /\ Put(256) < Words
      /\ Put(16) \in Nat /\ Put(16) < Words
      /\ Put(1) \in Nat /\ Put(1) < Words
  BY DEF Words
<1>2. DigitPlace[q + 1] \in {4096, 256, 16, 1}
  BY DEF DigitPlace
<1>3. WithDptrDigit(d, q, h) = Put(DigitPlace[q + 1])
  BY DEF WithDptrDigit
<1> HIDE DEF Put
<1> QED BY <1>1, <1>2, <1>3

LEMMA CellInMemory ==
    ASSUME IsMemories(mem), NEW k \in 0 .. Regs + 1
    PROVE  \E a \in Areas, i \in Int :
              RegisterCell(k) = <<a, i>> /\ i \in 0 .. Size[a] - 1
<1>1. /\ Regs \in Nat /\ Regs > 0 /\ Low \in Areas /\ SFR \in Areas /\ 4 * Regs <= Size[Low]
      /\ {ACC, B, DPH, DPL, PSW} \subseteq 0 .. Size[SFR] - 1
      /\ Size[SFR] \in Nat /\ Size[Low] \in Nat
  BY RegsAssumption, SizeAssumption DEF Low, SFR, Areas
<1>2. CASE k = 0
  BY <1>1, <1>2 DEF RegisterCell
<1>3. CASE k \in 1 .. Regs
  <2>1. BankOf(mem[SFR][PSW]) \in 0 .. 3
    <3>1. mem[SFR][PSW] \in Byte
      BY <1>1 DEF IsMemories
    <3> QED BY <3>1 DEF BankOf, Byte
  <2>2. Regs * BankOf(mem[SFR][PSW]) \in 0 .. 3 * Regs
    <3> DEFINE b == BankOf(mem[SFR][PSW])
    <3> HIDE DEF b
    <3>1. b \in {0, 1, 2, 3}
      BY <2>1 DEF b
    <3>2. Regs * b \in 0 .. 3 * Regs
      BY <1>1, <3>1
    <3> QED BY <3>2 DEF b
  <2>3. RegisterCell(k) = <<Low, Regs * BankOf(mem[SFR][PSW]) + k - 1>>
    BY <1>1, <1>3 DEF RegisterCell
  <2>4. Regs * BankOf(mem[SFR][PSW]) + k - 1 \in 0 .. Size[Low] - 1
    BY <1>1, <1>3, <2>2
  <2> QED BY <1>1, <2>3, <2>4
<1>4. CASE k = Regs + 1
  BY <1>1, <1>4 DEF RegisterCell
<1> QED BY <1>1, <1>2, <1>3, <1>4

LEMMA TypedRegister ==
    ASSUME IsMemories(mem), regs \in [focus : BOOLEAN, cursor : Nat],
           regs.cursor <= LastReg, NEW h \in Digits
    PROVE  IsMemories(RegisterTyped(h))
<1> DEFINE k == regs.cursor \div 2
<1>1. /\ Regs \in Nat /\ SFR \in Areas /\ h \in 0 .. 15
      /\ {ACC, B, DPH, DPL, PSW} \subseteq 0 .. Size[SFR] - 1
      /\ regs.cursor \in Nat /\ regs.cursor <= 2 * (Regs + 4) - 1
  BY RegsAssumption, BytesAssumption DEF SFR, Areas, LastReg
<1>2. k \in Nat /\ k <= Regs + 3
  BY <1>1
<1>3. CASE k > Regs + 1
  <2> DEFINE q == regs.cursor - 2 * (Regs + 2)
             dptr == WithDptrDigit(256 * mem[SFR][DPH] + mem[SFR][DPL], q, h)
             m == [mem EXCEPT ![SFR][DPH] = dptr \div 256]
  <2>1. q \in 0 .. 3
    BY <1>1, <1>3
  <2>2. mem[SFR][DPH] \in Byte /\ mem[SFR][DPL] \in Byte
    <3>1. mem[SFR] \in [0 .. Size[SFR] - 1 -> Byte]
      BY <1>1 DEF IsMemories
    <3>2. DPH \in 0 .. Size[SFR] - 1 /\ DPL \in 0 .. Size[SFR] - 1
      BY <1>1
    <3> HIDE DEF q, k, dptr, m
    <3> QED BY <3>1, <3>2
  <2>3. dptr \in Nat /\ dptr < Words
    <3> DEFINE hi == mem[SFR][DPH]
               lo == mem[SFR][DPL]
               d == 256 * hi + lo
    <3>1. hi \in Byte /\ lo \in Byte
      BY <2>2
    <3> HIDE DEF hi, lo
    <3>2. d \in Nat /\ d < Words
      BY <3>1 DEF Words, Byte
    <3>3. h \in Nat /\ h < 16
      BY <1>1
    <3> HIDE DEF q, d
    <3>4. WithDptrDigit(d, q, h) \in Nat /\ WithDptrDigit(d, q, h) < Words
      BY <2>1, <3>2, <3>3, DigitOfDptr
    <3> QED BY <3>4 DEF d, hi, lo
  <2>4. RegisterTyped(h) = [m EXCEPT ![SFR][DPL] = dptr % 256]
    BY <1>3 DEF RegisterTyped
  <2> HIDE DEF dptr
  <2>5. dptr \div 256 \in Byte /\ dptr % 256 \in Byte
    BY <2>3 DEF Words, Byte
  <2>6. IsMemories(m)
    <3> DEFINE hi == dptr \div 256
    <3>1. hi \in Byte /\ DPH \in 0 .. Size[SFR] - 1 /\ m = [mem EXCEPT ![SFR][DPH] = hi]
      BY <1>1, <2>5
    <3> HIDE DEF hi, m
    <3> QED BY <1>1, <3>1, StoredByte
  <2> HIDE DEF m
  <2>7. IsMemories([m EXCEPT ![SFR][DPL] = dptr % 256])
    BY <1>1, <2>5, <2>6 DEF IsMemories
  <2> QED BY <2>4, <2>7
<1>4. CASE ~(k > Regs + 1)
  <2>1. PICK a \in Areas, i \in Int : RegisterCell(k) = <<a, i>> /\ i \in 0 .. Size[a] - 1
    BY <1>1, <1>2, <1>4, CellInMemory
  <2> DEFINE c == RegisterCell(k)
             right == regs.cursor % 2 = 1
             v == WithDigit(mem[a][i], right, h)
  <2>2. mem[a] \in [0 .. Size[a] - 1 -> Byte] /\ mem[a][i] \in Byte
    BY <2>1 DEF IsMemories
  <2>3. v \in Byte
    BY <2>2, ByteWithDigit
  <2>4. RegisterTyped(h) = [mem EXCEPT ![c[1]][c[2]] = WithDigit(@, right, h)]
    BY <1>4 DEF RegisterTyped
  <2>5. c[1] = a /\ c[2] = i
    BY <2>1
  <2> HIDE DEF right, c
  <2>6. RegisterTyped(h) = [mem EXCEPT ![a][i] = v]
    BY <2>2, <2>4, <2>5 DEF IsMemories
  <2> HIDE DEF v
  <2>7. i \in 0 .. Size[a] - 1
    BY <2>1
  <2>8. IsMemories([mem EXCEPT ![a][i] = v])
    BY <2>3, <2>7, StoredByte, Zenon
  <2> QED BY <2>6, <2>8
<1> QED BY <1>3, <1>4

-----------------------------------------------------------------------------
(* What the keys do to the windows.  The memory view moves the cursor of   *)
(* the window in focus, the main view that of its box.                     *)
LEMMA FocusedMoves ==
    ASSUME IInv, NEW d \in Int, MoveCursor(d)
    PROVE  /\ eds' \in [Areas -> Windows]
           /\ \A a \in Areas : Fits(built, a) => InWindow(eds'[a], Rows(built, a), Size[a])
           /\ \A a \in Areas : a # focus => eds'[a] = eds[a]
           /\ Fits(built, focus) =>
                Position(eds'[focus]) = Held(Position(eds[focus]) + d, 2 * Size[focus] - 1)
<1> DEFINE rows == Rows(built, focus)
           size == Size[focus]
           w == [offset |-> eds[focus].offset, cursor |-> eds[focus].cursor + d]
<1>1. /\ focus \in Areas /\ built \in Heights /\ eds \in [Areas -> Windows]
      /\ \A a \in Areas : Fits(built, a) => InWindow(eds[a], Rows(built, a), Size[a])
  BY DEF IInv, TypeOK, CursorsOnMemory
<1>2. /\ rows \in Int /\ size \in Nat /\ size % Width = 0
      /\ Fits(built, focus) => rows \in Nat \ {0} /\ rows * Width <= size
  BY <1>1, RowsWhole, SizeAssumption
<1>3. eds' = [eds EXCEPT ![focus] = Scrolled(w, rows, size)]
  BY <1>1 DEF MoveCursor
<1>4. /\ w \in Windows /\ w.offset = eds[focus].offset /\ w.cursor = eds[focus].cursor + d
      /\ eds[focus].offset \in Int /\ eds[focus].cursor \in Int
  BY <1>1 DEF Windows
<1>5. Fits(built, focus) => InWindow(eds[focus], rows, size)
  BY <1>1
<1> HIDE DEF w, rows, size
<1>6. Fits(built, focus) => Moved(w, rows, size)
  BY <1>2, <1>4, <1>5 DEF Moved, InWindow
<1>7. /\ Scrolled(w, rows, size) \in Windows
      /\ Fits(built, focus) => Landed(Scrolled(w, rows, size), w, rows, size)
  BY <1>2, <1>4, <1>6, ScrollLands, ScrollsToWindow
<1>8. eds'[focus] = Scrolled(w, rows, size) /\ \A a \in Areas : a # focus => eds'[a] = eds[a]
  BY <1>1, <1>3
<1>9. Position(w) = Position(eds[focus]) + d
  BY <1>4 DEF Position
<1> QED BY <1>1, <1>3, <1>7, <1>8, <1>9 DEF Landed, rows, size

LEMMA BoxMoves ==
    ASSUME IInv, NEW d \in Int, MoveMain(d)
    PROVE  /\ main' \in [mode : Areas, area : Areas, offset : Int, cursor : Int]
           /\ main'.mode = main.mode /\ main'.area = main.area
           /\ InWindow(main', MainRows, Size[main.mode])
           /\ Position(main') = Held(Position(main) + d, 2 * Size[main.mode] - 1)
<1> DEFINE size == Size[main.mode]
           w == [offset |-> main.offset, cursor |-> main.cursor + d]
           v == Scrolled(w, MainRows, size)
<1>1. /\ main \in [mode : Areas, area : Areas, offset : Int, cursor : Int]
      /\ InWindow(main, MainRows, size)
  BY DEF IInv, TypeOK
<1>2. MainRows \in Nat \ {0} /\ MainRows * Width <= size /\ size \in Nat /\ size % Width = 0
  BY <1>1, SizeAssumption
<1>3. main' = [main EXCEPT !.offset = v.offset, !.cursor = v.cursor]
  BY DEF MoveMain
<1>4. /\ w \in Windows /\ w.offset = main.offset
      /\ Position(w) = Position(main) + d
  BY <1>1 DEF Windows, Position
<1> HIDE DEF w, size
<1>5. Moved(w, MainRows, size)
  BY <1>1, <1>2, <1>4 DEF Moved, InWindow
<1>6. Landed(v, w, MainRows, size)
  BY <1>5, ScrollLands
<1> HIDE DEF v
<1>7. /\ v.offset \in Int /\ v.cursor \in Int
      /\ InWindow(v, MainRows, size)
      /\ Position(v) = Held(Position(main) + d, 2 * size - 1)
  BY <1>4, <1>6 DEF Landed, Windows
<1>8. main'.offset = v.offset /\ main'.cursor = v.cursor
  BY <1>1, <1>3
<1> QED BY <1>1, <1>3, <1>7, <1>8 DEF InWindow, Position, size

(* A view that is built stands at the top of its windows.                  *)
LEMMA BuildKeeps ==
    ASSUME IInv, NEW v \in {"main", "memory", "other"}, Build(v)
    PROVE  /\ eds' \in [Areas -> Windows] /\ built' \in Heights
           /\ \A a \in Areas : Fits(built', a) => InWindow(eds'[a], Rows(built', a), Size[a])
           /\ \/ eds' = eds /\ built' = built
              \/ v = "memory" /\ \A a \in Areas : Position(eds'[a]) = 0
           /\ main' \in [mode : Areas, area : Areas, offset : Int, cursor : Int]
           /\ main'.mode = main.mode /\ main'.offset = main.offset
           /\ main'.cursor = main.cursor /\ main'.area \in {Low, main.area}
<1>1. /\ eds \in [Areas -> Windows] /\ built \in Heights /\ height \in Heights
      /\ \A a \in Areas : Fits(built, a) => InWindow(eds[a], Rows(built, a), Size[a])
      /\ main \in [mode : Areas, area : Areas, offset : Int, cursor : Int]
      /\ Low \in Areas
  BY DEF IInv, TypeOK, CursorsOnMemory, Low, Areas
<1>2. CASE v = "memory"
  <2>1. eds' = [a \in Areas |-> Top] /\ built' = height /\ main' = main
    BY <1>2 DEF Build, BuildMemory
  <2>2. \A a \in Areas : Fits(height, a) => InWindow(Top, Rows(height, a), Size[a])
    BY <1>1, RowsWhole, TopInWindow, SizeAssumption
  <2>3. Top \in Windows /\ Position(Top) = 0
    BY DEF Top, Windows, Position
  <2> QED BY <1>1, <1>2, <2>1, <2>2, <2>3
<1>3. CASE v = "main"
  BY <1>1, <1>3 DEF Build, BuildMain
<1>4. CASE v = "other"
  BY <1>1, <1>4 DEF Build
<1> QED BY <1>2, <1>3, <1>4

LEMMA RegisterMoves ==
    ASSUME IInv, NEW d \in Int
    PROVE  LET r == [regs EXCEPT !.cursor = RegCursor(@ + d)]
           IN  /\ r \in [focus : BOOLEAN, cursor : Nat] /\ r.focus = regs.focus
               /\ r.focus => r.cursor <= LastReg
<1>1. LastReg \in Nat
  BY RegsAssumption DEF LastReg
<1>2. regs \in [focus : BOOLEAN, cursor : Nat]
  BY DEF IInv, TypeOK
<1>3. /\ RegCursor(regs.cursor + d) \in Nat
      /\ regs.focus => RegCursor(regs.cursor + d) <= LastReg
  BY <1>1, <1>2 DEF RegCursor
<1> QED BY <1>2, <1>3

LEMMA StepsAreWhole ==
    ASSUME IInv
    PROVE  /\ LineDigits \in Int /\ -LineDigits \in Int
           /\ Page \in Int /\ -Page \in Int
           /\ MainRows * LineDigits \in Int /\ -MainRows * LineDigits \in Int
<1>1. Rows(built, focus) \in Int
  BY RowsWhole DEF IInv, TypeOK, CursorsOnMemory
<1>2. LineDigits \in Nat /\ MainRows \in Nat
  BY SizeAssumption DEF LineDigits
<1> QED BY <1>1, <1>2 DEF Page

-----------------------------------------------------------------------------
(* A cursor in a window that is on a memory is on that memory.             *)
LEMMA WindowOnMemory ==
    ASSUME NEW rows \in Nat, NEW size \in Nat, rows * Width <= size,
           NEW w, InWindow(w, rows, size)
    PROVE  /\ w.offset \in Nat /\ w.cursor \in Nat
           /\ w.offset + w.cursor \div 2 < size
           /\ Position(w) \in 0 .. 2 * size - 1
<1>1. Width \in Nat /\ rows * Width \in Nat
  BY SizeAssumption
<1>2. rows * LineDigits = 2 * (rows * Width)
  BY <1>1 DEF LineDigits
<1> QED BY <1>1, <1>2 DEF InWindow, Position

LEMMA BoxOnMemory ==
    ASSUME NEW box \in [mode : Areas, area : Areas, offset : Int, cursor : Int],
           InWindow(box, MainRows, Size[box.mode])
    PROVE  /\ box.offset \in Nat /\ box.offset % Width = 0 /\ box.cursor \in Nat
           /\ box.offset + box.cursor \div 2 < Size[box.mode]
<1>1. /\ box.mode \in Areas /\ MainRows \in Nat /\ Size[box.mode] \in Nat
      /\ MainRows * Width <= Size[box.mode]
  BY SizeAssumption
<1> QED BY <1>1, WindowOnMemory DEF InWindow

LEMMA InitIInv ==
    ASSUME Init
    PROVE  IInv
<1>1. /\ height \in Heights /\ built = height
      /\ eds = [a \in Areas |-> Top] /\ focus \in Areas /\ Low \in Areas
      /\ view \in {"main", "memory", "other"}
      /\ main = [mode |-> 0, area |-> Low, offset |-> 0, cursor |-> 0]
  BY DEF Init, Areas, Low
<1>2. \A a \in Areas : Fits(height, a) => InWindow(Top, Rows(height, a), Size[a])
  BY <1>1, RowsWhole, TopInWindow, SizeAssumption
<1>3. InWindow(Top, MainRows, Size[Low])
  BY <1>1, TopInWindow, SizeAssumption
<1>4. InWindow(main, MainRows, Size[main.mode])
  BY <1>1, <1>3 DEF InWindow, Top, Low
<1>5. regs \in [focus : BOOLEAN, cursor : Nat] /\ (regs.focus => regs.cursor <= LastReg)
  <2>1. LastReg \in Nat
    BY RegsAssumption DEF LastReg
  <2>2. \/ regs = [focus |-> FALSE, cursor |-> 0]
        \/ regs \in [focus : {TRUE}, cursor : 0 .. LastReg]
    BY DEF Init
  <2>3. CASE regs = [focus |-> FALSE, cursor |-> 0]
    BY <2>3
  <2>4. CASE regs \in [focus : {TRUE}, cursor : 0 .. LastReg]
    <3>1. PICK c \in 0 .. LastReg : regs = [focus |-> TRUE, cursor |-> c]
      BY <2>4
    <3>2. c \in Nat /\ c <= LastReg
      BY <2>1, <3>1
    <3> QED BY <3>1, <3>2
  <2> QED BY <2>2, <2>3, <2>4
<1>6. IsMemories(mem)
  <2>1. PICK psw \in PSWs :
           mem = [a \in Areas |-> [i \in 0 .. Size[a] - 1 |->
                                     IF a = SFR /\ i = PSW THEN psw ELSE 0]]
    BY DEF Init
  <2>2. psw \in Byte /\ 0 \in Byte
    BY BytesAssumption DEF Byte
  <2>3. \A a \in Areas : mem[a] \in [0 .. Size[a] - 1 -> Byte]
    <3> SUFFICES ASSUME NEW a \in Areas
                 PROVE  mem[a] \in [0 .. Size[a] - 1 -> Byte]
      OBVIOUS
    <3>1. mem[a] = [i \in 0 .. Size[a] - 1 |-> IF a = SFR /\ i = PSW THEN psw ELSE 0]
      BY <2>1
    <3> QED BY <2>2, <3>1
  <2>4. mem = [a \in Areas |-> mem[a]]
    BY <2>1
  <2> QED BY <2>3, <2>4 DEF IsMemories
<1>7. /\ eds \in [Areas -> Windows]
      /\ \A a \in Areas : Fits(built, a) => InWindow(eds[a], Rows(built, a), Size[a])
  <2>1. Top \in Windows
    BY DEF Top, Windows
  <2> QED BY <1>1, <1>2, <2>1
<1>8. main \in [mode : Areas, area : Areas, offset : Int, cursor : Int]
  BY <1>1 DEF Areas, Low
<1>9. main.mode \in Areas /\ main.area \in {Low, main.mode}
  BY <1>1 DEF Areas, Low
<1>10. TypeOK
  BY <1>1, <1>5, <1>6, <1>7, <1>8 DEF TypeOK
<1>11. CursorsOnMemory
  BY <1>1, <1>4, <1>5, <1>6, <1>7, <1>8, <1>9, BoxOnMemory
  DEF CursorsOnMemory, IsMemories, Byte
<1> QED BY <1>4, <1>10, <1>11 DEF IInv

LEMMA NextIInv ==
    ASSUME IInv, [Next]_vars
    PROVE  IInv'
<1> USE DEF IInv
<1>1. /\ height \in Heights /\ built \in Heights
      /\ view \in {"main", "memory", "other"}
      /\ eds \in [Areas -> Windows] /\ focus \in Areas
      /\ \A a \in Areas : Fits(built, a) => InWindow(eds[a], Rows(built, a), Size[a])
      /\ main \in [mode : Areas, area : Areas, offset : Int, cursor : Int]
      /\ InWindow(main, MainRows, Size[main.mode]) /\ main.area \in {Low, main.mode}
      /\ regs \in [focus : BOOLEAN, cursor : Nat] /\ (regs.focus => regs.cursor <= LastReg)
      /\ IsMemories(mem)
  BY DEF TypeOK, CursorsOnMemory
<1> DEFINE Screen == /\ height' \in Heights /\ built' \in Heights
                     /\ view' \in {"main", "memory", "other"}
           Editors == /\ eds' \in [Areas -> Windows] /\ focus' \in Areas
                      /\ \A a \in Areas :
                           Fits(built', a) => InWindow(eds'[a], Rows(built', a), Size[a])
           Box == /\ main' \in [mode : Areas, area : Areas, offset : Int, cursor : Int]
                  /\ InWindow(main', MainRows, Size[main'.mode])
                  /\ main'.area \in {Low, main'.mode}
           Registers == /\ regs' \in [focus : BOOLEAN, cursor : Nat]
                        /\ regs'.focus => regs'.cursor <= LastReg
           Bytes == IsMemories(mem')
<1>2. SUFFICES Screen /\ Editors /\ Box /\ Registers /\ Bytes
  BY BoxOnMemory DEF TypeOK, CursorsOnMemory, IsMemories, Byte, InWindow
<1>3. CASE Resize
  BY <1>1, <1>3 DEF Resize
<1>4. ASSUME NEW v \in {"main", "memory", "other"}, Build(v),
             view' \in {"main", "memory", "other"},
             UNCHANGED <<mem, height, focus, regs>>
      PROVE  Screen /\ Editors /\ Box /\ Registers /\ Bytes
  <2>1. Screen /\ Editors
    BY <1>1, <1>4, BuildKeeps
  <2>2. Box
    BY <1>1, <1>4, BuildKeeps DEF InWindow
  <2> QED BY <1>1, <1>4, <2>1, <2>2
<1>5. CASE Refresh
  BY <1>1, <1>4, <1>5 DEF Refresh
<1>6. CASE \E v \in {"main", "memory", "other"} : KeyView(v)
  BY <1>4, <1>6 DEF KeyView, Key
<1>7. ASSUME MemoryKey
      PROVE  Screen /\ Box /\ Registers
  BY <1>1, <1>7 DEF MemoryKey, Key
<1>8. ASSUME MemoryKey, NEW d \in Int, MoveCursor(d), focus' = focus
      PROVE  Editors
  BY <1>1, <1>8, FocusedMoves DEF MemoryKey
<1>9. CASE MemoryTab
  <2>1. focus' \in Areas
    BY <1>1, <1>9 DEF MemoryTab, Areas
  <2>2. Editors /\ Bytes
    BY <1>1, <1>9, <2>1 DEF MemoryTab, MemoryKey
  <2> QED BY <1>7, <1>9, <2>2 DEF MemoryTab
<1>10. CASE MemoryMove
  <2>1. Editors
    BY <1>8, <1>10, StepsAreWhole DEF MemoryMove
  <2>2. Bytes
    BY <1>1, <1>10 DEF MemoryMove
  <2> QED BY <1>7, <1>10, <2>1, <2>2 DEF MemoryMove
<1>11. ASSUME NEW h \in Digits, MemoryType(h)
       PROVE  Screen /\ Editors /\ Box /\ Registers /\ Bytes
  <2>1. Editors
    BY <1>8, <1>11 DEF MemoryType
  <2>2. Bytes
    <3>1. eds[focus].offset \in Int /\ eds[focus].cursor \in Int
      BY <1>1 DEF Windows
    <3> QED BY <1>1, <1>11, <3>1, TypedByte DEF MemoryType
  <2> QED BY <1>7, <1>11, <2>1, <2>2 DEF MemoryType
<1>12. ASSUME MainKey
       PROVE  Screen /\ Editors
  BY <1>1, <1>12 DEF MainKey, Key
<1>13. ASSUME NEW d \in Int, MoveMain(d)
       PROVE  Box
  BY <1>1, <1>13, BoxMoves
<1>14. CASE MainTab
  BY <1>1, <1>12, <1>14, RegsAssumption DEF MainTab, LastReg
<1>15. CASE MainMode
  <2> DEFINE next == (main.mode + 1) % 5
  <2>1. next \in Areas
    BY <1>1 DEF Areas
  <2>2. main' = [mode |-> next, area |-> next, offset |-> 0, cursor |-> 0]
    BY <1>15 DEF MainMode
  <2> HIDE DEF next
  <2>3. InWindow(Top, MainRows, Size[next])
    BY <2>1, TopInWindow, SizeAssumption
  <2>4. Box
    BY <2>1, <2>2, <2>3 DEF InWindow, Top
  <2> QED BY <1>1, <1>12, <1>15, <2>4 DEF MainMode
<1>16. CASE MainPage
  BY <1>1, <1>12, <1>13, <1>16, StepsAreWhole DEF MainPage
<1>17. CASE MainSide
  <2>1. PICK d \in {1, -1} :
          /\ IF regs.focus THEN UNCHANGED main /\ step' = 0 ELSE MoveMain(d)
          /\ regs' = [regs EXCEPT !.cursor = RegCursor(@ + d)]
    BY <1>17 DEF MainSide
  <2>2. Box
    <3>1. CASE regs.focus
      BY <1>1, <2>1, <3>1 DEF InWindow
    <3>2. CASE ~regs.focus
      <4>1. d \in Int /\ MoveMain(d)
        BY <2>1, <3>2
      <4> HIDE DEF Box
      <4> QED BY <1>13, <4>1
    <3> QED BY <3>1, <3>2
  <2>3. Registers
    <3>1. d \in Int /\ regs' = [regs EXCEPT !.cursor = RegCursor(@ + d)]
      BY <2>1
    <3> QED BY <3>1, RegisterMoves
  <2> QED BY <1>1, <1>12, <1>17, <2>2, <2>3 DEF MainSide
<1>18. CASE MainLine
  BY <1>1, <1>12, <1>13, <1>18, StepsAreWhole DEF MainLine
<1>19. ASSUME NEW h \in Digits, MainType(h)
       PROVE  Screen /\ Editors /\ Box /\ Registers /\ Bytes
  <2>1. Bytes
    <3>1. main.offset \in Int /\ main.cursor \in Int /\ main.area \in Areas
      BY <1>1
    <3> QED BY <1>1, <1>19, <3>1, TypedByte DEF MainType
  <2>2. Box
    BY <1>13, <1>19 DEF MainType
  <2> QED BY <1>1, <1>12, <1>19, <2>1, <2>2 DEF MainType
<1>20. ASSUME NEW h \in Digits, MainTypeRegister(h)
       PROVE  Screen /\ Editors /\ Box /\ Registers /\ Bytes
  <2>1. Bytes
    <3>1. regs.focus /\ mem' = RegisterTyped(h)
      BY <1>20 DEF MainTypeRegister
    <3>2. IsMemories(RegisterTyped(h))
      BY <1>1, <3>1, TypedRegister
    <3> QED BY <3>1, <3>2
  <2>2. Registers
    <3>1. regs' = [regs EXCEPT !.cursor = RegCursor(@ + 1)]
      BY <1>20 DEF MainTypeRegister
    <3>2. 1 \in Int
      OBVIOUS
    <3> QED BY <3>1, <3>2, RegisterMoves
  <2> QED BY <1>1, <1>12, <1>20, <2>1, <2>2 DEF MainTypeRegister
<1>21. CASE UNCHANGED vars
  BY <1>1, <1>21 DEF vars, screen
<1> HIDE DEF Screen, Editors, Box, Registers, Bytes
<1> QED
  BY <1>3, <1>5, <1>6, <1>9, <1>10, <1>11, <1>14, <1>15, <1>16, <1>17, <1>18, <1>19, <1>20, <1>21
  DEF Next

(* Whatever keys are typed, whatever views are opened and however the      *)
(* terminal is resized, the cursors of the windows that fit their memory,  *)
(* of the main view's box while it shows the memory it names and of the    *)
(* registers are on digits of them, and a digit typed stores a byte.       *)
THEOREM CursorsStayOnMemory == Spec => []CursorsOnMemory
<1>1. Init => IInv
  BY InitIInv
<1>2. IInv /\ [Next]_vars => IInv'
  BY NextIInv
<1>3. IInv => CursorsOnMemory
  BY DEF IInv
<1> QED BY <1>1, <1>2, <1>3, PTL DEF Spec

-----------------------------------------------------------------------------
(* The caret.  A digit typed changes the half byte under the cursor and no *)
(* other one of any memory.                                                *)
LEMMA HalfUnderCursor ==
    ASSUME NEW o \in Nat, NEW c \in Nat, NEW p \in Nat
    PROVE  /\ (2 * o + c) % 2 = c % 2 /\ (2 * o + c) \div 2 = o + c \div 2
           /\ p \div 2 = o + c \div 2 /\ p % 2 = c % 2 => p = 2 * o + c
OBVIOUS

LEMMA TypedHalf ==
    ASSUME IsMemories(mem), NEW a \in Areas, NEW w, w.offset \in Nat, w.cursor \in Nat,
           w.offset + w.cursor \div 2 < Size[a],
           NEW h \in Digits, mem' \in Typed(a, w, h),
           NEW b \in Areas, NEW p \in 0 .. 2 * Size[b] - 1
    PROVE  Half(b, p)' = IF b = a /\ p = Position(w) THEN h ELSE Half(b, p)
<1> DEFINE i == w.offset + w.cursor \div 2
           right == w.cursor % 2 = 1
           v == WithDigit(mem[a][i], right, h)
<1>1. i \in 0 .. Size[a] - 1 /\ Size[a] \in Nat /\ Size[b] \in Nat
  BY SizeAssumption
<1>2. mem' = [mem EXCEPT ![a][i] = WithDigit(@, right, h)]
  <2>1. ~(w.cursor < 0)
    OBVIOUS
  <2> QED BY <1>1, <2>1 DEF Typed
<1>3. mem[a] \in [0 .. Size[a] - 1 -> Byte] /\ mem[a][i] \in Byte
  BY <1>1 DEF IsMemories
<1>4. mem' = [mem EXCEPT ![a][i] = v]
  BY <1>1, <1>2, <1>3 DEF IsMemories
<1>5. /\ v \in Byte
      /\ v \div 16 = IF right THEN mem[a][i] \div 16 ELSE h
      /\ v % 16 = IF right THEN h ELSE mem[a][i] % 16
  <2>1. right \in BOOLEAN
    OBVIOUS
  <2> DEFINE byte == mem[a][i]
  <2>2. byte \in Byte
    BY <1>3
  <2> HIDE DEF right, byte
  <2>3. /\ WithDigit(byte, right, h) \in Byte
        /\ WithDigit(byte, right, h) \div 16 = IF right THEN byte \div 16 ELSE h
        /\ WithDigit(byte, right, h) % 16 = IF right THEN h ELSE byte % 16
    <3>1. h \in 0 .. 15
      BY BytesAssumption
    <3>2. CASE right
      BY <2>2, <3>1, <3>2, NewDigit DEF WithDigit
    <3>3. CASE ~right
      BY <2>2, <3>1, <3>3, NewDigit DEF WithDigit
    <3> QED BY <3>2, <3>3
  <2> QED BY <2>3 DEF byte
<1>6. /\ p \in Nat
      /\ p = Position(w) <=> (p \div 2 = i /\ p % 2 = w.cursor % 2)
      /\ p % 2 \in {0, 1} /\ w.cursor % 2 \in {0, 1}
      /\ p \div 2 \in 0 .. Size[b] - 1
  <2>1. p \in Nat /\ p \div 2 \in 0 .. Size[b] - 1
    BY <1>1
  <2>2. p = Position(w) <=> (p \div 2 = i /\ p % 2 = w.cursor % 2)
    BY <2>1, HalfUnderCursor DEF Position
  <2> QED BY <2>1, <2>2
<1> HIDE DEF i, v
<1>7. \A n \in 0 .. Size[b] - 1 : mem'[b][n] = IF b = a /\ n = i THEN v ELSE mem[b][n]
  <2>1. mem'[b] = IF b = a THEN [mem[a] EXCEPT ![i] = v] ELSE mem[b]
    BY <1>4 DEF IsMemories
  <2> QED BY <1>3, <2>1
<1>8. mem'[b][p \div 2] = IF b = a /\ p \div 2 = i THEN v ELSE mem[b][p \div 2]
  BY <1>6, <1>7
<1> QED BY <1>5, <1>6, <1>8 DEF Half

LEMMA TypedText ==
    ASSUME IsMemories(mem), NEW a \in Areas, NEW w, w.offset \in Nat, w.cursor \in Nat,
           w.offset + w.cursor \div 2 < Size[a],
           NEW h \in Digits, mem' \in Typed(a, w, h)
    PROVE  Halves' = [Halves EXCEPT ![a][Position(w)] = h]
<1>1. Position(w) \in 0 .. 2 * Size[a] - 1
  BY SizeAssumption DEF Position
<1>2. ASSUME NEW b \in Areas, NEW p \in 0 .. 2 * Size[b] - 1
      PROVE  Halves'[b][p] = IF b = a /\ p = Position(w) THEN h ELSE Half(b, p)
  <2>1. Halves'[b][p] = Half(b, p)'
    BY DEF Halves
  <2> QED BY <2>1, TypedHalf
<1>3. Halves' = [b \in Areas |-> [p \in 0 .. 2 * Size[b] - 1 |-> Halves'[b][p]]]
  BY DEF Halves
<1>4. Halves' = [b \in Areas |-> [p \in 0 .. 2 * Size[b] - 1 |->
                    IF b = a /\ p = Position(w) THEN h ELSE Half(b, p)]]
  BY <1>2, <1>3
<1>5. [Halves EXCEPT ![a][Position(w)] = h]
        = [b \in Areas |-> [p \in 0 .. 2 * Size[b] - 1 |->
             IF b = a /\ p = Position(w) THEN h ELSE Half(b, p)]]
  BY <1>1 DEF Halves
<1> QED BY <1>4, <1>5

(* Every step of the editors is a step of the caret, or none of it.        *)
LEMMA CaretStep ==
    ASSUME IInv, [Next]_vars
    PROVE  MemoryCaret!Next \/ UNCHANGED MemoryCaret!view
<1> DEFINE caret == [a \in Areas |-> IF Fits(built, a) THEN Position(eds[a]) ELSE 0]
           open == view = "memory" /\ Fits(built, focus)
<1>1. /\ focus \in Areas /\ built \in Heights /\ IsMemories(mem)
      /\ eds \in [Areas -> Windows]
      /\ \A a \in Areas : Fits(built, a) => InWindow(eds[a], Rows(built, a), Size[a])
  BY DEF IInv, TypeOK, CursorsOnMemory
<1>2. ASSUME mem' = mem, focus' \in Areas, eds' = eds, built' = built, step' = 0
      PROVE  MemoryCaret!Next
  <2>1. Halves' = Halves /\ caret' = caret
    BY <1>2 DEF Halves, Half, Position
  <2>2. MemoryCaret!Choose
    BY <1>2, <2>1 DEF MemoryCaret!Choose
  <2> QED BY <2>2 DEF MemoryCaret!Next
<1>3. CASE Resize
  BY <1>1, <1>2, <1>3 DEF Resize
<1>4. ASSUME NEW v \in {"main", "memory", "other"}, Build(v), mem' = mem, focus' = focus,
             step' = 0
      PROVE  MemoryCaret!Next
  <2>1. CASE eds' = eds /\ built' = built
    BY <1>1, <1>2, <1>4, <2>1
  <2>2. CASE \A a \in Areas : Position(eds'[a]) = 0
    <3>1. Halves' = Halves /\ caret' = [a \in Areas |-> 0]
      BY <1>4, <2>2 DEF Halves, Half, Position
    <3>2. MemoryCaret!Home
      BY <1>1, <1>4, <3>1 DEF MemoryCaret!Home
    <3> QED BY <3>2 DEF MemoryCaret!Next
  <2> QED BY <1>4, <2>1, <2>2, BuildKeeps
<1>5. CASE Refresh
  BY <1>4, <1>5 DEF Refresh, IInv, TypeOK
<1>6. CASE \E v \in {"main", "memory", "other"} : KeyView(v)
  BY <1>4, <1>6 DEF KeyView
<1>7. ASSUME MemoryKey, NEW d \in KeySteps, d \in Int, MoveCursor(d), focus' = focus
      PROVE  IF Fits(built, focus)
             THEN caret' = MemoryCaret!Moved(d) /\ step' \in KeySteps /\ step' = d /\ open /\ open'
             ELSE MemoryCaret!Elsewhere
  <2>1. /\ view = "memory" /\ view' = view /\ built' = built
        /\ \A a \in Areas : a # focus => eds'[a] = eds[a]
        /\ step' = d
    BY <1>7, FocusedMoves DEF MemoryKey, MoveCursor
  <2>2. CASE ~Fits(built, focus)
    <3>1. caret' = caret
      BY <2>1, <2>2 DEF Position
    <3> QED BY <1>7, <2>1, <2>2, <3>1 DEF MemoryCaret!Elsewhere
  <2>3. CASE Fits(built, focus)
    <3>1. Position(eds'[focus]) = MemoryCaret!Clamped(Position(eds[focus]) + d, focus)
      BY <1>1, <1>7, <2>3, FocusedMoves DEF Held, MemoryCaret!Clamped, LastDigit
    <3>2. caret' = [a \in Areas |-> IF ~Fits(built, a) THEN 0
                                   ELSE IF a = focus
                                   THEN MemoryCaret!Clamped(Position(eds[focus]) + d, focus)
                                   ELSE Position(eds[a])]
      BY <2>1, <3>1 DEF Position
    <3>3. caret' = MemoryCaret!Moved(d)
      BY <1>1, <2>3, <3>2 DEF MemoryCaret!Moved
    <3> QED BY <1>7, <2>1, <2>3, <3>3
  <2> QED BY <2>2, <2>3
<1>8. 1 \in KeySteps /\ \A d \in {1, LineDigits, Page} : d \in KeySteps /\ -d \in KeySteps
                                                    /\ d \in Int /\ -d \in Int
  BY <1>1, StepsAreWhole DEF KeySteps, Pages, Page
<1>9. CASE MemoryTab
  <2>1. focus' \in Areas
    BY <1>1, <1>9 DEF MemoryTab, Areas
  <2> QED BY <1>2, <1>9, <2>1 DEF MemoryTab, MemoryKey
<1>10. CASE MemoryMove
  <2>1. PICK d \in KeySteps : d \in Int /\ MoveCursor(d)
    BY <1>8, <1>10 DEF MemoryMove
  <2>2. MemoryKey /\ UNCHANGED <<mem, focus>>
    BY <1>10 DEF MemoryMove
  <2>3. CASE Fits(built, focus)
    <3>1. caret' = MemoryCaret!Moved(d) /\ step' \in KeySteps /\ step' = d /\ open /\ open'
      BY <1>7, <2>1, <2>2, <2>3
    <3>2. Halves' = Halves
      BY <2>2 DEF Halves, Half
    <3>3. MemoryCaret!Move
      BY <2>2, <3>1, <3>2 DEF MemoryCaret!Move
    <3> QED BY <3>3 DEF MemoryCaret!Next
  <2>4. CASE ~Fits(built, focus)
    BY <1>7, <2>1, <2>2, <2>4 DEF MemoryCaret!Next
  <2> QED BY <2>3, <2>4
<1>11. ASSUME NEW h \in Digits, MemoryType(h)
       PROVE  MemoryCaret!Next
  <2>1. MemoryKey /\ MoveCursor(1) /\ mem' \in Typed(focus, eds[focus], h) /\ focus' = focus
    BY <1>11 DEF MemoryType
  <2>2. CASE Fits(built, focus)
    <3>1. caret' = MemoryCaret!Moved(1) /\ step' = 1 /\ open /\ open'
      BY <1>7, <1>8, <2>1, <2>2
    <3>2. /\ eds[focus].offset \in Nat /\ eds[focus].cursor \in Nat
          /\ eds[focus].offset + eds[focus].cursor \div 2 < Size[focus]
      BY <1>1, <2>2, RowsWhole, WindowOnMemory, SizeAssumption
    <3>3. Halves' = [Halves EXCEPT ![focus][Position(eds[focus])] = h]
      BY <1>1, <2>1, <3>2, TypedText
    <3>4. caret[focus] = Position(eds[focus])
      BY <1>1, <2>2
    <3>5. MemoryCaret!Type
      BY <2>1, <3>1, <3>3, <3>4 DEF MemoryCaret!Type
    <3> QED BY <3>5 DEF MemoryCaret!Next
  <2>3. CASE ~Fits(built, focus)
    BY <1>7, <1>8, <2>1, <2>3 DEF MemoryCaret!Next
  <2> QED BY <2>2, <2>3
<1>12. ASSUME MainKey
       PROVE  MemoryCaret!Next
  <2>1. ~open /\ ~open' /\ UNCHANGED focus /\ caret' = caret
    BY <1>12 DEF MainKey, Position
  <2>2. MemoryCaret!Elsewhere
    BY <2>1 DEF MemoryCaret!Elsewhere
  <2> QED BY <2>2 DEF MemoryCaret!Next
<1>13. CASE \/ MainTab \/ MainMode \/ MainPage \/ MainSide \/ MainLine
            \/ \E h \in Digits : MainType(h) \/ MainTypeRegister(h)
  BY <1>12, <1>13
  DEF MainTab, MainMode, MainPage, MainSide, MainLine, MainType, MainTypeRegister
<1>14. CASE UNCHANGED vars
  BY <1>14 DEF vars, screen, MemoryCaret!view, Halves, Half, Position
<1> QED BY <1>3, <1>5, <1>6, <1>9, <1>10, <1>11, <1>13, <1>14 DEF Next

LEMMA CaretInit ==
    ASSUME Init
    PROVE  MemoryCaret!Init
<1>1. Position(Top) = 0
  BY DEF Position, Top
<1> QED BY <1>1 DEF Init, MemoryCaret!Init

(* The memory view is a caret in each memory that its window fits: windows,*)
(* the scrolling of them and two digits to a byte never show in what a key *)
(* does.                                                                   *)
THEOREM ImplementsCaret == Spec => CaretSpec
<1>1. Init => IInv /\ MemoryCaret!Init
  BY InitIInv, CaretInit
<1>2. IInv /\ [Next]_vars => IInv'
  BY NextIInv
<1>3. IInv /\ [Next]_vars => [MemoryCaret!Next]_(MemoryCaret!view)
  BY CaretStep
<1> QED BY <1>1, <1>2, <1>3, PTL DEF Spec, CaretSpec, MemoryCaret!Spec

(* The box of the main view, while it shows the memory of its mode.        *)
LEMMA BoxStep ==
    ASSUME IInv, [Next]_vars, main.area = main.mode, ~(regs.focus /\ mem' # mem)
    PROVE  BoxCaret!Next \/ UNCHANGED BoxCaret!view
<1> DEFINE caret == [a \in Areas |-> IF a = main.mode THEN Position(main) ELSE 0]
           open == view = "main"
<1>1. /\ main \in [mode : Areas, area : Areas, offset : Int, cursor : Int]
      /\ InWindow(main, MainRows, Size[main.mode]) /\ IsMemories(mem)
      /\ main.mode \in Areas /\ main.area = main.mode
  BY DEF IInv, TypeOK, CursorsOnMemory
<1>2. ASSUME mem' = mem, step' = 0,
             main'.mode = main.mode, main'.offset = main.offset, main'.cursor = main.cursor
      PROVE  BoxCaret!Next
  <2>1. Halves' = Halves /\ caret' = caret
    BY <1>2 DEF Halves, Half, Position
  <2>2. BoxCaret!Choose
    BY <1>1, <1>2, <2>1 DEF BoxCaret!Choose
  <2> QED BY <2>2 DEF BoxCaret!Next
<1>3. CASE Resize
  BY <1>2, <1>3 DEF Resize, IInv, TypeOK
<1>4. ASSUME NEW v \in {"main", "memory", "other"}, Build(v), mem' = mem, step' = 0
      PROVE  BoxCaret!Next
  BY <1>2, <1>4, BuildKeeps
<1>5. CASE Refresh
  BY <1>4, <1>5 DEF Refresh, IInv, TypeOK
<1>6. CASE \E v \in {"main", "memory", "other"} : KeyView(v)
  BY <1>4, <1>6 DEF KeyView
<1>7. ASSUME MemoryKey
      PROVE  BoxCaret!Next
  <2>1. ~open /\ ~open' /\ main' = main /\ caret' = caret
    BY <1>7 DEF MemoryKey, Position
  <2>2. BoxCaret!Elsewhere
    BY <2>1 DEF BoxCaret!Elsewhere
  <2> QED BY <2>2 DEF BoxCaret!Next
<1>8. CASE MemoryTab \/ MemoryMove \/ \E h \in Digits : MemoryType(h)
  BY <1>7, <1>8 DEF MemoryTab, MemoryMove, MemoryType
<1>9. ASSUME MainKey, NEW d \in KeySteps, d \in Int, MoveMain(d)
      PROVE  /\ caret' = BoxCaret!Moved(d) /\ step' = d /\ open /\ open'
             /\ main'.mode = main.mode
  <2>1. /\ main'.mode = main.mode
        /\ Position(main') = Held(Position(main) + d, 2 * Size[main.mode] - 1)
    BY <1>9, BoxMoves
  <2>2. Position(main') = BoxCaret!Clamped(Position(main) + d, main.mode)
    BY <1>1, <2>1 DEF Held, BoxCaret!Clamped, LastDigit
  <2>3. Position(main)' = Position(main')
    BY DEF Position
  <2>4. caret' = BoxCaret!Moved(d)
    BY <1>1, <2>1, <2>2, <2>3 DEF BoxCaret!Moved
  <2> QED BY <1>9, <2>1, <2>4 DEF MainKey, MoveMain
<1>10. \A d \in {1, -1, LineDigits, -LineDigits,
                 MainRows * LineDigits, -MainRows * LineDigits} : d \in KeySteps /\ d \in Int
  <2>1. -MainRows * LineDigits = -(MainRows * LineDigits)
    BY SizeAssumption DEF LineDigits
  <2> QED BY <2>1, StepsAreWhole DEF KeySteps, Pages
<1>11. ASSUME MainKey, NEW d \in KeySteps, d \in Int, MoveMain(d), mem' = mem
       PROVE  BoxCaret!Next
  <2>1. Halves' = Halves
    BY <1>11 DEF Halves, Half
  <2>2. BoxCaret!Move
    BY <1>9, <1>11, <2>1 DEF BoxCaret!Move
  <2> QED BY <2>2 DEF BoxCaret!Next
<1>12. ASSUME MainKey, mem' = mem, main' = main, step' = 0
       PROVE  BoxCaret!Next
  BY <1>2, <1>12 DEF MainKey
<1>13. CASE MainTab
  BY <1>12, <1>13 DEF MainTab
<1>14. CASE MainMode
  <2> DEFINE next == (main.mode + 1) % 5
  <2>1. next \in Areas
    BY <1>1 DEF Areas
  <2>2. main' = [mode |-> next, area |-> next, offset |-> 0, cursor |-> 0]
    BY <1>14 DEF MainMode
  <2> HIDE DEF next
  <2>3. caret' = [a \in Areas |-> 0] /\ main'.mode \in Areas
    BY <2>1, <2>2 DEF Position
  <2>4. Halves' = Halves /\ step' = 0
    BY <1>14 DEF MainMode, Halves, Half
  <2>5. BoxCaret!Home
    BY <2>3, <2>4 DEF BoxCaret!Home
  <2> QED BY <2>5 DEF BoxCaret!Next
<1>15. CASE MainPage
  BY <1>10, <1>11, <1>15 DEF MainPage
<1>16. CASE MainSide
  <2>1. PICK d \in {1, -1} :
          IF regs.focus THEN UNCHANGED main /\ step' = 0 ELSE MoveMain(d)
    BY <1>16 DEF MainSide
  <2>2. MainKey /\ mem' = mem
    BY <1>16 DEF MainSide
  <2> QED BY <1>10, <1>11, <1>12, <2>1, <2>2
<1>17. CASE MainLine
  BY <1>10, <1>11, <1>17 DEF MainLine
<1>18. ASSUME NEW h \in Digits, MainType(h)
       PROVE  BoxCaret!Next
  <2>1. MainKey /\ MoveMain(1) /\ mem' \in Typed(main.mode, main, h)
    BY <1>1, <1>18 DEF MainType
  <2>2. caret' = BoxCaret!Moved(1) /\ step' = 1 /\ open /\ open' /\ main'.mode = main.mode
    BY <1>9, <1>10, <2>1
  <2>3. /\ main.offset \in Nat /\ main.cursor \in Nat
        /\ main.offset + main.cursor \div 2 < Size[main.mode]
    BY <1>1, WindowOnMemory, SizeAssumption
  <2>4. Halves' = [Halves EXCEPT ![main.mode][Position(main)] = h]
    BY <1>1, <2>1, <2>3, TypedText
  <2>5. caret[main.mode] = Position(main)
    BY <1>1
  <2>6. BoxCaret!Type
    BY <2>2, <2>4, <2>5 DEF BoxCaret!Type
  <2> QED BY <2>6 DEF BoxCaret!Next
<1>19. ASSUME NEW h \in Digits, MainTypeRegister(h)
       PROVE  BoxCaret!Next
  BY <1>12, <1>19 DEF MainTypeRegister
<1>20. CASE UNCHANGED vars
  BY <1>20 DEF vars, screen, BoxCaret!view, Halves, Half, Position
<1> QED BY <1>3, <1>5, <1>6, <1>8, <1>13, <1>14, <1>15, <1>16, <1>17, <1>18, <1>19, <1>20 DEF Next

(* And so is the memory box of the main view, over the memory of its mode, *)
(* from the key that chooses the memory until the view is built again.     *)
THEOREM BoxImplementsCaret == Spec => MainViewCaret
<1>1. Init => IInv
  BY InitIInv
<1>2. IInv /\ [Next]_vars => IInv'
  BY NextIInv
<1>3. IInv /\ [Next]_vars
        => [(main.area = main.mode /\ ~(regs.focus /\ mem' # mem)) =>
              BoxCaret!Next \/ UNCHANGED BoxCaret!view]_vars
  BY BoxStep
<1> QED BY <1>1, <1>2, <1>3, PTL DEF Spec, MainViewCaret
-----------------------------------------------------------------------------
(* The register box.  Its registers lie in places of their own, the bank   *)
(* in lower RAM and the others among the SFRs, none of them in PSW.        *)
RegisterPlace(psw, k) ==
    CASE k = 0           -> <<SFR, ACC>>
      [] k \in 1 .. Regs -> <<Low, Regs * BankOf(psw) + k - 1>>
      [] k = Regs + 1    -> <<SFR, B>>
      [] k = Regs + 2    -> <<SFR, DPH>>
      [] k = Regs + 3    -> <<SFR, DPL>>

DigitOf(byte, right) == IF right = 0 THEN byte \div 16 ELSE byte % 16

ShownDigit(m, psw, p) ==
    LET c == RegisterPlace(psw, p \div 2) IN DigitOf(m[c[1]][c[2]], p % 2)

RowShows == \A p \in 0 .. LastReg : Row[p] = ShownDigit(mem, mem[SFR][PSW], p)

LEMMA RegisterPlaces ==
    ASSUME NEW psw
    PROVE  /\ RegisterPlace(psw, 0) = <<SFR, ACC>>
           /\ \A k \in 1 .. Regs : RegisterPlace(psw, k) = <<Low, Regs * BankOf(psw) + k - 1>>
           /\ RegisterPlace(psw, Regs + 1) = <<SFR, B>>
           /\ RegisterPlace(psw, Regs + 2) = <<SFR, DPH>>
           /\ RegisterPlace(psw, Regs + 3) = <<SFR, DPL>>
BY RegsAssumption DEF RegisterPlace

LEMMA WhichRegister ==
    ASSUME NEW k \in 0 .. Regs + 3
    PROVE  k = 0 \/ k \in 1 .. Regs \/ k = Regs + 1 \/ k = Regs + 2 \/ k = Regs + 3
BY RegsAssumption

LEMMA BankInRam ==
    ASSUME NEW psw \in Byte, NEW k \in 1 .. Regs
    PROVE  Regs * BankOf(psw) + k - 1 \in 0 .. Size[Low] - 1
<1>1. Regs \in Nat /\ 4 * Regs <= Size[Low] /\ Size[Low] \in Nat
  BY RegsAssumption, SizeAssumption DEF Low, Areas
<1> DEFINE b == BankOf(psw)
<1>2. b \in {0, 1, 2, 3}
  BY DEF BankOf, Byte
<1> HIDE DEF b
<1>3. Regs * b \in 0 .. 3 * Regs
  BY <1>1, <1>2
<1> QED BY <1>1, <1>3 DEF b

LEMMA RegistersOnMemory ==
    ASSUME NEW psw \in Byte, NEW k \in 0 .. Regs + 3
    PROVE  /\ RegisterPlace(psw, k)[1] \in {Low, SFR}
           /\ RegisterPlace(psw, k)[2] \in 0 .. Size[RegisterPlace(psw, k)[1]] - 1
           /\ RegisterPlace(psw, k) # <<SFR, PSW>>
           /\ RegisterPlace(psw, k) = <<RegisterPlace(psw, k)[1], RegisterPlace(psw, k)[2]>>
<1>1. CASE k \in 1 .. Regs
  BY <1>1, RegisterPlaces, BankInRam DEF Low, SFR
<1>2. CASE k \notin 1 .. Regs
  <2>1. \E i \in {ACC, B, DPH, DPL} : RegisterPlace(psw, k) = <<SFR, i>>
    BY <1>2, RegisterPlaces, WhichRegister
  <2> QED BY <2>1, RegsAssumption
<1> QED BY <1>1, <1>2

LEMMA RegistersApart ==
    ASSUME NEW psw \in Byte, NEW j \in 0 .. Regs + 3, NEW k \in 0 .. Regs + 3,
           RegisterPlace(psw, j) = RegisterPlace(psw, k)
    PROVE  j = k
<1> DEFINE Ram(n) == n \in 1 .. Regs
<1>1. Low # SFR /\ Regs \in Nat
  BY RegsAssumption DEF Low, SFR
<1>2. \A n \in 0 .. Regs + 3 : RegisterPlace(psw, n)[1] = IF Ram(n) THEN Low ELSE SFR
  BY <1>1, RegisterPlaces, WhichRegister
<1>3. CASE Ram(j) /\ Ram(k)
  <2> DEFINE first == Regs * BankOf(psw)
  <2>1. first \in Int
    <3>1. BankOf(psw) \in Int
      BY DEF BankOf, Byte
    <3> QED BY <1>1, <3>1
  <2>2. first + j - 1 = first + k - 1
    BY <1>3, RegisterPlaces
  <2> HIDE DEF first
  <2> QED BY <1>3, <2>1, <2>2
<1>4. CASE ~Ram(j) /\ ~Ram(k)
  <2>1. j \in {0, Regs + 1, Regs + 2, Regs + 3} /\ k \in {0, Regs + 1, Regs + 2, Regs + 3}
    BY <1>4, WhichRegister
  <2>2. /\ RegisterPlace(psw, 0)[2] = ACC /\ RegisterPlace(psw, Regs + 1)[2] = B
        /\ RegisterPlace(psw, Regs + 2)[2] = DPH /\ RegisterPlace(psw, Regs + 3)[2] = DPL
    BY RegisterPlaces
  <2> QED BY <2>1, <2>2, RegsAssumption
<1> QED BY <1>1, <1>2, <1>3, <1>4

(* The row drawn is that of the digits in these places.                    *)
LEMMA RowIsShown == IsMemories(mem) => RowShows
<1> SUFFICES ASSUME IsMemories(mem), NEW p \in 0 .. LastReg
             PROVE  Row[p] = ShownDigit(mem, mem[SFR][PSW], p)
  BY DEF RowShows
<1> DEFINE psw == mem[SFR][PSW]
           k == p \div 2
           place == RegisterPlace(psw, k)
<1>1. /\ Regs \in Nat /\ p \in Nat /\ p % 2 \in {0, 1} /\ k \in 0 .. Regs + 3
      /\ {ACC, B, DPH, DPL, PSW} \subseteq Int /\ psw \in Byte
  <2>1. /\ SFR \in Areas /\ {ACC, B, DPH, DPL, PSW} \subseteq 0 .. Size[SFR] - 1
        /\ Size[SFR] \in Nat /\ Regs \in Nat
    BY RegsAssumption, SizeAssumption DEF SFR, Areas
  <2>2. mem[SFR] \in [0 .. Size[SFR] - 1 -> Byte]
    BY <2>1 DEF IsMemories
  <2>3. psw \in Byte /\ {ACC, B, DPH, DPL, PSW} \subseteq Int
    BY <2>1, <2>2
  <2>4. p \in Nat /\ p <= 2 * (Regs + 4) - 1
    BY <2>1 DEF LastReg
  <2> HIDE DEF psw
  <2>5. p % 2 \in {0, 1} /\ k \in 0 .. Regs + 3
    BY <2>1, <2>4
  <2> QED BY <2>1, <2>3, <2>4, <2>5
<1>2. \A a \in {Low, SFR}, i \in Int : Half(a, 2 * i + (p % 2)) = DigitOf(mem[a][i], p % 2)
  <2> SUFFICES ASSUME NEW a \in {Low, SFR}, NEW i \in Int
               PROVE  Half(a, 2 * i + (p % 2)) = DigitOf(mem[a][i], p % 2)
    OBVIOUS
  <2> DEFINE r == p % 2
  <2>1. r \in {0, 1}
    BY <1>1
  <2> HIDE DEF r
  <2>2. (2 * i + r) \div 2 = i /\ (2 * i + r) % 2 = r
    BY <2>1
  <2>3. Half(a, 2 * i + r) = DigitOf(mem[a][i], r)
    BY <2>1, <2>2 DEF Half, DigitOf
  <2> QED BY <2>3 DEF r
<1>3. Row[p] = IF k = 0 THEN Half(SFR, 2 * ACC + (p % 2))
               ELSE IF k <= Regs THEN Half(Low, 2 * (Regs * BankOf(psw) + k - 1) + (p % 2))
               ELSE Half(SFR, 2 * (IF k = Regs + 1 THEN B
                                   ELSE IF k = Regs + 2 THEN DPH ELSE DPL) + (p % 2))
  BY DEF Row
<1>4. place[1] \in {Low, SFR} /\ place[2] \in Int
      /\ Row[p] = Half(place[1], 2 * place[2] + (p % 2))
  <2> HIDE DEF psw, k
  <2>1. CASE k = 0
    BY <1>1, <1>3, <2>1, RegisterPlaces
  <2>2. CASE k \in 1 .. Regs
    <3>1. Regs * BankOf(psw) + k - 1 \in Int
      BY <1>1, <2>2, BankInRam
    <3> QED BY <1>1, <1>3, <2>2, <3>1, RegisterPlaces
  <2>3. CASE k = Regs + 1
    BY <1>1, <1>3, <2>3, RegisterPlaces
  <2>4. CASE k = Regs + 2
    BY <1>1, <1>3, <2>4, RegisterPlaces
  <2>5. CASE k = Regs + 3
    BY <1>1, <1>3, <2>5, RegisterPlaces
  <2> QED BY <1>1, <2>1, <2>2, <2>3, <2>4, <2>5, WhichRegister
<1> HIDE DEF place
<1>5. Row[p] = DigitOf(mem[place[1]][place[2]], p % 2)
  BY <1>2, <1>4
<1> QED BY <1>5 DEF place, ShownDigit

LEMMA RowIsShownNext == (IsMemories(mem) => RowShows)'
BY RowIsShown, PTL

(* The four digits of DPTR.  One that is typed replaces one of them.       *)
LEMMA TwoDigits ==
    ASSUME NEW a \in 0 .. 15, NEW b \in 0 .. 15
    PROVE  (16 * a + b) \div 16 = a /\ (16 * a + b) % 16 = b
OBVIOUS

DigitReplaced(hi, lo, newhi, newlo, q, h) ==
    /\ DigitOf(newhi, 0) = IF q = 0 THEN h ELSE DigitOf(hi, 0)
    /\ DigitOf(newhi, 1) = IF q = 1 THEN h ELSE DigitOf(hi, 1)
    /\ DigitOf(newlo, 0) = IF q = 2 THEN h ELSE DigitOf(lo, 0)
    /\ DigitOf(newlo, 1) = IF q = 3 THEN h ELSE DigitOf(lo, 1)

LEMMA DptrDigit ==
    ASSUME NEW hi \in Byte, NEW lo \in Byte, NEW q \in 0 .. 3, NEW h \in 0 .. 15,
           NEW d, d = WithDptrDigit(256 * hi + lo, q, h)
    PROVE  DigitReplaced(hi, lo, d \div 256, d % 256, q, h)
<1> USE DEF DigitReplaced
<1> DEFINE old == 256 * hi + lo
           Put(p) == old - ((old \div p) % 16) * p + h * p
           a == hi \div 16
           b == hi % 16
           c == lo \div 16
           e == lo % 16
<1>1. /\ a \in 0 .. 15 /\ b \in 0 .. 15 /\ c \in 0 .. 15 /\ e \in 0 .. 15
      /\ hi = 16 * a + b /\ lo = 16 * c + e
  BY DEF Byte
<1>2. d = Put(DigitPlace[q + 1])
  BY DEF WithDptrDigit
<1>3. DigitPlace[0 + 1] = 4096 /\ DigitPlace[1 + 1] = 256 /\ DigitPlace[2 + 1] = 16 /\ DigitPlace[3 + 1] = 1
  BY DEF DigitPlace
<1> HIDE DEF a, b, c, e
<1>4. old = 4096 * a + 256 * b + 16 * c + e
  BY <1>1
<1> HIDE DEF old
<1>5. /\ (old \div 4096) % 16 = a /\ (old \div 256) % 16 = b
      /\ (old \div 16) % 16 = c /\ (old \div 1) % 16 = e
  BY <1>1, <1>4
<1>6. /\ Put(4096) = 4096 * h + 256 * b + 16 * c + e
      /\ Put(256) = 4096 * a + 256 * h + 16 * c + e
      /\ Put(16) = 4096 * a + 256 * b + 16 * h + e
      /\ Put(1) = 4096 * a + 256 * b + 16 * c + h
  <2>1. Put(4096) = old - a * 4096 + h * 4096 /\ Put(256) = old - b * 256 + h * 256
    BY <1>5
  <2>2. Put(16) = old - c * 16 + h * 16 /\ Put(1) = old - e * 1 + h * 1
    BY <1>5
  <2> HIDE DEF Put
  <2> QED BY <1>1, <1>4, <2>1, <2>2
<1> HIDE DEF Put
<1>7. DigitOf(hi, 0) = a /\ DigitOf(hi, 1) = b /\ DigitOf(lo, 0) = c /\ DigitOf(lo, 1) = e
  BY DEF DigitOf, a, b, c, e
<1>8. CASE q = 0
  <2>1. d = 4096 * h + 256 * b + 16 * c + e
    BY <1>2, <1>3, <1>6, <1>8
  <2>2. d \div 256 = 16 * h + b /\ d % 256 = 16 * c + e
    BY <1>1, <2>1
  <2> QED BY <1>1, <1>7, <1>8, <2>2, TwoDigits DEF DigitOf
<1>9. CASE q = 1
  <2>1. d = 4096 * a + 256 * h + 16 * c + e
    BY <1>2, <1>3, <1>6, <1>9
  <2>2. d \div 256 = 16 * a + h /\ d % 256 = 16 * c + e
    BY <1>1, <2>1
  <2> QED BY <1>1, <1>7, <1>9, <2>2, TwoDigits DEF DigitOf
<1>10. CASE q = 2
  <2>1. d = 4096 * a + 256 * b + 16 * h + e
    BY <1>2, <1>3, <1>6, <1>10
  <2>2. d \div 256 = 16 * a + b /\ d % 256 = 16 * h + e
    BY <1>1, <2>1
  <2> QED BY <1>1, <1>7, <1>10, <2>2, TwoDigits DEF DigitOf
<1>11. CASE q = 3
  <2>1. d = 4096 * a + 256 * b + 16 * c + h
    BY <1>2, <1>3, <1>6, <1>11
  <2>2. d \div 256 = 16 * a + b /\ d % 256 = 16 * c + h
    BY <1>1, <2>1
  <2> QED BY <1>1, <1>7, <1>11, <2>2, TwoDigits DEF DigitOf
<1> QED BY <1>8, <1>9, <1>10, <1>11

(* What is shown after a digit h is typed at place at: in a register of    *)
(* one byte,                                                               *)
TypedAt(m, at, h) ==
    /\ m[SFR][PSW] = mem[SFR][PSW]
    /\ \A b \in Areas \ {Low, SFR} : m[b] = mem[b]
    /\ \A p \in 0 .. LastReg : ShownDigit(m, mem[SFR][PSW], p) =
          IF p = at THEN h ELSE ShownDigit(mem, mem[SFR][PSW], p)

OneDigit(old, new, right, h) ==
    \A r \in {0, 1} : DigitOf(new, r) = IF r = right THEN h ELSE DigitOf(old, r)

LEMMA ByteDigit ==
    ASSUME NEW old \in Byte, NEW right \in {0, 1}, NEW h \in Digits
    PROVE  /\ OneDigit(old, WithDigit(old, right = 1, h), right, h)
           /\ WithDigit(old, right = 1, h) \in Byte
<1>1. h \in 0 .. 15
  BY BytesAssumption
<1>2. CASE right = 0
  <2>1. WithDigit(old, right = 1, h) = (old % 16) + 16 * h
    BY <1>2 DEF WithDigit
  <2> DEFINE new == (old % 16) + 16 * h
  <2>2. new \in Byte /\ new \div 16 = h /\ new % 16 = old % 16
    BY <1>1, NewDigit
  <2> HIDE DEF new
  <2>3. OneDigit(old, new, right, h)
    BY <1>2, <2>2 DEF DigitOf, OneDigit
  <2>4. WithDigit(old, right = 1, h) = new
    BY <2>1 DEF new
  <2> QED BY <2>2, <2>3, <2>4
<1>3. CASE right = 1
  <2>1. WithDigit(old, right = 1, h) = 16 * (old \div 16) + h
    BY <1>3 DEF WithDigit
  <2> DEFINE new == 16 * (old \div 16) + h
  <2>2. new \in Byte /\ new \div 16 = old \div 16 /\ new % 16 = h
    BY <1>1, NewDigit
  <2> HIDE DEF new
  <2>3. OneDigit(old, new, right, h)
    BY <1>3, <2>2 DEF DigitOf, OneDigit
  <2>4. WithDigit(old, right = 1, h) = new
    BY <2>1 DEF new
  <2> QED BY <2>2, <2>3, <2>4
<1> QED BY <1>2, <1>3

OneByte(m, k, right, h) ==     \* m is mem but for a digit of register k
    \E a \in {Low, SFR}, i \in Int, v \in Byte :
       /\ RegisterPlace(mem[SFR][PSW], k) = <<a, i>>
       /\ OneDigit(mem[a][i], v, right, h)
       /\ m = [mem EXCEPT ![a][i] = v]

LEMMA ByteShows ==
    ASSUME IsMemories(mem), NEW psw \in Byte, psw = mem[SFR][PSW],
           NEW k \in 0 .. Regs + 3, NEW right \in {0, 1}, NEW h \in Digits,
           NEW m, OneByte(m, k, right, h)
    PROVE  TypedAt(m, 2 * k + right, h)
<1> PICK a \in {Low, SFR}, i \in Int, v \in Byte :
       /\ RegisterPlace(psw, k) = <<a, i>>
       /\ OneDigit(mem[a][i], v, right, h)
       /\ m = [mem EXCEPT ![a][i] = v]
  BY DEF OneByte
<1> DEFINE old == mem[a][i]
<1>1. /\ a \in {Low, SFR} /\ i \in 0 .. Size[a] - 1 /\ <<a, i>> # <<SFR, PSW>>
      /\ Low \in Areas /\ SFR \in Areas /\ Regs \in Nat /\ PSW \in 0 .. Size[SFR] - 1
  BY RegistersOnMemory, RegsAssumption DEF Low, SFR, Areas
<1>3. \A r \in {0, 1} : DigitOf(v, r) = IF r = right THEN h ELSE DigitOf(old, r)
  BY DEF OneDigit
<1>4. m = [mem EXCEPT ![a][i] = v]
  OBVIOUS
<1>5. \A b \in {Low, SFR} : \A n \in 0 .. Size[b] - 1 :
        m[b][n] = IF <<b, n>> = <<a, i>> THEN v ELSE mem[b][n]
  <2> SUFFICES ASSUME NEW b \in {Low, SFR}, NEW n \in 0 .. Size[b] - 1
               PROVE  m[b][n] = IF b = a /\ n = i THEN v ELSE mem[b][n]
    BY Zenon
  <2>1. m[b] = IF b = a THEN [mem[a] EXCEPT ![i] = v] ELSE mem[b]
    BY <1>1, <1>4 DEF IsMemories
  <2>2. mem[a] \in [0 .. Size[a] - 1 -> Byte]
    BY <1>1 DEF IsMemories
  <2>3. CASE b = a
    <3>1. m[b] = [mem[a] EXCEPT ![i] = v]
      BY <2>1, <2>3
    <3> QED BY <2>2, <2>3, <3>1
  <2>4. CASE b # a
    BY <2>1, <2>4
  <2> QED BY <2>3, <2>4
<1>6. m[SFR][PSW] = mem[SFR][PSW]
  BY <1>1, <1>5
<1>7. \A b \in Areas \ {Low, SFR} : m[b] = mem[b]
  BY <1>1, <1>4 DEF IsMemories
<1>8. ASSUME NEW p \in 0 .. LastReg
      PROVE  ShownDigit(m, psw, p) = IF p = 2 * k + right THEN h ELSE ShownDigit(mem, psw, p)
  <2> DEFINE j == p \div 2
             c == RegisterPlace(psw, j)
             r == p % 2
  <2>1. j \in 0 .. Regs + 3 /\ r \in {0, 1} /\ (p = 2 * k + right <=> j = k /\ r = right)
    BY <1>1 DEF LastReg
  <2>2. ShownDigit(m, psw, p) = DigitOf(m[c[1]][c[2]], r)
        /\ ShownDigit(mem, psw, p) = DigitOf(mem[c[1]][c[2]], r)
    BY DEF ShownDigit
  <2> HIDE DEF j, r
  <2>3. CASE j = k
    <3>1. c[1] = a /\ c[2] = i
      BY <2>3
    <3>2. m[c[1]][c[2]] = v /\ mem[c[1]][c[2]] = old
      BY <1>1, <1>5, <3>1
    <3> QED BY <1>3, <2>1, <2>2, <2>3, <3>2
  <2>4. CASE j # k
    <3>1. c # <<a, i>>
      BY <2>1, <2>4, RegistersApart
    <3>2. c[1] \in {Low, SFR} /\ c[2] \in 0 .. Size[c[1]] - 1 /\ c = <<c[1], c[2]>>
      BY <2>1, RegistersOnMemory
    <3>3. m[c[1]][c[2]] = mem[c[1]][c[2]]
      BY <1>5, <3>1, <3>2
    <3> QED BY <2>1, <2>2, <2>4, <3>3
  <2> QED BY <2>3, <2>4
<1> QED BY <1>6, <1>7, <1>8 DEF TypedAt

(* and in DPTR.                                                            *)
LEMMA TwoStored ==
    ASSUME NEW S, NEW V, NEW f \in [S -> V], NEW x \in S, NEW y \in S, x # y, NEW v, NEW w,
           NEW g, g = [[f EXCEPT ![x] = v] EXCEPT ![y] = w]
    PROVE  g[x] = v /\ g[y] = w /\ \A n \in S : n \notin {x, y} => g[n] = f[n]
OBVIOUS

LEMMA DptrShows ==
    ASSUME IsMemories(mem), NEW psw \in Byte, psw = mem[SFR][PSW],
           NEW q \in 0 .. 3, NEW h \in Digits,
           NEW d, d = WithDptrDigit(256 * mem[SFR][DPH] + mem[SFR][DPL], q, h),
           NEW m, m = [mem EXCEPT ![SFR][DPH] = d \div 256, ![SFR][DPL] = d % 256]
    PROVE  TypedAt(m, 2 * (Regs + 2) + q, h)
<1> DEFINE hi == mem[SFR][DPH]
           lo == mem[SFR][DPL]
           newhi == d \div 256
           newlo == d % 256
<1>1. /\ Low \in Areas /\ SFR \in Areas /\ Low # SFR /\ Regs \in Nat
      /\ DPH \in 0 .. Size[SFR] - 1 /\ DPL \in 0 .. Size[SFR] - 1 /\ PSW \in 0 .. Size[SFR] - 1
      /\ DPH # DPL /\ PSW \notin {DPH, DPL} /\ h \in 0 .. 15
  BY RegsAssumption, BytesAssumption DEF Low, SFR, Areas
<1>2. mem[SFR] \in [0 .. Size[SFR] - 1 -> Byte] /\ hi \in Byte /\ lo \in Byte
  <2>1. mem[SFR] \in [0 .. Size[SFR] - 1 -> Byte]
    BY <1>1 DEF IsMemories
  <2> QED BY <1>1, <2>1
<1>3. DigitReplaced(hi, lo, newhi, newlo, q, h)
  <2>1. d = WithDptrDigit(256 * hi + lo, q, h)
    OBVIOUS
  <2> HIDE DEF hi, lo
  <2>2. hi \in Byte /\ lo \in Byte /\ h \in 0 .. 15
    BY <1>1, <1>2
  <2> QED BY <2>1, <2>2, DptrDigit
<1> HIDE DEF newhi, newlo
<1>4. m = [mem EXCEPT ![SFR][DPH] = newhi, ![SFR][DPL] = newlo]
  BY DEF newhi, newlo
<1>5. /\ m[SFR][DPH] = newhi /\ m[SFR][DPL] = newlo
      /\ \A n \in 0 .. Size[SFR] - 1 : n \notin {DPH, DPL} => m[SFR][n] = mem[SFR][n]
      /\ \A b \in Areas : b # SFR => m[b] = mem[b]
  <2> DEFINE between == [mem EXCEPT ![SFR][DPH] = newhi]
  <2>1. /\ between[SFR] = [mem[SFR] EXCEPT ![DPH] = newhi]
        /\ \A b \in Areas : b # SFR => between[b] = mem[b]
        /\ between = [b \in Areas |-> between[b]]
    BY <1>1 DEF IsMemories
  <2>2. m = [between EXCEPT ![SFR][DPL] = newlo]
    BY <1>4
  <2> HIDE DEF between
  <2>3. /\ m[SFR] = [between[SFR] EXCEPT ![DPL] = newlo]
        /\ \A b \in Areas : b # SFR => m[b] = between[b]
    BY <1>1, <2>1, <2>2
  <2>4. m[SFR] = [[mem[SFR] EXCEPT ![DPH] = newhi] EXCEPT ![DPL] = newlo]
    BY <2>1, <2>3
  <2> DEFINE f == mem[SFR]
             g == m[SFR]
  <2>5. f \in [0 .. Size[SFR] - 1 -> Byte] /\ g = [[f EXCEPT ![DPH] = newhi] EXCEPT ![DPL] = newlo]
    BY <1>2, <2>4
  <2> HIDE DEF f, g
  <2>6. /\ g[DPH] = newhi /\ g[DPL] = newlo
        /\ \A n \in 0 .. Size[SFR] - 1 : n \notin {DPH, DPL} => g[n] = f[n]
    BY <1>1, <2>5, TwoStored
  <2> QED BY <2>1, <2>3, <2>6 DEF f, g
<1>6. m[SFR][PSW] = mem[SFR][PSW] /\ \A b \in Areas \ {Low, SFR} : m[b] = mem[b]
  BY <1>1, <1>5
<1>7. ASSUME NEW p \in 0 .. LastReg
      PROVE  ShownDigit(m, psw, p) =
                IF p = 2 * (Regs + 2) + q THEN h ELSE ShownDigit(mem, psw, p)
  <2> DEFINE j == p \div 2
             c == RegisterPlace(psw, j)
             r == p % 2
  <2>1. /\ j \in 0 .. Regs + 3 /\ r \in {0, 1}
        /\ (p = 2 * (Regs + 2) + q) <=> (j = Regs + 2 /\ q = r) \/ (j = Regs + 3 /\ q = 2 + r)
    <3>1. p \in Nat /\ p <= 2 * (Regs + 4) - 1
      BY <1>1 DEF LastReg
    <3>2. j \in 0 .. Regs + 3 /\ r \in {0, 1} /\ p = 2 * j + r
      BY <1>1, <3>1
    <3> HIDE DEF j, r
    <3>3. CASE r = 0
      BY <1>1, <3>2, <3>3
    <3>4. CASE r = 1
      BY <1>1, <3>2, <3>4
    <3> QED BY <3>2, <3>3, <3>4
  <2>2. ShownDigit(m, psw, p) = DigitOf(m[c[1]][c[2]], r)
        /\ ShownDigit(mem, psw, p) = DigitOf(mem[c[1]][c[2]], r)
    BY DEF ShownDigit
  <2> HIDE DEF j, r
  <2>3. CASE j = Regs + 2
    <3>1. c = <<SFR, DPH>>
      BY <2>3, RegisterPlaces
    <3>2. m[c[1]][c[2]] = newhi /\ mem[c[1]][c[2]] = hi
      BY <1>5, <3>1
    <3>3. p = 2 * (Regs + 2) + q <=> q = r
      <4>1. Regs + 2 # Regs + 3
        BY <1>1
      <4> DEFINE here == p = 2 * (Regs + 2) + q
      <4>2. here <=> (j = Regs + 2 /\ q = r) \/ (j = Regs + 3 /\ q = 2 + r)
        BY <2>1
      <4> HIDE DEF here
      <4>3. here <=> q = r
        BY <2>3, <4>1, <4>2
      <4> QED BY <4>3 DEF here
    <3> QED BY <1>3, <2>1, <2>2, <3>2, <3>3 DEF DigitReplaced
  <2>4. CASE j = Regs + 3
    <3>1. c = <<SFR, DPL>>
      BY <2>4, RegisterPlaces
    <3>2. m[c[1]][c[2]] = newlo /\ mem[c[1]][c[2]] = lo
      BY <1>5, <3>1
    <3>3. p = 2 * (Regs + 2) + q <=> q = 2 + r
      BY <1>1, <2>1, <2>4
    <3> QED BY <1>3, <2>1, <2>2, <3>2, <3>3 DEF DigitReplaced
  <2>5. CASE j \notin {Regs + 2, Regs + 3}
    <3>1. c # <<SFR, DPH>> /\ c # <<SFR, DPL>>
      BY <1>1, <2>1, <2>5, RegisterPlaces, RegistersApart
    <3>2. c[1] \in {Low, SFR} /\ c[2] \in 0 .. Size[c[1]] - 1 /\ c = <<c[1], c[2]>>
      BY <2>1, RegistersOnMemory
    <3>3. m[c[1]][c[2]] = mem[c[1]][c[2]]
      BY <1>1, <1>5, <3>1, <3>2
    <3> QED BY <2>1, <2>2, <2>5, <3>3
  <2> QED BY <2>3, <2>4, <2>5
<1> QED BY <1>6, <1>7 DEF TypedAt

LEMMA RegisterShows ==
    ASSUME IsMemories(mem), regs \in [focus : BOOLEAN, cursor : Nat],
           regs.cursor <= LastReg, NEW h \in Digits, NEW m, m = RegisterTyped(h)
    PROVE  TypedAt(m, regs.cursor, h)
<1> DEFINE k == regs.cursor \div 2
           psw == mem[SFR][PSW]
<1>1. /\ Regs \in Nat /\ regs.cursor \in Nat /\ regs.cursor <= 2 * (Regs + 4) - 1
      /\ SFR \in Areas /\ PSW \in 0 .. Size[SFR] - 1
  BY RegsAssumption DEF SFR, Areas, LastReg
<1>2. psw \in Byte
  <2>1. mem[SFR] \in [0 .. Size[SFR] - 1 -> Byte]
    BY <1>1 DEF IsMemories
  <2> QED BY <1>1, <2>1
<1> HIDE DEF psw
<1>3. k \in 0 .. Regs + 3
  BY <1>1
<1>4. CASE k > Regs + 1
  <2> DEFINE q == regs.cursor - 2 * (Regs + 2)
             d == WithDptrDigit(256 * mem[SFR][DPH] + mem[SFR][DPL], q, h)
  <2>1. q \in 0 .. 3 /\ regs.cursor = 2 * (Regs + 2) + q
    BY <1>1, <1>4
  <2>2. m = [mem EXCEPT ![SFR][DPH] = d \div 256, ![SFR][DPL] = d % 256]
    BY <1>4 DEF RegisterTyped
  <2> HIDE DEF d, q
  <2>3. d = WithDptrDigit(256 * mem[SFR][DPH] + mem[SFR][DPL], q, h)
    BY DEF d
  <2>4. TypedAt(m, 2 * (Regs + 2) + q, h)
    BY <1>2, <2>1, <2>2, <2>3, DptrShows DEF psw
  <2> QED BY <2>1, <2>4
<1>5. CASE ~(k > Regs + 1)
  <2> DEFINE c == RegisterCell(k)
             right == regs.cursor % 2
  <2>1. k \in 0 .. Regs + 1 /\ right \in {0, 1} /\ regs.cursor = 2 * k + right
    BY <1>1, <1>5
  <2>2. c = RegisterPlace(psw, k)
    <3> HIDE DEF k
    <3>1. c = CASE k = 0           -> <<SFR, ACC>>
                [] k \in 1 .. Regs -> <<Low, Regs * BankOf(psw) + k - 1>>
                [] k = Regs + 1    -> <<SFR, B>>
      BY DEF RegisterCell, psw
    <3>2. k = 0 \/ k \in 1 .. Regs \/ k = Regs + 1
      BY <1>1, <2>1
    <3>3. Regs + 1 \notin 1 .. Regs /\ Regs + 1 # 0 /\ 0 \notin 1 .. Regs
      BY <1>1
    <3> HIDE DEF c
    <3> QED BY <3>1, <3>2, <3>3, RegisterPlaces
  <2>3. /\ c[1] \in {Low, SFR} /\ c[2] \in 0 .. Size[c[1]] - 1
        /\ c = <<c[1], c[2]>> /\ c[1] \in Areas
    BY <1>2, <1>3, <2>2, RegistersOnMemory DEF Low, SFR, Areas
  <2>4. m = [mem EXCEPT ![c[1]][c[2]] = WithDigit(@, right = 1, h)]
    BY <1>5 DEF RegisterTyped
  <2> DEFINE a == c[1]
             i == c[2]
  <2>5. RegisterPlace(psw, k) = <<a, i>>
    BY <2>2, <2>3
  <2> HIDE DEF right, c
  <2> DEFINE v == WithDigit(mem[a][i], right = 1, h)
  <2>6. m = [mem EXCEPT ![a][i] = v]
    BY <2>3, <2>4 DEF IsMemories
  <2>8. OneDigit(mem[a][i], v, right, h) /\ v \in Byte
    <3>1. a \in Areas /\ i \in 0 .. Size[a] - 1
      BY <2>3
    <3>2. mem[a][i] \in Byte
      BY <3>1 DEF IsMemories
    <3> QED BY <2>1, <3>2, ByteDigit
  <2>9. a \in {Low, SFR} /\ i \in Int
    BY <2>3
  <2> HIDE DEF a, i, k, v
  <2>10. OneByte(m, k, right, h)
    BY <2>5, <2>6, <2>8, <2>9 DEF OneByte, psw
  <2>7. TypedAt(m, 2 * k + right, h)
    BY <1>2, <1>3, <2>1, <2>10, ByteShows DEF psw
  <2> QED BY <2>1, <2>7
<1> QED BY <1>4, <1>5

(* Only the key that types a digit in the register box changes a memory    *)
(* while that box has the focus.                                           *)
LEMMA OnlyTypingInRegisters ==
    ASSUME [Next]_vars, view = "main", regs.focus, mem' # mem
    PROVE  \E h \in Digits : MainTypeRegister(h)
<1>1. ASSUME Resize \/ Refresh PROVE FALSE
  BY <1>1 DEF Resize, Refresh
<1>2. ASSUME NEW v, KeyView(v) PROVE FALSE
  BY <1>2 DEF KeyView
<1>3. ASSUME MemoryTab \/ MemoryMove PROVE FALSE
  BY <1>3 DEF MemoryTab, MemoryMove
<1>4. ASSUME NEW h \in Digits, MemoryType(h) PROVE FALSE
  BY <1>4 DEF MemoryType, MemoryKey
<1>5. ASSUME MainTab \/ MainMode \/ MainPage \/ MainSide \/ MainLine PROVE FALSE
  BY <1>5 DEF MainTab, MainMode, MainPage, MainSide, MainLine
<1>6. ASSUME NEW h \in Digits, MainType(h) PROVE FALSE
  BY <1>6 DEF MainType
<1>7. ASSUME UNCHANGED vars PROVE FALSE
  BY <1>7 DEF vars
<1> QED BY <1>1, <1>2, <1>3, <1>4, <1>5, <1>6, <1>7 DEF Next

LEMMA RegisterStep ==
    ASSUME IInv, [Next]_vars, view = "main", regs.focus, mem' # mem
    PROVE  /\ \E h \in Digits : Row' = [Row EXCEPT ![regs.cursor] = h]
           /\ \A a \in Areas \ {Low, SFR} : mem'[a] = mem[a]
           /\ mem'[SFR][PSW] = mem[SFR][PSW]
<1>1. PICK h \in Digits : MainTypeRegister(h)
  BY OnlyTypingInRegisters
<1>2. /\ IsMemories(mem) /\ regs \in [focus : BOOLEAN, cursor : Nat] /\ regs.cursor <= LastReg
      /\ mem' = RegisterTyped(h)
  BY <1>1 DEF IInv, TypeOK, CursorsOnMemory, MainTypeRegister
<1>3. TypedAt(mem', regs.cursor, h)
  BY <1>2, RegisterShows
<1>4. IsMemories(mem')
  BY <1>2, TypedRegister
<1>5. \A p \in 0 .. LastReg : Row[p] = ShownDigit(mem, mem[SFR][PSW], p)
  BY <1>2, RowIsShown DEF RowShows
<1>6. \A p \in 0 .. LastReg : Row'[p] = ShownDigit(mem', mem'[SFR][PSW], p)
  <2>1. RowShows'
    BY <1>4, RowIsShownNext
  <2> QED BY <2>1 DEF RowShows
<1>7. \A p \in 0 .. LastReg : Row'[p] = IF p = regs.cursor THEN h ELSE Row[p]
  BY <1>3, <1>5, <1>6 DEF TypedAt
<1>8. Row = [p \in 0 .. LastReg |-> Row[p]] /\ Row' = [p \in 0 .. LastReg |-> Row'[p]]
  BY DEF Row
<1>9. Row' = [Row EXCEPT ![regs.cursor] = h]
  BY <1>7, <1>8
<1> QED BY <1>3, <1>9 DEF TypedAt

(* A digit typed in the register box replaces the digit under its cursor   *)
(* and no other one the box shows; the bank it shows stays the same, and   *)
(* so does every memory it does not show.                                  *)
THEOREM RegistersTakeDigits == Spec => RegisterDigit
<1>1. Init => IInv
  BY InitIInv
<1>2. IInv /\ [Next]_vars => IInv'
  BY NextIInv
<1>3. IInv /\ [Next]_vars
        => [(view = "main" /\ regs.focus /\ mem' # mem) =>
              /\ \E h \in Digits : Row' = [Row EXCEPT ![regs.cursor] = h]
              /\ \A a \in Areas \ {Low, SFR} : mem'[a] = mem[a]
              /\ mem'[SFR][PSW] = mem[SFR][PSW]]_vars
  BY RegisterStep
<1> QED BY <1>1, <1>2, <1>3, PTL DEF Spec, RegisterDigit
=============================================================================
