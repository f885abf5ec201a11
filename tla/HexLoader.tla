------------------------------ MODULE HexLoader -----------------------------
(***************************************************************************)
(* Loading a program from an Intel HEX file (emu.c:541-590): records are   *)
(* read two digits at a time, their bytes go into the code memory as they  *)
(* come, and only then is the checksum looked at.  The file may stop       *)
(* anywhere, between the two digits of a byte as well; end of file is      *)
(* looked for between records only, and a byte past it reads as zero.      *)
(*                                                                         *)
(* The file is chosen while it is read: its k-th record comes from         *)
(* Records[k].  A record is the tuple of its bytes: length, address high   *)
(* and low, type, data, checksum.  What stands between the colons is digits*)
(* and the length field says how many; records lie inside the code memory, *)
(* and types are those of the format: their first digit is zero.           *)
(***************************************************************************)
EXTENDS Integers, Sequences

CONSTANTS
    Records,                   \* per place in a file, the records it may have
    Whole,                     \* records the file does not stop in: a bound
    MaxJunk                    \* characters skipped after a record: a bound

Bytes == 0..255
CodeSize == 65536              \* mCodeMemMaxIdx + 1
Addresses == 0 .. CodeSize - 1
MaxRecords == Len(Records)

LengthOf(r) == r[1]
StartOf(r) == 256 * r[2] + r[3]
TypeOf(r) == r[4]
Sum(r) ==
    LET upTo[k \in 0 .. Len(r)] == IF k = 0 THEN 0 ELSE upTo[k - 1] + r[k]
    IN  upTo[Len(r)]

ASSUME RecordsAssumption ==
    /\ Records \in Seq(SUBSET Seq(Bytes))
    /\ \A k \in 1 .. MaxRecords : \A r \in Records[k] :
        /\ Len(r) >= 5 /\ Len(r) = LengthOf(r) + 5 /\ TypeOf(r) < 16
        /\ StartOf(r) + LengthOf(r) <= CodeSize
        /\ 256 * r[2] + LengthOf(r) <= CodeSize    \* cut before the low byte
ASSUME JunkAssumption == MaxJunk \in Nat

VARIABLES
    codemem,                   \* mCodeMem, where something was stored
    at,                        \* "idle", or where load_obj is
    eof,                       \* feof(f)
    recordlength, address, i, checksum,
    result,                    \* of the last load; 1 if there was none
    line,                      \* the record that is being read
    got,                       \* history: what its bytes were read as
    count,                     \* history: records of this file so far
    junk,                      \* history: characters skipped after the last
    image,                     \* history: the memory the valid records make
    sound                      \* history: the finished records were all valid

record == <<recordlength, address, i, checksum>>
file == <<line, got, count, junk>>
loader == <<at, eof, record, result, file, sound>>
NoLoad == 1

CodeAt(a) ==                   \* CODEMEM(a); cells never stored are zero
    LET cell == a % CodeSize
    IN  IF cell \in DOMAIN codemem THEN codemem[cell] ELSE 0

LoaderInit ==
    /\ codemem = <<>> /\ at = "idle" /\ eof = FALSE
    /\ recordlength = 0 /\ address = 0 /\ i = 0 /\ checksum = 0
    /\ result = NoLoad
    /\ line = <<>> /\ got = <<>> /\ count = 0 /\ junk = 0
    /\ image = <<>> /\ sound = TRUE

-----------------------------------------------------------------------------
(* Variants with a slip in them, to see that the properties would notice.  *)
HeaderNotSummed(n, a) == 0
NeverLeaves == FALSE

-----------------------------------------------------------------------------
(* The data of a record as far as it was read. *)
DataRead(g) == SubSeq(g, 5, IF Len(g) < 4 + LengthOf(g) THEN Len(g) ELSE 4 + LengthOf(g))

(* What reading the bytes g makes of the memory m, by the format.          *)
Overlaid(m, g) ==
    LET data == DataRead(g)
        cells == StartOf(g) .. StartOf(g) + Len(data) - 1
    IN  [a \in DOMAIN m \cup cells |-> IF a \in cells THEN data[a - StartOf(g) + 1] ELSE m[a]]

Valid(g) == Sum(g) % 256 = 0

-----------------------------------------------------------------------------
(* readbyte, and feof after it: the byte b of the file; or the file stops   *)
(* in front of it, or between its digits, which leaves the first one.      *)
Readable(b) ==
    CASE eof -> {<<0, TRUE>>}
      [] ~eof /\ line \in Whole -> {<<b, FALSE>>}
      [] OTHER -> {<<b, FALSE>>, <<0, TRUE>>, <<b \div 16, TRUE>>}

Stopped(h, n, digit) ==        \* the header h, cut after n bytes and a digit
    [k \in 1..4 |-> CASE k <= n -> h[k] [] k = n + 1 -> digit [] OTHER -> 0]

(* The locals of load_obj are gone when it returns. *)
Close(r) ==
    /\ at' = "idle" /\ result' = r
    /\ recordlength' = 0 /\ address' = 0 /\ i' = 0 /\ checksum' = 0
    /\ line' = <<>> /\ junk' = 0

ChecksumOfHeader(n, a) == n + (a % 256) + (a \div 256)

(* fopen, and the first character.  -1, no such file, is the same as -2.   *)
Open ==
    /\ at = "idle" /\ count < MaxRecords
    /\ sound' = TRUE /\ image' = codemem /\ eof' = FALSE /\ got' = <<>>
    /\ \/ Close(-2)
       \/ at' = "header" /\ result' = NoLoad /\ UNCHANGED <<record, line, junk>>
    /\ UNCHANGED <<codemem, count>>

Header ==
    /\ at = "header"
    /\ \E r \in Records[count + 1] : \E n \in IF r \in Whole THEN {4} ELSE 0..4 :
         \E digit \in IF n < 4 THEN {0, r[n + 1] \div 16} ELSE {0} :
           LET h == Stopped(r, n, digit)
           IN  /\ got' = h /\ eof' = (n < 4)
               /\ CASE TypeOf(h) = 1 -> Close(0)
                    [] TypeOf(h) = 0 ->
                         /\ at' = "data" /\ line' = r /\ junk' = 0
                         /\ recordlength' = LengthOf(h) /\ address' = StartOf(h) /\ i' = 0
                         /\ checksum' = ChecksumOfHeader(LengthOf(h), StartOf(h))
                         /\ UNCHANGED result
                    [] OTHER -> Close(-3)
    /\ count' = count + 1
    /\ UNCHANGED <<codemem, image, sound>>

Stored(m, cell, v) == [a \in DOMAIN m \cup {cell} |-> IF a = cell THEN v ELSE m[a]]

DataByte ==
    /\ at = "data" /\ i < recordlength
    /\ \E read \in Readable(line[Len(got) + 1]) :
         LET v == read[1]
         IN  /\ eof' = read[2]
             /\ checksum' = checksum + v
             /\ codemem' = Stored(codemem, address + i, v)
             /\ got' = Append(got, v)
    /\ i' = i + 1
    /\ UNCHANGED <<at, recordlength, address, result, line, count, junk, image, sound>>

Matches(sum, v) == v = (256 - (sum % 256)) % 256

Check ==
    /\ at = "data" /\ i = recordlength
    /\ \E read \in Readable(line[Len(got) + 1]) :
         LET v == read[1]
         IN  /\ eof' = read[2]
             /\ got' = Append(got, v)
             /\ IF Matches(checksum, v)
                THEN at' = "skip" /\ UNCHANGED <<record, result, line, junk>>
                ELSE Close(-4)
             /\ sound' = (sound /\ Valid(got'))
             /\ image' = IF Valid(got') THEN Overlaid(image, got') ELSE image
    /\ UNCHANGED <<codemem, count>>

(* The next colon, end of file, or another character; then the loop's test. *)
LeavesAtEof == TRUE

Skip ==
    /\ at = "skip"
    /\ \/ ~eof /\ count < MaxRecords /\ at' = "header"
          /\ UNCHANGED <<eof, record, line, junk, result>>
       \/ ~eof /\ junk < MaxJunk /\ junk' = junk + 1
          /\ UNCHANGED <<at, eof, record, line, result>>
       \/ eof' = TRUE /\ LeavesAtEof /\ Close(-5)
    /\ UNCHANGED <<codemem, got, count, image, sound>>

LoadStep == Header \/ DataByte \/ Check \/ Skip

-----------------------------------------------------------------------------
(* Every cell of the code memory is what the valid records since it was    *)
(* wiped made it, except that the data of the record being read is stored  *)
(* already, as is that of a record whose checksum then failed.  A load     *)
(* that reports success has stored what its records say, all of them, and  *)
(* nothing else: the file did not stop before its end record, although     *)
(* readbyte takes no notice; one that reports a checksum failure met a     *)
(* record that does not add up.                                            *)
LoadedAsWritten ==
    /\ codemem = IF at = "data" \/ (at = "idle" /\ result = -4)
                 THEN Overlaid(image, got) ELSE image
    /\ result = 0 => sound /\ ~eof
    /\ at = "idle" /\ result = -4 => ~sound

(* load_obj comes back, whatever the file: nothing in it waits for more.   *)
LoadReturns == at # "idle" ~> at = "idle"
=============================================================================
