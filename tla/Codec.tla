------------------------------- MODULE Codec -------------------------------
(***************************************************************************)
(* How the driver encodes the parameters of a prepared statement and       *)
(* decodes the rows of an answer.  A byte has ByteBits bits (8 in the      *)
(* code): the marks are its top five values, so that a run with few bits   *)
(* meets every length class with short strings.                            *)
(***************************************************************************)
EXTENDS Integers, Sequences, SequencesExt

CONSTANT ByteBits

ASSUME ByteAssumption == ByteBits \in Nat /\ ByteBits >= 3

Power(base, n) ==
    LET power[i \in Nat] == IF i = 0 THEN 1 ELSE base * power[i - 1]
    IN  power[n]

Radix == Power(2, ByteBits)
Byte  == 0 .. Radix - 1

(* const.go and utils.go: 0x00, 0xfe, 0xff; 0xfb .. 0xfe before a length. *)
iOK       == 0
iEOF      == Radix - 2
iERR      == Radix - 1
NullMark  == Radix - 5
TwoMark   == Radix - 4
ThreeMark == Radix - 3
EightMark == Radix - 2

(* A value: NULL, a string of bytes, or the one-element sequence of a number. *)
NullValue == [null |-> TRUE, val |-> <<>>]
Val(v)    == [null |-> FALSE, val |-> v]

(* The digits of a number, the least one first, and back. *)
Digit(n, base, i) == (n \div Power(base, i)) % base

Numeral(digits, base) ==
    LET sum[i \in 0 .. Len(digits)] ==
            IF i = 0 THEN 0 ELSE sum[i - 1] + digits[i] * Power(base, i - 1)
    IN  sum[Len(digits)]

LittleEndian(n, k) == [i \in 1 .. k |-> Digit(n, Radix, i - 1)]
Number(b) == Numeral(b, Radix)

(* int8(x), int16(x): two's complement of k bytes. *)
Signed(n, k) ==
    IF n < Power(Radix, k) \div 2 THEN n ELSE n - Power(Radix, k)

From(b, pos) == SubSeq(b, pos + 1, Len(b))        \* b[pos:]
Part(b, i, j) == SubSeq(b, i + 1, j)              \* b[i:j]

-----------------------------------------------------------------------------
AppendLengthEncodedInteger(b, n) ==
    b \o (IF n < NullMark THEN <<n>>
          ELSE IF n < Power(Radix, 2) THEN <<TwoMark>> \o LittleEndian(n, 2)
          ELSE IF n < Power(Radix, 3) THEN <<ThreeMark>> \o LittleEndian(n, 3)
          ELSE <<EightMark>> \o LittleEndian(n, 8))

AppendLengthEncodedString(b, s) == AppendLengthEncodedInteger(b, Len(s)) \o s

(* The number, whether it stands for NULL, and the bytes read. *)
ReadLengthEncodedInteger(b) ==
    LET value(k) == [num |-> Number(Part(b, 1, 1 + k)), isNull |-> FALSE, n |-> k + 1]
    IN  IF b = <<>> \/ b[1] = NullMark THEN [num |-> 0, isNull |-> TRUE, n |-> 1]
        ELSE IF b[1] = TwoMark THEN value(2)
        ELSE IF b[1] = ThreeMark THEN value(3)
        ELSE IF b[1] = EightMark THEN value(8)
        ELSE [num |-> b[1], isNull |-> FALSE, n |-> 1]

(* Fewer bytes than announced are io.EOF. *)
ReadLengthEncodedString(b) ==
    LET int == ReadLengthEncodedInteger(b)
        end == int.n + int.num
    IN  [str |-> IF end <= Len(b) THEN Part(b, int.n, end) ELSE <<>>,
         isNull |-> int.isNull, n |-> end, err |-> int.num > 0 /\ end > Len(b)]

-----------------------------------------------------------------------------
(* Rows: a column has a type, and numbers a width in bytes. *)
Widths == [tiny |-> 1, utiny |-> 1, short |-> 2, ushort |-> 2]
Types  == {"string"} \cup DOMAIN Widths

ReadNumber(type, b) ==
    LET n == Number(b)
    IN  IF type \in {"utiny", "ushort"} THEN n ELSE Signed(n, Widths[type])

(* What stands at the head of "rest" is a field of a column of a type, or of
   none: its value, and the bytes read. *)
Field(type, rest) ==
    IF type = "none" THEN [value |-> NullValue, n |-> 0]
    ELSE IF type = "string"
    THEN LET s == ReadLengthEncodedString(rest)
         IN  [value |-> IF s.isNull THEN NullValue ELSE Val(s.str), n |-> s.n]
    ELSE LET width == Widths[type]
         IN  [value |-> Val(<<ReadNumber(type, Part(rest, 0, width))>>), n |-> width]

(* The fields that follow one another from position "first" on. *)
Fields(data, first, types) ==
    LET pos[i \in 0 .. Len(types)] ==
            IF i = 0 THEN first
            ELSE pos[i - 1] + Field(types[i], From(data, pos[i - 1])).n
    IN  [i \in 1 .. Len(types) |-> Field(types[i], From(data, pos[i - 1])).value]

(* textRows.readRow: a length-encoded string for every column. *)
TextRow(data, types) == Fields(data, 0, [i \in 1 .. Len(types) |-> "string"])

(* Bit i of a bitmap that starts at byte pos. *)
BitSet(data, pos, i) == Digit(data[pos + i \div ByteBits + 1], 2, i % ByteBits) = 1

(* binaryRows.readRow: after the indicator a bitmap of the columns that are
   NULL, whose first two bits are not used, then the other columns. *)
BinaryRow(data, types) ==
    Fields(data, 1 + (Len(types) + ByteBits - 1 + 2) \div ByteBits,
           [i \in 1 .. Len(types) |-> IF BitSet(data, 1, i + 1) THEN "none" ELSE types[i]])

-----------------------------------------------------------------------------
(* Parameters, all of them strings or NULL. *)
TypeNULL   == 1
TypeString == 2

(* The bits of a bitmap, in bytes. *)
Bitmap(bits, bytes) ==
    [k \in 1 .. bytes |->
        Numeral([b \in 1 .. ByteBits |->
                    IF (k - 1) * ByteBits + b - 1 \in bits THEN 1 ELSE 0], 2)]

MaskLen(args) == (Len(args) + ByteBits - 1) \div ByteBits

(* The part of COM_STMT_EXECUTE that depends on the parameters: bitmap,
   newParameterBoundFlag, types, and the values that are not sent ahead. *)
Parameters(args, ahead) ==
    LET nulls  == {i - 1 : i \in {j \in DOMAIN args : args[j].null}}
        types  == [i \in DOMAIN args |-> IF args[i].null THEN TypeNULL ELSE TypeString]
        values == [i \in DOMAIN args |->
                      IF args[i].null \/ i \in ahead THEN <<>>
                      ELSE AppendLengthEncodedString(<<>>, args[i].val)]
    IN  IF args = <<>> THEN <<>>
        ELSE Bitmap(nulls, MaskLen(args)) \o <<1>> \o types \o FlattenSeq(values)

-----------------------------------------------------------------------------
(* The server's side of both, from the protocol's description. *)
BoundParameters(data, n, long) ==
    LET null(i) == BitSet(data, 0, i - 1)
        sent    == [i \in 1 .. n |-> IF null(i) \/ long[i] # <<>> THEN "none" ELSE "string"]
        fields  == Fields(data, (n + ByteBits - 1) \div ByteBits + 1 + n, sent)
    IN  [i \in 1 .. n |-> IF null(i) \/ long[i] = <<>> THEN fields[i] ELSE Val(long[i])]

EncodedNumber(n, k) == LittleEndian((n + Power(Radix, k)) % Power(Radix, k), k)

EncodedText(row) ==
    FlattenSeq([i \in DOMAIN row |->
        IF row[i].null THEN <<NullMark>> ELSE AppendLengthEncodedString(<<>>, row[i].val)])

EncodedBinary(row, types) ==
    LET nulls  == {i + 1 : i \in {j \in DOMAIN row : row[j].null}}
        fields == [i \in DOMAIN row |->
                      IF row[i].null THEN <<>>
                      ELSE IF types[i] = "string" THEN AppendLengthEncodedString(<<>>, row[i].val)
                      ELSE EncodedNumber(row[i].val[1], Widths[types[i]])]
    IN  <<iOK>> \o Bitmap(nulls, (Len(row) + ByteBits + 1) \div ByteBits)
        \o FlattenSeq(fields)

(* What a column of a type can hold. *)
Numbers(type) ==
    LET size == Power(Radix, Widths[type])
    IN  IF type \in {"utiny", "ushort"} THEN 0 .. size - 1
                                        ELSE -(size \div 2) .. size \div 2 - 1

Holds(type, v) ==
    \/ v = NullValue
    \/ v = Val(v.val) /\ IF type = "string"
                        THEN v.val \in Seq(Byte) /\ Len(v.val) < Power(Radix, 8)
                        ELSE v.val \in {<<n>> : n \in Numbers(type)}
=============================================================================
