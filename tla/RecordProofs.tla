---------------------------- MODULE RecordProofs ----------------------------
(***************************************************************************)
(* The record codec, for any table and any row of it: what deserialize     *)
(* makes of the bytes of serialize is the row.                             *)
(***************************************************************************)
EXTENDS Record, OrderProofs

(***************************************************************************)
(* Bytes in a buffer.                                                      *)
(***************************************************************************)
\* The bytes s lie in buffer after offset o.
Holds(buffer, o, s) ==
    /\ o + Len(s) <= Len(buffer)
    /\ \A j \in 1 .. Len(s) : buffer[o + j] = s[j]

LEMMA HoldsApart ==
    ASSUME NEW buffer \in Seq(Byte), NEW o \in Nat, NEW s \in Seq(Byte), NEW t \in Seq(Byte),
           Holds(buffer, o, s \o t)
    PROVE  Holds(buffer, o, s) /\ Holds(buffer, o + Len(s), t)
<1>1. /\ Len(s \o t) = Len(s) + Len(t) /\ Len(s) \in Nat /\ Len(t) \in Nat
      /\ Len(buffer) \in Nat
    OBVIOUS
<1>2. \A j \in 1 .. Len(s) : j \in 1 .. Len(s \o t) /\ (s \o t)[j] = s[j]
    BY <1>1
<1>3. Holds(buffer, o, s)
    BY <1>1, <1>2 DEF Holds
<1>4. \A j \in 1 .. Len(t) : Len(s) + j \in 1 .. Len(s \o t) /\ (s \o t)[Len(s) + j] = t[j]
    BY <1>1
<1>5. ASSUME NEW j \in 1 .. Len(t) PROVE buffer[(o + Len(s)) + j] = t[j]
    <2>1. (o + Len(s)) + j = o + (Len(s) + j)
        BY <1>1
    <2> QED
        BY <1>4, <2>1 DEF Holds
<1>6. (o + Len(s)) + Len(t) <= Len(buffer)
    BY <1>1 DEF Holds
<1> QED
    BY <1>3, <1>5, <1>6 DEF Holds

LEMMA Joined ==
    ASSUME NEW s \in Seq(Byte), NEW t \in Seq(Byte)
    PROVE  s \o t \in Seq(Byte) /\ Len(s \o t) = Len(s) + Len(t)
OBVIOUS

-----------------------------------------------------------------------------
\* The last 16 bits.
Low(v) == v % 65536

LEMMA ShiftedIs ==
    ASSUME NEW v \in Int
    PROVE  /\ Shifted(v) \in Int /\ Low(v) \in Int /\ 65536 * Shifted(v) + Low(v) = v
           /\ v \in Nat => Shifted(v) \in Nat
BY DEF Shifted, Low

LEMMA Bytes16 ==
    ASSUME NEW v \in Int
    PROVE  /\ append_uint16(v) \in Seq(Byte) /\ Len(append_uint16(v)) = 2
           /\ append_uint16(v)[1] = (v \div 256) % 256 /\ append_uint16(v)[2] = v % 256
<1>1. (v \div 256) % 256 \in Byte /\ v % 256 \in Byte
    BY DEF Byte
<1> QED
    BY <1>1 DEF append_uint16

LEMMA Bytes32 ==
    ASSUME NEW v \in Int
    PROVE  append_uint32(v) \in Seq(Byte) /\ Len(append_uint32(v)) = 4
<1>1. Shifted(v) \in Int
    BY ShiftedIs
<1>2. /\ append_uint16(v) \in Seq(Byte) /\ Len(append_uint16(v)) = 2
      /\ append_uint16(Shifted(v)) \in Seq(Byte) /\ Len(append_uint16(Shifted(v))) = 2
    BY <1>1, Bytes16
<1> QED
    BY <1>2, Joined DEF append_uint32

LEMMA Bytes64 ==
    ASSUME NEW v \in Int
    PROVE  append_uint64(v) \in Seq(Byte) /\ Len(append_uint64(v)) = 8
<1>1. Shifted(Shifted(v)) \in Int
    BY ShiftedIs
<1>2. /\ append_uint32(v) \in Seq(Byte) /\ Len(append_uint32(v)) = 4
      /\ append_uint32(Shifted(Shifted(v))) \in Seq(Byte)
      /\ Len(append_uint32(Shifted(Shifted(v)))) = 4
    BY <1>1, Bytes32
<1> DEFINE h == append_uint32(Shifted(Shifted(v)))
           l == append_uint32(v)
<1>3. append_uint64(v) = h \o l
    BY DEF append_uint64
<1>4. h \in Seq(Byte) /\ l \in Seq(Byte) /\ Len(h) = 4 /\ Len(l) = 4
    BY <1>2
<1> HIDE DEF h, l
<1>5. h \o l \in Seq(Byte) /\ Len(h \o l) = Len(h) + Len(l)
    BY <1>4, Joined
<1> QED
    BY <1>3, <1>4, <1>5

LEMMA Mod16 ==
    ASSUME NEW v \in Int
    PROVE  256 * ((v \div 256) % 256) + (v % 256) = Low(v)
BY DEF Low

High(v) == (v \div 256) % 256

\* Reading two bytes gives the number that was written, to 16 bits.
LEMMA Read16 ==
    ASSUME NEW buffer \in Seq(Byte), NEW o \in Nat, NEW v \in Int,
           Holds(buffer, o, append_uint16(v))
    PROVE  read_uint16(buffer, o) = Low(v) /\ buffer[o + 1] = High(v)
<1>1. Len(append_uint16(v)) = 2
    BY Bytes16
<1>2. 1 \in 1 .. Len(append_uint16(v)) /\ 2 \in 1 .. Len(append_uint16(v))
    BY <1>1
<1>3. buffer[o + 1] = append_uint16(v)[1] /\ buffer[o + 2] = append_uint16(v)[2]
    BY <1>2 DEF Holds
<1>4. append_uint16(v)[1] = (v \div 256) % 256 /\ append_uint16(v)[2] = v % 256
    BY Bytes16
<1>5. buffer[o + 1] = (v \div 256) % 256 /\ buffer[o + 2] = v % 256
    BY <1>3, <1>4
<1>6. read_uint16(buffer, o) = 256 * buffer[o + 1] + buffer[o + 2]
    BY DEF read_uint16
<1>7. read_uint16(buffer, o) = 256 * ((v \div 256) % 256) + (v % 256)
    BY <1>5, <1>6
<1>8. read_uint16(buffer, o) = Low(v)
    BY <1>7, Mod16
<1>9. buffer[o + 1] = High(v)
    BY <1>5 DEF High
<1> QED
    BY <1>8, <1>9

LEMMA Read32 ==
    ASSUME NEW buffer \in Seq(Byte), NEW o \in Nat, NEW v \in Nat, InUint16(Shifted(v)),
           Holds(buffer, o, append_uint32(v))
    PROVE  read_uint32(buffer, o) = v
<1>1. v \in Int /\ Shifted(v) \in Int /\ Shifted(v) \in Nat
    BY ShiftedIs
<1> DEFINE h == append_uint16(Shifted(v))
           l == append_uint16(v)
<1>2. l \in Seq(Byte) /\ h \in Seq(Byte) /\ Len(h) = 2
    BY <1>1, Bytes16
<1>3. Holds(buffer, o, h \o l)
    BY DEF append_uint32
<1> HIDE DEF h, l
<1>4. Holds(buffer, o, h) /\ Holds(buffer, o + 2, l)
    <2>1. Holds(buffer, o, h) /\ Holds(buffer, o + Len(h), l)
        BY <1>2, <1>3, HoldsApart
    <2> QED
        BY <1>2, <2>1
<1>5. o + 2 \in Nat
    OBVIOUS
<1>6. read_uint16(buffer, o) = Low(Shifted(v))
    BY <1>1, <1>4, Read16 DEF h
<1>7. read_uint16(buffer, o + 2) = Low(v)
    BY <1>1, <1>4, <1>5, Read16 DEF l
<1>8. Low(Shifted(v)) = Shifted(v)
    BY <1>1 DEF Low, InUint16
<1>9. 65536 * Shifted(v) + Low(v) = v
    BY <1>1, ShiftedIs
<1> QED
    BY <1>6, <1>7, <1>8, <1>9 DEF read_uint32

\* The sign is in the first of 16 bits.
LEMMA Signed16 ==
    ASSUME NEW a \in Int, InInt16(a)
    PROVE  65536 * (IF High(a) >= 128 THEN -1 ELSE 0) + Low(a) = a
<1>1. CASE a < 0
    <2>1. High(a) >= 128
        BY <1>1 DEF InInt16, High, Low
    <2>2. Low(a) = a + 65536
        BY <1>1 DEF InInt16, High, Low
    <2> QED
        BY <2>1, <2>2
<1>2. CASE ~(a < 0)
    <2>1. ~(High(a) >= 128)
        BY <1>2 DEF InInt16, High, Low
    <2>2. Low(a) = a
        BY <1>2 DEF InInt16, High, Low
    <2> QED
        BY <2>1, <2>2
<1> QED
    BY <1>1, <1>2

LEMMA Read64 ==
    ASSUME NEW buffer \in Seq(Byte), NEW o \in Nat, NEW v \in Int,
           InInt16(Shifted(Shifted(Shifted(v)))),
           Holds(buffer, o, append_uint64(v))
    PROVE  read_int64(buffer, o) = v
<1> DEFINE c == Shifted(v)
           b == Shifted(c)
           a == Shifted(b)
           A == append_uint16(a)
           B == append_uint16(b)
           C == append_uint16(c)
           D == append_uint16(v)
<1>1. c \in Int /\ b \in Int /\ a \in Int /\ InInt16(a)
    <2>1. c \in Int
        BY ShiftedIs
    <2> HIDE DEF c
    <2>2. b \in Int
        BY <2>1, ShiftedIs
    <2> HIDE DEF b
    <2>3. a \in Int
        BY <2>2, ShiftedIs
    <2>4. InInt16(a)
        BY DEF a, b, c
    <2> QED
        BY <2>1, <2>2, <2>3, <2>4
<1>2. 65536 * c + Low(v) = v /\ 65536 * b + Low(c) = c /\ 65536 * a + Low(b) = b
    BY <1>1, ShiftedIs
<1>3. append_uint64(v) = (A \o B) \o (C \o D)
    BY DEF append_uint64, append_uint32
<1> HIDE DEF a, b, c
<1>4. /\ A \in Seq(Byte) /\ B \in Seq(Byte) /\ C \in Seq(Byte) /\ D \in Seq(Byte)
      /\ Len(A) = 2 /\ Len(B) = 2 /\ Len(C) = 2
    <2>1. A \in Seq(Byte) /\ Len(A) = 2
        BY <1>1, Bytes16
    <2>2. B \in Seq(Byte) /\ Len(B) = 2
        BY <1>1, Bytes16
    <2>3. C \in Seq(Byte) /\ Len(C) = 2
        BY <1>1, Bytes16
    <2>4. D \in Seq(Byte)
        BY Bytes16
    <2> HIDE DEF A, B, C, D
    <2> QED
        BY <2>1, <2>2, <2>3, <2>4
<1>5. Holds(buffer, o, (A \o B) \o (C \o D))
    BY <1>3
<1> HIDE DEF A, B, C, D
<1>6. A \o B \in Seq(Byte) /\ Len(A \o B) = 4 /\ C \o D \in Seq(Byte)
    <2>1. Len(A \o B) = Len(A) + Len(B)
        BY <1>4, Joined
    <2> QED
        BY <1>4, <2>1, Joined
<1>7. o + 2 \in Nat /\ o + 4 \in Nat /\ o + 6 \in Nat /\ (o + 4) + 2 = o + 6
    OBVIOUS
<1>8. Holds(buffer, o, A \o B) /\ Holds(buffer, o + 4, C \o D)
    BY <1>5, <1>6, HoldsApart
<1>9. Holds(buffer, o, A) /\ Holds(buffer, o + 2, B)
    BY <1>4, <1>8, HoldsApart
<1>10. Holds(buffer, o + 4, C) /\ Holds(buffer, (o + 4) + 2, D)
    BY <1>4, <1>7, <1>8, HoldsApart
<1>11. Holds(buffer, o + 6, D)
    BY <1>7, <1>10
<1>12. read_uint16(buffer, o) = Low(a) /\ buffer[o + 1] = High(a)
    BY <1>1, <1>9, Read16 DEF A
<1>13. read_uint16(buffer, o + 2) = Low(b)
    BY <1>1, <1>7, <1>9, Read16 DEF B
<1>14. read_uint16(buffer, o + 4) = Low(c)
    BY <1>1, <1>7, <1>10, Read16 DEF C
<1>15. read_uint16(buffer, o + 6) = Low(v)
    BY <1>7, <1>11, Read16 DEF D
<1>16. 65536 * (IF buffer[o + 1] >= 128 THEN -1 ELSE 0) + read_uint16(buffer, o) = a
    BY <1>1, <1>12, Signed16
<1>17. 65536 * a + read_uint16(buffer, o + 2) = b
    BY <1>2, <1>13
<1>18. 65536 * b + read_uint16(buffer, o + 4) = c
    BY <1>2, <1>14
<1>19. 65536 * c + read_uint16(buffer, o + 6) = v
    BY <1>2, <1>15
<1> QED
    BY <1>16, <1>17, <1>18, <1>19 DEF read_int64

-----------------------------------------------------------------------------
(***************************************************************************)
(* Values.                                                                 *)
(***************************************************************************)
LEMMA NullIs == DOMAIN Null = {"null"} /\ ValueBytes(Null) = <<>>
<1>1. DOMAIN Null = {"null"}
    BY DEF Null
<1> QED
    BY <1>1 DEF ValueBytes

LEMMA IntegerIs ==
    ASSUME NEW v, NEW type, type = "INTEGER", Fits(v, type), ~IsNull(v)
    PROVE  /\ v = [int |-> v.int] /\ v.int \in Int
           /\ InInt16(Shifted(Shifted(Shifted(v.int))))
           /\ ValueBytes(v) = append_uint64(v.int)
<1>1. /\ DOMAIN v = {"int"} /\ v = [int |-> v.int] /\ v.int \in Int
      /\ InInt16(Shifted(Shifted(Shifted(v.int))))
    BY DEF Fits
<1>2. ValueBytes(v) = append_uint64(v.int)
    BY <1>1 DEF ValueBytes
<1> QED
    BY <1>1, <1>2

LEMMA BooleanIs ==
    ASSUME NEW v, NEW type, type = "BOOLEAN", Fits(v, type), ~IsNull(v)
    PROVE  \/ v = [bool |-> TRUE] /\ ValueBytes(v) = <<1>>
           \/ v = [bool |-> FALSE] /\ ValueBytes(v) = <<0>>
<1>1. v = [bool |-> TRUE] \/ v = [bool |-> FALSE]
    BY DEF Fits
<1>2. DOMAIN v = {"bool"}
    BY <1>1
<1>3. (v = [bool |-> TRUE] => v.bool = TRUE) /\ (v = [bool |-> FALSE] => v.bool = FALSE)
    OBVIOUS
<1>4. ValueBytes(v) = IF v.bool THEN <<1>> ELSE <<0>>
    BY <1>2 DEF ValueBytes
<1> QED
    BY <1>1, <1>3, <1>4

LEMMA TextIs ==
    ASSUME NEW v, NEW type, type = "TEXT", Fits(v, type), ~IsNull(v)
    PROVE  /\ v = [text |-> v.text] /\ v.text \in Seq(Byte)
           /\ InUint16(Shifted(Len(v.text)))
           /\ ValueBytes(v) = append_uint32(Len(v.text)) \o v.text
<1>1. /\ DOMAIN v = {"text"} /\ v = [text |-> v.text] /\ v.text \in Seq(Byte)
      /\ InUint16(Shifted(Len(v.text)))
    BY DEF Fits
<1>2. ValueBytes(v) = append_uint32(Len(v.text)) \o v.text
    BY <1>1 DEF ValueBytes
<1> QED
    BY <1>1, <1>2

TypeNames == {"INTEGER", "BOOLEAN", "TEXT"}

LEMMA ValueTypes ==
    ASSUME NEW type \in TypeNames, NEW v, Fits(v, type)
    PROVE  ValueBytes(v) \in Seq(Byte)
<1>1. CASE IsNull(v)
    BY <1>1, NullIs DEF IsNull
<1>2. CASE ~IsNull(v) /\ type = "INTEGER"
    BY <1>2, IntegerIs, Bytes64
<1>3. CASE ~IsNull(v) /\ type = "BOOLEAN"
    <2>1. 0 \in Byte /\ 1 \in Byte
        BY DEF Byte
    <2>2. <<0>> \in Seq(Byte) /\ <<1>> \in Seq(Byte)
        BY <2>1
    <2>3. ValueBytes(v) = <<1>> \/ ValueBytes(v) = <<0>>
        BY <1>3, BooleanIs
    <2> QED
        BY <2>2, <2>3
<1>4. CASE ~IsNull(v) /\ type = "TEXT"
    <2>1. v.text \in Seq(Byte) /\ ValueBytes(v) = append_uint32(Len(v.text)) \o v.text
        BY <1>4, TextIs
    <2>2. append_uint32(Len(v.text)) \in Seq(Byte)
        BY <2>1, Bytes32
    <2> QED
        BY <2>1, <2>2, Joined
<1> QED
    BY <1>1, <1>2, <1>3, <1>4 DEF TypeNames

\* A value is read back from its bytes.
LEMMA ReadValueIs ==
    ASSUME NEW buffer \in Seq(Byte), NEW type \in TypeNames, NEW v, Fits(v, type), ~IsNull(v),
           NEW read, read.offset \in Nat, Holds(buffer, read.offset, ValueBytes(v))
    PROVE  ReadValue(buffer, type, read) = Took(read, Len(ValueBytes(v)), v)
<1>1. CASE type = "INTEGER"
    <2>1. /\ v = [int |-> v.int] /\ v.int \in Int /\ InInt16(Shifted(Shifted(Shifted(v.int))))
          /\ ValueBytes(v) = append_uint64(v.int)
        BY <1>1, IntegerIs
    <2>2. read_int64(buffer, read.offset) = v.int
        BY <2>1, Read64
    <2>3. Len(ValueBytes(v)) = 8
        BY <2>1, Bytes64
    <2>4. ~Underflows(buffer, read.offset, 8)
        BY <2>3 DEF Holds, Underflows
    <2>5. ReadValue(buffer, type, read) = Took(read, 8, [int |-> read_int64(buffer, read.offset)])
        BY <1>1, <2>4 DEF ReadValue
    <2> QED
        BY <2>1, <2>2, <2>3, <2>5
<1>2. CASE type = "BOOLEAN"
    <2>1. PICK b \in BOOLEAN : v = [bool |-> b] /\ ValueBytes(v) = IF b THEN <<1>> ELSE <<0>>
        <3>1. \/ v = [bool |-> TRUE] /\ ValueBytes(v) = <<1>>
              \/ v = [bool |-> FALSE] /\ ValueBytes(v) = <<0>>
            BY <1>2, BooleanIs
        <3>2. CASE v = [bool |-> TRUE] /\ ValueBytes(v) = <<1>>
            <4> WITNESS TRUE \in BOOLEAN
            <4> QED
                BY <3>2
        <3>3. CASE v = [bool |-> FALSE] /\ ValueBytes(v) = <<0>>
            <4> WITNESS FALSE \in BOOLEAN
            <4> QED
                BY <3>3
        <3> QED
            BY <3>1, <3>2, <3>3
    <2>2. Len(ValueBytes(v)) = 1 /\ ValueBytes(v)[1] = IF b THEN 1 ELSE 0
        BY <2>1
    <2>3. buffer[read.offset + 1] = IF b THEN 1 ELSE 0
        BY <2>2 DEF Holds
    <2>4. (buffer[read.offset + 1] # 0) = b
        BY <2>3
    <2>5. ~Underflows(buffer, read.offset, 1)
        BY <2>2 DEF Holds, Underflows
    <2>6. ReadValue(buffer, type, read) = Took(read, 1, [bool |-> buffer[read.offset + 1] # 0])
        BY <1>2, <2>5 DEF ReadValue
    <2> QED
        BY <2>1, <2>2, <2>4, <2>6
<1>3. CASE type = "TEXT"
    <2> DEFINE n == Len(v.text)
               o == read.offset
    <2>1. /\ v = [text |-> v.text] /\ v.text \in Seq(Byte) /\ InUint16(Shifted(n))
          /\ ValueBytes(v) = append_uint32(n) \o v.text
        BY <1>3, TextIs
    <2>2. n \in Nat /\ n \in Int
        BY <2>1
    <2>3. append_uint32(n) \in Seq(Byte) /\ Len(append_uint32(n)) = 4
        BY <2>2, Bytes32
    <2>4. Holds(buffer, o, append_uint32(n) \o v.text)
        BY <2>1
    <2>5. Holds(buffer, o, append_uint32(n)) /\ Holds(buffer, o + Len(append_uint32(n)), v.text)
        BY <2>1, <2>3, <2>4, HoldsApart
    <2>6. Holds(buffer, o + 4, v.text)
        BY <2>3, <2>5
    <2>7. read_uint32(buffer, o) = n
        BY <2>1, <2>2, <2>5, Read32
    <2>8. ~Underflows(buffer, o, 4) /\ ~Underflows(buffer, o + 4, n)
        BY <2>2, <2>3, <2>5, <2>6 DEF Holds, Underflows
    <2>9. ReadValue(buffer, type, read) =
              Took(read, 4 + n, [text |-> SubSeq(buffer, (o + 4) + 1, (o + 4) + n)])
        BY <1>3, <2>7, <2>8 DEF ReadValue
    <2>10. SubSeq(buffer, (o + 4) + 1, (o + 4) + n) = v.text
        <3>1. \A j \in 1 .. n : buffer[(o + 4) + j] = v.text[j]
            BY <2>6 DEF Holds
        <3>2. (o + 4) + n <= Len(buffer)
            BY <2>6 DEF Holds
        <3> HIDE DEF n, o
        <3>3. o \in Nat
            BY DEF o
        <3>4. n = Len(v.text)
            BY DEF n
        <3> DEFINE sub == SubSeq(buffer, (o + 4) + 1, (o + 4) + n)
        <3>5. sub \in Seq(Byte) /\ Len(sub) = n
            BY <2>2, <3>2, <3>3
        <3>6. ASSUME NEW j \in 1 .. n PROVE sub[j] = v.text[j]
            <4>1. sub[j] = buffer[(o + 4) + j]
                BY <2>2, <3>2, <3>3
            <4> QED
                BY <3>1, <4>1
        <3> HIDE DEF sub
        <3> QED
            BY <2>1, <3>4, <3>5, <3>6, SeqEqual DEF sub
    <2>11. Len(ValueBytes(v)) = 4 + n
        BY <2>1, <2>3, Joined
    <2> QED
        BY <2>1, <2>9, <2>10, <2>11
<1> QED
    BY <1>1, <1>2, <1>3 DEF TypeNames

-----------------------------------------------------------------------------
(***************************************************************************)
(* The bitmap.                                                             *)
(***************************************************************************)
\* Bit j of the k-th byte is that of column 8 * (k - 1) + j + 1.
LEMMA ByteIs ==
    ASSUME NEW cols \in Seq(Columns), NEW values, NEW k \in 1 .. NullBytesLength(cols)
    PROVE  /\ NullBytes(cols, values)[k] \in Byte
           /\ \A j \in 0 .. 7 : (NullBytes(cols, values)[k] \div BitValue[j + 1]) % 2 =
                                    NullBit(values, 8 * (k - 1) + j + 1)
<1> DEFINE n == NullBytes(cols, values)[k]
           B(j) == NullBit(values, 8 * (k - 1) + j + 1)
<1>1. n = B(0) + 2 * B(1) + 4 * B(2) + 8 * B(3) + 16 * B(4) + 32 * B(5) + 64 * B(6) + 128 * B(7)
    BY DEF NullBytes, ByteOf
<1>2. \A j : B(j) \in {0, 1}
    BY DEF NullBit
<1> HIDE DEF n, B
<1>3. /\ 0 <= n /\ n <= 255 /\ n \in Int
      /\ (n \div 1) % 2 = B(0) /\ (n \div 2) % 2 = B(1) /\ (n \div 4) % 2 = B(2)
      /\ (n \div 8) % 2 = B(3) /\ (n \div 16) % 2 = B(4) /\ (n \div 32) % 2 = B(5)
      /\ (n \div 64) % 2 = B(6) /\ (n \div 128) % 2 = B(7)
    <2> DEFINE a == B(0)
               b == B(1)
               c == B(2)
               d == B(3)
               e == B(4)
               f == B(5)
               g == B(6)
               h == B(7)
    <2>1. /\ a \in {0, 1} /\ b \in {0, 1} /\ c \in {0, 1} /\ d \in {0, 1}
          /\ e \in {0, 1} /\ f \in {0, 1} /\ g \in {0, 1} /\ h \in {0, 1}
        BY <1>2
    <2>2. n = a + 2 * b + 4 * c + 8 * d + 16 * e + 32 * f + 64 * g + 128 * h
        BY <1>1
    <2> HIDE DEF a, b, c, d, e, f, g, h
    <2>3. /\ 0 <= n /\ n <= 255 /\ n \in Int
          /\ (n \div 1) % 2 = a /\ (n \div 2) % 2 = b /\ (n \div 4) % 2 = c
          /\ (n \div 8) % 2 = d /\ (n \div 16) % 2 = e /\ (n \div 32) % 2 = f
          /\ (n \div 64) % 2 = g /\ (n \div 128) % 2 = h
        <3>1. 0 <= n /\ n <= 255 /\ n \in Int
            BY <2>1, <2>2
        <3>2. (n \div 1) % 2 = a /\ (n \div 2) % 2 = b
            BY <2>1, <2>2
        <3>3. (n \div 4) % 2 = c /\ (n \div 8) % 2 = d
            BY <2>1, <2>2
        <3>4. (n \div 16) % 2 = e /\ (n \div 32) % 2 = f
            BY <2>1, <2>2
        <3>5. (n \div 64) % 2 = g /\ (n \div 128) % 2 = h
            BY <2>1, <2>2
        <3> QED
            BY <3>1, <3>2, <3>3, <3>4, <3>5
    <2> QED
        BY <2>3 DEF a, b, c, d, e, f, g, h
<1>4. n \in Byte
    BY <1>3 DEF Byte
<1>5. ASSUME NEW j \in 0 .. 7 PROVE (n \div BitValue[j + 1]) % 2 = B(j)
    <2>1. CASE j = 0
        BY <1>3, <2>1 DEF BitValue
    <2>2. CASE j = 1
        BY <1>3, <2>2 DEF BitValue
    <2>3. CASE j = 2
        BY <1>3, <2>3 DEF BitValue
    <2>4. CASE j = 3
        BY <1>3, <2>4 DEF BitValue
    <2>5. CASE j = 4
        BY <1>3, <2>5 DEF BitValue
    <2>6. CASE j = 5
        BY <1>3, <2>6 DEF BitValue
    <2>7. CASE j = 6
        BY <1>3, <2>7 DEF BitValue
    <2>8. CASE j = 7
        BY <1>3, <2>8 DEF BitValue
    <2> QED
        BY <2>1, <2>2, <2>3, <2>4, <2>5, <2>6, <2>7, <2>8
<1> QED
    BY <1>4, <1>5 DEF n, B

LEMMA NullBytesIs ==
    ASSUME NEW cols \in Seq(Columns), NEW values
    PROVE  /\ NullBytesLength(cols) \in Nat
           /\ NullBytes(cols, values) \in Seq(Byte)
           /\ Len(NullBytes(cols, values)) = NullBytesLength(cols)
<1>1. NullBytesLength(cols) \in Nat
    <2>1. Len(cols) \in Nat
        OBVIOUS
    <2> QED
        BY <2>1 DEF NullBytesLength
<1>2. \A k \in 1 .. NullBytesLength(cols) : NullBytes(cols, values)[k] \in Byte
    BY ByteIs
<1>3. /\ DOMAIN NullBytes(cols, values) = 1 .. NullBytesLength(cols)
      /\ NullBytes(cols, values) =
             [k \in 1 .. NullBytesLength(cols) |-> NullBytes(cols, values)[k]]
    BY DEF NullBytes
<1> QED
    BY <1>1, <1>2, <1>3

\* deserialize finds the bit that set_bit set.
LEMMA BitFound ==
    ASSUME NEW cols \in Seq(Columns), NEW values, DOMAIN values = 1 .. Len(cols),
           NEW buffer \in Seq(Byte), Holds(buffer, 18, NullBytes(cols, values)),
           NEW i \in 1 .. Len(cols)
    PROVE  is_null(SubSeq(buffer, 19, Len(buffer)), i) <=> IsNull(values[i])
<1> DEFINE q == (i - 1) \div 8
           j == (i - 1) % 8
           bitmap == SubSeq(buffer, 19, Len(buffer))
           N == NullBytes(cols, values)
<1>1. Len(cols) \in Nat /\ i \in Nat /\ Len(buffer) \in Nat
    OBVIOUS
<1>2. q \in Nat /\ j \in 0 .. 7 /\ 8 * q + j + 1 = i
    BY <1>1
<1>3. q + 1 \in 1 .. NullBytesLength(cols)
    BY <1>1 DEF NullBytesLength
<1>4. is_null(bitmap, i) <=> (bitmap[q + 1] \div BitValue[j + 1]) % 2 = 1
    BY DEF is_null
<1> HIDE DEF q, j
<1>5. Len(N) = NullBytesLength(cols) /\ Len(N) \in Nat
    BY NullBytesIs
<1>6. buffer[18 + (q + 1)] = N[q + 1] /\ 18 + Len(N) <= Len(buffer)
    BY <1>3, <1>5 DEF Holds
<1>7. bitmap[q + 1] = buffer[18 + (q + 1)]
    BY <1>1, <1>2, <1>3, <1>5, <1>6
<1> HIDE DEF bitmap, N
<1>8. (N[q + 1] \div BitValue[j + 1]) % 2 = NullBit(values, 8 * ((q + 1) - 1) + j + 1)
    BY <1>2, <1>3, ByteIs DEF N
<1>9. 8 * ((q + 1) - 1) + j + 1 = i
    BY <1>2
<1>10. (bitmap[q + 1] \div BitValue[j + 1]) % 2 = NullBit(values, i)
    BY <1>6, <1>7, <1>8, <1>9
<1>11. NullBit(values, i) = 1 <=> IsNull(values[i])
    BY DEF NullBit
<1> QED
    BY <1>4, <1>10, <1>11 DEF bitmap

-----------------------------------------------------------------------------
(***************************************************************************)
(* The bytes of the values, one after the other.                           *)
(***************************************************************************)
LEMMA WrittenDefined ==
    ASSUME NEW values, NEW n \in Nat
    PROVE  \E f : f = [i \in 0 .. n |->
                          IF i = 0 THEN <<>> ELSE f[i - 1] \o ValueBytes(values[i])]
<1> DEFINE Up(m) == \E f : f = [i \in 0 .. m |->
                          IF i = 0 THEN <<>> ELSE f[i - 1] \o ValueBytes(values[i])]
<1> DEFINE T == {m \in Nat : ~Up(m)}
<1>1. SUFFICES ASSUME T # {} PROVE FALSE
    BY <1>1
<1>2. PICK m \in T : \A y \in T : m <= y
    BY <1>1, LeastNat
<1>3. m # 0
    <2>1. PICK f : f = [i \in 0 .. 0 |-> <<>>]
        OBVIOUS
    <2>2. f = [i \in 0 .. 0 |-> IF i = 0 THEN <<>> ELSE f[i - 1] \o ValueBytes(values[i])]
        BY <2>1
    <2>3. Up(0)
        BY <2>2
    <2> QED
        BY <1>2, <2>3
<1>4. PICK l \in Nat : m = l + 1
    BY <1>2, <1>3
<1>5. Up(l)
    <2>1. ~(m <= l)
        BY <1>4
    <2>2. l \notin T
        <3> HIDE DEF T
        <3> QED
            BY <1>2, <2>1
    <2> QED
        BY <2>2
<1>6. PICK f : f = [i \in 0 .. l |->
                       IF i = 0 THEN <<>> ELSE f[i - 1] \o ValueBytes(values[i])]
    BY <1>5
<1>7. PICK g : g = [i \in 0 .. m |->
                       IF i = m THEN f[l] \o ValueBytes(values[m]) ELSE f[i]]
    OBVIOUS
<1>8. ASSUME NEW i \in 0 .. m
      PROVE  g[i] = IF i = 0 THEN <<>> ELSE g[i - 1] \o ValueBytes(values[i])
    <2>1. CASE i = m
        <3>1. g[i - 1] = f[l]
            BY <1>4, <1>7, <2>1
        <3>2. i # 0 /\ m \in 0 .. m
            BY <1>4, <2>1
        <3>3. g[m] = f[l] \o ValueBytes(values[m])
            BY <1>7, <3>2
        <3>4. g[i] = g[i - 1] \o ValueBytes(values[i])
            BY <2>1, <3>1, <3>3
        <3> QED
            BY <3>2, <3>4
    <2>2. CASE i # m /\ i = 0
        <3>1. f[0] = <<>>
            BY <1>6
        <3> QED
            BY <1>7, <2>2, <3>1
    <2>3. CASE i # m /\ i # 0
        <3>1. i \in 0 .. l /\ i - 1 \in 0 .. m /\ i - 1 # m
            BY <1>4, <2>3
        <3>2. g[i] = f[i] /\ g[i - 1] = f[i - 1]
            BY <1>7, <2>3, <3>1
        <3>3. f[i] = f[i - 1] \o ValueBytes(values[i])
            BY <1>6, <2>3, <3>1
        <3> QED
            BY <2>3, <3>2, <3>3
    <2> QED
        BY <2>1, <2>2, <2>3
<1>9. g = [i \in 0 .. m |-> IF i = 0 THEN <<>> ELSE g[i - 1] \o ValueBytes(values[i])]
    <2>1. DOMAIN g = 0 .. m /\ g = [i \in 0 .. m |-> g[i]]
        BY <1>7
    <2> QED
        BY <1>8, <2>1
<1>10. Up(m)
    BY <1>9
<1> QED
    BY <1>2, <1>10

\* A row of the table: a value that fits in every column.
RowOK(cols, values) ==
    /\ cols \in Seq(Columns)
    /\ values = [i \in 1 .. Len(cols) |-> values[i]]
    /\ \A i \in 1 .. Len(cols) : Fits(values[i], cols[i].type)

LEMMA RowIs ==
    ASSUME NEW cols, NEW values, RowOK(cols, values)
    PROVE  /\ Len(cols) \in Nat /\ Len(values) = Len(cols) /\ DOMAIN values = 1 .. Len(cols)
           /\ DOMAIN cols = 1 .. Len(cols)
           /\ \A i \in 1 .. Len(cols) :
                 /\ cols[i].type \in TypeNames /\ Fits(values[i], cols[i].type)
                 /\ ValueBytes(values[i]) \in Seq(Byte)
<1>1. cols \in Seq(Columns) /\ Len(cols) \in Nat /\ DOMAIN cols = 1 .. Len(cols)
    BY DEF RowOK
<1>2. DOMAIN values = 1 .. Len(cols)
    BY DEF RowOK
<1>3. Len(values) = Len(cols)
    BY <1>1, <1>2
<1>4. ASSUME NEW i \in 1 .. Len(cols) PROVE cols[i].type \in TypeNames
    <2>1. cols[i] \in Columns
        BY <1>1
    <2> QED
        BY <2>1 DEF Columns, TypeNames
<1>5. \A i \in 1 .. Len(cols) : Fits(values[i], cols[i].type)
    BY DEF RowOK
<1> QED
    BY <1>1, <1>2, <1>3, <1>4, <1>5, ValueTypes

LEMMA WrittenIs ==
    ASSUME NEW cols, NEW values, RowOK(cols, values)
    PROVE  LET W == Written(values)
           IN  /\ W[0] = <<>>
               /\ \A i \in 1 .. Len(values) : W[i] = W[i - 1] \o ValueBytes(values[i])
               /\ \A i \in 0 .. Len(values) : W[i] \in Seq(Byte)
<1> DEFINE W == Written(values)
           n == Len(values)
<1>n. /\ n \in Nat /\ \A i \in 1 .. n : ValueBytes(values[i]) \in Seq(Byte)
    BY RowIs
<1>1. W = CHOOSE f : f = [i \in 0 .. n |->
                              IF i = 0 THEN <<>> ELSE f[i - 1] \o ValueBytes(values[i])]
    BY DEF Written
<1>2. W = [i \in 0 .. n |-> IF i = 0 THEN <<>> ELSE W[i - 1] \o ValueBytes(values[i])]
    <2> HIDE DEF W, n
    <2> QED
        BY <1>n, <1>1, WrittenDefined
<1> HIDE DEF W, n
<1>3. W[0] = <<>>
    BY <1>2, <1>n
<1>4. ASSUME NEW i \in 1 .. n PROVE W[i] = W[i - 1] \o ValueBytes(values[i])
    <2>1. i \in 0 .. n /\ i # 0
        BY <1>n
    <2>2. W[i] = IF i = 0 THEN <<>> ELSE W[i - 1] \o ValueBytes(values[i])
        BY <1>2, <2>1
    <2> QED
        BY <2>1, <2>2
<1> DEFINE T == {i \in 0 .. n : W[i] \notin Seq(Byte)}
<1>5. T = {}
    <2> SUFFICES ASSUME T # {} PROVE FALSE
        OBVIOUS
    <2>1. PICK m \in T : \A y \in T : m <= y
        <3>1. T \in SUBSET Nat
            BY <1>n
        <3> QED
            BY <3>1, LeastNat
    <2>2. m \in 1 .. n
        <3>1. W[0] \in Seq(Byte)
            BY <1>3
        <3>2. m # 0
            BY <2>1, <3>1
        <3> QED
            BY <1>n, <2>1, <3>2
    <2>3. m - 1 \in 0 .. n /\ m - 1 \notin T
        BY <1>n, <2>1, <2>2
    <2>4. W[m - 1] \in Seq(Byte)
        BY <2>3
    <2>5. W[m] \in Seq(Byte)
        BY <1>4, <1>n, <2>2, <2>4, Joined
    <2> QED
        BY <2>1, <2>5
<1>6. \A i \in 0 .. n : W[i] \in Seq(Byte)
    BY <1>5
<1> QED
    BY <1>3, <1>4, <1>6 DEF W, n

\* The bytes of the i-th value lie after those of the ones before it.
LEMMA ValueHeld ==
    ASSUME NEW cols, NEW values, RowOK(cols, values), NEW buffer \in Seq(Byte), NEW o \in Nat,
           Holds(buffer, o, Written(values)[Len(values)])
    PROVE  \A i \in 1 .. Len(values) :
              Holds(buffer, o + Len(Written(values)[i - 1]), ValueBytes(values[i]))
<1> DEFINE W == Written(values)
           n == Len(values)
<1>n. /\ n \in Nat /\ \A i \in 1 .. n : ValueBytes(values[i]) \in Seq(Byte)
    BY RowIs
<1>1. /\ \A i \in 1 .. n : W[i] = W[i - 1] \o ValueBytes(values[i])
      /\ \A i \in 0 .. n : W[i] \in Seq(Byte)
    BY WrittenIs
<1>2. Holds(buffer, o, W[n])
    OBVIOUS
<1> HIDE DEF W, n
<1>3. ASSUME NEW i \in 1 .. n, Holds(buffer, o, W[i])
      PROVE  /\ Holds(buffer, o, W[i - 1])
             /\ Holds(buffer, o + Len(W[i - 1]), ValueBytes(values[i]))
    <2>1. i - 1 \in 0 .. n
        BY <1>n
    <2>2. W[i - 1] \in Seq(Byte) /\ ValueBytes(values[i]) \in Seq(Byte)
        BY <1>n, <1>1, <2>1
    <2>3. Holds(buffer, o, W[i - 1] \o ValueBytes(values[i]))
        BY <1>1, <1>3
    <2> QED
        BY <2>2, <2>3, HoldsApart
<1> DEFINE T == {j \in 0 .. n : ~Holds(buffer, o, W[n - j])}
<1>4. T = {}
    <2> SUFFICES ASSUME T # {} PROVE FALSE
        OBVIOUS
    <2>1. PICK m \in T : \A y \in T : m <= y
        <3>1. T \in SUBSET Nat
            BY <1>n
        <3> QED
            BY <3>1, LeastNat
    <2>2. m \in 1 .. n
        <3>1. n - 0 = n
            BY <1>n
        <3>2. m # 0
            BY <1>2, <2>1, <3>1
        <3> QED
            BY <1>n, <2>1, <3>2
    <2>3. m - 1 \in 0 .. n /\ m - 1 \notin T
        <3>1. m - 1 \in 0 .. n /\ ~(m <= m - 1)
            BY <1>n, <2>2
        <3> HIDE DEF T
        <3> QED
            BY <2>1, <3>1
    <2>4. Holds(buffer, o, W[n - (m - 1)])
        BY <2>3
    <2>5. n - (m - 1) \in 1 .. n /\ (n - (m - 1)) - 1 = n - m
        BY <1>n, <2>2
    <2>6. Holds(buffer, o, W[(n - (m - 1)) - 1])
        BY <1>3, <2>4, <2>5
    <2> QED
        BY <2>1, <2>5, <2>6
<1>5. ASSUME NEW i \in 1 .. n PROVE Holds(buffer, o, W[i])
    <2>1. n - i \in 0 .. n /\ n - (n - i) = i
        BY <1>n
    <2>2. Holds(buffer, o, W[n - (n - i)])
        BY <1>4, <2>1
    <2> QED
        BY <2>1, <2>2
<1> QED
    BY <1>3, <1>5 DEF W, n

-----------------------------------------------------------------------------
(***************************************************************************)
(* The record: the header, the bitmap where the table may have NULLs, and  *)
(* the values.                                                             *)
(***************************************************************************)
BitmapLength(cols) == IF RowFlags(cols) = ROW_HASNULL THEN NullBytesLength(cols) ELSE 0

LEMMA FlagsRead ==
    ASSUME NEW cols
    PROVE  /\ RowFlags(cols) \in Int /\ Low(RowFlags(cols)) % 2 = RowFlags(cols)
           /\ RowFlags(cols) = ROW_HASNULL \/ RowFlags(cols) = 0
<1>1. RowFlags(cols) = 1 \/ RowFlags(cols) = 0
    BY DEF RowFlags, ROW_HASNULL
<1>2. Low(1) % 2 = 1 /\ Low(0) % 2 = 0
    BY DEF Low
<1> QED
    BY <1>1, <1>2 DEF ROW_HASNULL

LEMMA HeaderIs ==
    ASSUME NEW cols
    PROVE  /\ RowHeader(cols) \in Seq(Byte) /\ Len(RowHeader(cols)) = 18
           /\ \A buffer \in Seq(Byte) :
                 Holds(buffer, 0, RowHeader(cols)) => read_uint16(buffer, 16) % 2 = RowFlags(cols)
<1> DEFINE x == append_uint64(0)
           f == append_uint16(RowFlags(cols))
<1>1. RowFlags(cols) \in Int
    BY FlagsRead
<1>2. 0 \in Int
    OBVIOUS
<1>3. x \in Seq(Byte) /\ Len(x) = 8
    BY <1>2, Bytes64
<1>4. f \in Seq(Byte) /\ Len(f) = 2
    BY <1>1, Bytes16
<1>5. RowHeader(cols) = (x \o x) \o f
    BY DEF RowHeader
<1> HIDE DEF x, f
<1>6. x \o x \in Seq(Byte) /\ Len(x \o x) = 16
    <2>1. Len(x \o x) = Len(x) + Len(x)
        BY <1>3, Joined
    <2> QED
        BY <1>3, <2>1, Joined
<1>7. (x \o x) \o f \in Seq(Byte) /\ Len((x \o x) \o f) = 18
    <2>1. Len((x \o x) \o f) = Len(x \o x) + Len(f)
        BY <1>4, <1>6, Joined
    <2> QED
        BY <1>4, <1>6, <2>1, Joined
<1>8. ASSUME NEW buffer \in Seq(Byte), Holds(buffer, 0, (x \o x) \o f)
      PROVE  read_uint16(buffer, 16) % 2 = RowFlags(cols)
    <2>1. Holds(buffer, 0 + 16, f)
        BY <1>4, <1>6, <1>8, HoldsApart
    <2>2. 0 + 16 = 16 /\ 16 \in Nat
        OBVIOUS
    <2>3. Holds(buffer, 16, f)
        BY <2>1, <2>2
    <2>4. read_uint16(buffer, 16) = Low(RowFlags(cols))
        BY <1>1, <2>2, <2>3, Read16 DEF f
    <2> QED
        BY <2>4, FlagsRead
<1> QED
    BY <1>5, <1>7, <1>8

LEMMA SerializedIs ==
    ASSUME NEW cols, NEW values, RowOK(cols, values)
    PROVE  LET buffer == serialize(cols, values)
           IN  /\ buffer \in Seq(Byte) /\ Len(buffer) >= 18
               /\ read_uint16(buffer, 16) % 2 = RowFlags(cols)
               /\ RowFlags(cols) = ROW_HASNULL => Holds(buffer, 18, NullBytes(cols, values))
               /\ Holds(buffer, 18 + BitmapLength(cols), Written(values)[Len(values)])
<1> DEFINE H == RowHeader(cols)
           N == IF RowFlags(cols) = ROW_HASNULL THEN NullBytes(cols, values) ELSE <<>>
           V == Written(values)[Len(values)]
           buffer == serialize(cols, values)
<1>1. H \in Seq(Byte) /\ Len(H) = 18
    BY HeaderIs
<1>2. cols \in Seq(Columns) /\ Len(values) \in Nat
    BY RowIs DEF RowOK
<1>3. N \in Seq(Byte) /\ Len(N) = BitmapLength(cols)
    BY <1>2, NullBytesIs DEF BitmapLength
<1>4. V \in Seq(Byte)
    <2>1. Len(values) \in 0 .. Len(values)
        BY <1>2
    <2> QED
        BY <2>1, WrittenIs
<1>5. buffer = (H \o N) \o V
    BY DEF serialize
<1>6. RowFlags(cols) = ROW_HASNULL => N = NullBytes(cols, values)
    OBVIOUS
<1>7. \A b \in Seq(Byte) : Holds(b, 0, H) => read_uint16(b, 16) % 2 = RowFlags(cols)
    BY HeaderIs
<1> HIDE DEF H, N, V, buffer
<1>8. /\ H \o N \in Seq(Byte) /\ Len(H \o N) = 18 + Len(N)
      /\ buffer \in Seq(Byte) /\ Len(buffer) = Len(H \o N) + Len(V)
    BY <1>1, <1>3, <1>4, <1>5, Joined
<1>9. Len(N) \in Nat /\ Len(V) \in Nat
    BY <1>3, <1>4
<1>10. Len(buffer) >= 18
    BY <1>8, <1>9
<1>11. Holds(buffer, 0, (H \o N) \o V)
    BY <1>5, <1>8 DEF Holds
<1>12. Holds(buffer, 0, H \o N) /\ Holds(buffer, 0 + (18 + Len(N)), V)
    BY <1>4, <1>8, <1>11, HoldsApart
<1>13. Holds(buffer, 0, H) /\ Holds(buffer, 0 + 18, N)
    BY <1>1, <1>3, <1>8, <1>12, HoldsApart
<1>14. 0 + 18 = 18 /\ 0 + (18 + Len(N)) = 18 + Len(N)
    BY <1>9
<1>15. Holds(buffer, 18, N) /\ Holds(buffer, 18 + BitmapLength(cols), V)
    BY <1>3, <1>12, <1>13, <1>14
<1> QED
    BY <1>6, <1>7, <1>8, <1>10, <1>13, <1>15 DEF buffer, V

-----------------------------------------------------------------------------
(***************************************************************************)
(* deserialize.                                                            *)
(***************************************************************************)
\* The loop has read the first i values, and stands behind their bytes.
ReadSoFar(cols, values, i) ==
    [offset |-> 18 + BitmapLength(cols) + Len(Written(values)[i]),
     values |-> SubSeq(values, 1, i), threw |-> FALSE]

LEMMA NullsFlagged ==
    ASSUME NEW cols, NEW values, RowOK(cols, values), ~Violates(cols, values),
           NEW i \in 1 .. Len(cols), IsNull(values[i])
    PROVE  RowFlags(cols) = ROW_HASNULL
<1>1. i \in DOMAIN values /\ i \in DOMAIN cols
    BY RowIs
<1>2. cols[i].is_nullable
    BY <1>1 DEF Violates
<1> QED
    BY <1>1, <1>2 DEF RowFlags

LEMMA TurnIs ==
    ASSUME NEW cols, NEW values, RowOK(cols, values), ~Violates(cols, values),
           NEW i \in 1 .. Len(cols)
    PROVE  LET buffer == serialize(cols, values)
           IN  Turn(buffer, cols, RowFlags(cols) = ROW_HASNULL,
                    ReadSoFar(cols, values, i - 1), i) = ReadSoFar(cols, values, i)
<1> DEFINE buffer == serialize(cols, values)
           W == Written(values)
           read == ReadSoFar(cols, values, i - 1)
           base == 18 + BitmapLength(cols)
           v == values[i]
<1>1. /\ cols \in Seq(Columns) /\ Len(cols) \in Nat /\ Len(values) = Len(cols)
      /\ DOMAIN values = 1 .. Len(cols)
      /\ cols[i].type \in TypeNames /\ Fits(v, cols[i].type) /\ ValueBytes(v) \in Seq(Byte)
    BY RowIs DEF RowOK
<1>2. i - 1 \in 0 .. Len(values) /\ i \in 1 .. Len(values) /\ i \in 0 .. Len(values)
    BY <1>1
<1>3. W[i] = W[i - 1] \o ValueBytes(v) /\ W[i - 1] \in Seq(Byte)
    BY <1>2, WrittenIs
<1>4. Len(W[i]) = Len(W[i - 1]) + Len(ValueBytes(v)) /\ Len(W[i - 1]) \in Nat
      /\ Len(ValueBytes(v)) \in Nat
    <2> HIDE DEF W, v
    <2> QED
        BY <1>1, <1>3, Joined
<1>5. base \in Nat
    BY <1>1, NullBytesIs DEF BitmapLength
<1>6. /\ buffer \in Seq(Byte)
      /\ RowFlags(cols) = ROW_HASNULL => Holds(buffer, 18, NullBytes(cols, values))
      /\ Holds(buffer, base, W[Len(values)])
    BY SerializedIs
<1>7. Holds(buffer, base + Len(W[i - 1]), ValueBytes(v))
    <2> HIDE DEF buffer, base
    <2> QED
        BY <1>2, <1>5, <1>6, ValueHeld
<1>8. /\ read.offset = base + Len(W[i - 1]) /\ read.threw = FALSE
      /\ read.values = SubSeq(values, 1, i - 1)
    BY DEF ReadSoFar
<1>9. Append(SubSeq(values, 1, i - 1), v) = SubSeq(values, 1, i)
    OBVIOUS
<1>10. Took(read, Len(ValueBytes(v)), v) = ReadSoFar(cols, values, i)
    <2>1. (base + Len(W[i - 1])) + Len(ValueBytes(v)) = base + Len(W[i])
        <3> HIDE DEF base, W, v
        <3> QED
            BY <1>4, <1>5
    <2>2. Took(read, Len(ValueBytes(v)), v) =
              [offset |-> base + Len(W[i]), values |-> SubSeq(values, 1, i), threw |-> FALSE]
        <3> HIDE DEF base, W, v, read
        <3> QED
            BY <1>8, <1>9, <2>1 DEF Took
    <2> QED
        BY <2>2 DEF ReadSoFar
<1>11. CASE IsNull(v)
    <2>1. RowFlags(cols) = ROW_HASNULL
        BY <1>11, NullsFlagged
    <2>2. is_null(SubSeq(buffer, 19, Len(buffer)), i)
        <3> HIDE DEF buffer
        <3> QED
            BY <1>1, <1>6, <1>11, <2>1, BitFound
    <2>3. v = Null /\ Len(ValueBytes(v)) = 0
        BY <1>11, NullIs DEF IsNull
    <2> HIDE DEF read, buffer, v
    <2>4. Turn(buffer, cols, RowFlags(cols) = ROW_HASNULL, read, i) = Took(read, 0, Null)
        BY <1>8, <2>1, <2>2 DEF Turn
    <2>5. Turn(buffer, cols, RowFlags(cols) = ROW_HASNULL, read, i) = ReadSoFar(cols, values, i)
        BY <1>10, <2>3, <2>4
    <2> QED
        BY <2>5 DEF read, buffer
<1>12. CASE ~IsNull(v)
    <2>1. ~(RowFlags(cols) = ROW_HASNULL /\ is_null(SubSeq(buffer, 19, Len(buffer)), i))
        <3> HIDE DEF buffer
        <3> QED
            BY <1>1, <1>6, <1>12, BitFound
    <2>2. read.offset \in Nat
        BY <1>4, <1>5, <1>8
    <2>3. Holds(buffer, read.offset, ValueBytes(v))
        BY <1>7, <1>8
    <2> HIDE DEF read, buffer, v
    <2>4. Turn(buffer, cols, RowFlags(cols) = ROW_HASNULL, read, i) =
              ReadValue(buffer, cols[i].type, read)
        BY <1>8, <2>1 DEF Turn
    <2>5. ReadValue(buffer, cols[i].type, read) = Took(read, Len(ValueBytes(v)), v)
        BY <1>1, <1>6, <1>12, <2>2, <2>3, ReadValueIs
    <2>6. Turn(buffer, cols, RowFlags(cols) = ROW_HASNULL, read, i) = ReadSoFar(cols, values, i)
        BY <1>10, <2>4, <2>5
    <2> QED
        BY <2>6 DEF read, buffer
<1> QED
    BY <1>11, <1>12

LEMMA ReadsIs ==
    ASSUME NEW cols, NEW values, RowOK(cols, values), ~Violates(cols, values)
    PROVE  deserialize(serialize(cols, values), cols) = ReadSoFar(cols, values, Len(cols))
<1> DEFINE buffer == serialize(cols, values)
           nulls == RowFlags(cols) = ROW_HASNULL
           n == Len(cols)
           start == [offset |-> 18 + (IF nulls THEN NullBytesLength(cols) ELSE 0),
                     values |-> <<>>, threw |-> Underflows(buffer, 0, 18)]
           A == Reads(buffer, cols)
           R(i) == ReadSoFar(cols, values, i)
<1>1. n \in Nat
    BY RowIs
<1>2. (read_uint16(buffer, 16) % 2 = ROW_HASNULL) = nulls
    BY SerializedIs
<1>3. A = CHOOSE f : f = [i \in 0 .. n |->
              IF i = 0
              THEN [offset |-> 18 + (IF read_uint16(buffer, 16) % 2 = ROW_HASNULL
                                     THEN NullBytesLength(cols) ELSE 0),
                    values |-> <<>>, threw |-> Underflows(buffer, 0, 18)]
              ELSE Turn(buffer, cols, read_uint16(buffer, 16) % 2 = ROW_HASNULL, f[i - 1], i)]
    BY DEF Reads
<1>4. A = CHOOSE f : f = [i \in 0 .. n |->
              IF i = 0 THEN start ELSE Turn(buffer, cols, nulls, f[i - 1], i)]
    <2> HIDE DEF buffer, nulls, n, A
    <2> QED
        BY <1>2, <1>3
<1>5. start = R(0)
    <2>1. 18 + (IF nulls THEN NullBytesLength(cols) ELSE 0) = 18 + BitmapLength(cols)
        BY DEF BitmapLength
    <2>2. Underflows(buffer, 0, 18) = FALSE
        <3>1. Len(buffer) >= 18 /\ Len(buffer) \in Nat
            BY SerializedIs
        <3> HIDE DEF buffer
        <3> QED
            BY <3>1 DEF Underflows
    <2>3. Len(Written(values)[0]) = 0
        <3>1. Written(values)[0] = <<>>
            BY WrittenIs
        <3> QED
            BY <3>1
    <2>4. SubSeq(values, 1, 0) = <<>>
        OBVIOUS
    <2>5. BitmapLength(cols) \in Nat
        BY NullBytesIs DEF BitmapLength, RowOK
    <2>6. 18 + BitmapLength(cols) + Len(Written(values)[0]) = 18 + BitmapLength(cols)
        BY <2>3, <2>5
    <2>7. R(0) = [offset |-> 18 + BitmapLength(cols), values |-> <<>>, threw |-> FALSE]
        BY <2>4, <2>6 DEF ReadSoFar
    <2> QED
        BY <2>1, <2>2, <2>7
<1>6. \A i \in 1 .. n : Turn(buffer, cols, nulls, R(i - 1), i) = R(i)
    BY TurnIs
<1>7. deserialize(buffer, cols) = A[n]
    BY DEF deserialize
<1> HIDE DEF buffer, nulls, n, start, A, R
<1>8. PICK f : f = [i \in 0 .. n |-> R(i)]
    OBVIOUS
<1>9. f = [i \in 0 .. n |-> IF i = 0 THEN start ELSE Turn(buffer, cols, nulls, f[i - 1], i)]
    <2>1. ASSUME NEW i \in 0 .. n
          PROVE  f[i] = IF i = 0 THEN start ELSE Turn(buffer, cols, nulls, f[i - 1], i)
        <3>1. f[i] = R(i)
            BY <1>8
        <3>2. CASE i = 0
            BY <1>5, <3>1, <3>2
        <3>3. CASE i # 0
            <4>1. i \in 1 .. n /\ i - 1 \in 0 .. n
                BY <1>1, <3>3
            <4>2. f[i - 1] = R(i - 1)
                BY <1>8, <4>1
            <4> QED
                BY <1>6, <3>1, <3>3, <4>1, <4>2
        <3> QED
            BY <3>2, <3>3
    <2> QED
        BY <1>8, <2>1
<1>10. A = [i \in 0 .. n |-> IF i = 0 THEN start ELSE Turn(buffer, cols, nulls, A[i - 1], i)]
    BY <1>4, <1>9
<1>11. A[0] = R(0)
    BY <1>1, <1>5, <1>10
<1>12. ASSUME NEW i \in 1 .. n, A[i - 1] = R(i - 1) PROVE A[i] = R(i)
    <2>1. i \in 0 .. n /\ i # 0
        BY <1>1
    <2>2. A[i] = Turn(buffer, cols, nulls, A[i - 1], i)
        BY <1>10, <2>1
    <2> QED
        BY <1>6, <1>12, <2>2
<1> DEFINE T == {i \in 0 .. n : A[i] # R(i)}
<1>13. T = {}
    <2> SUFFICES ASSUME T # {} PROVE FALSE
        OBVIOUS
    <2>1. PICK m \in T : \A y \in T : m <= y
        <3>1. T \in SUBSET Nat
            BY <1>1
        <3> QED
            BY <3>1, LeastNat
    <2>2. m \in 1 .. n
        <3>1. m # 0
            BY <1>11, <2>1
        <3> QED
            BY <1>1, <2>1, <3>1
    <2>3. m - 1 \in 0 .. n /\ m - 1 \notin T
        <3>1. m - 1 \in 0 .. n /\ ~(m <= m - 1)
            BY <1>1, <2>2
        <3> HIDE DEF T
        <3> QED
            BY <2>1, <3>1
    <2>4. A[m - 1] = R(m - 1)
        BY <2>3
    <2> QED
        BY <1>12, <2>1, <2>2, <2>4
<1>14. A[n] = R(n)
    BY <1>1, <1>13
<1> QED
    BY <1>7, <1>14 DEF buffer, R, n

\* What deserialize makes of the bytes of serialize is the row.
LEMMA CodecRight ==
    ASSUME NEW cols, NEW values, RowOK(cols, values), ~Violates(cols, values)
    PROVE  LET read == deserialize(serialize(cols, values), cols)
           IN  read.values = values /\ read.threw = FALSE
<1>1. Len(cols) \in Nat /\ DOMAIN values = 1 .. Len(cols)
    BY RowIs
<1>2. values = [i \in 1 .. Len(cols) |-> values[i]]
    BY DEF RowOK
<1>3. SubSeq(values, 1, Len(cols)) = values
    BY <1>1, <1>2
<1>4. /\ ReadSoFar(cols, values, Len(cols)).values = values
      /\ ReadSoFar(cols, values, Len(cols)).threw = FALSE
    BY <1>3 DEF ReadSoFar
<1> QED
    BY <1>4, ReadsIs

-----------------------------------------------------------------------------
(***************************************************************************)
(* The machine.                                                            *)
(***************************************************************************)
\* Where the machine stands says what was written and what came back.
RecordInv ==
    /\ columns \in Tables /\ row \in RowsOf(columns)
    /\ \/ step = "serialize" /\ bytes = <<>>
       \/ step = "deserialize" /\ ~Violates(columns, row) /\ bytes = serialize(columns, row)
       \/ step = "done" /\ answer = row
       \/ step = "threw" /\ bytes = <<>>

LEMMA RowsFit ==
    ASSUME NEW cols \in Tables, NEW values \in RowsOf(cols)
    PROVE  RowOK(cols, values)
<1>1. /\ cols \in Seq(Columns)
      /\ values = [i \in 1 .. Len(cols) |-> values[i]]
      /\ \A i \in 1 .. Len(cols) : Fits(values[i], cols[i].type)
    BY TablesAssumption
<1> QED
    BY <1>1 DEF RowOK

LEMMA RecordInvStep == RecordInv /\ [Next]_vars => RecordInv'
<1> SUFFICES ASSUME RecordInv, [Next]_vars PROVE RecordInv'
    OBVIOUS
<1>1. CASE Serialize
    BY <1>1 DEF Serialize, RecordInv
<1>2. CASE SerializeThrows
    BY <1>2 DEF SerializeThrows, RecordInv
<1>3. CASE Deserialize
    <2>1. ~Violates(columns, row) /\ bytes = serialize(columns, row)
        BY <1>3 DEF Deserialize, RecordInv
    <2>2. RowOK(columns, row)
        BY RowsFit DEF RecordInv
    <2>3. deserialize(bytes, columns).values = row /\ deserialize(bytes, columns).threw = FALSE
        BY <2>1, <2>2, CodecRight
    <2>4. answer' = row /\ step' = "done" /\ columns' = columns /\ row' = row
        BY <1>3, <2>3 DEF Deserialize
    <2> QED
        BY <2>1, <2>4 DEF RecordInv
<1>4. CASE Finished \/ UNCHANGED vars
    BY <1>4 DEF Finished, vars, RecordInv
<1> QED
    BY <1>1, <1>2, <1>3, <1>4 DEF Next

\* Whatever the table and the row, the row that is read back is the row that
\* was written, and no read runs off the record.  Code: record.cpp:56-134.
THEOREM RowsComeBack == Spec => []RoundTrip
<1>1. Init => RecordInv
    BY DEF Init, RecordInv
<1>2. RecordInv => RoundTrip
    BY DEF RecordInv, RoundTrip
<1> QED
    BY <1>1, <1>2, RecordInvStep, PTL DEF Spec
=============================================================================
