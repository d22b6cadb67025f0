------------------------------- MODULE Record -------------------------------
(***************************************************************************)
(* The record codec (lib/record/record.cpp) over the byte encodings        *)
(* (lib/encoding.cpp): a row becomes a header, a bitmap of its NULLs when   *)
(* the table has a nullable column, and the bytes of the other values; the *)
(* row is read back from nothing but the bytes and the table's columns.    *)
(*                                                                         *)
(* Bytes are the numbers 0 .. 255.  A value is a record whose one field    *)
(* names the alternative of record::Value it holds; a text is the sequence *)
(* of its bytes.  A number is written with its true width, but TLC counts  *)
(* with 32 bits: the Integers of an instance lie within that range.        *)
(***************************************************************************)
EXTENDS Integers, Sequences

CONSTANTS Tables,   \* the sequences of columns [type, is_nullable] to try
          RowsOf(_) \* the rows to serialize for a table

Columns == [type : {"INTEGER", "BOOLEAN", "TEXT"}, is_nullable : BOOLEAN]
Byte    == 0 .. 255

Null == [null |-> TRUE]
IsNull(v) == v = Null

\* val >> 16
Shifted(val) == val \div 65536

InInt16(n)  == -32768 <= n /\ n < 32768
InUint16(n) == 0 <= n /\ n < 65536

\* What int64_t and std::string can hold: a number whose fourth 16 bits are
\* the last, and bytes that a uint32_t can count.
Fits(v, type) ==
    \/ IsNull(v)
    \/ /\ type = "INTEGER" /\ DOMAIN v = {"int"} /\ v = [int |-> v.int]
       /\ v.int \in Int /\ InInt16(Shifted(Shifted(Shifted(v.int))))
    \/ type = "BOOLEAN" /\ v \in {[bool |-> TRUE], [bool |-> FALSE]}
    \/ /\ type = "TEXT" /\ DOMAIN v = {"text"} /\ v = [text |-> v.text]
       /\ v.text \in Seq(Byte) /\ InUint16(Shifted(Len(v.text)))

\* A row has a value of every column, and deserialize counts the columns in
\* a uint16_t.
ASSUME TablesAssumption ==
    \A cols \in Tables :
        /\ cols \in Seq(Columns) /\ Len(cols) < 65536
        /\ \A r \in RowsOf(cols) :
              /\ r = [i \in 1 .. Len(cols) |-> r[i]]
              /\ \A i \in 1 .. Len(cols) : Fits(r[i], cols[i].type)

VARIABLES columns,  \* the table's columns
          row,      \* the caller's row: a sequence of values
          bytes,    \* what serialize returned
          answer,   \* the row deserialize returned
          step      \* "serialize" -> "deserialize" -> "done", or "threw"

vars == <<columns, row, bytes, answer, step>>

-----------------------------------------------------------------------------
(* Encodings.                                                              *)

\* The bytes of val, most significant first; \div rounds down, so a negative
\* val gives its two's complement, as the cast to uint64_t does.
append_uint16(val) == <<(val \div 256) % 256, val % 256>>
append_uint32(val) == append_uint16(Shifted(val)) \o append_uint16(val)
append_uint64(val) == append_uint32(Shifted(Shifted(val))) \o append_uint32(val)

\* A read off the end of the buffer throws.
Underflows(buffer, offset, length) == offset + length > Len(buffer)

\* The number in the bytes after offset.
read_uint16(buffer, offset) == 256 * buffer[offset + 1] + buffer[offset + 2]
read_uint32(buffer, offset) ==
    65536 * read_uint16(buffer, offset) + read_uint16(buffer, offset + 2)

\* The same cast to int64_t: the first byte carries the sign.
read_int64(buffer, offset) ==
    LET sign == IF buffer[offset + 1] >= 128 THEN -1 ELSE 0
        top  == 65536 * sign + read_uint16(buffer, offset)
        mid  == 65536 * top + read_uint16(buffer, offset + 2)
        low  == 65536 * mid + read_uint16(buffer, offset + 4)
    IN  65536 * low + read_uint16(buffer, offset + 6)

-----------------------------------------------------------------------------
(* serialize.                                                              *)

\* ValueSerializer: by the alternative the value holds, not by its column.
ValueBytes(v) ==
    IF "int" \in DOMAIN v THEN append_uint64(v.int)
    ELSE IF "bool" \in DOMAIN v THEN (IF v.bool THEN <<1>> ELSE <<0>>)
    ELSE IF "text" \in DOMAIN v THEN append_uint32(Len(v.text)) \o v.text
    ELSE <<>>

\* The bytes of the first i values.
Written(values) ==
    LET w[i \in 0 .. Len(values)] == IF i = 0 THEN <<>> ELSE w[i - 1] \o ValueBytes(values[i])
    IN  w

NullBytesLength(cols) == (Len(cols) + 7) \div 8

ROW_HASNULL == 1

\* build_row_header: the flag says that the table may have NULLs, not that
\* this row has one.
RowFlags(cols) == IF \E i \in DOMAIN cols : cols[i].is_nullable THEN ROW_HASNULL ELSE 0

\* xmin, xmax, flags.
RowHeader(cols) == append_uint64(0) \o append_uint64(0) \o append_uint16(RowFlags(cols))

\* A byte with these eight bits, the lowest first.
ByteOf(bit) ==
    bit[0] + 2 * bit[1] + 4 * bit[2] + 8 * bit[3]
        + 16 * bit[4] + 32 * bit[5] + 64 * bit[6] + 128 * bit[7]

NullBit(values, i) == IF i \in DOMAIN values /\ IsNull(values[i]) THEN 1 ELSE 0

\* Mutant: columns counted from one.
NullBytes_mutant_one_based(cols, values) ==
    [k \in 1 .. NullBytesLength(cols) |->
        ByteOf([j \in 0 .. 7 |-> NullBit(values, 8 * (k - 1) + j)])]

\* set_bit of every NULL: column i, counted from 0, is bit i % 8 of byte i / 8.
NullBytes(cols, values) ==
    [k \in 1 .. NullBytesLength(cols) |->
        ByteOf([j \in 0 .. 7 |-> NullBit(values, 8 * (k - 1) + j + 1)])]

\* serialize throws at a NULL in a column that does not take one.
Violates(cols, values) ==
    \E i \in DOMAIN values : IsNull(values[i]) /\ ~cols[i].is_nullable

serialize(cols, values) ==
    RowHeader(cols)
    \o (IF RowFlags(cols) = ROW_HASNULL THEN NullBytes(cols, values) ELSE <<>>)
    \o Written(values)[Len(values)]

-----------------------------------------------------------------------------
(* deserialize.                                                            *)

BitValue == <<1, 2, 4, 8, 16, 32, 64, 128>>
is_null(bitmap, i) == (bitmap[((i - 1) \div 8) + 1] \div BitValue[((i - 1) % 8) + 1]) % 2 = 1

\* What one turn of the loop does: `read` is [offset, values, threw].
Took(read, length, v) ==
    [offset |-> read.offset + length, values |-> Append(read.values, v), threw |-> FALSE]
Threw(read) == [offset |-> read.offset, values |-> read.values, threw |-> TRUE]

ReadValue(buffer, type, read) ==
    LET length == read_uint32(buffer, read.offset)
        start  == read.offset + 4
    IN  CASE type = "BOOLEAN" ->
                IF Underflows(buffer, read.offset, 1) THEN Threw(read)
                ELSE Took(read, 1, [bool |-> buffer[read.offset + 1] # 0])
          [] type = "INTEGER" ->
                IF Underflows(buffer, read.offset, 8) THEN Threw(read)
                ELSE Took(read, 8, [int |-> read_int64(buffer, read.offset)])
          [] type = "TEXT" ->
                IF Underflows(buffer, read.offset, 4) \/ Underflows(buffer, start, length)
                THEN Threw(read)
                ELSE Took(read, 4 + length, [text |-> SubSeq(buffer, start + 1, start + length)])

Turn(buffer, cols, nulls, read, i) ==
    IF read.threw THEN read
    ELSE IF nulls /\ is_null(SubSeq(buffer, 19, Len(buffer)), i) THEN Took(read, 0, Null)
    ELSE ReadValue(buffer, cols[i].type, read)

\* The state of the loop after i columns.
Reads(buffer, cols) ==
    LET nulls == read_uint16(buffer, 16) % 2 = ROW_HASNULL
        after[i \in 0 .. Len(cols)] ==
            IF i = 0 THEN [offset |-> 18 + (IF nulls THEN NullBytesLength(cols) ELSE 0),
                           values |-> <<>>, threw |-> Underflows(buffer, 0, 18)]
            ELSE Turn(buffer, cols, nulls, after[i - 1], i)
    IN  after

deserialize(buffer, cols) == Reads(buffer, cols)[Len(cols)]

-----------------------------------------------------------------------------
(* The machine: one row out and back.                                      *)

Init ==
    /\ columns \in Tables
    /\ row \in RowsOf(columns)
    /\ bytes = <<>>
    /\ answer = <<>>
    /\ step = "serialize"

Serialize ==
    /\ step = "serialize"
    /\ ~Violates(columns, row)
    /\ bytes' = serialize(columns, row)
    /\ step' = "deserialize"
    /\ UNCHANGED <<columns, row, answer>>

SerializeThrows ==
    /\ step = "serialize"
    /\ Violates(columns, row)
    /\ step' = "threw"
    /\ UNCHANGED <<columns, row, bytes, answer>>

Deserialize ==
    /\ step = "deserialize"
    /\ \E read \in {deserialize(bytes, columns)} :
          /\ answer' = read.values
          /\ step' = IF read.threw THEN "threw" ELSE "done"
    /\ UNCHANGED <<columns, row, bytes>>

Finished == step \in {"done", "threw"} /\ UNCHANGED vars

Next == Serialize \/ SerializeThrows \/ Deserialize \/ Finished

Spec == Init /\ [][Next]_vars

-----------------------------------------------------------------------------
(* Properties.                                                             *)

\* The row deserialize returns is the row serialize was given: every value in
\* its column, NULLs where they were, numbers with their sign, texts with
\* their length, across the boundaries of the bitmap's bytes and whether or
\* not the table has a nullable column.  No read runs off the record.
\* Code: serialize and deserialize, record.cpp:56-134.
RoundTrip ==
    /\ step = "done" => answer = row
    /\ step = "threw" => bytes = <<>>
=============================================================================
