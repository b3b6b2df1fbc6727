------------------------------ MODULE TableRows ------------------------------
(***************************************************************************)
(* The rows of a client-database table: the runtime schema (db/schema.hpp),*)
(* the column store that keeps the cells (detail::ColumnRows,              *)
(* db/dyn_table.cpp; db/record_bridge.cpp is its row-store twin, move for  *)
(* move) and the checks DynTable makes before it touches a cell.           *)
(*                                                                         *)
(* A row is a sequence of cells, one per column; a cell the sequence of    *)
(* its elements.  A localized string has its language slots and then its   *)
(* flags, which is how the codecs address them.  Floats and hashes are     *)
(* opaque numbers.                                                         *)
(***************************************************************************)
EXTENDS Integers, Sequences, SequencesExt, FiniteSetsExt

\* Client versions: major, minor, patch and build, compared in that order.
Older(v, w) == \E i \in 1 .. 4 : v[i] < w[i] /\ \A j \in 1 .. i - 1 : v[j] = w[j]
Cata == <<4, 0, 0, 0>>
Legion == <<7, 0, 0, 0>>
BfA == <<8, 0, 1, 0>>

\* The stride, field and string counts a column contributes.
InlineBytes(col) ==
    IF col.noninline THEN 0
    ELSE CASE col.type = "int" -> (col.bits \div 8) * col.slots
           [] col.type \in {"float", "string"} -> 4 * col.slots
           [] col.type = "locstring" -> 4 * (col.slots + 1)
FieldSlots(col) ==
    IF col.noninline THEN 0 ELSE IF col.type = "locstring" THEN col.slots + 1 ELSE col.slots
StringSlots(col) ==
    IF ~col.noninline /\ col.type \in {"string", "locstring"} THEN col.slots ELSE 0

TotalOf(schema, Of(_)) == FoldLeft(LAMBDA n, col : n + Of(col), 0, schema)
RecordStride(schema) == TotalOf(schema, InlineBytes)
FieldSlotCount(schema) == TotalOf(schema, FieldSlots)
InlineColumns(schema) == SelectSeq([c \in DOMAIN schema |-> c], LAMBDA c : ~schema[c].noninline)
IdColumns(schema) == {c \in DOMAIN schema : schema[c].isId}
IdIsNoninline(schema) == \E c \in IdColumns(schema) : c = Min(IdColumns(schema)) /\ schema[c].noninline

\* The element's low bits, and what its width and signedness read back.
Low(value, bits) == value % 2^bits
Fit(raw, bits, isSigned) ==
    IF isSigned /\ bits > 0 /\ raw >= 2^(bits - 1) THEN raw - 2^bits ELSE raw
Truncated(col, value) == Fit(Low(value, col.bits), col.bits, col.isSigned)

\* ColumnRows::add, cloneWithId, eraseRow, idOf, findById.
FreshCell(col) ==
    IF col.type = "string" THEN [e \in 1 .. col.slots |-> <<>>]
    ELSE IF col.type = "locstring" THEN Append([e \in 1 .. col.slots |-> <<>>], 0)
    ELSE [e \in 1 .. col.slots |-> 0]
FreshRow(schema) == [c \in DOMAIN schema |-> FreshCell(schema[c])]
WithId(schema, row, id) ==
    IF IdColumns(schema) = {} THEN row
    ELSE LET c == Min(IdColumns(schema)) IN [row EXCEPT ![c][1] = Truncated(schema[c], id)]
IdOf(schema, row) ==
    IF IdColumns(schema) = {} THEN 0 ELSE row[Min(IdColumns(schema))][1]
FindById(schema, rows, id) ==
    LET at == {r \in DOMAIN rows : IdOf(schema, rows[r]) = id}
    IN IF at = {} THEN 0 ELSE Min(at)

\* DynTable::_checkCell, in its order: the bounds, the type, the element.
CheckCell(schema, rows, r, c, e, types) ==
    IF r \notin DOMAIN rows \/ c \notin DOMAIN schema THEN "OffsetOutOfBounds"
    ELSE IF schema[c].type \notin types THEN "SchemaMismatch"
    ELSE IF e \notin 1 .. schema[c].slots THEN "OffsetOutOfBounds"
    ELSE "ok"

\* What setInt, setFloat, setString and setLocstringFlags leave in the cell.
Stored(col, value) == IF col.type = "int" THEN Truncated(col, value) ELSE value

\* TableCore::validate: an embedded zero byte, a repeated id.
TextsOf(col, cell) == SubSeq(cell, 1, StringSlots(col))
EmbeddedNul(schema, rows) ==
    \E r \in DOMAIN rows, c \in DOMAIN schema :
        \E e \in 1 .. StringSlots(schema[c]) : \E p \in DOMAIN rows[r][c][e] : rows[r][c][e][p] = 0
RepeatedId(schema, rows) ==
    /\ IdColumns(schema) # {}
    /\ \E r, s \in DOMAIN rows : r # s /\ IdOf(schema, rows[r]) = IdOf(schema, rows[s])

---------------------------------------------------------------------------
(* formats::StringBlock, the blob of zero-terminated strings that tables    *)
(* and chunks point into by byte offset, and the StringPool the WDBC and    *)
(* WDB2 writers resolve values with (src/wowlib/formats/common/             *)
(* string_block.hpp, src/wowlib/db/codec_common.cpp).  A text is a sequence *)
(* of non-zero bytes, a blob a sequence of bytes.  A pool's lookup table    *)
(* always is "the first entry that holds the value", so the pool is         *)
(* represented by its block alone.                                          *)

NUL == 0

NoStrings == [entries |-> <<>>, size |-> 0]

\* Every block: the entries lie in it, each behind the one before.
IsBlock(block) ==
    /\ block \in [entries : Seq([offset : Nat, value : Seq(Nat)]), size : Nat]
    /\ \A i \in DOMAIN block.entries : block.entries[i].offset < block.size
    /\ \A i, j \in DOMAIN block.entries : i < j => block.entries[i].offset < block.entries[j].offset

\* Where a run of non-zero bytes begins and ends.
RunStarts(bytes) ==
    {p \in DOMAIN bytes : bytes[p] # NUL /\ (p = 1 \/ bytes[p - 1] = NUL)}
RunFrom(bytes, p) ==
    SubSeq(bytes, p, Max({e \in p .. Len(bytes) : \A q \in p .. e : bytes[q] # NUL}))

\* StringBlock::read: every run of non-zero bytes is an entry at its offset; the
\* runs that begin up to each of the bytes.
RunsUpTo(bytes) ==
    LET upTo[p \in 0 .. Len(bytes)] ==
            IF p = 0 THEN <<>>
            ELSE IF p \in RunStarts(bytes)
            THEN Append(upTo[p - 1], [offset |-> p - 1, value |-> RunFrom(bytes, p)])
            ELSE upTo[p - 1]
    IN  upTo
ReadBlock(bytes) == [entries |-> RunsUpTo(bytes)[Len(bytes)], size |-> Len(bytes)]

\* StringBlock::write: size zero bytes, with the entries laid over them.
LaidOver(block, p) ==
    {i \in DOMAIN block.entries :
        p - 1 - block.entries[i].offset \in 0 .. Len(block.entries[i].value) - 1}
WriteBlock(block) ==
    [p \in 1 .. block.size |->
        IF LaidOver(block, p) = {} THEN NUL
        ELSE LET e == block.entries[Max(LaidOver(block, p))]
             IN e.value[p - e.offset]]

\* StringBlock::at: the entry that starts at or before the offset, from there.
AtOrBefore(block, offset) ==
    {i \in DOMAIN block.entries : block.entries[i].offset <= offset}
At(block, offset) ==
    IF AtOrBefore(block, offset) = {} THEN <<>>
    ELSE LET e == block.entries[Max(AtOrBefore(block, offset))]
         IN SubSeq(e.value, offset - e.offset + 1, Len(e.value))

\* StringBlock::add: the text goes behind everything, with a terminator.
Add(block, text) ==
    [entries |-> Append(block.entries, [offset |-> block.size, value |-> text]),
     size |-> block.size + Len(text) + 1]

\* StringPool's constructor: a block without bytes gets the leading zero byte.
Mut_Pool(block) == Add(NoStrings, <<>>)
Pool(block) == IF block.size = 0 THEN Add(block, <<>>) ELSE block

Holding(block, text) == {i \in DOMAIN block.entries : block.entries[i].value = text}

\* Mutants: the offset the record had is not tried, or is not compared.
Mut_ResolveAnew(pool, text, slot, journal) ==
    IF Holding(pool, text) # {}
    THEN [pool |-> pool, offset |-> pool.entries[Min(Holding(pool, text))].offset]
    ELSE [pool |-> Add(pool, text), offset |-> pool.size]
Mut_ResolveStale(pool, text, slot, journal) ==
    IF slot \in DOMAIN journal /\ At(pool, journal[slot]) # <<>>
    THEN [pool |-> pool, offset |-> journal[slot]]
    ELSE Mut_ResolveAnew(pool, text, slot, journal)

\* StringPool::resolve: the offset the record had, if that still reads as the
\* value, or an entry that holds it, or a new one.
Resolve(pool, text, slot, journal) ==
    IF slot \in DOMAIN journal /\ At(pool, journal[slot]) = text
    THEN [pool |-> pool, offset |-> journal[slot]]
    ELSE IF Holding(pool, text) # {}
    THEN [pool |-> pool, offset |-> pool.entries[Min(Holding(pool, text))].offset]
    ELSE [pool |-> Add(pool, text), offset |-> pool.size]

\* All the texts of a table in row-major order through one pool.
Extend(done, text, journal) ==
    LET r == Resolve(done.pool, text, Len(done.offsets) + 1, journal)
    IN [pool |-> r.pool, offsets |-> Append(done.offsets, r.offset)]
Resolutions(block, texts, journal) ==
    LET after[k \in 0 .. Len(texts)] ==
            IF k = 0 THEN [pool |-> Pool(block), offsets |-> <<>>]
            ELSE Extend(after[k - 1], texts[k], journal)
    IN  after
ResolveAll(block, texts, journal) == Resolutions(block, texts, journal)[Len(texts)]
=============================================================================
