----------------------------- MODULE FixedTables -----------------------------
(***************************************************************************)
(* The fixed-stride table formats, WDBC and WDB2 (src/wowlib/db/wdbc.cpp,  *)
(* wdb2.cpp and the record codec they share in codec_common.cpp).          *)
(*                                                                         *)
(* A file is what its header describes plus "surplus", the bytes it has    *)
(* over (or, negative, under) that; records holds the raw words of each    *)
(* inline column.  The header fields that are carried and never used are   *)
(* one value, identity.                                                    *)
(***************************************************************************)
EXTENDS TableRows

\* What a table remembers of the file it was read from (TableState).
FreshState ==
    [sourceMagic |-> "none", fieldCount |-> 0, recordSize |-> 0, strings |-> NoStrings,
     stringOffsets |-> <<>>, identity |-> 0, header |-> <<>>, index |-> <<>>, copy |-> <<>>,
     encrypted |-> <<>>, original |-> <<>>, kinds |-> <<>>, prefix |-> 0]

\* TableState::reset keeps the magic, the counts and the hashes.
Reset(state) ==
    [state EXCEPT !.strings = NoStrings, !.stringOffsets = <<>>, !.header = <<>>, !.index = <<>>,
                  !.copy = <<>>, !.encrypted = <<>>, !.original = <<>>, !.kinds = <<>>, !.prefix = 0]

\* What a write returns: a file, or an error.
Written(file) == [code |-> "ok", file |-> <<file>>]
Failed(code) == [code |-> code, file |-> <<>>]

\* What a read that stops before it changed anything leaves.
Refused(table, code) == [result |-> code, rows |-> table.rows, state |-> table.state]

\* decodeInlineRecord for one column, and the offsets it journals.
DecodeCell(col, words, strings) ==
    IF col.noninline THEN FreshCell(col)
    ELSE CASE col.type = "int" -> [e \in 1 .. col.slots |-> Fit(words[e], col.bits, col.isSigned)]
         [] col.type = "float" -> words
         [] col.type = "string" -> [e \in 1 .. col.slots |-> At(strings, words[e])]
         [] col.type = "locstring" ->
               Append([e \in 1 .. col.slots |-> At(strings, words[e])], words[col.slots + 1])
DecodeRow(schema, words, strings) ==
    [c \in DOMAIN schema |-> DecodeCell(schema[c], words[c], strings)]
Journal(schema, records) ==
    FlattenSeq([r \in DOMAIN records |->
        FlattenSeq([c \in DOMAIN schema |-> SubSeq(records[r][c], 1, StringSlots(schema[c]))])])

\* The entries of the id index a WDB2 header describes.
IndexEntries(header) == IF header.maxId # 0 THEN header.maxId - header.minId + 1 ELSE 0

\* The header checks of readWdbc and readWdb2, in their order.
HeaderVerdict(schema, file) ==
    IF file.short THEN "TableTruncated"
    ELSE IF file.recordSize # RecordStride(schema) THEN "SchemaMismatch"
    ELSE IF file.magic = "WDB2" /\ file.maxId # 0 /\ file.maxId < file.minId THEN "TableTruncated"
    ELSE IF file.surplus # 0 THEN "TableTruncated"
    ELSE "ok"

\* What the library's definitions give: columns of whole bytes.
IsColumn(col) ==
    /\ col.type \in {"int", "float", "string", "locstring"}
    /\ col.slots \in Nat /\ col.noninline \in BOOLEAN
    /\ col.type = "int" => {2^col.bits, 2^(col.bits - 1)} \subseteq Nat \ {0}
IsSchema(schema) == schema \in Seq(Range(schema)) /\ \A c \in DOMAIN schema : IsColumn(schema[c])

\* A file that was not damaged: words of their width, strings inside the block
\* (or at its leading zero byte, when it is empty), and of a WDBC file what the
\* format has.
IsWords(col, words, size) ==
    IF col.noninline THEN words = <<>>
    ELSE CASE col.type = "int" -> words \in [1 .. col.slots -> 0 .. 2^col.bits - 1]
         [] col.type = "float" -> words = [e \in 1 .. col.slots |-> words[e]]
         [] col.type = "string" -> words \in [1 .. col.slots -> 0 .. size - 1]
         [] col.type = "locstring" ->
               /\ words = [e \in 1 .. col.slots + 1 |-> words[e]]
               /\ \A e \in 1 .. col.slots : words[e] \in 0 .. size - 1
IsFixedFile(schema, file) ==
    /\ file = [magic |-> file.magic, short |-> file.short, surplus |-> file.surplus,
               minId |-> file.minId, maxId |-> file.maxId, identity |-> file.identity,
               fieldCount |-> file.fieldCount, recordSize |-> file.recordSize,
               index |-> file.index, copy |-> file.copy, strings |-> file.strings, records |-> file.records]
    /\ file.short \in BOOLEAN /\ file.minId \in Nat /\ file.maxId \in Nat /\ file.strings \in Seq(Nat)
    /\ Len(file.records) \in Nat
    /\ file.records = [r \in 1 .. Len(file.records) |-> [c \in DOMAIN schema |-> file.records[r][c]]]
    /\ \A r \in 1 .. Len(file.records), c \in DOMAIN schema :
         IsWords(schema[c], file.records[r][c], IF file.strings = <<>> THEN 1 ELSE Len(file.strings))
    /\ IF file.magic = "WDB2" THEN Len(file.index) = IndexEntries(file)
       ELSE /\ file.minId = 0 /\ file.maxId = 0 /\ file.identity = 0
            /\ file.index = <<>> /\ file.copy = <<>>

\* The identity bytes writeWdb2 starts from.
HeaderOf(file) == <<[minId |-> file.minId, maxId |-> file.maxId, identity |-> file.identity,
                     recordCount |-> Len(file.records)]>>

\* readWdbc and readWdb2: nothing of the table is touched before the last check.
DecodeFixed(schema, file, state) ==
    LET strings == ReadBlock(file.strings)
        two == file.magic = "WDB2"
    IN [result |-> "ok",
        rows |-> [r \in DOMAIN file.records |-> DecodeRow(schema, file.records[r], strings)],
        state |-> [Reset(state) EXCEPT !.sourceMagic = file.magic, !.fieldCount = file.fieldCount,
                     !.recordSize = file.recordSize, !.strings = strings,
                     !.stringOffsets = Journal(schema, file.records),
                     !.header = IF two THEN HeaderOf(file) ELSE <<>>,
                     !.index = IF two THEN file.index ELSE <<>>,
                     !.copy = IF two THEN file.copy ELSE <<>>]]
\* Mutant: the rows are cleared before the checks.
Mut_ReadFixed(info, file, table) ==
    IF HeaderVerdict(info.schema, file) # "ok"
    THEN Refused([table EXCEPT !.rows = <<>>], HeaderVerdict(info.schema, file))
    ELSE DecodeFixed(info.schema, file, table.state)
ReadFixed(info, file, table) ==
    IF HeaderVerdict(info.schema, file) # "ok"
    THEN Refused(table, HeaderVerdict(info.schema, file))
    ELSE DecodeFixed(info.schema, file, table.state)

\* encodeInlineRecord: the texts of a table in row-major order, and the words of
\* a record given the offsets its texts resolved to.
RowTexts(schema, row) == FlattenSeq([c \in DOMAIN schema |-> TextsOf(schema[c], row[c])])
Texts(schema, rows) == FlattenSeq([r \in DOMAIN rows |-> RowTexts(schema, rows[r])])
TextsUpTo(schema) ==
    LET upTo[c \in 0 .. Len(schema)] == IF c = 0 THEN 0 ELSE upTo[c - 1] + StringSlots(schema[c])
    IN  upTo
TextsBefore(schema, c) == TextsUpTo(schema)[c - 1]
TextsPerRow(schema) == TextsUpTo(schema)[Len(schema)]
EncodeCell(col, cell, offsets) ==
    IF col.noninline THEN <<>>
    ELSE CASE col.type = "int" -> [e \in 1 .. col.slots |-> Low(cell[e], col.bits)]
         [] col.type = "float" -> cell
         [] col.type = "string" -> offsets
         [] col.type = "locstring" -> Append(offsets, cell[col.slots + 1])
EncodeRow(schema, row, offsets) ==
    [c \in DOMAIN schema |->
        LET first == TextsBefore(schema, c)
        IN EncodeCell(schema[c], row[c], SubSeq(offsets, first + 1, first + StringSlots(schema[c])))]
EncodeRows(schema, rows, offsets) ==
    LET width == TextsPerRow(schema)
    IN [r \in DOMAIN rows |->
            EncodeRow(schema, rows[r], SubSeq(offsets, (r - 1) * width + 1, r * width))]

Fixed(magic, info, rows, resolved) ==
    [magic |-> magic, short |-> FALSE, surplus |-> 0, minId |-> 0, maxId |-> 0, identity |-> 0,
     fieldCount |-> FieldSlotCount(info.schema), recordSize |-> RecordStride(info.schema),
     index |-> <<>>, copy |-> <<>>, strings |-> WriteBlock(resolved.pool),
     records |-> EncodeRows(info.schema, rows, resolved.offsets)]

\* writeWdbc: the counts of the file that was read, or those of the schema.
WriteWdbc(info, rows, state, resolved) ==
    LET fresh == Fixed("WDBC", info, rows, resolved)
    IN IF state.sourceMagic = "none" THEN fresh
       ELSE [fresh EXCEPT !.fieldCount = state.fieldCount, !.recordSize = state.recordSize]

\* writeWdb2: an indexed table keeps its row count; index and copy table pass.
Wdb2Refuses(rows, state) ==
    /\ state.sourceMagic = "WDB2" /\ state.index # <<>>
    /\ Len(rows) # state.header[1].recordCount
WriteWdb2(info, rows, state, resolved) ==
    LET fresh == Fixed("WDB2", info, rows, resolved)
    IN IF state.sourceMagic # "WDB2"
       THEN [fresh EXCEPT !.identity = info.version[4], !.index = state.index, !.copy = state.copy]
       ELSE [fresh EXCEPT !.minId = state.header[1].minId, !.maxId = state.header[1].maxId,
                          !.identity = state.header[1].identity, !.fieldCount = state.fieldCount,
                          !.recordSize = state.recordSize, !.index = state.index, !.copy = state.copy,
                          !.surplus = Len(state.index) - IndexEntries(state.header[1])]
WriteFixed(magic, info, rows, state) ==
    IF magic = "WDB2" /\ Wdb2Refuses(rows, state) THEN Failed("InvalidEntityState")
    ELSE LET resolved == ResolveAll(state.strings, Texts(info.schema, rows), state.stringOffsets)
         IN Written(IF magic = "WDB2" THEN WriteWdb2(info, rows, state, resolved)
                    ELSE WriteWdbc(info, rows, state, resolved))
=============================================================================
