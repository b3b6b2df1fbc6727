------------------------------- MODULE Tables -------------------------------
(***************************************************************************)
(* One client-database table in the hands of a caller: TableCore's read,   *)
(* write and validate over a DynTable's rows (src/wowlib/db/table_core.cpp,*)
(* dyn_table.cpp).  The caller opens a table over a schema catalog, reads  *)
(* files, appends, erases and edits rows, writes, and may read what it     *)
(* wrote.                                                                  *)
(***************************************************************************)
EXTENDS WdcImages, SchemaCatalog

CONSTANTS
    Sources,    \* the directories and blob files a caller may take its catalog from
    Asked,      \* the names and versions it may open
    FilesOf,    \* name -> the files it may be given
    IdsOf, IntsOf, TextsFor,  \* name -> ids, numbers and texts a caller sets
    MaxRows,    \* bound on the rows a caller makes
    MaxEdits,   \* name -> bound on the edits since a given file was read
    MaxBlock    \* bound on the string block of a written file read again

VARIABLES
    info,       \* the table class the caller opened
    rows,       \* the records
    state,      \* TableState
    returned,   \* what the last call returned: a code, and a file from write
    source      \* history: the file last read into the table, whether the rows
                \* were left alone since, and how many edits were made
vars == <<info, rows, state, returned, source>>

schema == info.schema
Said(code) == [code |-> code, file |-> <<>>]
NoSource == [file |-> <<>>, pristine |-> FALSE, edits |-> 0]

\* A caller that has opened no table.
NoTable == [name |-> "none", diskName |-> "none", version |-> <<0, 0, 0, 0>>, schema |-> <<>>]
Init ==
    /\ info = NoTable
    /\ rows = <<>> /\ state = FreshState
    /\ returned = Said("ok") /\ source = NoSource

\* DynTable::open: the table the catalog resolves, empty, or the error.
Resolved(from, name, version) ==
    LET catalog == Catalog(from)
    IN  IF catalog.code = "ok" THEN Lookup(catalog.blob, name, version) ELSE Missing(catalog.code)
Open(from, name, version) ==
    /\ info = NoTable
    /\ \E found \in {Resolved(from, name, version)} :
        /\ returned' = Said(found.code)
        /\ info' = IF found.code = "ok" THEN found.info ELSE info
    /\ UNCHANGED <<rows, state, source>>

\* What can be opened has columns of whole bytes, the files of a WDBC or WDB2
\* table whose header is accepted are not damaged, and callers set numbers and texts.
IsTable(inf) ==
    /\ inf # NoTable /\ IsSchema(inf.schema)
    /\ IdsOf[inf.name] \subseteq Int /\ IntsOf[inf.name] \subseteq Int
    /\ TextsFor[inf.name] \subseteq Seq(Nat)
    /\ \A file \in FilesOf[inf.name] :
         file.magic \in {"WDBC", "WDB2"} /\ HeaderVerdict(inf.schema, file) = "ok" =>
             IsFixedFile(inf.schema, file)
ASSUME TablesAssumption ==
    \A from \in Sources, asked \in Asked : \A found \in {Resolved(from, asked[1], asked[2])} :
        found.code = "ok" => IsTable(found.info)

\* TableCore::read(data): by the magic.
ReadTable(inf, file, table) ==
    CASE file.magic \in {"WDBC", "WDB2"} -> ReadFixed(inf, file, table)
      [] file.magic \in WdcMagics -> ReadWdc(inf, file, table)
      [] file.magic = "none" -> Refused(table, "TableTruncated")
      [] OTHER -> Refused(table, "TableMagicUnknown")
Took(file, out, edits) ==
    /\ rows' = out.rows /\ state' = out.state
    /\ returned' = Said(out.result)
    /\ source' = IF out.result = "ok" THEN [file |-> <<file>>, pristine |-> TRUE, edits |-> edits]
                 ELSE IF out.rows = rows /\ out.state = state THEN source ELSE NoSource
    /\ UNCHANGED info
Read(file, edits) ==
    \E out \in {ReadTable(info, file, [rows |-> rows, state |-> state])} : Took(file, out, edits)
ReadGiven == info # NoTable /\ \E file \in FilesOf[info.name] : Read(file, 0)
BlockOf(file) ==
    IF file.magic \in WdcMagics THEN Len(file.sections[1].strings) ELSE Len(file.strings)
ReadBack == \E file \in ToSet(returned.file) : BlockOf(file) <= MaxBlock /\ Read(file, source.edits)

\* DynTable's edits.
Edited(new, code) ==
    /\ rows' = new /\ returned' = Said(code)
    /\ info # NoTable /\ source.edits < MaxEdits[info.name]
    /\ source' = IF code = "ok" THEN [source EXCEPT !.pristine = FALSE, !.edits = @ + 1] ELSE source
    /\ UNCHANGED <<info, state>>
AppendRow == Len(rows) < MaxRows /\ Edited(Append(rows, FreshRow(schema)), "ok")
EraseRow(r) ==
    IF r \in DOMAIN rows THEN Edited(RemoveAt(rows, r), "ok") ELSE Edited(rows, "OffsetOutOfBounds")
ClearRows == Edited(<<>>, "ok")
SetCell(r, c, e, value, types) ==
    LET code == CheckCell(schema, rows, r, c, e, types)
    IN Edited(IF code = "ok" THEN [rows EXCEPT ![r][c][e] = Stored(schema[c], value)] ELSE rows, code)
SetInt(r, c, e) ==
    \E v \in IF schema[c].isId THEN IdsOf[info.name] ELSE IntsOf[info.name] : SetCell(r, c, e, v, {"int"})
SetFloat(r, c, e) == \E v \in IntsOf[info.name] : SetCell(r, c, e, v, {"float"})
SetString(r, c, e) == \E t \in TextsFor[info.name] : SetCell(r, c, e, t, {"string", "locstring"})
SetLocstringFlags(r, c, v) ==
    LET code == CheckCell(schema, rows, r, c, 1, {"locstring"})
    IN Edited(IF code = "ok" THEN [rows EXCEPT ![r][c][schema[c].slots + 1] = v] ELSE rows, code)

\* TableCore::_db2MagicForVersion, _freshMagic: a path's extension decides, then
\* the client's version.
Db2Magic(version) ==
    IF Older(version, Legion) THEN "WDB2"
    ELSE IF Older(version, BfA) THEN "WDC1"
    ELSE IF Older(version, <<10, 1, 0, 48480>>) THEN "WDC3"
    ELSE IF Older(version, <<10, 2, 5, 52432>>) THEN "WDC4" ELSE "WDC5"
FreshMagic(inf, ext) ==
    IF ext = "dbc" THEN "WDBC"
    ELSE IF Older(inf.version, Cata) THEN IF ext = "db2" THEN "NotSupported" ELSE "WDBC"
    ELSE Db2Magic(inf.version)

\* TableCore::write: in the format that was read, whatever the path says.
WriteAs(magic, inf, rs, st, policy) ==
    IF magic = "NotSupported" THEN Failed(magic)
    ELSE IF magic \in WdcMagics THEN WriteWdc(magic, inf, rs, st, policy)
    ELSE WriteFixed(magic, inf, rs, st)
Write(policy, ext) ==
    /\ info # NoTable
    /\ returned' = WriteAs(IF state.sourceMagic # "none" THEN state.sourceMagic ELSE FreshMagic(info, ext),
                           info, rows, state, policy)
    /\ UNCHANGED <<info, rows, state, source>>

Rows == 1 .. Len(rows) + 1
Next ==
    \/ \E from \in Sources, asked \in Asked : Open(from, asked[1], asked[2])
    \/ ReadGiven
    \/ ReadBack
    \/ AppendRow
    \/ \E r \in Rows : EraseRow(r)
    \/ ClearRows
    \/ \E r \in Rows, c \in DOMAIN schema : \E e \in 1 .. schema[c].slots : SetInt(r, c, e)
    \/ \E r \in Rows, c \in DOMAIN schema : \E e \in 1 .. schema[c].slots : SetFloat(r, c, e)
    \/ \E r \in Rows, c \in DOMAIN schema : \E e \in 1 .. schema[c].slots : SetString(r, c, e)
    \/ \E r \in Rows, c \in DOMAIN schema, v \in {0, 1} : SetLocstringFlags(r, c, v)
    \/ \E policy \in {"Preserve", "Drop"}, ext \in {"none", "dbc", "db2"} : Write(policy, ext)
Spec == Init /\ [][Next]_vars
-----------------------------------------------------------------------------
CellOK(col, cell) ==
    /\ Len(cell) = IF col.type = "locstring" THEN col.slots + 1 ELSE col.slots
    /\ col.type = "int" => \A e \in DOMAIN cell : Truncated(col, cell[e]) = cell[e]

\* Every row has one cell per column, every cell its elements, and every number
\* fits the width of its column; the strings lie one behind the other.
TblTypeOK ==
    /\ info = NoTable => rows = <<>>
    /\ \A r \in DOMAIN rows :
        /\ DOMAIN rows[r] = DOMAIN schema
        /\ \A c \in DOMAIN schema : CellOK(schema[c], rows[r][c])
    /\ IsBlock(state.strings)
    /\ source.file = <<>> => ~source.pristine

\* What a read of the returned file gives a fresh table.
Reread(file) == ReadTable(info, file, [rows |-> <<>>, state |-> FreshState])
Packed(file) == file.magic \in WdcMagics

\* docs/content/python/db/index.md:68: a WDBC or WDB2 table nobody edited writes
\* back the identical file, whatever its string block looks like; only an empty
\* one is written a byte longer.
UnmodifiedIsVerbatim ==
    \A file \in ToSet(returned.file) :
        source.pristine /\ ~Packed(file) /\ source.file[1].strings # <<>> => file = source.file[1]

\* A written WDBC or WDB2 file reads back as the rows it was written from, after
\* any sequence of edits, though the journal of string offsets still describes
\* the rows as they were read.  validate() finds the texts this excludes, and
\* the block that was read must end in its terminator.  A column kept outside the
\* record has no place in these formats: a table of a later client that is written
\* to a path ending in .dbc loses its ids and relations.
Terminated(block) == block.size = 0 \/ WriteBlock(block)[block.size] = NUL
SavedReadsBack ==
    \A file \in ToSet(returned.file) :
        ~Packed(file) /\ ~EmbeddedNul(schema, rows) /\ Terminated(state.strings)
            /\ (\A c \in DOMAIN schema : ~schema[c].noninline) =>
            \A again \in {Reread(file)} : again.result = "ok" /\ again.rows = rows

\* string_block.hpp:28: adding appends, and existing offsets never move: every
\* offset into the block that was read names the same text in the file written.
OffsetsNeverMove ==
    \A file \in ToSet(returned.file) :
        ~Packed(file) /\ Terminated(state.strings) =>
            \A now \in {ReadBlock(file.strings)} :
                \A offset \in 0 .. state.strings.size - 1 : At(now, offset) = At(state.strings, offset)

\* A call that fails has changed nothing of the table, rows or state, so a later
\* write gives the same file; the one exception is a WDC section that does not
\* decode (read.cpp:390 clears the table before its sections).
FailedCallChangesNothing ==
    [][returned'.code # "ok" => UNCHANGED <<rows, state>> \/ state'.sourceMagic \in WdcMagics]_vars

\* docs/content/python/db/index.md:71: a WDC table that has keys, and passes
\* validate(), is re-read to equal rows; only the copies may change their place.
HasKeys == IdColumns(schema) # {}
SameRecords(a, b) ==
    /\ Len(a) = Len(b)
    /\ \A x \in ToSet(a) : Cardinality({r \in DOMAIN a : a[r] = x}) = Cardinality({r \in DOMAIN b : b[r] = x})
ReadsAsWritten(file) ==
    \A again \in {Reread(file)} :
        /\ again.result = "ok" /\ again.state.encrypted = <<>>
        /\ SameRecords(again.rows, rows)
Plain(file) == Packed(file) /\ file \notin ToSet(state.original)
PackedReadsBack ==
    \A file \in ToSet(returned.file) :
        Plain(file) /\ HasKeys /\ ~EmbeddedNul(schema, rows) /\ ~RepeatedId(schema, rows) =>
            ReadsAsWritten(file)

\* docs/content/python/db/index.md:74: a single-section table keeps its order,
\* as long as no two rows differ in their id only, which of a table without ids
\* means that no two are equal: the writer would make a copy by id of one
\* (write.cpp:226), and rows that were never written would be read.
PackedKeepsOrder ==
    \A file \in ToSet(returned.file) :
        Plain(file) /\ ~EmbeddedNul(schema, rows) /\ ~RepeatedId(schema, rows)
            /\ (\A r \in DOMAIN rows : FirstLike(schema, rows, r) = r) =>
            Reread(file).rows = rows

\* Both: the records, and their order where nothing is folded into copies.
PackedReadsBackInOrder == PackedReadsBack /\ PackedKeepsOrder

\* table.hpp:20: encrypted bytes always pass through: what a table keeps to
\* write under Preserve is the very file it was last read from, whole, and never
\* one an earlier read left behind; and it keeps it whenever a section of the
\* last file stayed encrypted.
EncryptedPassesThrough ==
    /\ source.file # <<>> => (state.encrypted # <<>> <=> state.original = source.file)
    /\ state.original # <<>> => state.original = source.file

\* The header a WDB2 writer starts from is there, whatever was read in between.
HeaderIsKept == state.sourceMagic = "WDB2" => state.header # <<>>

\* What the definitions of a directory say, era by era, of the tables that
\* resolve in all of theirs.
ColumnsFor(file, era) ==
    {[m \in DOMAIN members |-> ColumnOf(members[m])] :
        members \in UNION {MembersFor(Definition(file.paragraphs), block, Targets[era]) :
                              block \in BlockFor(Definition(file.paragraphs), Targets[era])}}
Definitions(from) ==
    UNION {[name : {TableOf(file)}, diskName : {file.stem}, version : {Targets[era]}, schema : ColumnsFor(file, era)] :
              file \in {f \in ToSet(FilesIn(from)) : FileRanges(f) # <<>>}, era \in DOMAIN Targets}
Defined == UNION {Definitions(from) : from \in {f \in Sources : f.kind = "dbd" /\ f.readable}}
AllResolve ==
    \A from \in Sources : from.kind = "dbd" /\ from.readable => \A catalog \in {FromDbdDir(from)} :
        \A table \in Definitions(from) : Lookup(catalog.blob, table.name, table.version).info = table

\* schema_catalog.hpp:81: a table opens with the columns its own definition has
\* for the build of the caller's era, though the catalog keeps one range for
\* eras that agree and one list of columns for all of its tables; and every
\* table a definition gives resolves by its name in each of its eras.
OpensAsDefined ==
    /\ info # NoTable => \E table \in Defined :
        [info EXCEPT !.version = table.version] = table /\ table.version[1] = info.version[1]
    /\ AllResolve

\* The types of the rows, the file kept for its encrypted sections, the header
\* kept for the writer, and the columns of the table.
TblInv == TblTypeOK /\ EncryptedPassesThrough /\ HeaderIsKept /\ OpensAsDefined
=============================================================================
