--------------------------- MODULE SchemaCatalog ---------------------------
(***************************************************************************)
(* The schema catalog (src/wowlib/db/schema_catalog.cpp, schema_blob.hpp)  *)
(* and the loader that builds one from a directory of WoWDBDefs            *)
(* definitions (dbd_loader.cpp): which columns a table has for a client.   *)
(*                                                                         *)
(* A definition is its paragraphs, a paragraph its lines, and a line is    *)
(* what the grammar makes of it, or "bad".  A column's name is its         *)
(* spelling with the words of its snake case; a trailing underscore is an  *)
(* empty word.  An optional value is a set of at most one.                 *)
(***************************************************************************)
EXTENDS TableRows

CONSTANTS
    NameOrder,     \* the names of files and tables, in the order of their bytes
    Identifiers,   \* the names made of letters, digits and underscores, no digit first
    EarlyLocales, LateLocales  \* language slots before and after 2.1.0.6692 (8 and 16)

\* dbdgen's era targets, in order; a mask's bits are indexes into them.
Targets ==
    << <<1, 12, 1, 5875>>, <<2, 4, 3, 8606>>, <<3, 3, 5, 12340>>, <<4, 3, 4, 15595>>, <<5, 4, 8, 18414>>,
       <<6, 2, 4, 21742>>, <<7, 3, 5, 26972>>, <<8, 3, 7, 35662>>, <<9, 2, 7, 45745>>,
       <<10, 2, 7, 55664>>, <<11, 2, 7, 65299>> >>
LocstringLangs(build) ==
    IF Older(build, <<2, 1, 0, 6692>>) THEN {EarlyLocales} ELSE IF Older(build, Cata) THEN {LateLocales} ELSE {}

\* reservedName: C++ keywords and the statics of a record.
Reserved == {<<"static", "assert">>, <<"table", "name">>} \cup {<<word>> : word \in
    {"alignas", "alignof", "and", "asm", "auto", "bool", "break", "case", "catch", "char", "class", "concept",
     "const", "consteval", "constexpr", "constinit", "continue", "decltype", "default", "delete", "do", "double",
     "else", "enum", "explicit", "export", "extern", "false", "float", "for", "friend", "goto", "if", "inline",
     "int", "long", "mutable", "namespace", "new", "noexcept", "not", "nullptr", "operator", "or", "private",
     "protected", "public", "register", "requires", "return", "short", "signed", "sizeof", "static", "struct",
     "switch", "template", "this", "throw", "true", "try", "typedef", "typeid", "typename", "union", "unsigned",
     "using", "virtual", "void", "volatile", "while", "xor", "version"}}
Escaped(words) == IF words \in Reserved THEN Append(words, "") ELSE words

\* memberName: without its "_lang", escaped, and an underscore before a digit.
MemberName(name) ==
    LET own == Escaped(IF name.marked THEN Front(name.words) ELSE name.words)
    IN IF name.digit THEN <<"">> \o own ELSE own
-----------------------------------------------------------------------------
(* The grammar: parseDbd and its lines. *)

\* parseColumnLine, over a paragraph: the first declaration of a name stays.
Columns(lines) ==
    [name \in {line.name : line \in ToSet(lines)} |->
        lines[Min({l \in DOMAIN lines : lines[l].name = name})].type]

\* parseEntry: the roles, and the optional width and length.
EntryOf(line) ==
    [name |-> line.name, isId |-> "id" \in line.annotations, isRelation |-> "relation" \in line.annotations,
     noninline |-> "noninline" \in line.annotations, bits |-> line.bits, isUnsigned |-> line.isUnsigned,
     arrayLen |-> line.arrayLen]

OfKind(lines, kind) == SelectSeq(lines, LAMBDA line : line.kind = kind)
VersionBlock(lines) ==
    LET entries == OfKind(lines, "entry") IN
    [builds |-> FlattenSeq([l \in DOMAIN OfKind(lines, "build") |-> OfKind(lines, "build")[l].ranges]),
     hasLayouts |-> OfKind(lines, "layout") # <<>>,
     entries |-> [e \in DOMAIN entries |-> EntryOf(entries[e])]]

\* A comment stands alone on its line or is the text of a COMMENT.
Parses(paragraphs) ==
    /\ paragraphs # <<>> /\ Head(paragraphs)[1].kind = "COLUMNS"
    /\ \A line \in ToSet(Tail(Head(paragraphs))) : line.kind \in {"column", "blank"}
    /\ \A lines \in ToSet(Tail(paragraphs)) :
        /\ \A line \in ToSet(lines) : line.kind \in {"layout", "build", "entry", "comment", "blank"}
        /\ VersionBlock(lines).builds # <<>> \/ VersionBlock(lines).hasLayouts
Definition(paragraphs) ==
    [columns |-> Columns(OfKind(Head(paragraphs), "column")),
     blocks |-> [b \in DOMAIN Tail(paragraphs) |-> VersionBlock(Tail(paragraphs)[b])]]

\* VersionBlock::matches, Definition::blockFor: the first that covers the build.
Matches(block, build) ==
    \E range \in ToSet(block.builds) : ~Older(build, range[1]) /\ ~Older(range[2], build)
BlockFor(def, build) ==
    LET at == {b \in DOMAIN def.blocks : Matches(def.blocks[b], build)}
    IN IF at = {} THEN {} ELSE {def.blocks[Min(at)]}
-----------------------------------------------------------------------------
(* The members of a table for one client: membersFor. *)

\* A localized column that would take a sibling's name keeps its suffix; each
\* sees the names the ones before it took.
Names(entries) ==
    FoldLeft(LAMBDA names, e :
                 IF entries[e].name.marked /\ \E o \in DOMAIN names \ {e} : names[o] = names[e]
                 THEN [names EXCEPT ![e] = Escaped(entries[e].name.words)] ELSE names,
             [e \in DOMAIN entries |-> MemberName(entries[e].name)], [e \in DOMAIN entries |-> e])

\* What the declared type, the width and the roles allow.
Resolves(entry, type) ==
    \/ entry.bits # {} /\ type = "int" /\ entry.bits \subseteq {8, 16, 32, 64}
    \/ entry.bits = {} /\ type \in {"float", "string"}
    \/ entry.bits = {} /\ type = "locstring" /\ entry.arrayLen = {}
    \/ entry.bits = {} /\ type = "int" /\ entry.noninline
Only(set, otherwise) == IF set = {} THEN otherwise ELSE CHOOSE x \in set : TRUE
Member(entry, type, name, langs) ==
    [name |-> name, dbdName |-> entry.name.text,
     type |-> IF type = "locstring" /\ langs = {} THEN "string" ELSE type,
     bits |-> Only(entry.bits, 32), isSigned |-> entry.bits # {} /\ ~entry.isUnsigned,
     arrayLen |-> Only(entry.arrayLen, 1) % 2^16,
     localeCount |-> IF type = "locstring" THEN Only(langs, 0) ELSE 0,
     isId |-> entry.isId, isRelation |-> entry.isRelation, noninline |-> entry.noninline]

MembersFor(def, block, build) ==
    LET names == Names(block.entries)
        Resolved(e) == block.entries[e].name \in DOMAIN def.columns
                           /\ Resolves(block.entries[e], def.columns[block.entries[e].name])
    IN IF IsInjective(names) /\ \A e \in DOMAIN names : Resolved(e)
       THEN {[e \in DOMAIN names |-> Member(block.entries[e], def.columns[block.entries[e].name], names[e],
                                            LocstringLangs(build))]}
       ELSE {}
-----------------------------------------------------------------------------
(* The blob: consecutive eras of one shape share a range, and the ranges and *)
(* columns of all tables lie one behind the other.                           *)

Mut_Shape(members) == [m \in DOMAIN members |-> [members[m] EXCEPT !.dbdName = "", !.localeCount = 0]]
\* Member::sameShape: all but the upstream spelling.
Shape(members) == [m \in DOMAIN members |-> [members[m] EXCEPT !.dbdName = ""]]
Collapse(ranges, era, members) ==
    IF ranges # <<>> /\ Shape(Last(ranges).members) = Shape(members)
    THEN [ranges EXCEPT ![Len(ranges)].eraMask = @ \cup {era}]
    ELSE Append(ranges, [eraMask |-> {era}, members |-> members])

\* Any error of one era drops the table.
RangesOf(def) ==
    LET eras == SelectSeq([era \in DOMAIN Targets |-> era], LAMBDA era : BlockFor(def, Targets[era]) # {})
        Of(era) == UNION {MembersFor(def, block, Targets[era]) : block \in BlockFor(def, Targets[era])}
    IN IF \E era \in ToSet(eras) : Of(era) = {} THEN <<>>
       ELSE FoldLeft(LAMBDA ranges, era : Collapse(ranges, era, Only(Of(era), <<>>)), <<>>, eras)

\* BlobWriter::addTable, finish.
EmptyBlob == [tables |-> <<>>, ranges |-> <<>>, columns |-> <<>>]
AddTable(blob, table, disk, ranges) ==
    LET FirstColumn(r) == FoldLeft(LAMBDA n, range : n + Len(range.members), Len(blob.columns), SubSeq(ranges, 1, r - 1)) IN
    [tables |-> Append(blob.tables, [name |-> table, diskName |-> disk, firstRange |-> Len(blob.ranges),
                                     rangeCount |-> Len(ranges)]),
     ranges |-> blob.ranges \o [r \in DOMAIN ranges |->
                   [firstColumn |-> FirstColumn(r), columnCount |-> Len(ranges[r].members), eraMask |-> ranges[r].eraMask]],
     columns |-> blob.columns \o FlattenSeq([r \in DOMAIN ranges |-> ranges[r].members])]
Finish(blob) == blob @@ [magic |-> "WDBS", version |-> 2, fits |-> TRUE, eras |-> Targets]

\* View::valid, _materialize: the bytes of a blob whose sections fill it exactly.
FromBlob(bytes) ==
    IF bytes.magic = "WDBS" /\ bytes.version = 2 /\ bytes.fits
    THEN [code |-> "ok", blob |-> bytes] ELSE [code |-> "SchemaBlobInvalid", blob |-> <<>>]
FromBlobFile(file) == IF file.readable THEN FromBlob(file.bytes) ELSE [code |-> "IoError", blob |-> <<>>]

\* fromDbdDir: the files that name a table, sorted by the table's name.
Rank(name) == CHOOSE i \in DOMAIN NameOrder : NameOrder[i] = name
TableOf(file) == IF file.stem = "Item-sparse" THEN "ItemSparseLegacy" ELSE file.stem
DiskName(table) == IF table = "ItemSparseLegacy" THEN "Item-sparse" ELSE table
FilesIn(dir) ==
    SortSeq(SelectSeq(dir.files, LAMBDA file : file.regular /\ file.ext = "dbd" /\ TableOf(file) \in Identifiers),
            LAMBDA a, b : Rank(TableOf(a)) < Rank(TableOf(b)))
FileRanges(file) ==
    IF file.readable /\ Parses(file.paragraphs) THEN RangesOf(Definition(file.paragraphs)) ELSE <<>>
FromDbdDir(dir) ==
    LET Added(blob, file) ==
            IF FileRanges(file) = <<>> THEN blob
            ELSE AddTable(blob, TableOf(file), DiskName(TableOf(file)), FileRanges(file))
        blob == FoldLeft(Added, EmptyBlob, FilesIn(dir))
    IN IF ~dir.readable THEN [code |-> "IoError", blob |-> <<>>]
       ELSE IF blob.tables = <<>> THEN [code |-> "SchemaBlobInvalid", blob |-> <<>>]
       ELSE FromBlob(Finish(blob))
-----------------------------------------------------------------------------
(* lookup: the table by binary search, the era by the major version, then    *)
(* the table's range whose mask has the era.                                 *)

\* The index among the tables from lo to hi - 1, counted from 0; or nothing.
FindTable(tables, name) ==
    LET Search[lo, hi \in 0 .. Len(tables)] ==
            LET mid == lo + (hi - lo) \div 2
                entry == tables[mid + 1]
            IN IF lo >= hi THEN {}
               ELSE IF entry.name = name THEN {mid}
               ELSE IF Rank(entry.name) < Rank(name) THEN Search[mid + 1, hi] ELSE Search[lo, mid]
    IN Search[0, Len(tables)]

EraIndexOf(eras, version) ==
    LET at == {era \in DOMAIN eras : eras[era][1] = version[1]}
    IN IF at = {} THEN {} ELSE {Min(at)}

\* A column as the engine sees it; a localized one has its languages as slots.
ColumnOf(member) ==
    [type |-> member.type, slots |-> IF member.type = "locstring" THEN member.localeCount ELSE member.arrayLen,
     bits |-> member.bits, isSigned |-> member.isSigned, noninline |-> member.noninline,
     isId |-> member.isId, isRelation |-> member.isRelation]

Missing(code) == [code |-> code, info |-> <<>>]
Lookup(blob, name, version) ==
    LET found == FindTable(blob.tables, name)
        era == EraIndexOf(blob.eras, version)
        Covering(table) == {r \in table.firstRange + 1 .. table.firstRange + table.rangeCount :
                                era \subseteq blob.ranges[r].eraMask}
    IN IF found = {} THEN Missing("TableUnknown")
       ELSE LET table == blob.tables[Only(found, 0) + 1] IN
            IF era = {} \/ Covering(table) = {} THEN Missing("UnsupportedClientVersion")
            ELSE LET range == blob.ranges[Min(Covering(table))] IN
                 [code |-> "ok",
                  info |-> [name |-> table.name, diskName |-> table.diskName, version |-> version,
                            schema |-> [c \in 1 .. range.columnCount |->
                                           ColumnOf(blob.columns[range.firstColumn + c])]]]

\* The catalog a caller loads, and the table it opens over it.
Catalog(source) == IF source.kind = "dbd" THEN FromDbdDir(source) ELSE FromBlobFile(source)
=============================================================================
