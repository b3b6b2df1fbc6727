------------------------------ MODULE WdcImages ------------------------------
(***************************************************************************)
(* Reading the WDC family (src/wowlib/db/wdc/image.cpp and read.cpp): WDC1,*)
(* WDC3, WDC4 and WDC5 are parsed onto one image and decoded by sections   *)
(* that are fixed-stride or sparse, encrypted or not, with an id list, a   *)
(* copy table and a relationship map.                                      *)
(*                                                                         *)
(* A record is the raw bits of each inline field; where the fields lie in  *)
(* it matters for the string references only, which are distances between  *)
(* byte positions.  A 32-bit pallet or common slot is the number itself.   *)
(* Widths up to 16 bits are modelled as they are.                          *)
(*                                                                         *)
(* Writing it (write.cpp): the encoder plans how each inline column is     *)
(* stored, folds duplicate rows into a copy table, derives common data and *)
(* pallets, packs the records and frames one section of the flavor asked.  *)
(***************************************************************************)
EXTENDS FixedTables

WdcMagics == {"WDC1", "WDC3", "WDC4", "WDC5"}
Absent == [fits |-> TRUE, cells |-> <<>>]    \* an id the dense map has no record for

\* _parseWdc1: one section that is never encrypted, the signed kind spelled as a
\* flag, and a dense offset map whose absent ids are dropped.
Present(map) == SelectSeq([i \in DOMAIN map |-> i], LAMBDA i : map[i] # Absent)
Parse1(file) ==
    LET sec == file.sections[1]
    IN [file EXCEPT
          !.storage = [f \in DOMAIN file.storage |->
              IF file.storage[f].type = "bitpacked" /\ file.storage[f].val3 = 1
              THEN [file.storage[f] EXCEPT !.type = "signed"] ELSE file.storage[f]],
          !.sections = <<[sec EXCEPT !.key = 0, !.statusIds = <<>>,
              !.map = [i \in DOMAIN Present(sec.map) |-> sec.map[Present(sec.map)[i]]],
              !.mapIds = [i \in DOMAIN Present(sec.map) |-> file.minId + Present(sec.map)[i] - 1]]>>]

\* _parseWdc3: WDC4 and WDC5 list the ids of a section that has a key.
Parse3(file) ==
    [file EXCEPT !.sections = [s \in DOMAIN file.sections |->
        IF file.magic = "WDC3" \/ file.sections[s].key = 0
        THEN [file.sections[s] EXCEPT !.statusIds = <<>>] ELSE file.sections[s]]]
Parse(file) == IF file.magic = "WDC1" THEN Parse1(file) ELSE Parse3(file)

\* fieldAdditionalOffsets: where a field's pallet slots or common entries begin.
IsPallet(type) == type \in {"pallet", "palletArray"}
Before(img, f, Kind(_)) ==
    FoldLeft(LAMBDA n, st : IF Kind(st.type) THEN n + st.extra ELSE n, 0, SubSeq(img.storage, 1, f - 1))
AdditionalOffset(img, f) ==
    IF IsPallet(img.storage[f].type) THEN Before(img, f, IsPallet)
    ELSE Before(img, f, LAMBDA type : type = "common")

ElemBits(img, f, count) ==
    IF img.storage[f].type \in {"none", "bitpacked", "signed"} THEN img.storage[f].size \div count ELSE 32

\* _palletValue and _commonValue, a binary search of entries sorted by id.
PalletValue(img, at) == IF at + 1 \in DOMAIN img.pallet THEN img.pallet[at + 1] ELSE 0
CommonValue(entries, id, fallback) ==
    LET found[span \in (0 .. Len(entries)) \X (0 .. Len(entries))] ==
          LET mid == (span[1] + span[2]) \div 2
              at == entries[mid + 1]
          IN IF span[1] >= span[2] THEN fallback
             ELSE IF at[1] = id THEN at[2]
             ELSE IF at[1] < id THEN found[<<mid + 1, span[2]>>] ELSE found[<<span[1], mid>>]
    IN found[<<0, Len(entries)>>]

\* fieldRaw: element e of field f of a record.
FieldRaw(img, f, e, count, record, id) ==
    LET st == img.storage[f]
        base == AdditionalOffset(img, f)
    IN CASE st.type = "pallet" -> PalletValue(img, base + record[f][1])
         [] st.type = "palletArray" -> PalletValue(img, base + record[f][1] * count + e - 1)
         [] st.type = "common" ->
              CommonValue(SubSeq(img.common, base + 1, base + st.extra), id, st.val1)
         [] OTHER -> record[f][e]

\* readCString: the bytes up to a zero byte or the end of the block.
TextAt(bytes, at) ==
    LET zeros == {p \in at + 1 .. Len(bytes) : bytes[p] = NUL}
    IN SubSeq(bytes, at + 1, IF zeros = {} THEN Len(bytes) ELSE Min(zeros) - 1)

\* Bytes of records, and of strings, in the sections before section s: the
\* client lays out all records first and then all string blocks.
RecordsBefore(img, s) ==
    FoldLeft(LAMBDA n, sec : n + Len(sec.records) * img.recordSize, 0, SubSeq(img.sections, 1, s - 1))
StringsBefore(img, s) ==
    FoldLeft(LAMBDA n, sec : n + Len(sec.strings), 0, SubSeq(img.sections, 1, s - 1))

\* _resolveString: an offset into the one block, or a distance from the field.
BlockText(img, target) ==
    LET holding == {s \in DOMAIN img.sections :
                        target - StringsBefore(img, s) \in 0 .. Len(img.sections[s].strings) - 1}
    IN IF target < 0 \/ holding = {} THEN <<>>
       ELSE LET s == Min(holding) IN TextAt(img.sections[s].strings, target - StringsBefore(img, s))
ResolveString(img, position, raw) ==
    IF img.magic = "WDC1" THEN BlockText(img, raw)
    ELSE BlockText(img, position + raw - RecordsBefore(img, Len(img.sections) + 1))

\* decodeInlineElement for the elements of one column, the field f.
DecodeField(img, col, f, record, position, id) ==
    [e \in 1 .. col.slots |->
        LET raw == FieldRaw(img, f, e, col.slots, record, id)
        IN CASE col.type = "int" ->
                  IF ElemBits(img, f, col.slots) = 32 THEN raw
                  ELSE Fit(raw, ElemBits(img, f, col.slots), col.isSigned \/ img.storage[f].type = "signed")
             [] col.type = "float" -> raw
             [] col.type = "string" ->
                  ResolveString(img, position + img.storage[f].offset \div 8 + 4 * (e - 1), raw)]

\* _recordId: from the id list, or the field the header names.
RecordId(img, sec, r) ==
    IF img.noninlineId THEN IF r \in DOMAIN sec.idList THEN sec.idList[r] ELSE 0
    ELSE FieldRaw(img, img.idIndex, 1, 1, sec.records[r], 0)

\* _decodeRecord: the inline fields in order, and an id kept outside the record.
FieldOf(schema, c) == Len(InlineColumns(SubSeq(schema, 1, c)))
DecodeRecord(img, schema, s, r, id) ==
    [c \in DOMAIN schema |->
        IF ~schema[c].noninline
        THEN LET cell == DecodeField(img, schema[c], FieldOf(schema, c), img.sections[s].records[r],
                                     RecordsBefore(img, s) + (r - 1) * img.recordSize, id)
             IN IF schema[c].type = "int" THEN [e \in DOMAIN cell |-> Truncated(schema[c], cell[e])] ELSE cell
        ELSE IF schema[c].isId THEN <<Truncated(schema[c], id)>> ELSE FreshCell(schema[c])]
FixedRows(img, schema, s) ==
    [r \in DOMAIN img.sections[s].records |->
        DecodeRecord(img, schema, s, r, RecordId(img, img.sections[s], r))]

\* _decodeSparseSection: record by record until one overruns the file; the
\* records before it have been added by then.
SparseRow(schema, entry, id) ==
    [c \in DOMAIN schema |->
        IF ~schema[c].noninline THEN entry.cells[c]
        ELSE IF schema[c].isId THEN <<Truncated(schema[c], id)>> ELSE FreshCell(schema[c])]
Overruns(sec) == {i \in DOMAIN sec.map : ~sec.map[i].fits}
SparseRows(schema, sec) ==
    [i \in 1 .. (IF Overruns(sec) = {} THEN Len(sec.map) ELSE Min(Overruns(sec)) - 1) |->
        SparseRow(schema, sec.map[i], IF i \in DOMAIN sec.mapIds THEN sec.mapIds[i] ELSE 0)]

\* applyRelationship: by the record's place in its section, or by its id.
RelationColumns(schema) == {c \in DOMAIN schema : schema[c].isRelation /\ schema[c].noninline}
Relate(img, schema, first, rows, entry) ==
    LET byId == img.magic \in {"WDC4", "WDC5"} /\ img.secondary
        at == IF byId THEN FindById(schema, rows, entry[2]) ELSE first + entry[2] + 1
        c == Max(RelationColumns(schema))
    IN IF at \in DOMAIN rows THEN [rows EXCEPT ![at][c][1] = Truncated(schema[c], entry[1])] ELSE rows
ApplyRelationship(img, schema, sec, first, rows) ==
    IF RelationColumns(schema) = {} THEN rows
    ELSE FoldLeft(LAMBDA done, entry : Relate(img, schema, first, done, entry), rows, sec.relation)

\* expandCopies: each entry clones the first row that has its source id.
Copy(schema, rows, entry) ==
    LET src == FindById(schema, rows, entry[2])
    IN IF src = 0 THEN rows ELSE Append(rows, WithId(schema, rows[src], entry[1]))
ExpandCopies(schema, sec, rows) == FoldLeft(LAMBDA done, entry : Copy(schema, done, entry), rows, sec.copies)

\* Decoder::run: the sections in order, until one does not decode.
Undecryptable(sec) == sec.key # 0 /\ sec.zero
ReportEncrypted(sec) ==
    [key |-> sec.key, ids |-> IF sec.statusIds # <<>> THEN sec.statusIds ELSE sec.idList]
DecodeSection(img, schema, s, done) ==
    LET sec == img.sections[s]
    IN IF done.result # "ok" THEN done
       ELSE IF Undecryptable(sec) THEN [done EXCEPT !.encrypted = Append(@, ReportEncrypted(sec))]
       ELSE IF img.sparse /\ Overruns(sec) # {}
       THEN [done EXCEPT !.result = "TableTruncated", !.rows = @ \o SparseRows(schema, sec)]
       ELSE [done EXCEPT !.rows =
               ExpandCopies(schema, sec,
                 ApplyRelationship(img, schema, sec, Len(done.rows),
                   done.rows \o IF img.sparse THEN SparseRows(schema, sec) ELSE FixedRows(img, schema, s)))]
Decode(img, schema) ==
    FoldLeft(LAMBDA done, s : DecodeSection(img, schema, s, done),
             [result |-> "ok", rows |-> <<>>, encrypted |-> <<>>], [s \in DOMAIN img.sections |-> s])

\* readWdc: the table is cleared, and its magic set, before the sections decode;
\* the bytes are kept when something in them stayed encrypted.
\* Mutant: the file kept for an earlier read is not given up.
Mut_WdcState(state, file, img, done) ==
    [state EXCEPT !.sourceMagic = file.magic, !.encrypted = done.encrypted,
        !.original = IF done.result = "ok" /\ done.encrypted # <<>> THEN <<file>> ELSE @]
WdcState(state, file, img, done) ==
    [Reset(state) EXCEPT !.sourceMagic = file.magic, !.identity = file.identity,
        !.kinds = [f \in DOMAIN img.storage |-> img.storage[f].type],
        !.prefix = IF file.magic = "WDC5" THEN file.prefix ELSE 0,
        !.encrypted = done.encrypted,
        !.original = IF done.result = "ok" /\ done.encrypted # <<>> THEN <<file>> ELSE <<>>]
Decoded(file, table, img, done) ==
    [result |-> done.result, rows |-> done.rows, state |-> WdcState(table.state, file, img, done)]
ReadWdc(info, file, table) ==
    IF Older(info.version, Cata) THEN Refused(table, "TableMagicUnknown")
    ELSE IF file.short THEN Refused(table, "TableTruncated")
    ELSE IF file.fieldCount # Len(InlineColumns(info.schema)) THEN Refused(table, "SchemaMismatch")
    ELSE Decoded(file, table, Parse(file), Decode(Parse(file), info.schema))

---------------------------------------------------------------------------
(* Writing.                                                                *)

CONSTANT CopyEntryBytes     \* narrower records are never folded into copies

\* unsignedWidth, signedWidth: the bits a value, or a range, needs, at least one.
UnsignedWidth(n) == Min({w \in 1 .. 30 : n < 2^w})
SignedWidth(lo, hi) == Min({w \in 1 .. 30 : lo >= -(2^(w - 1)) /\ hi <= 2^(w - 1) - 1})

\* The values of a column over every row; the range of the plan starts at zero.
ValuesOf(rows, c) == {0} \cup UNION {{rows[r][c][e] : e \in DOMAIN rows[r][c]} : r \in DOMAIN rows}

\* _planFields: pallet and common columns stay what they were in the file that
\* was read, integers are packed, the rest takes 32 bits.
StorageOf(col, kind) ==
    IF col.type \in {"int", "float"} /\ col.slots = 1 /\ kind = "common" THEN "common"
    ELSE IF col.type \in {"int", "float"} /\ IsPallet(kind)
    THEN IF col.slots > 1 THEN "palletArray" ELSE "pallet"
    ELSE IF col.type # "int" THEN "none"
    ELSE IF col.isSigned THEN "signed" ELSE "bitpacked"
\* Mutant: the width of the largest value only.
Mut_PackedBits(col, values) == Min({col.bits, UnsignedWidth(Max(values))})
PackedBits(col, values) ==
    Min({col.bits, IF col.isSigned THEN SignedWidth(Min(values), Max(values))
                   ELSE UnsignedWidth(Max(values))})
DistinctCells(rows, c) ==
    FoldLeft(LAMBDA seen, row : IF Contains(seen, row[c]) THEN seen ELSE Append(seen, row[c]), <<>>, rows)
PlanOf(col, type, rows, c) ==
    [type |-> type, elements |-> col.slots, column |-> c,
     pallet |-> IF IsPallet(type) THEN DistinctCells(rows, c) ELSE <<>>,
     bits |-> CASE IsPallet(type) -> UnsignedWidth(Len(DistinctCells(rows, c)))
                [] type = "common" -> 0
                [] type = "none" -> 32
                [] OTHER -> PackedBits(col, ValuesOf(rows, c))]
Plans(schema, rows, kinds) ==
    [f \in DOMAIN InlineColumns(schema) |->
        LET c == InlineColumns(schema)[f]
        IN PlanOf(schema[c], StorageOf(schema[c], IF f \in DOMAIN kinds THEN kinds[f] ELSE "none"), rows, c)]

\* _layoutRecord: 32-bit fields begin on a byte, packed ones right after the last.
Aligned(bits) == ((bits + 7) \div 8) * 8
Begins(plan, bits) == IF plan.type = "none" THEN Aligned(bits) ELSE bits
RecordBits(plan) == IF IsPallet(plan.type) THEN plan.bits ELSE plan.bits * plan.elements
EndOf(plans, f) == FoldLeft(LAMBDA bits, p : Begins(p, bits) + RecordBits(p), 0, SubSeq(plans, 1, f))
OffsetOf(plans, f) == Begins(plans[f], EndOf(plans, f - 1))
RecordSize(plans) == Aligned(EndOf(plans, Len(plans))) \div 8

\* _deriveCopies: rows equal in every column but the id, when a record is wide
\* enough, are kept once.
ValueKey(schema, row) == [c \in DOMAIN schema |-> IF schema[c].isId THEN <<>> ELSE row[c]]
FirstLike(schema, rows, r) ==
    Min({q \in 1 .. r : ValueKey(schema, rows[q]) = ValueKey(schema, rows[r])})
IsCopy(schema, rows, size, r) == size >= CopyEntryBytes /\ FirstLike(schema, rows, r) # r
RowsThat(rows, Keep(_)) == SelectSeq([r \in DOMAIN rows |-> r], Keep)
Reals(schema, rows, size) == RowsThat(rows, LAMBDA r : ~IsCopy(schema, rows, size, r))
Copies(schema, rows, size) ==
    LET copies == RowsThat(rows, LAMBDA r : IsCopy(schema, rows, size, r))
    IN [i \in DOMAIN copies |-> <<IdOf(schema, rows[copies[i]]),
                                  IdOf(schema, rows[FirstLike(schema, rows, copies[i])])>>]

\* _deriveCommon: the most frequent value is the default, the other rows have an
\* entry by id.  (Which of several equally frequent values is not specified.)
Often(kept, c, v) == Cardinality({r \in DOMAIN kept : kept[r][c][1] = v})
CommonDefault(kept, c) ==
    IF kept = <<>> THEN 0
    ELSE CHOOSE v \in {kept[r][c][1] : r \in DOMAIN kept} :
            \A w \in {kept[r][c][1] : r \in DOMAIN kept} : Often(kept, c, w) <= Often(kept, c, v)
CommonEntries(schema, kept, c) ==
    LET exceptions == SelectSeq(kept, LAMBDA row : row[c][1] # CommonDefault(kept, c))
        before(a, b) == a[1] < b[1] \/ (a[1] = b[1] /\ a[2] < b[2])
    IN SortSeq([i \in DOMAIN exceptions |-> <<IdOf(schema, exceptions[i]), exceptions[i][c][1]>>], before)

\* _encodeRecord: one field of the i-th kept record of n; texts are offsets into
\* the block, and outside WDC1 distances from the element to them.
\* Mutant: the distance from the record instead of the element.
StringField(magic, plan, offset, n, i, size, offsets) ==
    [e \in 1 .. plan.elements |->
        IF magic = "WDC1" THEN offsets[e]
        ELSE n * size + offsets[e] - ((i - 1) * size + (offset + (e - 1) * plan.bits) \div 8)]
EncodeField(magic, col, plan, offset, cell, n, i, size, offsets) ==
    CASE IsPallet(plan.type) -> <<(CHOOSE k \in DOMAIN plan.pallet : plan.pallet[k] = cell) - 1>>
      [] plan.type = "common" -> <<>>
      [] plan.type = "none" /\ col.type = "string" ->
            StringField(magic, plan, offset, n, i, size, offsets)
      [] plan.type = "none" /\ col.type = "float" -> cell
      [] OTHER -> [e \in DOMAIN cell |-> Low(cell[e], plan.bits)]

\* _encodeRecords: the kept rows, their texts in one block that leads with a
\* zero byte.
OffsetsAt(schema, offsets, i, c) ==
    LET first == (i - 1) * TextsPerRow(schema) + TextsBefore(schema, c)
    IN SubSeq(offsets, first + 1, first + StringSlots(schema[c]))
EncodeRecord(magic, schema, plans, kept, i, size, offsets) ==
    [f \in DOMAIN plans |->
        EncodeField(magic, schema[plans[f].column], plans[f], OffsetOf(plans, f), kept[i][plans[f].column],
                    Len(kept), i, size, OffsetsAt(schema, offsets, i, plans[f].column))]

\* _appendFieldStorage: WDC1 spells the signed kind as a flag on the packed one.
FieldStorage(magic, schema, plans, kept, f) ==
    LET plan == plans[f]
        oldSigned == plan.type = "signed" /\ magic = "WDC1"
    IN [type |-> IF oldSigned THEN "bitpacked" ELSE plan.type,
        offset |-> OffsetOf(plans, f),
        size |-> RecordBits(plan),
        extra |-> CASE IsPallet(plan.type) -> Len(plan.pallet) * plan.elements
                    [] plan.type = "common" -> Len(CommonEntries(schema, kept, plan.column))
                    [] OTHER -> 0,
        val1 |-> IF plan.type = "common" THEN CommonDefault(kept, plan.column) ELSE 0,
        val3 |-> IF oldSigned THEN 1 ELSE IF plan.type = "palletArray" THEN plan.elements ELSE 0]

\* _appendPalletCommon: the pallets and the common entries in field order.
AllPallets(plans) == FlattenSeq([f \in DOMAIN plans |-> FlattenSeq(plans[f].pallet)])
AllCommon(schema, plans, kept) ==
    FlattenSeq([f \in DOMAIN plans |->
        IF plans[f].type = "common" THEN CommonEntries(schema, kept, plans[f].column) ELSE <<>>])

\* _appendRelationship: every kept record with its place in the section.
Relationship(schema, kept) ==
    IF RelationColumns(schema) = {} THEN <<>>
    ELSE [i \in DOMAIN kept |-> <<kept[i][Max(RelationColumns(schema))][1], i - 1>>]

\* _appendIdsCopies and the one section of _emitWdc1 and _emitWdc3.
OneSection(magic, schema, plans, kept, copies, resolved) ==
    [key |-> 0, zero |-> FALSE, statusIds |-> <<>>, map |-> <<>>, mapIds |-> <<>>,
     records |-> [i \in DOMAIN kept |->
        EncodeRecord(magic, schema, plans, kept, i, RecordSize(plans), resolved.offsets)],
     strings |-> WriteBlock(resolved.pool),
     idList |-> IF IdIsNoninline(schema) THEN [i \in DOMAIN kept |-> IdOf(schema, kept[i])] ELSE <<>>,
     copies |-> copies, relation |-> Relationship(schema, kept)]
IdFieldIndex(schema) ==
    IF IdColumns(schema) = {} \/ IdIsNoninline(schema) THEN 1 ELSE FieldOf(schema, Min(IdColumns(schema)))
Emitted(magic, info, state, plans, kept, copies, minId) ==
    LET schema == info.schema
    IN [magic |-> magic, short |-> FALSE, recordSize |-> RecordSize(plans), fieldCount |-> Len(plans),
        noninlineId |-> IdIsNoninline(schema), sparse |-> FALSE, secondary |-> FALSE,
        idIndex |-> IdFieldIndex(schema), identity |-> state.identity, minId |-> minId,
        prefix |-> IF magic = "WDC5" THEN state.prefix ELSE 0,
        storage |-> [f \in DOMAIN plans |-> FieldStorage(magic, schema, plans, kept, f)],
        pallet |-> AllPallets(plans), common |-> AllCommon(schema, plans, kept),
        sections |-> <<OneSection(magic, schema, plans, kept, copies,
                                  ResolveAll(NoStrings, Texts(schema, kept), <<>>))>>]

\* Writer::emit, its stages in order.
KeptRows(rows, reals) == [i \in DOMAIN reals |-> rows[reals[i]]]
Encode(magic, info, rows, state, plans) ==
    Emitted(magic, info, state, plans,
            KeptRows(rows, Reals(info.schema, rows, RecordSize(plans))),
            Copies(info.schema, rows, RecordSize(plans)),
            IF rows = <<>> THEN 0 ELSE Min({IdOf(info.schema, rows[r]) : r \in DOMAIN rows}))

\* writeWdc: bytes that are still encrypted pass as they came, or are dropped.
WriteWdc(magic, info, rows, state, policy) ==
    IF Older(info.version, Cata) THEN Failed("NotSupported")
    ELSE IF state.encrypted # <<>> /\ policy = "Preserve"
    THEN IF state.original = <<>> THEN Failed("InvalidEntityState") ELSE Written(state.original[1])
    ELSE Written(Encode(magic, info, rows, state, Plans(info.schema, rows, state.kinds)))
=============================================================================
