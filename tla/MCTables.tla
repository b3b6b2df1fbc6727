------------------------------ MODULE MCTables ------------------------------
(***************************************************************************)
(* Four tables for TLC: a localized WDBC one, an indexed WDB2 one, a keyed *)
(* WDC one whose id and relation lie outside the record, and a WDC one     *)
(* with an inline id, a pallet and a common column.  And one of its own    *)
(* that has no id.                                                         *)
(***************************************************************************)
EXTENDS Tables

\* Names, and the lines of a definition.
Name(text, words) == [text |-> text, words |-> words, marked |-> FALSE, digit |-> FALSE]
Localized(text, words) == [Name(text, words) EXCEPT !.marked = TRUE]
IdName == Name("ID", <<"id">>)
TextName == Localized("Name_lang", <<"name", "lang">>)
Of(type, name) == [kind |-> "column", type |-> type, name |-> name]
As(name, annotations, bits) == [kind |-> "entry", name |-> name, annotations |-> annotations, bits |-> bits,
                                isUnsigned |-> TRUE, arrayLen |-> {}]
Signed(name) == [As(name, {}, {8}) EXCEPT !.isUnsigned = FALSE]
Twice(name) == [As(name, {}, {}) EXCEPT !.arrayLen = {2}]
From(lo, hi) == [kind |-> "build", ranges |-> << <<lo, hi>> >>]
Line(kind) == [kind |-> kind]
Dbd(stem, columns, blocks) == [stem |-> stem, regular |-> TRUE, ext |-> "dbd", readable |-> TRUE,
                               paragraphs |-> <<<<Line("COLUMNS")>> \o columns>> \o blocks]
First == <<0, 5, 3, 3368>>
LastBuild == <<12, 0, 0, 70000>>
AllBuilds == From(First, LastBuild)
Flags == Name("Flags", <<"flags">>)
Class == Name("Class", <<"class">>)
Ids == <<As(IdName, {"id"}, {8})>>

Spell == Dbd("Spell", <<Of("int", IdName), Of("locstring", TextName)>>,
             << <<From(First, <<3, 3, 5, 12340>>), From(<<5, 0, 0, 1>>, LastBuild)>> \o Ids \o <<As(TextName, {}, {})>> >>)
Item == Dbd("Item", <<Of("int", IdName), Of("string", Class), Of("int", Flags)>>,
            << <<AllBuilds>> \o Ids \o <<As(Class, {}, {}), Signed(Flags)>> >>)
Sparse == [Item EXCEPT !.stem = "Item-sparse"]
Area == Dbd("AreaTable", <<Of("int", IdName), Of("string", Class), Of("int", Flags), Of("int", TextName), Line("blank")>>,
            << <<From(First, <<6, 2, 4, 21742>>), Line("comment")>> \o Ids,
               <<AllBuilds, As(IdName, {"id", "noninline"}, {8}), Twice(Class), Signed(Flags),
                 As(TextName, {"relation", "noninline"}, {8})>> >>)
Light == Dbd("LightParams", <<Of("int", IdName), Of("float", Class), Of("int", Flags), Of("locstring", TextName)>>,
             << <<Line("layout")>> \o Ids,
                <<AllBuilds>> \o Ids \o <<Twice(Class), Signed(Flags), As(TextName, {}, {})>> >>)
\* Two columns of one name, a satellite id without a width, and one of another
\* type for some eras.
PlainName == Name("Name", <<"name">>)
ItemClass == Dbd("ItemClass", <<Of("int", IdName), Of("string", PlainName), Of("locstring", TextName), Of("int", Flags)>>,
    << <<From(First, <<2, 4, 3, 8606>>)>> \o Ids \o <<As(PlainName, {}, {}), As(TextName, {}, {})>>,
       <<AllBuilds, As(IdName, {"id", "noninline"}, {}), As(PlainName, {}, {}), As(TextName, {}, {}), As(Flags, {}, {32})>> >>)
\* A table without an id.
Lookups == Dbd("Lookups", <<Of("float", Class), Of("int", Flags)>>, << <<AllBuilds, Twice(Class), As(Flags, {}, {8})>> >>)
\* What no catalog has: an era that does not resolve, a block without builds, a
\* line that does not parse, a file of another kind.
Unsized == Dbd("Unsized", <<Of("int", IdName)>>, << <<From(First, <<1, 12, 1, 5875>>)>> \o Ids, <<AllBuilds, As(IdName, {"id"}, {})>> >>)
Unbuilt == Dbd("Unbuilt", <<Of("int", IdName)>>, <<Ids>>)
Torn == Dbd("Torn", <<Line("bad")>>, << <<AllBuilds>> \o Ids >>)
Notes == [Spell EXCEPT !.stem = "Notes", !.ext = "md"]
Directory(files) == [kind |-> "dbd", readable |-> TRUE, files |-> files]
Checkout == Directory(<<Unsized, Spell, Item, ItemClass, Sparse, Notes, Area, Torn, Light, Lookups, Unbuilt>>)
BlobFile == [kind |-> "blob", readable |-> TRUE, bytes |-> FromDbdDir(Checkout).blob]
MCSources == {Checkout, Directory(<<Unsized, Torn>>), [Checkout EXCEPT !.readable = FALSE],
              BlobFile, [BlobFile EXCEPT !.readable = FALSE], [BlobFile EXCEPT !.bytes.version = 1],
              [BlobFile EXCEPT !.bytes.fits = FALSE]}
MCNameOrder == <<"AreaTable", "Item", "Item-sparse", "ItemClass", "ItemSparseLegacy", "LightParams", "Lookups", "Notes", "Spell",
                 "Torn", "Unbuilt", "Unsized">>
MCIdentifiers == ToSet(MCNameOrder) \ {"Item-sparse"}
MCAsked == {<<"Spell", <<1, 12, 1, 5875>> >>, <<"Item", <<5, 4, 8, 18414>> >>, <<"AreaTable", <<7, 3, 5, 26365>> >>,
            <<"LightParams", <<10, 2, 7, 55000>> >>, <<"Lookups", <<9, 2, 7, 45114>> >>, <<"Unsized", <<1, 12, 1, 5875>> >>, <<"Item-sparse", <<4, 3, 4, 15595>> >>,
            <<"Spell", <<4, 3, 4, 15595>> >>, <<"Item", <<0, 5, 3, 3368>> >>}
\* Fixed-stride files.
Blank == [magic |-> "WDBC", short |-> FALSE, surplus |-> 0, minId |-> 0, maxId |-> 0, identity |-> 0,
          fieldCount |-> 4, recordSize |-> 13, index |-> <<>>, copy |-> <<>>,
          strings |-> <<0, 1, 0, 0, 1, 2, 0>>, records |-> <<>>]
LangFile == [Blank EXCEPT !.records = << << <<1>>, <<1, 4, 0>> >>, << <<2>>, <<5, 3, 1>> >> >>]
ItemFile == [Blank EXCEPT !.magic = "WDB2", !.recordSize = 6, !.fieldCount = 3, !.minId = 1, !.maxId = 2,
               !.identity = 7, !.index = <<1, 2>>, !.copy = <<9>>,
               !.records = << << <<1>>, <<4>>, <<255>> >>, << <<2>>, <<1>>, <<0>> >> >>]
PlainItem == [ItemFile EXCEPT !.minId = 0, !.maxId = 0, !.index = <<>>]
Bad(file) == {[file EXCEPT !.short = TRUE], [file EXCEPT !.recordSize = @ + 1],
              [file EXCEPT !.surplus = -1], [magic |-> "none"], [magic |-> "WDB5"]}

\* WDC files: two sections and a relationship by id; a section that stayed
\* encrypted; a sparse one that overruns; pallet, common and copies.
Storage(type, offset, size) ==
    [type |-> type, offset |-> offset, size |-> size, extra |-> 0, val1 |-> 0, val3 |-> 0]
Section == [key |-> 0, zero |-> FALSE, statusIds |-> <<>>, map |-> <<>>, mapIds |-> <<>>, records |-> <<>>,
            strings |-> <<>>, idList |-> <<>>, copies |-> <<>>, relation |-> <<>>]
Image == [magic |-> "WDC4", short |-> FALSE, recordSize |-> 9, fieldCount |-> 2, noninlineId |-> TRUE,
          sparse |-> FALSE, secondary |-> FALSE, idIndex |-> 1, identity |-> 3, minId |-> 1, prefix |-> 0,
          storage |-> <<Storage("none", 0, 64), Storage("signed", 64, 8)>>, pallet |-> <<>>, common |-> <<>>,
          sections |-> <<>>]
TwoSections == [Image EXCEPT !.secondary = TRUE, !.sections =
    <<[Section EXCEPT !.records = << << <<18 + 0, 14 + 1>>, <<254>> >> >>, !.strings = <<0, 1, 0>>,
                      !.idList = <<1>>, !.relation = << <<5, 1>> >>],
      [Section EXCEPT !.records = << << <<9 + 4, 5 + 1>>, <<3>> >> >>, !.strings = <<0, 2, 0>>,
                      !.idList = <<2>>, !.relation = << <<6, 2>> >>]>>]
Encrypted == [TwoSections EXCEPT !.sections[2] =
    [Section EXCEPT !.key = 8, !.zero = TRUE, !.statusIds = <<2>>, !.idList = <<2>>,
                    !.records = << << <<0, 0>>, <<0>> >> >>]]
Entry(fits) == [fits |-> fits, cells |-> << <<>>, << <<1>>, <<>> >>, <<4>>, <<>> >>]
Dense == [Image EXCEPT !.magic = "WDC1", !.sparse = TRUE, !.sections =
    <<[Section EXCEPT !.map = <<Entry(TRUE), Absent, Entry(TRUE)>>]>>]
Overrun == [Encrypted EXCEPT !.magic = "WDC3", !.sparse = TRUE,
    !.sections = <<@[2], [Section EXCEPT !.map = <<Entry(TRUE), Entry(FALSE)>>, !.mapIds = <<1, 2>>]>>]
Pallets == [Image EXCEPT !.magic = "WDC5", !.recordSize = 5, !.fieldCount = 4, !.noninlineId = FALSE, !.prefix = 4,
    !.storage = <<Storage("bitpacked", 0, 2), [Storage("palletArray", 2, 2) EXCEPT !.extra = 4],
                  [Storage("common", 0, 0) EXCEPT !.extra = 2, !.val1 = 3], Storage("none", 8, 32)>>,
    !.pallet = <<0, 1, 5, 5>>, !.common = << <<2, -1>>, <<3, 2>> >>,
    !.sections = <<[Section EXCEPT !.strings = <<0, 1, 0>>, !.copies = << <<3, 2>> >>,
        !.records = << << <<1>>, <<1>>, <<>>, <<9>> >>, << <<2>>, <<0>>, <<>>, <<5>> >> >>]>>]
\* Three different rows, and two that are equal.
LookupRow(a, b, flags) == << <<a, b>>, <<flags>> >>
Keyless == [Image EXCEPT !.noninlineId = FALSE,
    !.sections = <<[Section EXCEPT !.strings = <<0>>,
                                   !.records = <<LookupRow(1, 2, 3), LookupRow(4, 5, 6), LookupRow(4, 5, 200)>>]>>]
Repeating == [Keyless EXCEPT !.sections[1].records = <<@[1], @[2], @[2]>>]
BadImage(file) == {[file EXCEPT !.short = TRUE], [file EXCEPT !.fieldCount = 9]}

MCFilesOf == [name \in {"Spell", "Item", "AreaTable", "LightParams", "Lookups"} |->
    CASE name = "Spell" -> {LangFile, TwoSections} \cup Bad(LangFile)
      [] name = "Item" -> {ItemFile, PlainItem, [ItemFile EXCEPT !.maxId = 0, !.minId = 2, !.index = <<>>],
                           [ItemFile EXCEPT !.minId = 3]} \cup Bad(ItemFile)
      [] name = "AreaTable" -> {TwoSections, Encrypted, Dense, Overrun} \cup BadImage(TwoSections)
      [] name = "Lookups" -> {Keyless, Repeating}
      [] OTHER -> {Pallets, [magic |-> "WDB5"]}]
MCEdits == [name \in DOMAIN MCFilesOf |-> 
    CASE name \in {"Spell", "Item"} -> 3 [] OTHER -> 2]
MCIds == [name \in DOMAIN MCFilesOf |-> IF name = "Lookups" THEN {} ELSE {1, 2}]
MCInts == [name \in DOMAIN MCFilesOf |-> IF name = "LightParams" THEN {0, -3} ELSE {0, 200}]
MCTexts == [name \in DOMAIN MCFilesOf |->
    CASE name = "Spell" -> {<<>>, <<2>>, <<1, 2>>} [] name = "Item" -> {<<2>>, <<1, 0>>} [] name = "Lookups" -> {} [] OTHER -> {<<>>, <<2>>}]
=============================================================================
