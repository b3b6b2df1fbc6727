------------------------- MODULE ChunkEntities -------------------------
(***************************************************************************)
(* A chunked entity in the hands of a program: it is loaded from a file of *)
(* some client, its members are changed through the calls they offer, it   *)
(* is saved, and loaded again from what it saved. The entity is any of     *)
(* Schemas; edits of a WMO group go to its body.                           *)
(*                                                                         *)
(* First the entities of the client formats, each as a schema for          *)
(* ChunkedFile: its chunks in canonical order, which of them are one       *)
(* struct (data, with the number of fields told apart), take any bytes     *)
(* (blob), may come several times (slots, with their capacity, and         *)
(* repeating) or nest a stream; which are required; and since and until    *)
(* which client they exist. Every other chunk is an array of whole         *)
(* records.                                                                *)
(*                                                                         *)
(* The tile machinery of a WDL (formats/wdl/wdl.hpp): the MAOF table holds *)
(* one offset per map tile, 0 where the map has no tile; the i-th nonzero  *)
(* slot belongs to the i-th heightmap (MARE), which its occlusion meshes   *)
(* (MAOC), ocean masks (MAOE) and holes (MAHO) follow in the stream. The   *)
(* offset of a chunk is the number of chunks before it.                    *)
(***************************************************************************)
EXTENDS ClientEras, ChunkedFile

From(client, chunks) == [cc \in chunks |-> client]

\* What most files share: a version struct, always there.
Plain == [name |-> "", order |-> <<"MVER">>, header |-> FALSE, data |-> [MVER |-> 1], blob |-> {},
          slots |-> <<>>, repeating |-> {}, nested |-> <<>>, required |-> {"MVER"},
          since |-> <<>>, until |-> <<>>]

---------------------------------------------------------------------------
(* WDL: the low-resolution heightmap of a map.                              *)

WdlSinceLegion == From(TBC, {"MAHO"})
               @@ From(Legion, {"MLDD", "MLDX", "MLMD", "MLMX", "MAOE"})
               @@ From(BfA, {"MLDF", "MLMB"})

WdlSince == WdlSinceLegion
         @@ From(SL, {"MLDL", "MLDB", "MSSN", "MSSC", "MSSO", "MSSF"})
         @@ From(TWW, {"MSLD", "MSLI"})

Wdl == [Plain EXCEPT
    !.name  = "WDL",
    !.order = <<"MVER", "MWMO", "MWID", "MODF", "MLDD", "MLDX", "MLDF", "MLDL", "MLDB", "MLMD",
                "MLMX", "MLMB", "MSSN", "MSSC", "MSSO", "MSSF", "MSLD", "MSLI", "MAOF", "MARE",
                "MAOC", "MAOE", "MAHO">>,
    !.data  = [MVER |-> 1, MARE |-> 1, MAOE |-> 1, MAHO |-> 1],
    !.blob  = {"MWMO", "MLDB", "MAOC"},
    !.repeating = {"MARE", "MAOC", "MAOE", "MAHO"},
    !.required  = {"MVER", "MAOF"},
    !.since = WdlSince,
    !.until = From(Legion, {"MAOC"})]

---------------------------------------------------------------------------
(* WMO: a world map object, its root and its groups.                        *)

GroupSinceCata == From(Cata, {"MORB", "MOTA", "MOBS"}) @@ From(MoP, {"MDAL"}) @@ From(WoD, {"MOPL"})
               @@ From(Legion, {"MOPB", "MOLS", "MOLP"})
               @@ From(BfA, {"MLSS", "MLSP", "MLSK", "MOP2", "MPVR"})

GroupSince == GroupSinceCata
           @@ From(SL, {"MOVX", "MAVR", "MBVR", "MFVR", "MNLR"})
           @@ From(DF, {"MOGX", "MPY2", "MOQG", "MOC2"})

GroupBody == [Plain EXCEPT
    !.name   = "MOGP",
    !.header = TRUE,
    !.order  = <<"MOGX", "MOPY", "MPY2", "MOVI", "MOVX", "MOVT", "MONR", "MOTV", "MOBA", "MOQG",
                 "MOLR", "MODR", "MOBN", "MOBR", "MOCV", "MOC2", "MLIQ", "MORI", "MORB", "MOTA",
                 "MOBS", "MDAL", "MOPL", "MOPB", "MOLS", "MOLP", "MLSS", "MLSP", "MLSK", "MOP2",
                 "MPVR", "MAVR", "MBVR", "MFVR", "MNLR">>,
    !.data   = <<>>,
    !.blob   = {"MOTA", "MOPB", "MOLS"},
    !.slots  = [MOTV |-> 4, MOCV |-> 2],
    !.required = {},
    !.since  = GroupSince]

Group == [Plain EXCEPT
    !.name   = "WMOGroup",
    !.order  = <<"MVER", "MOGP">>,
    !.nested = [MOGP |-> GroupBody],
    !.required = {"MVER", "MOGP"}]

RootSinceLegion == From(Legion, {"GFID", "MOUV"})
                @@ From(BfA, {"MOSI", "MODI", "MDDI", "MPVD", "MAVG", "MAVD", "MBVD"})

RootSince == RootSinceLegion
          @@ From(SL, {"MFED", "MGI2", "MNLD", "MDDL", "MOLV"})
          @@ From(TWW, {"MOM3", "MOPE"})

Root == [Plain EXCEPT
    !.name  = "WMORoot",
    !.order = <<"MVER", "MOHD", "MOTX", "MOMT", "MOM3", "MOUV", "MOGN", "MOGI", "MOSB", "MOSI",
                "MOPV", "MOPT", "MOPR", "MOPE", "MOVV", "MOVB", "MOLT", "MOLV", "MODS", "MODN",
                "MODI", "MODD", "MFOG", "MCVP", "GFID", "MDDI", "MPVD", "MAVG", "MAVD", "MBVD",
                "MFED", "MGI2", "MNLD", "MDDL", "MOMX">>,
    !.data  = [MVER |-> 1, MOHD |-> 4],
    !.blob  = {"MOTX", "MODN", "MOGN", "MOSB", "MPVD", "MDDL", "MOM3", "MOMX"},
    !.required = {"MVER", "MOHD"},
    !.since = RootSince,
    !.until = From(BfA, {"MOTX", "MODN"})]

---------------------------------------------------------------------------
(* WDT: a map and its satellite files.                                      *)

WdtRoot == [Plain EXCEPT
    !.name  = "WDTRoot",
    !.order = <<"MVER", "MPHD", "MAIN", "MAID", "MWMO", "MODF", "MANM">>,
    !.data  = [MVER |-> 1, MPHD |-> 1],
    !.blob  = {"MWMO", "MANM"},
    !.required = {"MVER", "MPHD", "MAIN"},
    !.since = From(BfA, {"MAID"}) @@ From(SL, {"MANM"})]

Occlusion == [Plain EXCEPT
    !.name  = "WDTOcclusion",
    !.order = <<"MVER", "MAOI", "MAOH">>,
    !.required = {"MVER", "MAOI", "MAOH"}]

Lights == [Plain EXCEPT
    !.name  = "WDTLights",
    !.order = <<"MVER", "MPLT", "MPL2", "MPL3", "MSLT", "MTEX", "MLTA">>,
    !.since = From(WoD, {"MPLT"}) @@ From(Legion, {"MPL2", "MSLT", "MTEX", "MLTA"}) @@ From(SL, {"MPL3"}),
    !.until = From(Legion, {"MPLT"})]

Fogs == [Plain EXCEPT
    !.name  = "WDTFogs",
    !.order = <<"MVER", "VFOG", "VFEX">>,
    !.since = From(BfA, {"VFOG"}) @@ From(TWW, {"VFEX"})]

Particulates == [Plain EXCEPT
    !.name  = "WDTParticulates",
    !.order = <<"MVER", "PVMI", "PVPD", "PVBD">>,
    !.blob  = {"PVMI"},
    !.repeating = {"PVMI", "PVPD", "PVBD"}]

---------------------------------------------------------------------------
(* The chunked model files (Legion and later) and their satellites.         *)

M2Since == From(Legion, {"PFID", "SFID", "AFID", "BFID", "TXAC", "EXPT", "EXP2", "PABC", "PADC",
                         "PSBC", "PEDC", "SKID"})
        @@ From(BfA, {"TXID", "LDV1", "RPID", "GPID", "WFV1", "WFV2", "PGD1", "PFDC"})
        @@ From(SL, {"WFV3", "EDGF", "NERF", "DETL", "DBOC"})
        @@ From(DF, {"AFRA"}) @@ From(TWW, {"PCOL", "DPIV"})

M2Chunked == [Plain EXCEPT
    !.name  = "M2ChunkedFile",
    !.order = <<"MD21", "PFID", "SFID", "AFID", "BFID", "TXAC", "EXPT", "EXP2", "PABC", "PADC",
                "PSBC", "PEDC", "SKID", "TXID", "LDV1", "RPID", "GPID", "WFV1", "WFV2", "PGD1",
                "WFV3", "PFDC", "EDGF", "NERF", "DETL", "DBOC", "AFRA", "PCOL", "DPIV">>,
    !.data  = <<>>,
    !.blob  = {"MD21", "PADC", "PEDC", "LDV1", "WFV1", "WFV2", "WFV3", "PFDC", "EDGF", "NERF",
               "DETL", "DBOC", "AFRA", "PCOL", "DPIV"},
    !.required = {"MD21"},
    !.since = M2Since]

Skel == [Plain EXCEPT
    !.name  = "Skeleton",
    !.order = <<"SKL1", "SKA1", "SKB1", "SKS1", "SKPD", "AFID", "BFID">>,
    !.data  = <<>>,
    !.blob  = {"SKL1", "SKA1", "SKB1", "SKS1"},
    !.required = {"SKL1"}]

BoneFile == [Plain EXCEPT
    !.name   = "BoneFile",
    !.header = TRUE,
    !.order  = <<"BIDA", "BOMT">>,
    !.data   = <<>>,
    !.required = {}]

---------------------------------------------------------------------------
(* The tiles of a WDL.                                                      *)

CONSTANT TileSlots      \* slots of the tile table (64 * 64)
ASSUME TileSlotsAssumption == TileSlots \in Nat \ {0}

TileChunks == {"MARE", "MAOC", "MAOE", "MAHO"}

Count(v, e, cc)      == IF cc \in Members(Wdl, v) THEN Len(e.val[cc]) ELSE 0
Journaled(e, cc)     == Cardinality({k \in DOMAIN e.journal : e.journal[k].known /\ e.journal[k].cc = cc})
NonzeroSlots(els)    == {i \in DOMAIN els : els[i] /= 0}
Least(a, b)          == IF a < b THEN a ELSE b

\* How many heightmaps the journal has before its k-th entry.
HeightmapsBefore(e, k) ==
    Cardinality({i \in 1 .. k - 1 : e.journal[i].known /\ e.journal[i].cc = "MARE"})

Places(e, cc) == SetToSortSeq({k \in DOMAIN e.journal : e.journal[k].known /\ e.journal[k].cc = cc}, <)

TilesArePaired(v, e) ==
    LET tiles   == Len(e.val["MARE"])
        engaged == NonzeroSlots(e.val["MAOF"].els)
    IN  /\ (tiles /= 0 \/ engaged /= {}) => Len(e.val["MAOF"].els) = TileSlots
        /\ Cardinality(engaged) = tiles
        /\ Count(v, e, "MAHO") \in {0, tiles}
        /\ Count(v, e, "MAOE") <= tiles
        /\ Count(v, e, "MAOC") <= tiles

\* Which occurrences of cc go with each tile: as the journal has them, or one by one.
AttachAt(v, e, cc, places) ==
    LET n      == Count(v, e, cc)
        tiles  == Len(e.val["MARE"])
        paired == Len(places) = n /\ \A i \in DOMAIN places : HeightmapsBefore(e, places[i]) > 0
        Tile(i) == Least(IF paired THEN HeightmapsBefore(e, places[i]) ELSE i, tiles)
        At(i)   == IF paired THEN e.journal[places[i]].at ELSE i - 1
        Entry(i) == [cc |-> cc, known |-> TRUE, at |-> At(i)]
        Of(t)   == SelectSeq([i \in 1 .. n |-> i], LAMBDA i : Tile(i) = t)
    IN  [t \in 1 .. tiles |-> [i \in DOMAIN Of(t) |-> Entry(Of(t)[i])]]

Mut_Attach(v, e, cc) == AttachAt(v, e, cc, <<>>)

Attach(v, e, cc) == AttachAt(v, e, cc, Places(e, cc))

ResequencedJournal(v, e) ==
    LET tiles    == Len(e.val["MARE"])
        current  == e.journal /= <<>> /\ \A cc \in TileChunks : Journaled(e, cc) = Count(v, e, cc)
        Hole(t)  == IF t <= Count(v, e, "MAHO") THEN <<[cc |-> "MAHO", known |-> TRUE, at |-> t - 1]>>
                                                ELSE <<>>
        Block(t) == <<[cc |-> "MARE", known |-> TRUE, at |-> t - 1]>>
                        \o Attach(v, e, "MAOC")[t] \o Attach(v, e, "MAOE")[t] \o Hole(t)
        others   == SelectSeq(FreshJournal(Wdl, v, e), LAMBDA j : j.cc \notin TileChunks)
        table    == SelectInSeq(others, LAMBDA j : j.cc = "MAOF")
    IN  CASE current -> [err |-> "none", journal |-> e.journal]
          [] ~current /\ ~TilesArePaired(v, e) -> [err |-> "InvalidEntityState", journal |-> <<>>]
          [] OTHER -> [err |-> "none",
                journal |-> SubSeq(others, 1, table)
                            \o FlattenSeq([t \in 1 .. tiles |-> Block(t)])
                            \o SubSeq(others, table + 1, Len(others))
                            \o SelectSeq(e.journal, LAMBDA j : ~j.known)]

\* Stamps the offsets of the heightmaps into the table of the finished image.
PatchFile(pay) ==
    LET table   == SelectInSeq(pay.sub, LAMBDA c : c.cc = "MAOF")
        slots   == IF table = 0 THEN <<>> ELSE pay.sub[table].pay.els
        mares   == SetToSortSeq({i \in DOMAIN pay.sub : pay.sub[i].cc = "MARE"}, <)
        Rank(i) == Cardinality({j \in NonzeroSlots(slots) : j <= i})
        stamped == [i \in DOMAIN slots |-> IF slots[i] = 0 THEN 0 ELSE mares[Rank(i)] - 1]
    IN  IF mares = <<>> /\ slots = <<>> THEN [err |-> "none", pay |-> pay]
        ELSE IF Len(slots) /= TileSlots \/ Cardinality(NonzeroSlots(slots)) /= Len(mares)
        THEN [err |-> "InvalidEntityState", pay |-> pay]
        ELSE [err |-> "none", pay |-> [pay EXCEPT !.sub[table].pay.els = stamped]]

Patched(written) == IF written.err /= "none" THEN written ELSE PatchFile(written.pay)

Sequenced(v, e, order) ==
    IF order.err /= "none" THEN [err |-> order.err, pay |-> NoBytes]
    ELSE Patched(WriteEntity(Wdl, v, e, order.journal, <<>>))

WriteWdl(v, e) == Sequenced(v, e, ResequencedJournal(v, e))

\* The heightmap, counted from 0, that each ocean mask is said to belong to.
OceanMaskTiles(v, e) ==
    LET n      == Count(v, e, "MAOE")
        places == Places(e, "MAOE")
        tiles  == Len(e.val["MARE"])
        Ordinal(count) == IF count = 0 THEN 0 ELSE count - 1
    IN  [i \in 1 .. n |-> IF n <= Len(places) THEN Ordinal(HeightmapsBefore(e, places[i]))
                                             ELSE Least(i - 1, Ordinal(tiles))]

---------------------------------------------------------------------------
(* The entity and its files.                                               *)

\* The entity edits go to: the body of a group, else the entity itself.
Inner(S)        == IF IsNested(S, "MOGP") THEN S.nested["MOGP"] ELSE S
Body(S, e)      == IF IsNested(S, "MOGP") THEN e.val["MOGP"] ELSE e
Holding(S, e, b) == IF IsNested(S, "MOGP") THEN [e EXCEPT !.val["MOGP"] = b] ELSE b

\* MOHD's counts come from the tables: groups, portals, doodad sets.
PatchChunk(S, e) ==
    IF S.name /= "WMORoot" THEN <<>>
    ELSE [cc \in {"MOHD"} |-> [err |-> "none", pay |-> Bytes(
            <<Len(e.val["MOGI"].els), Len(e.val["MOPT"].els), Len(e.val["MODS"].els),
              e.val["MOHD"].els[4]>>)]]

\* The entities whose version struct is looked at.
Versioned == {"WDL", "WDTRoot", "WMORoot", "WMOGroup"}

\* What a map file, an object file and its groups always have.
Singles(S, v) == {cc \in Members(S, v) : ~IsSeveral(S, cc) /\ ~IsNested(S, cc)}
IsLaidOut(S, v) ==
    /\ DOMAIN S.nested \subseteq {"MOGP"} \cap Members(S, v)
    /\ S.name \in Versioned => "MVER" \in Singles(S, v)
    /\ S.name = "WDL" => S = Wdl
    /\ S.name = "WMORoot" => /\ {"MOHD", "MOGI", "MOPT", "MODS"} \subseteq Singles(S, v)
                             /\ IsSized(S, "MOHD") /\ S.data["MOHD"] = 4

\* The fields a file derives from the rest of it say what it holds.
Genuine(S, v, file) ==
    /\ S.name = "WDL" => PatchFile(file) = [err |-> "none", pay |-> file]
    /\ S.name = "WMORoot" =>
         LET r == ReadEntity(S, v, Fresh(S, v), file)
         IN  r.err = "none" => PatchChunk(S, r.e)["MOHD"].pay = r.e.val["MOHD"]

CONSTANTS Schemas,          \* the entities looked at
          Clients,          \* the clients, for each of them by name
          Files(_, _),      \* the files there are, by schema and client
          Payloads,         \* what an array may be set to
          Touchable,        \* the chunks whose members are changed
          MaxEdits          \* bound on the changes made

ASSUME SchemasAssumption ==
    \A S \in Schemas : IsSchema(S) /\ \A v \in Clients[S.name] : IsLaidOut(S, v)
ASSUME FilesAssumption ==
    \A S \in Schemas : \A v \in Clients[S.name] : \A file \in Files(S, v) :
        IsFile(S, file) /\ Genuine(S, v, file)
ASSUME PayloadsAssumption == \A pay \in Payloads : pay = Bytes(pay.els)

VARIABLES schema, client,
          entity,
          outcome,          \* how the last read or write ended
          disk,             \* the file saved last, or NoFile
          source,           \* history: the file the entity was loaded from, or NoFile
          touched,          \* history: the chunks changed since
          gone,             \* history: some slot or element was taken away since
          edits

vars == <<schema, client, entity, outcome, disk, source, touched, gone, edits>>

NoFile == [NoBytes EXCEPT !.rest = "no file"]

Write(S, v, e) ==
    IF S.name = "WDL" THEN WriteWdl(v, e)
    ELSE WriteEntity(S, v, e, e.journal, PatchChunk(S, e))

\* The version struct of a map or object file says 17 or 18, and no other number.
RightVersion(S, e) ==
    S.name \in Versioned => e.val["MVER"].els = <<1>>

CheckMver(S, r) ==
    IF r.err = "none" /\ ~RightVersion(S, r.e) THEN [r EXCEPT !.err = "FormatVersionMismatch"] ELSE r

Read(S, v, pay) == CheckMver(S, ReadEntity(S, v, Fresh(S, v), pay))

Init == /\ schema \in Schemas
        /\ client \in Clients[schema.name]
        /\ entity = Fresh(schema, client)
        /\ outcome = "none"
        /\ disk = NoFile /\ source = NoFile
        /\ touched = {} /\ gone = FALSE /\ edits = 0

TakeIn(r, file) ==
    /\ entity' = r.e
    /\ outcome' = r.err
    /\ source' = IF r.err = "none" THEN file ELSE NoFile
    /\ touched' = {} /\ gone' = FALSE

\* X::read(fs, key): a new entity takes the file.
Load == /\ source = NoFile /\ entity = Fresh(schema, client)
        /\ \E file \in Files(schema, client) : TakeIn(Read(schema, client, file), file)
        /\ UNCHANGED <<schema, client, disk, edits>>

\* The program loads what it saved.
Reload == /\ disk /= NoFile /\ disk /= source
          /\ TakeIn(Read(schema, client, disk), disk)
          /\ UNCHANGED <<schema, client, disk, edits>>

Edit(cc, value, takes) ==
    /\ edits < MaxEdits
    /\ cc \in Members(Inner(schema), client) \cap Touchable
    /\ LET body == Body(schema, entity)
       IN  /\ value /= body.val[cc]
           /\ entity' = Holding(schema, entity, [body EXCEPT !.val[cc] = value])
    /\ touched' = touched \cup {cc}
    /\ gone' = (gone \/ takes)
    /\ edits' = edits + 1
    /\ UNCHANGED <<schema, client, outcome, disk, source>>

Now(cc) == Body(schema, entity).val[cc]

\* A member is assigned.
Assign(cc) == /\ cc \in Members(Inner(schema), client)
              /\ ~IsSeveral(Inner(schema), cc) /\ ~IsSized(Inner(schema), cc)
              /\ \E pay \in Payloads : Edit(cc, pay, FALSE)

\* A slot is replaced, or the next free one filled; a full member refuses.
Fill(cc) ==
    LET S == Inner(schema)
    IN  /\ cc \in Members(S, client) /\ IsSeveral(S, cc)
        /\ \E pay \in Payloads :
             /\ PayloadFits(S, cc, pay)
             /\ \/ \E i \in DOMAIN Now(cc) : Edit(cc, [Now(cc) EXCEPT ![i] = pay], FALSE)
                \/ /\ IsSlots(S, cc) => Len(Now(cc)) < S.slots[cc]
                   /\ Edit(cc, Append(Now(cc), pay), FALSE)

\* The slots are cleared; an element of a repeating member is erased.
TakeAway(cc) ==
    LET S == Inner(schema)
    IN  /\ cc \in Members(S, client)
        /\ \/ IsSlots(S, cc) /\ Edit(cc, <<>>, TRUE)
           \/ /\ cc \in S.repeating
              /\ \E i \in DOMAIN Now(cc) : Edit(cc, RemoveAt(Now(cc), i), TRUE)

PutOut(w) == /\ outcome' = w.err
             /\ disk' = IF w.err = "none" THEN w.pay ELSE disk
             /\ <<outcome', disk'>> /= <<outcome, disk>>

Save == /\ PutOut(Write(schema, client, entity))
        /\ UNCHANGED <<schema, client, entity, source, touched, gone, edits>>

Next == \/ Load \/ Reload \/ Save
        \/ \E cc \in Touchable : Assign(cc) \/ Fill(cc) \/ TakeAway(cc)

Spec == Init /\ [][Next]_vars

---------------------------------------------------------------------------
(* Properties                                                               *)

Loaded   == source /= NoFile
Saved    == Write(schema, client, entity)
\* Type invariant: the journal of an entity points at slots and preserved
\* chunks that were there when it was read.
TypeOK == LET e == Body(schema, entity)
          IN  /\ outcome \in {"none", "ChunkSizeMismatch", "ChunkTruncated", "ChunkMissing",
                              "FormatVersionMismatch", "InvalidEntityState"}
              /\ DOMAIN e.val = Members(Inner(schema), client)
              /\ touched \subseteq Touchable /\ gone \in BOOLEAN
              /\ \A i \in DOMAIN e.journal :
                   /\ e.journal[i].known => e.journal[i].cc \in DOMAIN e.val
                   /\ ~e.journal[i].known => e.journal[i].at < Len(e.unknown)

\* A file that was loaded and not changed is written as it was: duplicates,
\* chunks nobody knows, occurrences past the capacity and stray bytes included.
UnmodifiedIsVerbatim ==
    Loaded /\ touched = {} => Saved = [err |-> "none", pay |-> source]

\* A stream is as it was but for the chunks that changed: each is where it was,
\* and what is new comes after.
Stays(old, new, changed) ==
    /\ new.els = old.els /\ new.rest = old.rest
    /\ Len(old.sub) <= Len(new.sub)
    /\ \A i \in 1 .. Len(old.sub) : /\ new.sub[i].cc = old.sub[i].cc
                                    /\ new.sub[i] = old.sub[i] \/ old.sub[i].cc \in changed
    /\ \A i \in Len(old.sub) + 1 .. Len(new.sub) : new.sub[i].cc \in changed

\* The tile table of a WDL and the counts of a WMO root follow what was changed.
Derived == {"MAOF", "MOHD"}

\* The first container of a stream.
Contained(pay, cc) ==
    pay.sub[CHOOSE i \in DOMAIN pay.sub : pay.sub[i].cc = cc /\ \A j \in 1 .. i - 1 : pay.sub[j].cc /= cc].pay

\* The chunks of a WDL that are not about tiles, less the empty ones.
BesideTiles(pay) ==
    ToBag(SelectSeq(pay.sub, LAMBDA c : Holds(c.pay) /\ c.cc \notin touched \cup TileChunks \cup Derived))

\* Whatever was changed, the chunks that were not are in the file that is
\* written: with their content, and where they were, the prelude and stray bytes
\* included, unless the tiles of a WDL were laid out again (which drops empty
\* chunks).
Survive(new) ==
    IF schema.name = "WDL" /\ touched \cap TileChunks /= {}
    THEN BesideTiles(new) = BesideTiles(source)
    ELSE IF IsNested(schema, "MOGP")
    THEN /\ Stays(source, new, {"MOGP"} \cup Derived)
         /\ Stays(Contained(source, "MOGP"), Contained(new, "MOGP"), touched)
    ELSE Stays(source, new, touched \cup Derived)

UntouchedSurvive ==
    Loaded => \E w \in {Saved} : w.err = "none" => Survive(w.pay)

\* What a write produced can be read, holds the same members, and writes the
\* same file again; the offsets of the tiles are the only members it changes.
SavedReadsBack ==
    LET Told(e) == [cc \in Members(Inner(schema), client) \ {"MAOF", "MOHD"} |->
                        Body(schema, e).val[cc]]
    IN  RightVersion(schema, entity) => \E w \in {Saved} :
            w.err = "none" => \E r \in {Read(schema, client, w.pay)} :
                /\ r.err = "none"
                /\ Told(r.e) = Told(entity)
                /\ Write(schema, client, r.e) = w

\* A write fails only when something the journal remembers was taken away, or
\* when the tiles of a WDL are not paired.
SaveFailsForLostSlotsOnly ==
    Saved.err /= "none" => \/ gone
                           \/ schema.name = "WDL" /\ ~TilesArePaired(client, entity)

\* A write gives a file that reads back, or has such a reason not to.
SavesAndReadsBack == SavedReadsBack /\ SaveFailsForLostSlotsOnly

\* In a written WDL the i-th slot in use points at the i-th heightmap, and no
\* heightmap is without a slot.
PointAtHeightmaps(out) ==
    LET slots == SelectSeq(out[SelectInSeq(out, LAMBDA c : c.cc = "MAOF")].pay.els,
                           LAMBDA x : x /= 0)
    IN  /\ Len(slots) = Len(entity.val["MARE"])
        /\ \A i \in DOMAIN slots : /\ out[slots[i] + 1].cc = "MARE"
                                   /\ out[slots[i] + 1].pay = entity.val["MARE"][i]

SlotsPointAtHeightmaps ==
    schema.name = "WDL" => \E w \in {Saved} : w.err = "none" => PointAtHeightmaps(w.pay.sub)

\* When the write lays out the tiles anew (one was added since the file was
\* read), the holes of a tile come after its heightmap and before the next one.
HolesFollow(out) ==
    LET Nth(cc) == SetToSortSeq({i \in DOMAIN out : out[i].cc = cc}, <)
    IN  \A i \in DOMAIN Nth("MAHO") :
            /\ Nth("MAHO")[i] > Nth("MARE")[i]
            /\ i < Len(Nth("MARE")) => Nth("MAHO")[i] < Nth("MARE")[i + 1]

HolesFollowTheirHeightmap ==
    /\ schema.name = "WDL"
    /\ \E cc \in TileChunks : Journaled(entity, cc) /= Count(client, entity, cc)
    => \E w \in {Saved} : w.err = "none" => HolesFollow(w.pay.sub)

\* How many heightmaps there are before each chunk of a kind.
Follows(out, cc) ==
    LET places == SetToSortSeq({i \in DOMAIN out : out[i].cc = cc}, <)
    IN  [k \in DOMAIN places |-> Cardinality({i \in 1 .. places[k] : out[i].cc = "MARE"})]

\* As long as nothing is taken away, and no mask is added, a mask or an occlusion
\* mesh follows the heightmap it followed in the file that was read, also when
\* the tiles are laid out anew around it.
MasksFollowTheirHeightmap ==
    schema.name = "WDL" /\ Loaded /\ ~gone =>
        \A cc \in {"MAOC", "MAOE"} :
            LET before == Follows(source.sub, cc) IN
            Count(client, entity, cc) = Len(before) /\ 0 \notin Range(before) =>
                \E w \in {Saved} : w.err = "none" => Follows(w.pay.sub, cc) = before

\* "The heightmap ordinal each ocean mask belongs to", says wdl.hpp of what
\* ocean_mask_tiles() returns: in the file that is written every mask is behind
\* the heightmap that was told, also when heightmaps and masks were added.  Not
\* so when one was taken away, as both go by the journal of a file that is no
\* longer held, nor when a mask of that file was before all heightmaps.
MasksGoWhereTold ==
    schema.name = "WDL" /\ ~gone /\ (Loaded => 0 \notin Range(Follows(source.sub, "MAOE"))) =>
        \A w \in {Saved} : w.err = "none" =>
            OceanMaskTiles(client, Read(schema, client, w.pay).e) = OceanMaskTiles(client, entity)

\* The slots, heightmaps, holes and masks of the tiles of a written WDL belong
\* together.
TilesStayTogether ==
    /\ SlotsPointAtHeightmaps /\ HolesFollowTheirHeightmap
    /\ MasksFollowTheirHeightmap /\ MasksGoWhereTold
=============================================================================
