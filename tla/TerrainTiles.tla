------------------------- MODULE TerrainTiles -------------------------
(***************************************************************************)
(* A terrain tile and its files (formats/adt/adt.hpp): one file before     *)
(* Cataclysm, a root and its satellites since.  The tile is read from all  *)
(* of them into one entity, edited, and saved to all of them; in between a *)
(* client's own tools may have written the files, whose sub-chunks do not  *)
(* declare what they hold.                                                 *)
(*                                                                         *)
(* A file is the sequence of its chunks; arrays of plain records are in    *)
(* val, by chunk.  Edits give the entity values out of the constants.      *)
(***************************************************************************)
EXTENDS TerrainChunks

CONSTANTS Clients,     \* the releases under test
          Tiles,       \* [client -> tiles as reading leaves them]
          MapChunks,   \* [client -> terrain chunks an edit may put in place of the first]
          MaxEdits     \* the edits of one behaviour

VARIABLES client, format, tile, files, saved, last, edits
tileVars == <<client, format, tile, files, saved, last, edits>>

HasMfbo == 1

ChunkOrder == <<"MVER", "MHDR", "MCIN", "MAMP", "MTEX", "MDID", "MHID", "MMDX", "MMID", "MWMO", "MWID", "MDDF", "MODF",
                "MH2O", "MCNK", "MFBO", "MTXF", "MTXP">>
TopFile == [id \in {"MAMP", "MTEX", "MDID", "MHID", "MTXF", "MTXP"} |-> "Tex"]
           @@ [id \in {"MHDR", "MH2O", "MFBO"} |-> "Root"]
           @@ [id \in {"MMDX", "MMID", "MWMO", "MWID", "MDDF", "MODF"} |-> "Obj"]
TopSince == [MFBO |-> TBC, MH2O |-> WotLK, MTXF |-> WotLK, MAMP |-> Cata, MTXP |-> Cata, MDID |-> BfA, MHID |-> BfA]
Width == [MTEX |-> 1, MMDX |-> 1, MWMO |-> 1, MMID |-> 4, MWID |-> 4, MDDF |-> 36, MODF |-> 64, MTXF |-> 4, MTXP |-> 16,
          MDID |-> 4, MHID |-> 4, MAMP |-> 4, MFBO |-> 36]

Modelled(v, id) == id \in DOMAIN TopFile /\ (id \in DOMAIN TopSince => v >= TopSince[id])

NewTile ==
    [header |-> [flags |-> 0, mampValue |-> 0], usesTextureFdids |-> FALSE, water |-> <<>>, chunks |-> <<>>,
     val |-> [id \in DOMAIN Width |-> IF id \in {"MAMP", "MFBO"} THEN <<0>> ELSE <<>>], obj1 |-> <<>>, lod |-> <<>>]

---------------------------------------------------------------------------
(* Writing.                                                                 *)

WriteEngaged(t, id) ==
    CASE id = "MFBO" -> HasFlag(t.header.flags, HasMfbo)
      [] id = "MTEX" -> ~t.usesTextureFdids
      [] id \in {"MDID", "MHID"} -> t.usesTextureFdids
      [] id = "MH2O" -> HasLiquid(t.water)
      [] id \in {"MTXF", "MTXP"} -> t.val[id] # <<>>
      [] OTHER -> TRUE

TopChunk(id, b) == [id |-> id, b |-> b]

TopBytes(t, id) ==
    CASE id = "MHDR" -> <<>>
      [] id = "MH2O" -> WriteWater(t.water)
      [] OTHER       -> Wide(t.val[id], Width[id])

\* portions are the payloads of the terrain chunks.
TopChunks(t, v, kind, portions) ==
    FlattenSeq([i \in DOMAIN ChunkOrder |->
        LET id == ChunkOrder[i]
        IN  CASE id = "MVER" -> <<TopChunk(id, U32(18))>>
              [] id = "MCIN" -> IF kind = "Monolithic" THEN <<TopChunk(id, Zeros(16 * Cells))>> ELSE <<>>
              [] id = "MHDR" -> IF FileHasHeader(kind) THEN <<TopChunk(id, Zeros(64))>> ELSE <<>>
              [] id = "MCNK" -> [k \in 1 .. Min({Cells, Len(portions)}) |-> TopChunk(id, portions[k])]
              [] id \in DOMAIN Width \cup {"MH2O"} ->
                    IF Modelled(v, id) /\ RoutesTo(TopFile[id], kind) /\ WriteEngaged(t, id)
                    THEN <<TopChunk(id, TopBytes(t, id))>> ELSE <<>>])

PositionOf(file, i) == SumTo([k \in DOMAIN file |-> 8 + Len(file[k].b)], i)
IndexOf(file, id)   == Max({0} \cup {i \in DOMAIN file : file[i].id = id /\ \A k \in 1 .. i - 1 : file[k].id # id})

MhdrTables == <<"MCIN", "MTEX", "MMDX", "MMID", "MWMO", "MWID", "MDDF", "MODF", "MFBO", "MH2O", "MTXF">>
\* Relative to the data of MHDR.
Relative(file, i) == IF i = 0 THEN 0 ELSE PositionOf(file, i) - PositionOf(file, IndexOf(file, "MHDR")) - 8

MhdrBytes(t, file) ==
    Wide(<<t.header.flags>> \o [k \in DOMAIN MhdrTables |-> Relative(file, IndexOf(file, MhdrTables[k]))]
            \o <<t.header.mampValue, 0, 0, 0>>, 4)

McinBytes(file) ==
    LET first == IndexOf(file, "MCNK")
        Entry(k) == IF first # 0 /\ first + k - 1 \in DOMAIN file /\ file[first + k - 1].id = "MCNK"
                    THEN <<PositionOf(file, first + k - 1), Len(file[first + k - 1].b) + 8, 0, 0>> ELSE <<0, 8, 0, 0>>
    IN  Wide(FlattenSeq([k \in 1 .. Cells |-> Entry(k)]), 4)

StampTables(t, file) ==
    [i \in DOMAIN file |-> CASE file[i].id = "MHDR" -> TopChunk("MHDR", MhdrBytes(t, file))
                             [] file[i].id = "MCIN" -> TopChunk("MCIN", McinBytes(file))
                             [] OTHER -> file[i]]

WriteFile(t, v, kind, af) ==
    StampTables(t, TopChunks(t, v, kind, [k \in DOMAIN t.chunks |-> WriteTo(t.chunks[k], v, kind, af)]))

SplitKinds == [root |-> "Root", tex0 |-> "Tex0", obj0 |-> "Obj0"]
Kinds(v)   == IF v < Cata THEN [root |-> "Monolithic"] ELSE SplitKinds
Verbatim(t) == [f \in {x \in {"obj1", "lod"} : t[x] # <<>>} |-> t[f]]

Written(t, v, af) == [f \in DOMAIN Kinds(v) |-> WriteFile(t, v, Kinds(v)[f], af)] @@ (IF v < Cata THEN <<>> ELSE Verbatim(t))

---------------------------------------------------------------------------
(* What the clients' own tools write: MCNR declares the normals alone, and  *)
(* may end the chunk without what pads it; an MCAL or MCLQ that holds       *)
(* nothing declares anything, and the header says that it is empty.         *)

Garbage == 900
Undeclared(subs, padding) ==
    [i \in DOMAIN subs |->
        IF subs[i].id # "MCNR" THEN subs[i]
        ELSE [subs[i] EXCEPT !.size = NormalBytes,
                             !.b = IF i = Len(subs) /\ padding = Zeros(PaddingBytes) THEN SubSeq(@, 1, NormalBytes) ELSE @]]
EmptyOnes(subs, v, kind) ==
    SelectSeq(<<[id |-> "MCAL", size |-> Garbage, b |-> <<>>], [id |-> "MCLQ", size |-> Garbage, b |-> <<>>]>>,
              LAMBDA sub : kind = "Monolithic" /\ sub.id \in Known(v) /\ ~Emitted(subs, sub.id))

ToolPortion(c, v, kind, af) ==
    LET subs == Portion(c, v, kind, af)
    IN  Payload(c, Undeclared(subs \o EmptyOnes(subs, v, kind), c.padding), v, kind)
ToolFile(t, v, kind, af) ==
    StampTables(t, TopChunks(t, v, kind, [k \in DOMAIN t.chunks |-> ToolPortion(t.chunks[k], v, kind, af)]))

---------------------------------------------------------------------------
(* Reading.                                                                 *)

Resize(chunks, n) == IF Len(chunks) >= n THEN chunks ELSE [k \in 1 .. n |-> IF k <= Len(chunks) THEN chunks[k] ELSE NewMapChunk]

NormalizeMhdr(b) == [flags |-> U32At(b, 0), mampValue |-> U32At(b, 48)]

Scalar(id) == id \in {"MAMP", "MFBO"}
SizeFits(id, b) ==
    CASE id = "MHDR" -> Len(b) = 64
      [] id = "MH2O" -> WaterFits(b)
      [] OTHER       -> IF Scalar(id) THEN Len(b) = Width[id] ELSE Len(b) % Width[id] = 0

ReadTop(t, id, b) ==
    CASE id = "MHDR" -> [t EXCEPT !.header = NormalizeMhdr(b)]
      [] id = "MH2O" -> [t EXCEPT !.water = ReadWater(b)]
      [] id = "MDID" -> [t EXCEPT !.val.MDID = Narrow(b, 4), !.usesTextureFdids = TRUE]
      [] OTHER       -> [t EXCEPT !.val[id] = Narrow(b, Width[id])]

WithChunk(acc, r) ==
    [err |-> r.err, next |-> acc.next + 1, t |-> [acc.t EXCEPT !.chunks[acc.next] = r.chunk]]

\* acc is [err, next, t]: the terrain chunks of a file come in their order.
ParseChunk(acc, chunk, v, kind, af) ==
    CASE acc.err # "none" -> acc
      [] acc.err = "none" /\ chunk.id = "MCNK" ->
            WithChunk([acc EXCEPT !.t.chunks = Resize(@, acc.next)],
                      ReadFrom(Resize(acc.t.chunks, acc.next)[acc.next], chunk.b, v, kind, af))
      [] acc.err = "none" /\ chunk.id # "MCNK" /\ ~Modelled(v, chunk.id) -> acc
      [] OTHER -> IF SizeFits(chunk.id, chunk.b) THEN [acc EXCEPT !.t = ReadTop(@, chunk.id, chunk.b)]
                  ELSE [acc EXCEPT !.err = "ChunkSizeMismatch"]

ParseFile(acc, file, v, kind, af) ==
    FoldLeft(LAMBDA a, chunk : CHOOSE r \in {ParseChunk(a, chunk, v, kind, af)} : TRUE, [acc EXCEPT !.next = 1], file)

ParseIf(acc, fs, f, v, af) ==
    IF acc.err = "none" /\ f \in DOMAIN fs THEN ParseFile(acc, fs[f], v, Kinds(v)[f], af) ELSE acc

NormalizeChunks(t) == [t EXCEPT !.chunks = [k \in DOMAIN @ |-> [@[k] EXCEPT !.header.flags = SetFlag(@, DoNotFixAlphaMap)]]]

Kept(t, fs) == [t EXCEPT !.obj1 = IF "obj1" \in DOMAIN fs THEN fs.obj1 ELSE @, !.lod = IF "lod" \in DOMAIN fs THEN fs.lod ELSE @]

Blank == [err |-> "none", next |-> 1, t |-> [NewTile EXCEPT !.chunks = [k \in 1 .. Cells |-> NewMapChunk]]]

Finished(acc, fs, v) ==
    [err |-> acc.err,
     t   |-> IF acc.err # "none" THEN acc.t ELSE NormalizeChunks(IF v < Cata THEN acc.t ELSE Kept(acc.t, fs))]

ReadTile(fs, v, af) ==
    Finished(FoldLeft(LAMBDA acc, f : CHOOSE r \in {IF f \in DOMAIN Kinds(v) THEN ParseIf(acc, fs, f, v, af) ELSE acc} : TRUE,
                      Blank, <<"root", "tex0", "obj0">>), fs, v)

---------------------------------------------------------------------------
(* What validate() finds, as errors.                                        *)

Counted(n, s) == s = <<>> \/ Len(s) = n
ValidChunk(t, c) ==
    /\ \A id \in {"MCVT", "MCCV", "MCLV"} : Counted(Vertices, c.val[id])
    /\ Counted(Vertices, c.normals) /\ Counted(Texels, c.shadow)
    /\ Counted(Len(c.layers), c.alphaMaps)
    /\ \A i \in DOMAIN c.alphaMaps : Counted(Texels, c.alphaMaps[i])
    /\ \A i \in DOMAIN c.layers : c.layers[i].tex < Len(IF t.usesTextureFdids THEN t.val.MDID ELSE t.val.MTEX)
    /\ \A i \in DOMAIN c.val.MCRD : c.val.MCRD[i] < Len(t.val.MDDF)
    /\ \A i \in DOMAIN c.val.MCRW : c.val.MCRW[i] < Len(t.val.MODF)

\* A placement names an entry of the offsets, or (below zero) a file by its id.
ValidTile(t) ==
    /\ Counted(Cells, t.chunks)
    /\ \A k \in DOMAIN t.chunks : ValidChunk(t, t.chunks[k])
    /\ \A i \in DOMAIN t.val.MDDF : t.val.MDDF[i] < Len(t.val.MMID)
    /\ \A i \in DOMAIN t.val.MODF : t.val.MODF[i] < Len(t.val.MWID)

---------------------------------------------------------------------------
Unsaved == [t |-> NewTile, by |-> "nobody"]

TerrainInit ==
    /\ client \in Clients
    /\ format \in {"4bit", "8bit"}
    /\ tile \in Tiles[client]
    /\ files = <<>> /\ saved = Unsaved
    /\ last = [op |-> "none", err |-> "none"]
    /\ edits = 0

\* An edit gives the first terrain chunk another value, or the tile around its
\* chunks.
Edit ==
    /\ edits < MaxEdits
    /\ \/ \E c \in MapChunks[client] : tile' = [tile EXCEPT !.chunks[1] = c]
       \/ \E t \in Tiles[client] : tile' = [t EXCEPT !.chunks = tile.chunks]
    /\ tile' # tile
    /\ edits' = edits + 1
    /\ last' = [op |-> "edit", err |-> "none"]
    /\ UNCHANGED <<client, format, files, saved>>

Save ==
    /\ files' = Written(tile, client, format) @@ files
    /\ saved' = [t |-> tile, by |-> "library"]
    /\ last' = [op |-> "save", err |-> "none"]
    /\ UNCHANGED <<client, format, tile, edits>>

\* The tile comes from a client.
ToolSaves ==
    /\ files = <<>>
    /\ files' = [f \in DOMAIN Kinds(client) |-> ToolFile(tile, client, Kinds(client)[f], format)]
                   @@ (IF client < Cata THEN <<>> ELSE Verbatim(tile))
    /\ saved' = [t |-> tile, by |-> "tool"]
    /\ last' = [op |-> "save", err |-> "none"]
    /\ UNCHANGED <<client, format, tile, edits>>

Read ==
    /\ files # <<>>
    /\ \E r \in {ReadTile(files, client, format)} :
          /\ tile' = r.t
          /\ last' = [op |-> "read", err |-> r.err]
    /\ UNCHANGED <<client, format, files, saved, edits>>

TerrainNext == Edit \/ Save \/ ToolSaves \/ Read

TerrainSpec == TerrainInit /\ [][TerrainNext]_tileVars

---------------------------------------------------------------------------
(* What a save promises.                                                    *)

\* A map of four bits keeps the upper half of a texel, a shadow its lowest bit.
Quantised(map) == [i \in DOMAIN map |-> (map[i] \div 16) * 17]

SettledMap(c, i, af) ==
    CASE ~CarriesMap(c, i) -> <<>>
      [] CarriesMap(c, i) /\ af = "4bit" /\ ~HasFlag(c.layers[i].flags, AlphaMapCompressed) -> Quantised(c.alphaMaps[i])
      [] OTHER -> c.alphaMaps[i]

SettledLiquid(liquid) ==
    IF liquid.vertices = <<>> THEN NoLegacy
    ELSE [range |-> liquid.range, vertices |-> Sized(liquid.vertices, LegacyVertices, 0),
          tiles |-> Sized(liquid.tiles, LegacyTiles, 0), flows |-> SubSeq(liquid.flows, 1, Min({2, Len(liquid.flows)}))]

SettledChunk(c, af) ==
    [c EXCEPT !.alphaMaps = [i \in DOMAIN c.layers |-> SettledMap(c, i, af)],
              !.shadow    = [i \in DOMAIN @ |-> @[i] % 2],
              !.liquid    = SettledLiquid(@),
              !.emitters  = IF c.mcseRaw = <<>> THEN @ ELSE <<>>]

\* A chunk the files do not have is there nevertheless, and empty.
Absent == [NewMapChunk EXCEPT !.header.flags = DoNotFixAlphaMap]

Settled(t, af) ==
    [t EXCEPT !.chunks = [k \in 1 .. Cells |-> IF k \in DOMAIN @ THEN SettledChunk(@[k], af) ELSE Absent],
              !.water  = IF HasLiquid(@) THEN Sized(@, Cells, DryCell) ELSE <<>>,
              !.val.MTEX = IF t.usesTextureFdids THEN <<>> ELSE @,
              !.val.MDID = IF t.usesTextureFdids THEN @ ELSE <<>>,
              !.val.MHID = IF t.usesTextureFdids THEN @ ELSE <<>>,
              !.val.MFBO = IF HasFlag(t.header.flags, HasMfbo) THEN @ ELSE <<0>>]

\* A tile that was saved reads back equal, whoever saved it, up to what the
\* stored forms cannot hold; and a tile that validated still does
\* (adt.hpp: "an instance read from a client and left unmodified rewrites to a
\* semantically equal tile").
TileReadsBack ==
    last.op = "read" =>
        /\ last.err = "none"
        /\ tile = Settled(saved.t, format)
        /\ ValidTile(saved.t) => ValidTile(tile)

LeadsTo(b, offset, id) ==
    /\ offset >= 8 + HeaderSize /\ offset <= Len(b)
    /\ IdOf(U32At(b, offset - 8)) = id

HoldsChunk(b, f) == b[HeaderAt[f] + 1]
ChunkLeads(b) ==
    /\ \A f \in DOMAIN OffsetFields \cap DerivedIn(HeaderOf(b)) :
          IF HoldsChunk(b, f) # 0 THEN LeadsTo(b, HoldsChunk(b, f), OffsetFields[f])
          ELSE \A at \in HeaderSize .. Len(b) - 8 : IdOf(U32At(b, at)) # OffsetFields[f]
    /\ \A f \in DOMAIN SizeFields : HoldsChunk(b, f) # 0 =>
          \E g \in DOMAIN OffsetFields :
             /\ OffsetFields[g] = SizeFields[f]
             /\ HoldsChunk(b, f) = 8 + U32At(b, HoldsChunk(b, g) - 8 + 4)

TableLeads(file) ==
    \A k \in DOMAIN MhdrTables :
        LET base == PositionOf(file, IndexOf(file, "MHDR")) + 8
            to   == U32At(file[IndexOf(file, "MHDR")].b, 4 * k)
        IN  IF IndexOf(file, MhdrTables[k]) = 0 THEN to = 0
            ELSE PositionOf(file, IndexOf(file, MhdrTables[k])) = base + to

\* The places of the terrain chunks in a file.
CellChunks(file) == {i \in DOMAIN file : file[i].id = "MCNK"}
IndexLeads(file) ==
    IndexOf(file, "MCIN") # 0 =>
        \A k \in 1 .. Cells :
            LET entry == Narrow(Span(file[IndexOf(file, "MCIN")].b, 16 * (k - 1), 8), 4)
                kth   == {i \in CellChunks(file) : Cardinality({j \in CellChunks(file) : j <= i}) = k}
            IN  /\ kth = {} => entry[1] = 0
                /\ \A i \in kth : entry = <<PositionOf(file, i), 8 + Len(file[i].b)>>

\* In the files the library writes, every offset a header or a table states
\* leads to the chunk it is for, and every size is that chunk's; none is left
\* out for a chunk that is there, and the k-th entry of MCIN is the k-th
\* terrain chunk's (map_chunk.hpp _stampHeader, adt.hpp writeFile).
HeadersLead ==
    saved.by = "library" =>
        /\ TableLeads(files.root) /\ IndexLeads(files.root)
        /\ \A i \in DOMAIN files.root : files.root[i].id = "MCNK" => ChunkLeads(files.root[i].b)

\* Whatever tile is stored, its chunks say that their maps are full ("wowlib
\* always stores the full 64x64 edit surface and sets this flag on write",
\* chunks/header.hpp).
StoredAsFull ==
    saved.by = "library" =>
        \A i \in DOMAIN files.root :
            files.root[i].id = "MCNK" => HasFlag(HeaderOf(files.root[i].b).flags, DoNotFixAlphaMap)
=============================================================================
