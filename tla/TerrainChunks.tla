------------------------- MODULE TerrainChunks -------------------------
(***************************************************************************)
(* One terrain chunk of a tile (formats/adt/map_chunk.hpp,                 *)
(* chunks/header.hpp): the chunk as it is held, and the portion of it each *)
(* file of the tile has, a row of sub-chunks whose declared sizes cannot   *)
(* be trusted. Arrays of plain records are in val, by the id of their sub- *)
(* chunk; their elements are told apart by a number. Before it come the    *)
(* liquids (formats/adt/liquid.hpp): MH2O, a heap of blocks found through  *)
(* offsets, and the older MCLQ, a fixed grid; and the maps painted over a  *)
(* chunk (formats/adt/codec.hpp): how a square of texels, Dim on a side    *)
(* and row-major, goes to the bytes of MCAL and MCSH.                      *)
(*                                                                         *)
(* Bytes are a sequence with one element for each byte; what takes several *)
(* bytes is held by the first of them, the others are 0.                   *)
(***************************************************************************)
EXTENDS ClientEras, Integers, SequencesExt, FiniteSetsExt, TLC

CONSTANTS Cells,            \* the cells of a tile, 256
          LegacyVertices,   \* the vertices of an MCLQ, 81
          LegacyTiles       \* the tiles of an MCLQ, 64

ASSUME LiquidSizes == {Cells, LegacyVertices, LegacyTiles} \subseteq Nat \ {0}

Zeros(n)     == [i \in 1 .. n |-> 0]
Wide(s, w)   == [i \in 1 .. w * Len(s) |-> IF i % w = 1 \/ w = 1 THEN s[(i - 1) \div w + 1] ELSE 0]
Narrow(b, w) == [i \in 1 .. Len(b) \div w |-> b[w * (i - 1) + 1]]
U32(n)       == Wide(<<n>>, 4)
U32At(b, offset) == b[offset + 1]
Span(b, offset, n) == SubSeq(b, offset + 1, offset + n)
Sized(s, n, default) == [i \in 1 .. n |-> IF i <= Len(s) THEN s[i] ELSE default]

---------------------------------------------------------------------------
(* MCLQ.  Flows are two slots, whatever the count says.                     *)

NoLegacy   == [range |-> 0, vertices |-> <<>>, tiles |-> <<>>, flows |-> <<>>]
FixedBytes == 8 + 8 * LegacyVertices + LegacyTiles + 4

ReadLegacy(old, b) ==
    IF Len(b) < FixedBytes THEN old
    ELSE LET count == U32At(b, FixedBytes - 4)
             slots == (Len(b) - FixedBytes) \div 40
         IN  [range    |-> b[1],
              vertices |-> Narrow(Span(b, 8, 8 * LegacyVertices), 8),
              tiles    |-> Span(b, 8 + 8 * LegacyVertices, LegacyTiles),
              flows    |-> [i \in 1 .. Min({2, slots, count}) |-> b[FixedBytes + 40 * (i - 1) + 1]]]

WriteLegacy(liquid) ==
    Wide(<<liquid.range>>, 8) \o Wide(Sized(liquid.vertices, LegacyVertices, 0), 8)
        \o Sized(liquid.tiles, LegacyTiles, 0) \o U32(Len(liquid.flows))
        \o Wide(Sized(liquid.flows, 2, 0), 40)

---------------------------------------------------------------------------
(* MH2O.  A cell is [attrs, hasAttributes, instances]; an instance holds    *)
(* its type, the field lvf, its heights' range and its rectangle, the       *)
(* resolved format, and the arrays.                                         *)

DryCell    == [attrs |-> 0, hasAttributes |-> FALSE, instances |-> <<>>]
HasLiquid(water) == \E c \in DOMAIN water : water[c].instances # <<>>

Formats    == <<"heightDepth", "heightUv", "depth", "heightUvDepth">>
HasHeight(format) == format # "depth"
HasUv(format)     == format \in {"heightUv", "heightUvDepth"}
HasDepth(format)  == format # "heightUv"

VertexCount(inst) == (inst.width + 1) * (inst.height + 1)
MaskBytes(inst)   == (inst.width * inst.height + 7) \div 8

\* The format follows from how many bytes of the block there are for a vertex;
\* else from the stored field, when that is a format.
ResolveVertexFormat(lvf, total, n) ==
    CASE n # 0 /\ total = 5 * n -> "heightDepth"
      [] n # 0 /\ total = 8 * n -> "heightUv"
      [] n # 0 /\ total = n     -> "depth"
      [] n # 0 /\ total = 9 * n -> "heightUvDepth"
      [] OTHER -> IF lvf <= 3 THEN Formats[lvf + 1] ELSE "depth"

HeadBytes == 12 * Cells
VertexBlock(inst) == Wide(inst.heights, 4) \o Wide(inst.uvs, 4) \o inst.depths

\* The blocks after the instances, in the order they are laid down.
CellBlocks(water, c) ==
    (IF water[c].hasAttributes THEN <<[of |-> <<c, 0, "attrs">>, b |-> Wide(<<water[c].attrs>>, 16)]>> ELSE <<>>)
    \o FlattenSeq([k \in DOMAIN water[c].instances |->
           SelectSeq(<<[of |-> <<c, k, "exists">>, b |-> water[c].instances[k].exists],
                       [of |-> <<c, k, "verts">>, b |-> VertexBlock(water[c].instances[k])]>>,
                     LAMBDA block : block.b # <<>>)])

InstanceBytes(inst, exists, verts) ==
    <<inst.type, 0, inst.lvf, 0>> \o U32(inst.range) \o U32(inst.range)
        \o <<inst.corner, 0, inst.width, inst.height>> \o U32(exists) \o U32(verts)

SumTo(sizes, i) == FoldLeft(LAMBDA sum, n : sum + n, 0, SubSeq(sizes, 1, i - 1))

WriteWater(unsized) ==
    LET water  == Sized(unsized, Cells, DryCell)
        blocks == FlattenSeq([c \in 1 .. Cells |-> CellBlocks(water, c)])
        Instances(c) == HeadBytes + 24 * SumTo([k \in 1 .. Cells |-> Len(water[k].instances)], c)
        heap   == Instances(Cells + 1)
        Where(of) == LET at == {i \in DOMAIN blocks : blocks[i].of = of}
                     IN  IF at = {} THEN 0 ELSE heap + SumTo([i \in DOMAIN blocks |-> Len(blocks[i].b)], Min(at))
        CellHead(c) == U32(IF water[c].instances = <<>> THEN 0 ELSE Instances(c))
                       \o U32(Len(water[c].instances)) \o U32(Where(<<c, 0, "attrs">>))
        Layers(c) == FlattenSeq([k \in DOMAIN water[c].instances |->
                         InstanceBytes(water[c].instances[k], Where(<<c, k, "exists">>), Where(<<c, k, "verts">>))])
    IN  FlattenSeq([c \in 1 .. Cells |-> CellHead(c)]) \o FlattenSeq([c \in 1 .. Cells |-> Layers(c)])
            \o FlattenSeq([i \in DOMAIN blocks |-> blocks[i].b])

---------------------------------------------------------------------------
InstancesAt(b, c) == [k \in 1 .. U32At(b, 12 * (c - 1) + 4) |-> U32At(b, 12 * (c - 1)) + 24 * (k - 1)]
AttrsAt(b, c)     == U32At(b, 12 * (c - 1) + 8)

\* Where blocks start.  A block ends where the next one starts.
Starts(b) ==
    UNION {{AttrsAt(b, c)} \cup UNION {{U32At(b, base + 16), U32At(b, base + 20)} : base \in Range(InstancesAt(b, c))}
           : c \in 1 .. Cells} \ {0}
BlockEnd(b, start) == Min({Len(b)} \cup {s \in Starts(b) : s > start})

ReadInstance(b, base) ==
    LET exists == U32At(b, base + 16)
        verts  == U32At(b, base + 20)
        shape  == [width |-> b[base + 15], height |-> b[base + 16]]
        n      == VertexCount(shape)
        lvf    == b[base + 3]
        format == ResolveVertexFormat(lvf, IF verts = 0 THEN 0 ELSE BlockEnd(b, verts) - verts, n)
        uvsAt  == verts + (IF HasHeight(format) THEN 4 * n ELSE 0)
        depthsAt == uvsAt + (IF HasUv(format) THEN 4 * n ELSE 0)
        Array(has, at, w) == IF verts # 0 /\ has THEN Narrow(Span(b, at, w * n), w) ELSE <<>>
    IN  [type |-> b[base + 1], lvf |-> lvf, range |-> b[base + 5], corner |-> b[base + 13],
         width |-> shape.width, height |-> shape.height, format |-> format,
         exists  |-> IF exists = 0 THEN <<>> ELSE Span(b, exists, MaskBytes(shape)),
         heights |-> Array(HasHeight(format), verts, 4),
         uvs     |-> Array(HasUv(format), uvsAt, 4),
         depths  |-> Array(HasDepth(format), depthsAt, 1)]

ReadWater(b) ==
    [c \in 1 .. Cells |->
        [attrs |-> IF AttrsAt(b, c) = 0 THEN 0 ELSE b[AttrsAt(b, c) + 1],
         hasAttributes |-> AttrsAt(b, c) # 0,
         instances |-> [k \in DOMAIN InstancesAt(b, c) |-> ReadInstance(b, InstancesAt(b, c)[k])]]]

\* The head and the instances have to be whole.
WaterFits(b) ==
    /\ Len(b) >= HeadBytes
    /\ \A c \in 1 .. Cells : \A base \in Range(InstancesAt(b, c)) : base + 24 <= Len(b)
    /\ \A c \in 1 .. Cells :
          /\ AttrsAt(b, c) + 16 <= Len(b) \/ AttrsAt(b, c) = 0
          /\ \A base \in Range(InstancesAt(b, c)) :
                U32At(b, base + 16) = 0
                    \/ U32At(b, base + 16) + MaskBytes([width |-> b[base + 15], height |-> b[base + 16]]) <= Len(b)

---------------------------------------------------------------------------
(* The maps painted over a chunk.                                           *)

CONSTANTS Dim,          \* the side of a map, 64
          Vertices      \* the vertices of a chunk, 145

ASSUME DimFits == Dim \in 4 .. 127 /\ (Dim * Dim) % 8 = 0
ASSUME VerticesCount == Vertices \in Nat \ {0}

Texels      == Dim * Dim
Full(value) == [i \in 1 .. Texels |-> value]
At(row, col) == (row - 1) * Dim + col
Bit(byte, i) == (byte \div 2 ^ i) % 2

\* s, with zeros after it or its tail cut off, to n elements (vector::resize).
Resized(s, n) == [i \in 1 .. n |-> IF i <= Len(s) THEN s[i] ELSE 0]

\* An "unfixed" map: its last column and row are copies of their neighbours.
FixLastRowCol(map) ==
    LET columns == [i \in DOMAIN map |-> IF i % Dim = 0 THEN map[i - 1] ELSE map[i]]
    IN  [i \in DOMAIN map |-> IF i > Texels - Dim THEN columns[i - Dim] ELSE columns[i]]

Repaired(map, fix) == IF fix THEN FixLastRowCol(map) ELSE map

---------------------------------------------------------------------------
(* MCAL: 4 bits a texel, 8 bits, or runs.                                   *)

Decode4Bit(src) ==
    [i \in 1 .. Texels |->
        LET byte == (i + 1) \div 2
        IN  IF byte > Len(src) THEN 0
            ELSE IF i % 2 = 1 THEN (src[byte] % 16) * 17 ELSE (src[byte] \div 16) * 17]
Encode4Bit(map) ==
    [i \in 1 .. Texels \div 2 |-> map[2 * i - 1] \div 16 + 16 * (map[2 * i] \div 16)]

\* Runs: a control byte says how many texels, and whether one value fills
\* them or their values follow.  What would not fit the map is dropped.
RECURSIVE Unpacked(_, _, _)
Unpacked(src, p, map) ==
    IF Len(map) >= Texels \/ p > Len(src) THEN map
    ELSE LET count == src[p] % 128
             room  == Texels - Len(map)
             taken == IF count < room THEN count ELSE room
         IN  IF src[p] >= 128
             THEN IF p = Len(src) THEN map
                  ELSE Unpacked(src, p + 2, map \o [k \in 1 .. taken |-> src[p + 1]])
             ELSE LET end == IF p + taken < Len(src) THEN p + taken ELSE Len(src)
                  IN  Unpacked(src, end + 1, map \o SubSeq(src, p + 1, end))

DecodeRle(src) == Resized(Unpacked(src, 1, <<>>), Texels)

\* One row: equal texels from the third on make a fill; the others gather in
\* a copy, which ends where a fill begins.
RunAt(row, i) == CHOOSE n \in 1 .. Dim :
    /\ i + n - 1 <= Dim /\ \A k \in 0 .. n - 1 : row[i + k] = row[i]
    /\ i + n <= Dim => row[i + n] # row[i]
Flushed(out, copy) == IF copy = <<>> THEN out ELSE out \o <<Len(copy)>> \o copy

RECURSIVE EncodeRow(_, _, _, _)
EncodeRow(row, i, copy, out) ==
    IF i > Dim THEN Flushed(out, copy)
    ELSE LET run == RunAt(row, i)
         IN  IF run >= 3 THEN EncodeRow(row, i + run, <<>>, Flushed(out, copy) \o <<128 + run, row[i]>>)
                         ELSE EncodeRow(row, i + 1, Append(copy, row[i]), out)

EncodeRle(map) ==
    FlattenSeq([r \in 1 .. Dim |-> EncodeRow([c \in 1 .. Dim |-> map[At(r, c)]], 1, <<>>, <<>>)])

\* A layer's map, by the tile's bit depth and the layer's own compression.
DecodeAlpha(src, format, compressed, fix) ==
    Repaired(CASE compressed           -> DecodeRle(src)
               [] ~compressed /\ format = "8bit" -> Resized(src, Texels)
               [] OTHER                -> Decode4Bit(src), fix)
EncodeAlpha(map, format, compressed) ==
    CASE compressed                       -> EncodeRle(map)
      [] ~compressed /\ format = "8bit"   -> map
      [] OTHER                            -> Encode4Bit(map)

---------------------------------------------------------------------------
(* MCSH: a bit a texel.                                                     *)

DecodeShadow(src, fix) ==
    Repaired([i \in 1 .. Texels |->
                LET byte == (i + 7) \div 8
                IN  IF byte > Len(src) THEN 0 ELSE Bit(src[byte], (i - 1) % 8)], fix)
EncodeShadow(map) ==
    [byte \in 1 .. Texels \div 8 |->
        FoldLeft(LAMBDA sum, bit : sum + (map[8 * byte - 8 + bit] % 2) * 2 ^ (bit - 1), 0, [b \in 1 .. 8 |-> b])]

---------------------------------------------------------------------------
(* What a file of the tile has of a chunk.                                  *)

RoutesTo(file, kind)  == kind = "Monolithic" \/ <<file, kind>> \in {<<"Root", "Root">>, <<"Tex", "Tex0">>, <<"Obj", "Obj0">>}
FileHasHeader(kind)   == kind \in {"Monolithic", "Root"}

DoNotFixAlphaMap   == 32768
HighResHoles       == 65536
UseAlphaMap        == 256
AlphaMapCompressed == 512
HasFlag(flags, f)  == (flags \div f) % 2 = 1
SetFlag(flags, f)  == IF HasFlag(flags, f) THEN flags ELSE flags + f

---------------------------------------------------------------------------
(* The header, 128 bytes; where the fields the code knows begin.            *)

HeaderSize == 128
HeaderAt == [flags |-> 0, index |-> 4, nLayers |-> 12, nDoodadRefs |-> 16, ofsHeight |-> 20, ofsNormal |-> 24,
             ofsLayer |-> 28, ofsRefs |-> 32, ofsAlpha |-> 36, sizeAlpha |-> 40, ofsShadow |-> 44, sizeShadow |-> 48,
             areaId |-> 52, nMapObjRefs |-> 56, holes |-> 60, predominant |-> 64, ofsSndEmitters |-> 88,
             nSndEmitters |-> 92, ofsLiquid |-> 96, sizeLiquid |-> 100, position |-> 104, ofsMccv |-> 116, ofsMclv |-> 120]

NewHeader       == [f \in DOMAIN HeaderAt |-> 0]
HeaderBytes(h)  == [i \in 1 .. HeaderSize |-> FoldSet(LAMBDA f, b : IF HeaderAt[f] + 1 = i THEN h[f] ELSE b, 0, DOMAIN HeaderAt)]
HeaderOf(b)     == [f \in DOMAIN HeaderAt |-> U32At(b, HeaderAt[f])]

Derived == {"nLayers", "nDoodadRefs", "ofsLayer", "ofsRefs", "ofsAlpha", "sizeAlpha", "ofsShadow", "sizeShadow",
            "nMapObjRefs", "ofsSndEmitters", "nSndEmitters", "ofsLiquid", "sizeLiquid", "ofsMccv", "ofsMclv"}

\* With the high resolution flag the first two offsets are a mask of holes.
DerivedIn(h) == Derived \cup (IF HasFlag(h.flags, HighResHoles) THEN {} ELSE {"ofsHeight", "ofsNormal"})

---------------------------------------------------------------------------
Arrays == {"MCVT", "MCCV", "MCLV", "MCMT", "MCRD", "MCRW"}
Known(client) ==
    {"MCVT", "MCNR", "MCSE", "MCLY", "MCSH", "MCAL", "MCRD", "MCRW"}
        \cup (IF client >= WotLK THEN {"MCCV"} ELSE {})
        \cup (IF client >= Cata THEN {"MCLV", "MCMT"} ELSE {"MCLQ"})

SubChunkOrder == <<"MCVT", "MCCV", "MCLV", "MCNR", "MCLQ", "MCSE", "MCLY", "MCSH", "MCAL", "MCMT">>
FileOf(magic) == IF magic \in {"MCLY", "MCSH", "MCAL", "MCMT"} THEN "Tex"
                 ELSE IF magic \in {"MCRF", "MCRD", "MCRW"} THEN "Obj" ELSE "Root"

Ids        == SubChunkOrder \o <<"MCRF", "MCRD", "MCRW">>
Fourcc(id) == 1000 + SelectInSeq(Ids, LAMBDA x : x = id)
IdOf(n)    == IF n - 1000 \in DOMAIN Ids THEN Ids[n - 1000] ELSE "?"

NormalBytes    == 3 * Vertices
PaddingBytes   == 13
EmitterSize(client) == IF client < WotLK THEN 52 ELSE 28

NewMapChunk ==
    [header |-> NewHeader, val |-> [id \in Arrays |-> <<>>], normals |-> <<>>, padding |-> Zeros(PaddingBytes),
     layers |-> <<>>, alphaMaps |-> <<>>, shadow |-> <<>>, emitters |-> <<>>, mcseRaw |-> <<>>, liquid |-> NoLegacy]

---------------------------------------------------------------------------
(* Reading.  ctx is [client, kind, format, fix].                            *)

ReadNormals(c, sub) ==
    [c EXCEPT !.normals = Sized(Narrow(sub, 3), Vertices, 0),
              !.padding = IF Len(sub) >= NormalBytes + PaddingBytes THEN Span(sub, NormalBytes, PaddingBytes) ELSE @]

ReadLayers(c, sub) ==
    [c EXCEPT !.layers = [i \in 1 .. Len(sub) \div 16 |->
                             [tex |-> sub[16 * i - 15], flags |-> sub[16 * i - 11], offsetInMcal |-> sub[16 * i - 7]]],
              !.alphaMaps = [i \in 1 .. Len(sub) \div 16 |-> <<>>]]

ReadAlpha(c, sub, ctx) ==
    [c EXCEPT !.alphaMaps = [i \in DOMAIN c.layers |->
        LET layer == c.layers[i]
            held  == IF i \in DOMAIN c.alphaMaps THEN c.alphaMaps[i] ELSE <<>>
        IN  IF ~HasFlag(layer.flags, UseAlphaMap) \/ layer.offsetInMcal > Len(sub) THEN held
            ELSE DecodeAlpha(SubSeq(sub, layer.offsetInMcal + 1, Len(sub)), ctx.format,
                             HasFlag(layer.flags, AlphaMapCompressed), ctx.fix)]]

ReadEmitters(c, sub, size) ==
    IF Len(sub) % size = 0 THEN [c EXCEPT !.emitters = Narrow(sub, size)] ELSE [c EXCEPT !.mcseRaw = sub]

\* The header says how many of the references are to doodads.
ReadCombinedRefs(c, refs, kind) ==
    LET n == IF FileHasHeader(kind) THEN Min({c.header.nDoodadRefs, Len(refs)}) ELSE 0
    IN  [c EXCEPT !.val.MCRD = SubSeq(refs, 1, n), !.val.MCRW = SubSeq(refs, n + 1, Len(refs))]

ReadSubChunk(c, id, sub, ctx) ==
    CASE id = "MCRF" -> ReadCombinedRefs(c, Narrow(sub, 4), ctx.kind)
      [] id # "MCRF" /\ id \notin Known(ctx.client) -> c
      [] id \in Known(ctx.client) \cap Arrays -> [c EXCEPT !.val[id] = Narrow(sub, 4)]
      [] id = "MCNR" -> ReadNormals(c, sub)
      [] id = "MCLY" -> ReadLayers(c, sub)
      [] id = "MCAL" -> ReadAlpha(c, sub, ctx)
      [] id = "MCSH" -> [c EXCEPT !.shadow = DecodeShadow(sub, ctx.fix)]
      [] id = "MCSE" -> ReadEmitters(c, sub, EmitterSize(ctx.client))
      [] id = "MCLQ" /\ id \in Known(ctx.client) -> [c EXCEPT !.liquid = ReadLegacy(@, sub)]

Misfits(id, sub, client) == id \in Known(client) \cap Arrays /\ Len(sub) % 4 # 0

Mut_SubchunkLength(h, id, declared, kind) ==
    CASE id = "MCNR" /\ declared <= NormalBytes -> NormalBytes + PaddingBytes
      [] id = "MCAL" /\ FileHasHeader(kind) /\ h.sizeAlpha > 8  -> h.sizeAlpha - 8
      [] id = "MCLQ" /\ FileHasHeader(kind) /\ h.sizeLiquid > 8 -> h.sizeLiquid - 8
      [] OTHER -> declared

\* MCNR does not declare what pads it; the header knows MCAL and MCLQ better
\* than they do, even when it says that they are empty.
SubchunkLength(h, id, declared, kind) ==
    CASE id = "MCNR" /\ declared <= NormalBytes -> NormalBytes + PaddingBytes
      [] id = "MCAL" /\ FileHasHeader(kind) /\ h.sizeAlpha # 0  -> IF h.sizeAlpha <= 8 THEN 0 ELSE h.sizeAlpha - 8
      [] id = "MCLQ" /\ FileHasHeader(kind) /\ h.sizeLiquid # 0 -> IF h.sizeLiquid <= 8 THEN 0 ELSE h.sizeLiquid - 8
      [] OTHER -> declared

\* What would overrun the chunk is left to the declared size.
Effective(b, at, length, declared) == IF at + length > Len(b) THEN declared ELSE length

ClearDerived(c, kind) ==
    [c EXCEPT !.layers = [i \in DOMAIN @ |-> [@[i] EXCEPT !.offsetInMcal = 0]],
              !.header = IF FileHasHeader(kind)
                         THEN [f \in DOMAIN @ |-> IF f \in DerivedIn(@) THEN 0 ELSE @[f]] ELSE @]

Failed(err) == [err |-> err, chunk |-> NewMapChunk]

RECURSIVE ReadSubChunks(_, _, _, _)
ReadNext(c, b, at, id, n, ctx) ==
    CASE at + n > Len(b) -> Failed("ChunkTruncated")
      [] at + n <= Len(b) /\ Misfits(id, Span(b, at, n), ctx.client) -> Failed("ChunkSizeMismatch")
      [] OTHER -> ReadSubChunks(ReadSubChunk(c, id, Span(b, at, n), ctx), b, at + n, ctx)

ReadSubChunks(c, b, pos, ctx) ==
    IF pos + 8 > Len(b) THEN [err |-> "none", chunk |-> ClearDerived(c, ctx.kind)]
    ELSE ReadNext(c, b, pos + 8, IdOf(U32At(b, pos)),
                  Effective(b, pos + 8, SubchunkLength(c.header, IdOf(U32At(b, pos)), U32At(b, pos + 4), ctx.kind),
                            U32At(b, pos + 4)), ctx)

WithHeader(c, b, kind) == IF FileHasHeader(kind) THEN [c EXCEPT !.header = HeaderOf(b)] ELSE c

ReadPortion(c, b, client, kind, format) ==
    ReadSubChunks(c, b, IF FileHasHeader(kind) THEN HeaderSize ELSE 0,
                  [client |-> client, kind |-> kind, format |-> format,
                   fix |-> ~HasFlag(c.header.flags, DoNotFixAlphaMap)])

ReadFrom(chunk, b, client, kind, format) ==
    IF FileHasHeader(kind) /\ Len(b) < HeaderSize THEN Failed("ChunkTruncated")
    ELSE ReadPortion(WithHeader(chunk, b, kind), b, client, kind, format)

---------------------------------------------------------------------------
(* Writing.                                                                 *)

CarriesMap(c, i) ==
    i \in DOMAIN c.alphaMaps /\ c.alphaMaps[i] # <<>> /\ HasFlag(c.layers[i].flags, UseAlphaMap)

\* The maps of the layers in a row, and the layers with where theirs begins.
AlphaLayout(c, format) ==
    FoldLeft(LAMBDA acc, i :
                [blob   |-> acc.blob \o (IF CarriesMap(c, i)
                                         THEN EncodeAlpha(c.alphaMaps[i], format, HasFlag(c.layers[i].flags, AlphaMapCompressed))
                                         ELSE <<>>),
                 layers |-> Append(acc.layers, [c.layers[i] EXCEPT !.offsetInMcal = Len(acc.blob)])],
             [blob |-> <<>>, layers |-> <<>>], [i \in DOMAIN c.layers |-> i])

LayerBytes(layers) == FlattenSeq([i \in DOMAIN layers |-> Wide(<<layers[i].tex, layers[i].flags, layers[i].offsetInMcal, 0>>, 4)])

\* A sub-chunk that has nothing to hold is not written.
SubChunkBytes(c, id, client, alpha) ==
    CASE id \notin Known(client) \cup {"MCRF"} -> <<>>
      [] id \in Known(client) \cap Arrays -> Wide(c.val[id], 4)
      [] id = "MCRF" -> Wide(c.val.MCRD \o c.val.MCRW, 4)
      [] id = "MCNR" -> IF c.normals = <<>> THEN <<>> ELSE Wide(c.normals, 3) \o c.padding
      [] id = "MCLY" -> LayerBytes(alpha.layers)
      [] id = "MCAL" -> alpha.blob
      [] id = "MCSH" -> IF c.shadow = <<>> THEN <<>> ELSE EncodeShadow(c.shadow)
      [] id = "MCSE" -> IF c.mcseRaw # <<>> THEN c.mcseRaw ELSE Wide(c.emitters, EmitterSize(client))
      [] id = "MCLQ" /\ id \in Known(client) -> IF c.liquid.vertices = <<>> THEN <<>> ELSE WriteLegacy(c.liquid)

SubChunk(id, b) == [id |-> id, size |-> Len(b), b |-> b]

References(kind) == IF kind = "Monolithic" THEN <<"MCRF">> ELSE <<"MCRD", "MCRW">>

SubChunks(c, client, kind, alpha) ==
    LET order == SelectSeq(SubChunkOrder \o References(kind), LAMBDA id : RoutesTo(FileOf(id), kind))
    IN  SelectSeq([i \in DOMAIN order |-> SubChunk(order[i], SubChunkBytes(c, order[i], client, alpha))],
                  LAMBDA sub : sub.b # <<>>)

PlaceOf(subs, id) == SelectInSeq(subs, LAMBDA sub : sub.id = id)
Emitted(subs, id) == PlaceOf(subs, id) # 0

Mut_OffsetOf(subs, id) == HeaderSize + SumTo([i \in DOMAIN subs |-> 8 + Len(subs[i].b)], PlaceOf(subs, id))

\* Relative to the chunk's own id, which is 8 bytes before the header.
OffsetOf(subs, id) == 8 + HeaderSize + SumTo([i \in DOMAIN subs |-> 8 + Len(subs[i].b)], PlaceOf(subs, id))
TotalOf(subs, id)  == 8 + Len(subs[PlaceOf(subs, id)].b)

OffsetFields == [ofsHeight |-> "MCVT", ofsNormal |-> "MCNR", ofsMccv |-> "MCCV", ofsMclv |-> "MCLV", ofsLayer |-> "MCLY",
                 ofsAlpha |-> "MCAL", ofsShadow |-> "MCSH", ofsLiquid |-> "MCLQ", ofsRefs |-> "MCRF", ofsSndEmitters |-> "MCSE"]
SizeFields   == [sizeAlpha |-> "MCAL", sizeShadow |-> "MCSH", sizeLiquid |-> "MCLQ"]

CountFields(c, subs, client) ==
    (IF Emitted(subs, "MCLY") THEN [nLayers |-> Len(c.layers)] ELSE <<>>)
    @@ (IF \E id \in {"MCRF", "MCRD", "MCRW"} : Emitted(subs, id)
        THEN [nDoodadRefs |-> Len(c.val.MCRD), nMapObjRefs |-> Len(c.val.MCRW)] ELSE <<>>)
    @@ (IF Emitted(subs, "MCSE")
        THEN [nSndEmitters |-> IF c.mcseRaw = <<>> THEN Len(c.emitters) ELSE Len(c.mcseRaw) \div EmitterSize(client)]
        ELSE <<>>)

\* A field that nothing written speaks of keeps its value.
StampHeader(c, subs, counts) ==
    [f \in DOMAIN c.header |->
        CASE f \in DOMAIN counts -> counts[f]
          [] f \in DOMAIN SizeFields /\ Emitted(subs, SizeFields[f]) -> TotalOf(subs, SizeFields[f])
          [] f \in DOMAIN OffsetFields /\ Emitted(subs, OffsetFields[f]) /\ f \in DerivedIn(c.header) ->
                OffsetOf(subs, OffsetFields[f])
          [] OTHER -> c.header[f]]

Payload(c, subs, client, kind) ==
    (IF FileHasHeader(kind) THEN HeaderBytes(StampHeader(c, subs, CountFields(c, subs, client))) ELSE <<>>)
        \o FlattenSeq([i \in DOMAIN subs |-> U32(Fourcc(subs[i].id)) \o U32(subs[i].size) \o subs[i].b])

Portion(c, client, kind, format) ==
    SubChunks(c, client, kind, IF RoutesTo("Tex", kind) THEN AlphaLayout(c, format) ELSE [blob |-> <<>>, layers |-> <<>>])

WriteTo(c, client, kind, format) == Payload(c, Portion(c, client, kind, format), client, kind)
=============================================================================
