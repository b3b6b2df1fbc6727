--------------------------- MODULE MCTerrain ---------------------------
(***************************************************************************)
(* Tiles of four eras: terrain chunks with plain, packed and shadowed      *)
(* layers, holes, sounds, both kinds of liquid and the two ways to name a  *)
(* texture.                                                                *)
(***************************************************************************)
EXTENDS TerrainTiles

AsRead(c) == [c EXCEPT !.header.flags = SetFlag(@, DoNotFixAlphaMap)]
Ground == AsRead([NewMapChunk EXCEPT !.header.areaId = 3, !.val.MCVT = <<5, 6>>, !.normals = <<7, 8>>])

Layer(tex, flags) == [tex |-> tex, flags |-> flags, offsetInMcal |-> 0]
Ramp   == [i \in 1 .. Texels |-> (i - 1) * 17]
Patchy == [i \in 1 .. Texels |-> IF i % 8 < 5 THEN 200 ELSE i]

Painted == [Ground EXCEPT !.layers = <<Layer(0, 0), Layer(1, UseAlphaMap)>>, !.alphaMaps = <<<<>>, Ramp>>,
                          !.shadow = [i \in 1 .. Texels |-> (i \div 3) % 2]]
Packed == [Ground EXCEPT !.layers = <<Layer(0, 0), Layer(1, UseAlphaMap + AlphaMapCompressed), Layer(0, UseAlphaMap)>>,
                         !.alphaMaps = <<<<>>, Patchy, Ramp>>, !.val.MCRD = <<0, 1>>, !.val.MCRW = <<0>>]
Holed  == [Ground EXCEPT !.header.flags = SetFlag(@, HighResHoles), !.header.ofsHeight = 9, !.header.ofsNormal = 4,
                         !.emitters = <<1, 2>>, !.padding = [i \in 1 .. 13 |-> i], !.layers = <<Layer(1, 0)>>,
                         !.alphaMaps = <<<<>>>>]
Noisy  == [Ground EXCEPT !.mcseRaw = <<4, 4, 4, 4, 4>>, !.val.MCRW = <<0>>]
Flooded == [Ground EXCEPT !.liquid = [range |-> 3, vertices |-> <<1, 2>>, tiles |-> <<1, 0>>, flows |-> <<6>>]]
Lit    == [Painted EXCEPT !.val.MCLV = <<2, 3>>, !.val.MCCV = <<4, 5>>, !.val.MCMT = <<6, 7>>]

MCMapChunks == [v \in {TBC, WotLK, Cata, BfA} |->
    {Painted, Packed, Holed, Noisy} \cup (IF v < Cata THEN {Flooded} ELSE {Lit})]

Pool(lvf) ==
    [type |-> 1, lvf |-> 0, range |-> 2, corner |-> 0, width |-> 1, height |-> 1, format |-> lvf,
     exists |-> <<1>>, heights |-> <<>>, uvs |-> <<>>, depths |-> <<>>]
Four == <<1, 2, 3, 4>>
Deep  == [Pool("heightDepth") EXCEPT !.heights = Four, !.depths = Four]
Warm  == [Pool("heightUv") EXCEPT !.lvf = 9, !.heights = Four, !.uvs = Four, !.exists = <<>>]
Ocean == [Pool("depth") EXCEPT !.lvf = 2]
Sea   == <<[attrs |-> 5, hasAttributes |-> TRUE, instances |-> <<Deep, Ocean>>],
           [attrs |-> 0, hasAttributes |-> FALSE, instances |-> <<Warm>>]>>

Land == [NewTile EXCEPT !.chunks = <<Ground, Painted>>, !.val.MTEX = <<1, 2>>, !.val.MMDX = <<3>>, !.val.MMID = <<0>>,
                        !.val.MWMO = <<4>>, !.val.MWID = <<0>>, !.val.MDDF = <<0, 0>>, !.val.MODF = <<0>>]
Flown == [Land EXCEPT !.header.flags = HasMfbo, !.val.MFBO = <<8>>]
Wet   == [Land EXCEPT !.water = Sea, !.val.MTXF = <<0, 1>>, !.chunks = <<Ground>>]
Split == [Wet EXCEPT !.val.MAMP = <<1>>, !.val.MTXP = <<1, 1>>, !.obj1 = <<1>>, !.header.mampValue = 1]
ByFdid == [Split EXCEPT !.val.MDID = <<11, 12>>, !.val.MHID = <<0, 13>>, !.usesTextureFdids = TRUE, !.val.MTEX = <<>>]

\* Since Cataclysm every tile has its _obj1: a tile without one leaves the file
\* of the tile before it behind.
Kept1(v, t) == IF v >= Cata THEN [t EXCEPT !.obj1 = <<1>>] ELSE t
MCTiles == [v \in {TBC, WotLK, Cata, BfA} |->
    {Kept1(v, Flown), Kept1(v, IF v >= WotLK THEN Wet ELSE Land)}
        \cup (IF v >= Cata THEN {Split} ELSE {}) \cup (IF v = BfA THEN {ByFdid} ELSE {})]

\* A tile built in memory and never read.
Bare == [Land EXCEPT !.chunks = <<[NewMapChunk EXCEPT !.layers = <<Layer(0, 0), Layer(1, UseAlphaMap)>>,
                                                     !.alphaMaps = <<<<>>, Ramp>>]>>]
BareTiles == [v \in {TBC, WotLK, Cata, BfA} |-> {Kept1(v, Bare)}]
=============================================================================
