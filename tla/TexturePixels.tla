-------------------------- MODULE TexturePixels --------------------------
(***************************************************************************)
(* The pixel codecs of a texture (formats/blp/codec.hpp, blp.cpp): blocks  *)
(* of four by four texels, palettes with an alpha plane, raw pixels, and   *)
(* the halving of an image.                                                *)
(*                                                                         *)
(* A pixel is <<r, g, b, a>>, an image the sequence of its pixels by rows, *)
(* a payload the sequence of its bytes.  A short payload is one the        *)
(* clients ship: what it lacks decodes to transparent black.               *)
(***************************************************************************)
EXTENDS Integers, FiniteSets, SequencesExt, FiniteSetsExt

CONSTANT PaletteSize       \* the colours of a palette, 256

ASSUME PaletteHoldsIndices == PaletteSize \in 1 .. 256

\* The pixel formats that have a part here, by their numbers.
Dxt1        == 0
Dxt3        == 1
Argb8888    == 2
Dxt5        == 7
Unspecified == 8
Bc5         == 11
BlockFormats == {Dxt1, Dxt3, Dxt5, Bc5}

Clear        == <<0, 0, 0, 0>>
\* The i-th group of so many bits, from 0 at the low end.
Field(byte, i, bits) == (byte \div 2 ^ (i * bits)) % 2 ^ bits
RoundUp(n, unit)     == (n + unit - 1) \div unit
Distance(p, q)       == (p[1] - q[1]) ^ 2 + (p[2] - q[2]) ^ 2 + (p[3] - q[3]) ^ 2
\* The first of the candidates that is nearest.
Nearest(colors, p) ==
    CHOOSE i \in DOMAIN colors : \A k \in DOMAIN colors :
        Distance(colors[i], p) < Distance(colors[k], p) \/ (Distance(colors[i], p) = Distance(colors[k], p) /\ i <= k)

---------------------------------------------------------------------------
(* Blocks.  A colour is 16 bits, 5, 6 and 5 of them to a channel.           *)

Expand5(v) == v * 8 + v \div 4
Expand6(v) == v * 4 + v \div 16
Expand(c)  == <<Expand5((c \div 2048) % 32), Expand6((c \div 32) % 64), Expand5(c % 32)>>
Pack565(p) == (p[1] \div 8) * 2048 + (p[2] \div 4) * 32 + p[3] \div 8
Mix(p, q, m, n) == [ch \in 1 .. 3 |-> (m * p[ch] + n * q[ch]) \div (m + n)]

FourColors(p, q)  == <<p, q, Mix(p, q, 2, 1), Mix(p, q, 1, 2)>>
ThreeColors(p, q) == <<p, q, Mix(p, q, 1, 1)>>

BlockColors(c0, c1, punchThrough) ==
    IF ~punchThrough \/ c0 > c1 THEN [i \in 1 .. 4 |-> FourColors(Expand(c0), Expand(c1))[i] \o <<255>>]
    ELSE [i \in 1 .. 3 |-> ThreeColors(Expand(c0), Expand(c1))[i] \o <<255>>] \o <<Clear>>

\* Places in a payload count from 0, as in the code.
U16(b, at) == b[at + 1] + 256 * b[at + 2]

\* The sixteen texels of a block, from its byte at on.
DecodeColorBlock(b, at, punchThrough) ==
    LET colors == BlockColors(U16(b, at), U16(b, at + 2), punchThrough)
    IN  [t \in 1 .. 16 |-> colors[Field(b[at + 5 + (t - 1) \div 4], (t - 1) % 4, 2) + 1]]

DecodeExplicitAlpha(b, at) == [t \in 1 .. 16 |-> Field(b[at + 1 + (t - 1) \div 2], (t - 1) % 2, 4) * 17]

AlphaValues(a0, a1) ==
    IF a0 > a1 THEN <<a0, a1>> \o [i \in 1 .. 6 |-> ((7 - i) * a0 + i * a1) \div 7]
    ELSE <<a0, a1>> \o [i \in 1 .. 4 |-> ((5 - i) * a0 + i * a1) \div 5] \o <<0, 255>>

\* Three bits to a texel, eight texels to three bytes.
DecodeInterpolatedAlpha(b, at) ==
    LET Bits(half) == b[at + 3 + 3 * half] + 256 * b[at + 4 + 3 * half] + 65536 * b[at + 5 + 3 * half]
    IN  [t \in 1 .. 16 |->
            AlphaValues(b[at + 1], b[at + 2])[Field(Bits((t - 1) \div 8), (t - 1) % 8, 3) + 1]]

WithAlpha(block, alpha) == [t \in 1 .. 16 |-> SubSeq(block[t], 1, 3) \o <<alpha[t]>>]

BlockBytes(format) == IF format = Dxt1 THEN 8 ELSE 16
DxtSize(format, w, h) == RoundUp(w, 4) * RoundUp(h, 4) * BlockBytes(format)

DecodeBlock(format, b, at) ==
    CASE format = Dxt1 -> DecodeColorBlock(b, at, TRUE)
      [] format = Dxt3 -> WithAlpha(DecodeColorBlock(b, at + 8, FALSE), DecodeExplicitAlpha(b, at))
      [] format = Dxt5 -> WithAlpha(DecodeColorBlock(b, at + 8, FALSE), DecodeInterpolatedAlpha(b, at))
      [] format = Bc5  -> [t \in 1 .. 16 |-> <<DecodeInterpolatedAlpha(b, at)[t], DecodeInterpolatedAlpha(b, at + 8)[t], 0, 255>>]

\* The texels of a block that are beyond the image are not placed.
DecodeDxt(format, b, w, h) ==
    LET wide     == RoundUp(w, 4)
        count    == Len(b) \div BlockBytes(format)
        BlockOf(i)  == (((i - 1) \div w) \div 4) * wide + (((i - 1) % w) \div 4)
        TexelOf(i)  == (((i - 1) \div w) % 4) * 4 + (((i - 1) % w) % 4) + 1
        blocks   == [k \in 1 .. Min({count, wide * RoundUp(h, 4)}) |-> DecodeBlock(format, b, BlockBytes(format) * (k - 1))]
    IN  [i \in 1 .. w * h |-> IF BlockOf(i) < count THEN blocks[BlockOf(i) + 1][TexelOf(i)] ELSE Clear]

---------------------------------------------------------------------------
\* An image that ends within a block repeats its last row and column.
ExtractBlock(px, w, h, k) ==
    [t \in 1 .. 16 |->
        px[Min({(k \div RoundUp(w, 4)) * 4 + (t - 1) \div 4, h - 1}) * w
           + Min({(k % RoundUp(w, 4)) * 4 + ((t - 1) % 4), w - 1}) + 1]]

Opaque(p) == p[4] >= 128
RowBits(index) == [row \in 1 .. 4 |-> index[4 * row - 3] + 4 * index[4 * row - 2] + 16 * index[4 * row - 1] + 64 * index[4 * row]]
ColorBytes(c0, c1, index) == <<c0 % 256, c0 \div 256, c1 % 256, c1 \div 256>> \o RowBits(index)

Corner(px, op(_)) ==
    IF \E t \in DOMAIN px : Opaque(px[t]) THEN [ch \in 1 .. 3 |-> op({px[t][ch] : t \in {k \in DOMAIN px : Opaque(px[k])}})]
    ELSE <<0, 0, 0>>

Mut_Ends(px) == <<Pack565(Corner(px, Max)), Pack565(Corner(px, Min))>>

\* The lower first: that is what selects three colours and the clear one.
Ends(px) ==
    LET c == {Pack565(Corner(px, Min)), Pack565(Corner(px, Max))}
    IN  <<Min(c), Max(c)>>

EncodePunchThroughBlock(px) ==
    LET ends    == Ends(px)
        colors  == ThreeColors(Expand(ends[1]), Expand(ends[2]))
    IN  ColorBytes(ends[1], ends[2], [t \in 1 .. 16 |-> IF Opaque(px[t]) THEN Nearest(colors, px[t]) - 1 ELSE 3])

\* The compressor of the library puts its two ends on the corners of the colours
\* or so many sixteenths inside them, the higher first, and gives every texel
\* the nearest of the four; an interpolated channel it puts between its extremes.
StbColorBlock(px, inset) ==
    LET hi(ch) == Max({px[t][ch] : t \in DOMAIN px})
        lo(ch) == Min({px[t][ch] : t \in DOMAIN px})
        c0  == Pack565([ch \in 1 .. 3 |-> hi(ch) - ((hi(ch) - lo(ch)) * inset) \div 16])
        c1  == Pack565([ch \in 1 .. 3 |-> lo(ch) + ((hi(ch) - lo(ch)) * inset) \div 16])
    IN  ColorBytes(c0, c1, [t \in 1 .. 16 |-> IF c0 = c1 THEN 0
                                              ELSE Nearest(FourColors(Expand(c0), Expand(c1)), px[t]) - 1])

StbAlphaBlock(values) ==
    LET a0 == Max(ToSet(values))
        a1 == Min(ToSet(values))
        Off(v, i) == IF v > AlphaValues(a0, a1)[i] THEN v - AlphaValues(a0, a1)[i] ELSE AlphaValues(a0, a1)[i] - v
        Index(v)  == IF a0 = a1 THEN 0 ELSE (CHOOSE i \in 1 .. 8 : \A k \in 1 .. 8 : Off(v, i) <= Off(v, k)) - 1
        Bits(half) == FoldLeft(LAMBDA acc, t : acc * 8 + Index(values[8 * half + 9 - t]), 0, <<1, 2, 3, 4, 5, 6, 7, 8>>)
    IN  <<a0, a1>> \o FlattenSeq([half \in 1 .. 2 |->
            <<Bits(half - 1) % 256, (Bits(half - 1) \div 256) % 256, Bits(half - 1) \div 65536>>])

Nibble(a) == Min({15, (a + 8) \div 17})

EncodeBlock(format, px, inset) ==
    CASE format = Dxt1 -> IF \E t \in 1 .. 16 : ~Opaque(px[t]) THEN EncodePunchThroughBlock(px) ELSE StbColorBlock(px, inset)
      [] format = Dxt3 -> [i \in 1 .. 8 |-> Nibble(px[2 * i - 1][4]) + 16 * Nibble(px[2 * i][4])] \o StbColorBlock(px, inset)
      [] format = Dxt5 -> StbAlphaBlock([t \in 1 .. 16 |-> px[t][4]]) \o StbColorBlock(px, inset)
      [] format = Bc5  -> StbAlphaBlock([t \in 1 .. 16 |-> px[t][1]]) \o StbAlphaBlock([t \in 1 .. 16 |-> px[t][2]])

EncodeDxt(format, px, w, h, inset) ==
    FlattenSeq([k \in 1 .. RoundUp(w, 4) * RoundUp(h, 4) |-> EncodeBlock(format, ExtractBlock(px, w, h, k - 1), inset)])

---------------------------------------------------------------------------
(* Palettes.  A palette is a sequence of colours.                           *)

PaletteBytes(depth, w, h) == w * h + RoundUp(w * h * depth, 8)

UnpackAlpha(depth, plane, i) ==
    CASE depth = 1 -> IF i \div 8 >= Len(plane) THEN 0 ELSE 255 * Field(plane[i \div 8 + 1], i % 8, 1)
      [] depth = 4 -> IF i \div 2 >= Len(plane) THEN 0 ELSE 17 * Field(plane[i \div 2 + 1], i % 2, 4)
      [] depth = 8 -> IF i < Len(plane) THEN plane[i + 1] ELSE 0
      [] OTHER     -> 255

PackedAlpha(depth, a) ==
    CASE depth = 1 -> IF a >= 128 THEN 1 ELSE 0
      [] depth = 4 -> Nibble(a)
      [] OTHER     -> a

\* The first pixel is in the lowest bits of its byte.
AlphaPlane(depth, px) ==
    [k \in 1 .. RoundUp(Len(px) * depth, 8) |->
        FoldLeft(LAMBDA byte, i : byte * 2 ^ depth + (IF i \in DOMAIN px THEN PackedAlpha(depth, px[i][4]) ELSE 0), 0,
                 [j \in 1 .. 8 \div depth |-> (8 \div depth) * k + 1 - j])]

DecodePalette(depth, palette, b, w, h) ==
    LET plane == SubSeq(b, w * h + 1, Len(b))
    IN  [i \in 1 .. w * h |-> IF i > Len(b) THEN Clear
                              ELSE SubSeq(palette[b[i] + 1], 1, 3) \o <<UnpackAlpha(depth, plane, i - 1)>>]

EncodePalette(depth, palette, px) ==
    [i \in DOMAIN px |-> Nearest(palette, px[i]) - 1] \o AlphaPlane(depth, px)

\* An entry of a palette has a fourth byte, which nothing uses.
Filled(colors) == [i \in 1 .. PaletteSize |-> IF i <= Len(colors) THEN colors[i] \o <<0>> ELSE Clear]

\* Median cut.  A box is a sequence of colours; the one with the longest axis
\* is split in the middle along it.
Extent(box, ch) == Max({c[ch] : c \in ToSet(box)}) - Min({c[ch] : c \in ToSet(box)})
Splittable(boxes) == {<<i, ch>> \in (DOMAIN boxes) \X (1 .. 3) : Len(boxes[i]) >= 2 /\ Extent(boxes[i], ch) > 0}
\* The first of the longest.
Longest(boxes) ==
    CHOOSE a \in Splittable(boxes) : \A b \in Splittable(boxes) :
        LET x == Extent(boxes[a[1]], a[2])
            y == Extent(boxes[b[1]], b[2])
        IN  x > y \/ (x = y /\ (a[1] < b[1] \/ (a[1] = b[1] /\ a[2] <= b[2])))

SplitAt(boxes, i, sorted) ==
    [boxes EXCEPT ![i] = SubSeq(sorted, 1, Len(sorted) \div 2)] \o <<SubSeq(sorted, Len(sorted) \div 2 + 1, Len(sorted))>>

SplitOnce(boxes) ==
    LET axis == Longest(boxes)
    IN  SplitAt(boxes, axis[1], SortSeq(boxes[axis[1]], LAMBDA p, q : p[axis[2]] < q[axis[2]]))

Cut(boxes) ==
    FoldLeft(LAMBDA acc, step : IF Splittable(acc) = {} THEN acc ELSE SplitOnce(acc), boxes,
             [step \in 1 .. PaletteSize - Len(boxes) |-> step])

Average(box, px) ==
    LET Count(c) == Cardinality({i \in DOMAIN px : SubSeq(px[i], 1, 3) = c})
        total    == FoldSet(LAMBDA c, n : n + Count(c), 0, ToSet(box))
    IN  [ch \in 1 .. 3 |-> FoldSet(LAMBDA c, n : n + c[ch] * Count(c), 0, ToSet(box)) \div total]

\* Each colour once, in the order of a hash table: from any of them on.
Colors(px) ==
    FoldLeft(LAMBDA acc, p : IF SubSeq(p, 1, 3) \in ToSet(acc) THEN acc ELSE Append(acc, SubSeq(p, 1, 3)), <<>>, px)
Hashed(colors, turn) == [i \in DOMAIN colors |-> colors[((i + turn) % Len(colors)) + 1]]
Averages(boxes, px)  == [i \in DOMAIN boxes |-> Average(boxes[i], px)]

BuildPalette(px, turn) ==
    LET colors == Hashed(Colors(px), turn)
    IN  IF Len(colors) <= PaletteSize THEN Filled(colors) ELSE Filled(Averages(Cut(<<colors>>), px))

---------------------------------------------------------------------------
(* Raw pixels, and the next level of an image.                              *)

DecodeRaw(b, w, h) ==
    [i \in 1 .. w * h |-> IF 4 * i <= Len(b) THEN <<b[4 * i - 1], b[4 * i - 2], b[4 * i - 3], b[4 * i]>> ELSE Clear]
EncodeRaw(px) == FlattenSeq([i \in DOMAIN px |-> <<px[i][3], px[i][2], px[i][1], px[i][4]>>])

Half(n) == Max({1, n \div 2})
Downscale(px, w, h) ==
    LET At(x, y, ch) == px[Min({y, h - 1}) * w + Min({x, w - 1}) + 1][ch]
        Box(x, y, ch) == (At(2 * x, 2 * y, ch) + At(2 * x + 1, 2 * y, ch) + At(2 * x, 2 * y + 1, ch)
                             + At(2 * x + 1, 2 * y + 1, ch) + 2) \div 4
    IN  [i \in 1 .. Half(w) * Half(h) |-> [ch \in 1 .. 4 |-> Box((i - 1) % Half(w), (i - 1) \div Half(w), ch)]]
=============================================================================
