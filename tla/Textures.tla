----------------------------- MODULE Textures -----------------------------
(***************************************************************************)
(* A texture and its file (formats/blp/blp.hpp, blp.cpp).  The file is a   *)
(* header with a table of where the levels are, a palette, and the bytes   *)
(* after them, in which the levels may lie in any order, apart, or over    *)
(* one another.  Reading keeps where everything was, and writing replays   *)
(* that as long as it can.                                                 *)
(***************************************************************************)
EXTENDS TexturePixels, TLC

CONSTANTS MaxMips,         \* the levels a file can have, 16
          MaxOffset,       \* the last place in a file, 2^32 - 1
          Files,           \* the files there may be at first
          Jobs,            \* the images that may be encoded, and the settings
          Leeways,         \* how far inside the corners of a block its ends may be put, or
                           \* where the order of a hash table may start: an image has one encoding
          Payloads,        \* what a level may be set to
          Assigned,        \* the members an assignment may give values
          MaxEdits

ASSUME TextureSizes == MaxMips \in Nat \ {0} /\ MaxOffset \in Nat

VARIABLES texture,         \* the entity
          file,            \* what the client serves under the key
          saved, last, edits
textureVars == <<texture, file, saved, last, edits>>

\* The numbers of the encodings.
Jpeg       == 0
Palettized == 1
Dxt        == 2
Bgra       == 3
BgraAlt    == 4

Levels     == 1 .. MaxMips             \* level n of the code is n + 1
NoTable    == [n \in Levels |-> 0]
NoLayout   == [engaged |-> FALSE, offsets |-> NoTable, sizes |-> NoTable, fileSize |-> 0, gaps |-> <<>>]
NewTexture ==
    [version |-> 1, colorEncoding |-> Dxt, alphaDepth |-> 8, preferredFormat |-> Dxt5, mipFlags |-> 1, width |-> 0,
     height |-> 0, palette |-> Filled(<<>>), mips |-> <<>>, layout |-> NoLayout]

---------------------------------------------------------------------------
(* The header.  A file is a sequence of bytes; in the header every field   *)
(* takes one of them, whatever its width.                                  *)

BlpMagic    == 2
Fields      == <<"magic", "version", "colorEncoding", "alphaDepth", "preferredFormat", "mipFlags", "width", "height">>
Scalars     == {Fields[i] : i \in 2 .. Len(Fields)}
OffsetsAt   == Len(Fields)
SizesAt     == OffsetsAt + MaxMips
PaletteAt   == SizesAt + MaxMips
HeaderBytes == PaletteAt + 4 * PaletteSize

FieldOf(data, field) == data[CHOOSE i \in DOMAIN Fields : Fields[i] = field]
Offsets(data)        == SubSeq(data, OffsetsAt + 1, SizesAt)
Sizes(data)          == SubSeq(data, SizesAt + 1, PaletteAt)
PaletteIn(data)      == DecodeRaw(SubSeq(data, PaletteAt + 1, HeaderBytes), PaletteSize, 1)

Header(t, offsets, sizes) ==
    [i \in DOMAIN Fields |-> IF i = 1 THEN BlpMagic ELSE t[Fields[i]]] \o offsets \o sizes \o EncodeRaw(t.palette)

---------------------------------------------------------------------------
(* Reading.                                                                 *)

Used(offsets, sizes, n) == offsets[n] # 0 /\ sizes[n] # 0
InFile(data)   == {n \in Levels : Used(Offsets(data), Sizes(data), n)}
Fits(data, n)  == Offsets(data)[n] + Sizes(data)[n] <= Len(data)
FirstOut(data) == Min({MaxMips + 1} \cup {n \in InFile(data) : ~Fits(data, n)})
Place(data, n) == Offsets(data)[n] .. Offsets(data)[n] + Sizes(data)[n] - 1

\* Bytes from .. to of the file, which count from 0.
Run(data, from, to) == SubSeq(data, from + 1, to + 1)

\* What the levels before the given one hold; one that is not there is empty.
MipsBefore(data, end) ==
    [n \in 1 .. Max({0} \cup {k \in InFile(data) : k < end}) |->
        IF n \in InFile(data) THEN Run(data, Offsets(data)[n], Offsets(data)[n] + Sizes(data)[n] - 1) ELSE <<>>]

\* The bytes of the file no level has, and the header has not.
Free(data) == (HeaderBytes .. Len(data) - 1) \ UNION {Place(data, n) : n \in InFile(data)}
RunEnd(free, at) == CHOOSE to \in free : at <= to /\ at .. to \subseteq free /\ to + 1 \notin free
Gaps(data) ==
    LET free   == Free(data)
        starts == SetToSortSeq({at \in free : at - 1 \notin free}, <)
    IN  [i \in DOMAIN starts |-> [offset |-> starts[i], bytes |-> Run(data, starts[i], RunEnd(free, starts[i]))]]

StoredLayout(data) ==
    [engaged |-> TRUE, offsets |-> Offsets(data), sizes |-> Sizes(data), fileSize |-> Len(data), gaps |-> Gaps(data)]

Refusal(data) ==
    IF Len(data) < HeaderBytes THEN "ChunkTruncated"
    ELSE IF FieldOf(data, "magic") # BlpMagic THEN "FormatVersionMismatch"
    ELSE IF FieldOf(data, "colorEncoding") > BgraAlt THEN "NotSupported"
    ELSE IF FieldOf(data, "preferredFormat") > Bc5 \/ FieldOf(data, "preferredFormat") = 10 THEN "NotSupported"
    ELSE "none"

FromHeader(data) ==
    [k \in DOMAIN NewTexture |-> IF k \in Scalars THEN FieldOf(data, k)
                                 ELSE IF k = "palette" THEN PaletteIn(data) ELSE NewTexture[k]]

\* The level that is not in the file ends the reading: what was read stays.
ReadFile(t, data) ==
    IF Refusal(data) # "none" THEN [err |-> Refusal(data), t |-> t]
    ELSE IF FirstOut(data) \in Levels
    THEN [err |-> "OffsetOutOfBounds", t |-> [FromHeader(data) EXCEPT !.mips = MipsBefore(data, FirstOut(data))]]
    ELSE [err |-> "none",
          t   |-> [FromHeader(data) EXCEPT !.mips = MipsBefore(data, MaxMips + 1), !.layout = StoredLayout(data)]]

---------------------------------------------------------------------------
(* Writing.                                                                 *)

Present(t, n) == n \in DOMAIN t.mips /\ t.mips[n] # <<>>
Stored(t, n)  == Used(t.layout.offsets, t.layout.sizes, n)

Mut_Replays(t) ==
    /\ t.layout.engaged
    /\ \A n \in Levels : Stored(t, n) <=> Present(t, n)

Replays(t) ==
    /\ t.layout.engaged
    /\ \A n \in Levels :
          /\ Stored(t, n) <=> Present(t, n)
          /\ Stored(t, n) => Len(t.mips[n]) = t.layout.sizes[n]

\* The header, then the levels in their order, then what no level had: the
\* later byte stays, so a level that was in the header is over it.
ReplayedByte(t, at) ==
    LET gaps   == {i \in DOMAIN t.layout.gaps :
                      t.layout.gaps[i].offset <= at /\ at < t.layout.gaps[i].offset + Len(t.layout.gaps[i].bytes)}
        levels == {n \in Levels : Stored(t, n) /\ t.layout.offsets[n] <= at /\ at < t.layout.offsets[n] + Len(t.mips[n])}
    IN  IF gaps # {} THEN t.layout.gaps[Max(gaps)].bytes[at - t.layout.gaps[Max(gaps)].offset + 1]
        ELSE IF levels # {} THEN t.mips[Max(levels)][at - t.layout.offsets[Max(levels)] + 1]
        ELSE IF at < HeaderBytes THEN Header(t, t.layout.offsets, t.layout.sizes)[at + 1] ELSE 0

Replayed(t) == [i \in 1 .. t.layout.fileSize |-> ReplayedByte(t, i - 1)]

MipBytes(t, n) == IF n \in DOMAIN t.mips THEN Len(t.mips[n]) ELSE 0
Cursor(t, n)   == HeaderBytes + FoldLeft(LAMBDA sum, k : sum + MipBytes(t, k), 0, [k \in 1 .. n - 1 |-> k])
Canonical(t) ==
    Header(t, [n \in Levels |-> IF Present(t, n) THEN Cursor(t, n) ELSE 0], [n \in Levels |-> MipBytes(t, n)])
        \o FlattenSeq(t.mips)

WriteFile(t) ==
    IF Replays(t) THEN [err |-> "none", data |-> Replayed(t)]
    ELSE IF Len(t.mips) > MaxMips \/ Cursor(t, Len(t.mips) + 1) > MaxOffset
    THEN [err |-> "InvalidEntityState", data |-> <<>>]
    ELSE [err |-> "none", data |-> Canonical(t)]

---------------------------------------------------------------------------
(* Images.                                                                  *)

ResolveDxtFormat(preferred, depth) ==
    IF preferred \in BlockFormats THEN preferred
    ELSE IF depth <= 1 THEN Dxt1 ELSE IF depth = 4 THEN Dxt3 ELSE Dxt5

MipSize(size, n) == Max({1, size \div 2 ^ (n - 1)})

DecodeRefusal(t, n) ==
    IF ~Present(t, n) \/ t.width = 0 \/ t.height = 0 THEN "InvalidEntityState"
    ELSE IF t.colorEncoding = Jpeg THEN "NotSupported" ELSE "none"

Decode(t, n) ==
    LET w == MipSize(t.width, n)
        h == MipSize(t.height, n)
    IN  CASE t.colorEncoding = Palettized -> DecodePalette(t.alphaDepth, t.palette, t.mips[n], w, h)
          [] t.colorEncoding = Dxt -> DecodeDxt(ResolveDxtFormat(t.preferredFormat, t.alphaDepth), t.mips[n], w, h)
          [] t.colorEncoding \in {Bgra, BgraAlt} -> DecodeRaw(t.mips[n], w, h)

EncodeRefusal(image, s) ==
    IF image.w = 0 \/ image.h = 0 \/ Len(image.px) # image.w * image.h THEN "InvalidEntityState"
    ELSE IF s.encoding = Jpeg THEN "NotSupported"
    ELSE IF s.alphaDepth \notin {0, 1, 4, 8} THEN "InvalidEntityState" ELSE "none"

\* The images of the levels, each half of the one before, down to one pixel.
RECURSIVE Chain(_, _)
Chain(image, n) ==
    IF n = 1 \/ (image.w = 1 /\ image.h = 1) THEN <<image>>
    ELSE <<image>> \o Chain([w |-> Half(image.w), h |-> Half(image.h), px |-> Downscale(image.px, image.w, image.h)], n - 1)

\* What encoding makes of everything but the levels.
Encoder(image, s, turn) ==
    LET format == ResolveDxtFormat(s.format, s.alphaDepth)
        base   == [NewTexture EXCEPT !.colorEncoding = IF s.encoding = BgraAlt THEN Bgra ELSE s.encoding,
                                     !.width = image.w, !.height = image.h, !.mipFlags = IF s.mipmaps THEN 1 ELSE 0]
    IN  CASE s.encoding = Dxt -> [base EXCEPT !.preferredFormat = format,
                                              !.alphaDepth = IF format = Dxt1 THEN Min({s.alphaDepth, 1}) ELSE s.alphaDepth]
          [] s.encoding = Palettized -> [base EXCEPT !.preferredFormat = Unspecified, !.alphaDepth = s.alphaDepth,
                                                     !.palette = BuildPalette(image.px, turn)]
          [] OTHER -> [base EXCEPT !.preferredFormat = Argb8888, !.alphaDepth = 8]

EncodeLevel(t, image, inset) ==
    CASE t.colorEncoding = Palettized -> EncodePalette(t.alphaDepth, t.palette, image.px)
      [] t.colorEncoding = Dxt -> EncodeDxt(t.preferredFormat, image.px, image.w, image.h, inset)
      [] OTHER -> EncodeRaw(image.px)

\* The texture the image becomes, by what the compressor and the order of
\* the colours leave open.
Encoded(image, s, choice) ==
    LET chain == Chain(image, IF s.mipmaps THEN MaxMips ELSE 1)
    IN  CHOOSE t \in {[head EXCEPT !.mips = [n \in DOMAIN chain |-> EncodeLevel(head, chain[n], choice)]] :
                         head \in {Encoder(image, s, choice)}} : TRUE

---------------------------------------------------------------------------
(* What validate() finds, as errors: a level of blocks or of raw pixels    *)
(* that is short is a warning.                                             *)

Wanted(t, n) ==
    LET pixels == MipSize(t.width, n) * MipSize(t.height, n)
    IN  pixels + (pixels * t.alphaDepth) \div 8

Valid(t) ==
    /\ t.width # 0 /\ t.height # 0
    /\ t.colorEncoding = Palettized => t.alphaDepth \in {0, 1, 4, 8}
    /\ Len(t.mips) <= MaxMips
    /\ Present(t, 1)
    /\ t.colorEncoding = Palettized => \A n \in DOMAIN t.mips : Present(t, n) => Len(t.mips[n]) >= Wanted(t, n)

---------------------------------------------------------------------------
NoFile  == <<>>
Nothing == [op |-> "none", err |-> "none"]

TextureInit ==
    /\ texture = NewTexture
    /\ file \in Files \cup {NoFile}
    /\ saved = <<>>
    /\ last = Nothing
    /\ edits = 0

\* BLP::read of a key: the filesystem is asked for the whole file.
Read ==
    /\ \E r \in {IF file = NoFile THEN [err |-> "FileNotFound", t |-> texture] ELSE ReadFile(texture, file)} :
          /\ texture' = r.t
          /\ last' = [op |-> "read", err |-> r.err]
    /\ UNCHANGED <<file, saved, edits>>

\* BLP::write to a key: it must resolve to a path before anything is done, and
\* the project may refuse the file.
Write ==
    /\ \E resolves, stores \in BOOLEAN, r \in {WriteFile(texture)} :
          \E err \in {IF ~resolves THEN "PathNotResolvable"
                      ELSE IF r.err # "none" THEN r.err ELSE IF stores THEN "none" ELSE "IOError"} :
             /\ file' = IF err = "none" THEN r.data ELSE file
             /\ saved' = IF err = "none" THEN <<texture>> ELSE saved
             /\ last' = [op |-> "write", err |-> err]
    /\ UNCHANGED <<texture, edits>>

Encode ==
    /\ edits < MaxEdits
    /\ \E job \in Jobs, choice \in Leeways : \E image \in {job.image}, s \in {job.settings} :
          /\ texture' = IF EncodeRefusal(image, s) = "none" THEN Encoded(image, s, choice) ELSE texture
          /\ last' = [op |-> "encode", err |-> EncodeRefusal(image, s), image |-> image, settings |-> s]
    /\ edits' = edits + 1
    /\ UNCHANGED <<file, saved>>

\* Level n, which may be one too many.
SetMip ==
    /\ edits < MaxEdits
    /\ \E n \in 1 .. MaxMips + 1, data \in Payloads :
          /\ texture' = IF n > MaxMips \/ data = <<>> THEN texture
                        ELSE [texture EXCEPT !.mips = [k \in 1 .. Max({n, Len(@)}) |->
                                                         IF k = n THEN data ELSE IF k \in DOMAIN @ THEN @[k] ELSE <<>>]]
          /\ last' = [op |-> "setMip", err |-> IF n > MaxMips \/ data = <<>> THEN "InvalidEntityState" ELSE "none"]
    /\ edits' = edits + 1
    /\ UNCHANGED <<file, saved>>

\* The members are there to be assigned.
Assign ==
    /\ edits < MaxEdits
    /\ \E members \in Assigned : texture' = members @@ texture
    /\ last' = [op |-> "assign", err |-> "none"]
    /\ edits' = edits + 1
    /\ UNCHANGED <<file, saved>>

TextureNext == Read \/ Write \/ Encode \/ SetMip \/ Assign

TextureSpec == TextureInit /\ [][TextureNext]_textureVars

---------------------------------------------------------------------------
(* What a texture promises.                                                 *)

\* No level of the stored layout shares a byte with another or the header.
Apart(t) ==
    /\ \A n \in Levels : Stored(t, n) => t.layout.offsets[n] >= HeaderBytes
    /\ \A m, n \in Levels : m # n /\ Stored(t, m) /\ Stored(t, n) =>
          \/ t.layout.offsets[m] + t.layout.sizes[m] <= t.layout.offsets[n]
          \/ t.layout.offsets[n] + t.layout.sizes[n] <= t.layout.offsets[m]

SameTexture(t, u) == \A k \in Scalars \cup {"mips", "palette"} : t[k] = u[k]

\* A file that is read and written is the same file, byte for byte, wherever
\* its levels are and whatever lies between them; and what was changed and
\* written is read again as it was, unless levels shared their bytes with each
\* other or the header, or a member assignment left more of them than a file
\* has places for (BLP::write replaying the stored layout, blp.hpp: "so unusual
\* files ... still round-trip byte-perfectly").
TextureReadsBack ==
    [][/\ last.op = "read" /\ last.err = "none" /\ last'.op = "write" =>
            last'.err # "InvalidEntityState" /\ file' = file
       /\ last'.op = "read" =>
            \A t \in ToSet(saved) : Len(t.mips) <= MaxMips /\ (Replays(t) => Apart(t)) =>
                last'.err = "none" /\ SameTexture(texture', t)]_textureVars

Near(a, b, d) == a <= b + d /\ b <= a + d

\* What the stored form keeps of an alpha; the interpolated one is a step in
\* fourteen off, at most.
AlphaKept(t, a, b) ==
    LET depth == IF t.colorEncoding = Dxt THEN (CASE t.preferredFormat = Dxt1 -> 1 [] t.preferredFormat = Dxt3 -> 4 [] OTHER -> 0)
                 ELSE t.alphaDepth
    IN  IF t.colorEncoding = Dxt /\ t.preferredFormat = Dxt5 THEN Near(a, b, 19)
        ELSE CASE depth = 0 -> b = 255
               [] depth = 1 -> b = 255 * PackedAlpha(1, a)
               [] depth = 4 -> b = 17 * Nibble(a)
               [] depth = 8 -> b = a

\* No texel one can see has a colour the image does not reach, but for the black
\* a palette is filled up with, which may be the nearest to a smaller level's.
InRange(px, p, ch) == \E q, r \in ToSet(px) : q[ch] <= p[ch] + 8 /\ p[ch] <= r[ch] + 8

RGB(p) == SubSeq(p, 1, 3)
ColorKept(t, px, i, p) ==
    CASE t.colorEncoding = Bgra -> RGB(p) = RGB(px[i])
      [] t.colorEncoding = Palettized /\ ToSet(Colors(px)) \subseteq {RGB(c) : c \in ToSet(t.palette)} -> RGB(p) = RGB(px[i])
      [] t.colorEncoding = Dxt /\ t.preferredFormat = Bc5 -> Near(p[1], px[i][1], 19) /\ Near(p[2], px[i][2], 19)
      [] OTHER -> IF t.colorEncoding = Palettized /\ RGB(p) = RGB(Clear) THEN Clear \in ToSet(t.palette)
                  ELSE p = Clear \/ \A ch \in 1 .. 3 : InRange(last.image.px, p, ch)

LevelBytes(t, w, h) ==
    CASE t.colorEncoding = Palettized -> PaletteBytes(t.alphaDepth, w, h)
      [] t.colorEncoding = Dxt -> DxtSize(t.preferredFormat, w, h)
      [] OTHER -> 4 * w * h

\* An image that was encoded is valid, has every level down to one pixel when
\* it was asked to, each of the stated size, and every level decodes to its size,
\* with the alpha its form can hold and no colour from elsewhere (BLP::encode,
\* BLP::decode).
EncodedDecodes ==
    last.op = "encode" /\ last.err = "none" =>
        \E chain \in {Chain(last.image, IF last.settings.mipmaps THEN MaxMips ELSE 1)} :
            /\ Valid(texture) /\ Len(texture.mips) = Len(chain)
            /\ \A n \in DOMAIN chain :
                 /\ Len(texture.mips[n]) = LevelBytes(texture, chain[n].w, chain[n].h)
                 /\ DecodeRefusal(texture, n) = "none"
                 /\ \E px \in {Decode(texture, n)} :
                    /\ Len(px) = Len(chain[n].px)
                    /\ \A i \in DOMAIN px :
                          AlphaKept(texture, chain[n].px[i][4], px[i][4]) /\ ColorKept(texture, chain[n].px, i, px[i])
=============================================================================
