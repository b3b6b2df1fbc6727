---------------------------- MODULE MCTextures ----------------------------
(***************************************************************************)
(* Files with levels in every kind of place, and images of one block and   *)
(* of two, with more colours than the palette holds and with less.         *)
(***************************************************************************)
EXTENDS Textures

Sample == [NewTexture EXCEPT !.colorEncoding = Palettized, !.alphaDepth = 1, !.width = 2, !.height = 1,
                             !.palette = [i \in 1 .. PaletteSize |-> <<10 * i, 3, 4, i>>]]
FileWith(offsets, sizes) ==
    Header(Sample, [n \in Levels |-> IF offsets[n] = 0 THEN 0 ELSE HeaderBytes - 4 + offsets[n]], sizes) \o <<1, 2, 3, 4, 5, 6, 7, 8>>
With(data, field, value) == [data EXCEPT ![CHOOSE i \in DOMAIN Fields : Fields[i] = field] = value]

Plain == FileWith(<<4, 0, 0>>, <<2, 0, 0>>)
MCFiles ==
    {With(FileWith(<<5, 9, 0>>, <<3, 2, 0>>), "version", 7),         \* gaps before, between and after
     FileWith(<<8, 4, 0>>, <<4, 2, 0>>),         \* the second level first
     FileWith(<<4, 4, 0>>, <<4, 4, 0>>),         \* shared
     FileWith(<<4, 6, 0>>, <<6, 3, 0>>),         \* overlapping
     FileWith(<<2, 8, 0>>, <<3, 2, 0>>),         \* the first partly in the header
     FileWith(<<4, 6, 9>>, <<3, 0, 2>>),         \* an entry that names no bytes
     FileWith(<<0, 4, 8>>, <<3, 4, 4>>),         \* no first level
     FileWith(<<4, 9, 7>>, <<2, 4, 1>>),         \* the second level is not all there
     SubSeq(Plain, 1, HeaderBytes - 1),
     With(Plain, "magic", 1), With(Plain, "colorEncoding", 5), With(Plain, "preferredFormat", 10)}

P(r, g, b, a) == <<r, g, b, a>>
Flag   == [w |-> 2, h |-> 2, px |-> <<P(250, 10, 10, 255), P(10, 250, 10, 120), P(10, 10, 250, 128), P(250, 10, 10, 7)>>]
Meadow == [w |-> 5, h |-> 3,
           px |-> [i \in 1 .. 15 |-> P((i * 50) % 256, (i * i * 7) % 256, 255 - i, IF i % 5 = 0 THEN 60 ELSE IF i < 9 THEN 255 ELSE 17 * i)]]
Ghost  == [w |-> 1, h |-> 3, px |-> <<P(1, 2, 3, 0), P(4, 5, 6, 1), P(200, 5, 6, 90)>>]
As(encoding, format, alphaDepth, mipmaps) == [encoding |-> encoding, format |-> format, alphaDepth |-> alphaDepth, mipmaps |-> mipmaps]
Job(image, settings) == [image |-> image, settings |-> settings]
MCJobs ==
    {Job(Meadow, As(Dxt, Unspecified, 1, TRUE)), Job(Meadow, As(Dxt, Unspecified, 8, FALSE)),
     Job(Meadow, As(Palettized, Unspecified, 1, TRUE)), Job(Meadow, As(Palettized, Unspecified, 4, FALSE)),
     Job(Flag, As(Dxt, Unspecified, 4, TRUE)), Job(Flag, As(Dxt, Bc5, 8, FALSE)), Job(Flag, As(Dxt, Dxt1, 8, TRUE)),
     Job(Flag, As(Palettized, Unspecified, 0, TRUE)), Job(Flag, As(BgraAlt, Dxt5, 8, TRUE)),
     Job(Ghost, As(Dxt, Dxt5, 8, TRUE)), Job(Ghost, As(Palettized, Unspecified, 8, TRUE)),
     Job([Flag EXCEPT !.h = 3], As(BgraAlt, Dxt5, 8, TRUE)), Job(Flag, As(Jpeg, Unspecified, 8, TRUE)), Job(Ghost, As(Dxt, Dxt5, 2, TRUE))}

MCPayloads == {<<>>, <<9, 9, 9>>, <<7, 8, 7, 8>>}
MCAssigned == {[width |-> 3], [alphaDepth |-> 8, preferredFormat |-> Dxt3], [colorEncoding |-> Jpeg],
               [mips |-> [n \in 1 .. MaxMips + 1 |-> <<n>>]]}
=============================================================================
