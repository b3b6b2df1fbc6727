------------------------- MODULE OffsetBlocks -------------------------
(***************************************************************************)
(* The offset serializer of the model formats (formats/m2/offset_block.hpp)*)
(* An entity is an image of fixed size; strings and arrays live in blocks  *)
(* behind it, which the image refers to by {count, offset}.  An array per  *)
(* sequence may keep the blocks of its elements in other buffers.          *)
(*                                                                         *)
(* A type is a scalar of some size, a text, a vector or a record.  A       *)
(* buffer is [size, cells]: what was put at which offset, as [size, val].  *)
(* A value that is read where no such cell was put is garbage.  A text is  *)
(* the sequence of its characters, without the NUL that ends it.           *)
(***************************************************************************)
EXTENDS Naturals, Sequences, SequencesExt, FiniteSets, TLC

\* FoldLeft that has a step's result before it takes the next step.
InOrder(Op(_, _), base, seq) == FoldLeft(LAMBDA acc, x : CHOOSE r \in {Op(a, x) : a \in {acc}} : TRUE, base, seq)

NoLoop   == 65535       \* a track that no global sequence drives
RefSize  == 8
Align    == 16

Scalar(n)      == [kind |-> "scalar", size |-> n]
Text           == [kind |-> "text"]
Vec(type)      == [kind |-> "vector", of |-> type]
Record(fields) == [kind |-> "record", fields |-> fields]

\* each: one element per sequence; gate: the global flag the field exists under.
Field(name, type) == [name |-> name, type |-> type, each |-> FALSE, gate |-> "", init |-> 0]
F(name, n)        == Field(name, Scalar(n))
V(name, type)     == Field(name, Vec(type))
PerSequence(name, type) == [V(name, Vec(type)) EXCEPT !.each = TRUE]
Gated(field, flag) == [field EXCEPT !.gate = flag]

\* The fields of the version's traits come after the field they are anchored to.
After(name, fields) == [i \in DOMAIN fields |-> [after |-> name, field |-> fields[i]]]
MemberOrder(own, traits) ==
    LET At(f) == SelectSeq(traits, LAMBDA t : t.after = f.name)
    IN  FlattenSeq([i \in DOMAIN own |-> <<own[i]>> \o [j \in DOMAIN At(own[i]) |-> At(own[i])[j].field]])

Since(yes, fields) == IF yes THEN fields ELSE <<>>

RECURSIVE LayoutSize(_)
LayoutSize(type) ==
    CASE type.kind \in {"text", "vector"} -> RefSize
      [] type.kind = "scalar"             -> type.size
      [] type.kind = "record" -> FoldLeft(LAMBDA n, f : n + LayoutSize(f.type), 0, type.fields)

RECURSIVE Blank(_)
Blank(type) ==
    CASE type.kind \in {"text", "vector"} -> <<>>
      [] type.kind = "scalar"             -> 0
      [] type.kind = "record" ->
            [name \in {type.fields[i].name : i \in DOMAIN type.fields} |->
                LET f == CHOOSE x \in Range(type.fields) : x.name = name
                IN  IF f.init /= 0 THEN f.init ELSE Blank(f.type)]

MemberPresent(field, value) == field.gate = "" \/ field.gate \in value.globalFlags

\* A track that a global sequence drives has one timeline, which is inline.
ResolvesExternally(field, value) ==
    field.each /\ ("globalSequence" \in DOMAIN value => value.globalSequence = NoLoop)

ImageSize(fields, value) ==
    LayoutSize(Record(SelectSeq(fields, LAMBDA f : MemberPresent(f, value))))

\* Where a field that no flag gates is in the image.
MemberOffset(fields, name) ==
    LayoutSize(Record(SubSeq(fields, 1, SelectInSeq(fields, LAMBDA f : f.name = name) - 1)))

---------------------------------------------------------------------------
(* Writing.  bufs are the buffers by name, home the one an image is in and  *)
(* blocks the one its blocks go to; sinks[i] is the buffer of sequence i,   *)
(* "" when it is inline.                                                    *)

EmptyBuffer == [size |-> 0, cells |-> <<>>]

PutBytes(bufs, b, at, n, val) == [bufs EXCEPT ![b].cells = (at :> [size |-> n, val |-> val]) @@ @]

Aligned(n) == ((n + Align - 1) \div Align) * Align

AllocBlock(bufs, b, n) == [bufs EXCEPT ![b].size = Aligned(@) + n]

Touched(bufs, b) == IF b \in DOMAIN bufs THEN bufs ELSE (b :> EmptyBuffer) @@ bufs

WriteRef(bufs, home, at, count, offset) ==
    PutBytes(bufs, home, at, RefSize, [count |-> count, offset |-> offset])

\* An empty text is a block too: the NUL is in the count.
WriteString(bufs, home, at, blocks, text) ==
    LET begins == Aligned(bufs[blocks].size)
        n      == Len(text) + 1
    IN  WriteRef(PutBytes(AllocBlock(bufs, blocks, n), blocks, begins, n, text), home, at, n, begins)

Mut_SinkOf(sinks, i, external, blocks) ==
    IF external /\ i \in DOMAIN sinks /\ sinks[i] /= "" THEN sinks[1] ELSE blocks

SinkOf(sinks, i, external, blocks) ==
    IF external /\ i \in DOMAIN sinks /\ sinks[i] /= "" THEN sinks[i] ELSE blocks

RECURSIVE WriteMember(_, _, _, _, _, _, _, _)

WriteMembers(bufs, home, at, blocks, fields, value, sinks) ==
    InOrder(LAMBDA acc, f :
                IF ~MemberPresent(f, value) THEN acc
                ELSE [bufs |-> WriteMember(acc.bufs, home, acc.at, blocks, f.type, value[f.name], sinks,
                                           ResolvesExternally(f, value)),
                      at   |-> acc.at + LayoutSize(f.type)],
             [bufs |-> bufs, at |-> at], fields).bufs

WriteElement(bufs, home, at, blocks, type, value, sinks) ==
    WriteMember(Touched(bufs, blocks), home, at, blocks, type, value, sinks, FALSE)

WriteElements(bufs, blocks, begins, type, value, sinks, external) ==
    InOrder(LAMBDA acc, i :
                WriteElement(acc, blocks, begins + (i - 1) * LayoutSize(type), SinkOf(sinks, i, external, blocks),
                             type, value[i], sinks),
            bufs, [i \in DOMAIN value |-> i])

WriteVector(bufs, home, at, blocks, type, value, sinks, external) ==
    IF value = <<>> THEN WriteRef(bufs, home, at, 0, 0)
    ELSE WriteElements(
            WriteRef(AllocBlock(bufs, blocks, Len(value) * LayoutSize(type)), home, at, Len(value),
                     Aligned(bufs[blocks].size)),
            blocks, Aligned(bufs[blocks].size), type, value, sinks, external)

WriteMember(bufs, home, at, blocks, type, value, sinks, external) ==
    CASE type.kind = "scalar" -> PutBytes(bufs, home, at, type.size, value)
      [] type.kind = "text"   -> WriteString(bufs, home, at, blocks, value)
      [] type.kind = "vector" -> WriteVector(bufs, home, at, blocks, type.of, value, sinks, external)
      [] type.kind = "record" -> WriteMembers(bufs, home, at, blocks, type.fields, value, sinks)

\* The image and its blocks in the buffer "image", and the buffers of the sequences.
WriteImage(fields, value, sinks) ==
    WriteMembers(("image" :> [EmptyBuffer EXCEPT !.size = ImageSize(fields, value)]),
                 "image", 0, "image", fields, value, sinks)

---------------------------------------------------------------------------
(* Reading.  base is the buffer offsets refer to; bases[i] that of          *)
(* sequence i.  What is read is [err, val].                                 *)

Got(val)  == [err |-> "none", val |-> val]
Fail(err) == [err |-> err, val |-> <<>>]

Peek(buf, at, n) ==
    CASE at + n > buf.size -> Fail("OffsetOutOfBounds")
      [] at + n <= buf.size /\ at \in DOMAIN buf.cells /\ buf.cells[at].size = n -> Got(buf.cells[at].val)
      [] OTHER -> Fail("Garbage")

ReadString(ref, base) ==
    CASE ref.count = 0 -> Got(<<>>)
      [] ref.count > 0 -> Peek(base, ref.offset, ref.count)

ElementBase(bases, i, external, base) == IF external /\ i \in DOMAIN bases THEN bases[i] ELSE base

RECURSIVE ReadMember(_, _, _, _, _, _)

ReadElements(ref, base, type, bases, external) ==
    LET elem == LayoutSize(type)
    IN  InOrder(LAMBDA acc, i :
                    IF acc.err /= "none" THEN acc
                    ELSE LET r == ReadMember(base, ref.offset + (i - 1) * elem,
                                             ElementBase(bases, i, external, base), type, bases, FALSE)
                         IN  [err |-> r.err, val |-> Append(acc.val, r.val)],
                 Got(<<>>), [i \in 1 .. ref.count |-> i])

\* The file of a sequence is missing: its arrays are left empty.
ReadVector(ref, base, type, bases, external) ==
    CASE ref.count = 0 \/ base.size = 0 -> Got(<<>>)
      [] ref.count > 0 /\ base.size > 0 /\ ref.offset + ref.count * LayoutSize(type) > base.size ->
            Fail("OffsetOutOfBounds")
      [] OTHER -> ReadElements(ref, base, type, bases, external)

ReadArray(slot, base, type, bases, external) ==
    CASE slot.err /= "none" -> slot
      [] slot.err = "none" /\ type.kind = "text"   -> ReadString(slot.val, base)
      [] slot.err = "none" /\ type.kind = "vector" -> ReadVector(slot.val, base, type.of, bases, external)

\* A field whose flag is clear is left as it was.
ReadMembers(buf, at, base, fields, dst, bases) ==
    InOrder(LAMBDA acc, f :
                IF acc.err /= "none" \/ ~MemberPresent(f, acc.val) THEN acc
                ELSE LET r == ReadMember(buf, acc.at, base, f.type, bases, ResolvesExternally(f, acc.val))
                     IN  [err |-> r.err, val |-> (f.name :> r.val) @@ acc.val, at |-> acc.at + LayoutSize(f.type)],
             [err |-> "none", val |-> dst, at |-> at], fields)

ReadMember(buf, at, base, type, bases, external) ==
    CASE type.kind = "scalar" -> Peek(buf, at, type.size)
      [] type.kind \in {"text", "vector"} -> ReadArray(Peek(buf, at, RefSize), base, type, bases, external)
      [] type.kind = "record" ->
            LET r == ReadMembers(buf, at, base, type.fields, Blank(type), bases) IN [err |-> r.err, val |-> r.val]

ReadImage(fields, buf, dst, bases) == ReadMembers(buf, 0, buf, fields, dst, bases)
=============================================================================
