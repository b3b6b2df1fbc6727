------------------------- MODULE ModelFiles -------------------------
(***************************************************************************)
(* A model and the files it is saved to: the body, one .skin per view, one *)
(* .anim per external sequence and, for some, a skeleton that holds the    *)
(* bones, the attachments and the sequences (formats/m2/m2.hpp,            *)
(* formats/m2/skeleton.hpp, formats/m2/satellites.hpp). What the chunks    *)
(* around the body do is in AssetCalls. Then what validate() asks of a     *)
(* model (formats/common/validation.hpp, M2Root::validateExtra,            *)
(* M2SkinProfile::validateExtra, m2.hpp) and how a track is read back by   *)
(* timelines (root/record/track.hpp).                                      *)
(*                                                                         *)
(* A sequence is "inline", "external" or an "alias"; its key names its     *)
(* .anim file. Models are the values an entity can be given, by name.      *)
(* Indices count from 0, as in the files.                                  *)
(***************************************************************************)
EXTENDS ModelLayouts

CONSTANTS Clients,      \* the releases under test
          Models        \* [client -> [name -> model]]

VARIABLES client, model,  \* the entity's release and the model it holds
          files,          \* what is stored: main, skins, anims, skel
          saved,          \* what the last save was of, and the model it held
          lost, cut,      \* .anim files that disappeared, files that lost their last byte
          seen            \* the outcome of the last read
vars == <<client, model, files, saved, lost, cut, seen>>

Md20 == 1
FormatVersion == <<256, 263, 264, 272, 272, 272, 274, 274, 274, 274, 274>>
FormatVersionRange(v) ==
    CASE v = Vanilla -> 256 .. 257
      [] v = TBC     -> 258 .. 263
      [] v = WotLK   -> {264}
      [] v \in Cata .. WoD -> 265 .. 273
      [] v >= Legion -> 264 .. 274

RootOf == [v \in Clients |-> RootFields(v)]
HasSatellites(v)  == v >= PerSequenceTimelines
ChunkedContainer(v) == v >= Legion

SequencesOf(m) == IF m.skel.on THEN m.skel.sequences ELSE m.root.sequences
Held == Models[client][model]

---------------------------------------------------------------------------
(* Writing.                                                                 *)

Raw(buf)      == [chunks |-> <<>>, raw |-> buf]
Chunked(secs) == [chunks |-> secs, raw |-> EmptyBuffer]
Section(id, bufs, key) == [id |-> id, buf |-> IF key \in DOMAIN bufs THEN bufs[key] ELSE EmptyBuffer]

Sinks(seqs)      == [i \in DOMAIN seqs |-> IF seqs[i].kind = "external" THEN seqs[i].key ELSE ""]
AnimKeys(bufs)   == DOMAIN bufs \ {"image"}

\* The count of the views is stamped into the image that was just written.
Stamped(v, bufs, n) ==
    IF HasSatellites(v) THEN PutBytes(bufs, "image", MemberOffset(RootOf[v], "numSkinProfiles"), 4, n) ELSE bufs

BodyImage(v, m) ==
    Stamped(v, WriteImage(RootOf[v], m.root, IF HasSatellites(v) THEN Sinks(SequencesOf(m)) ELSE <<>>), Len(m.skins))

SkinImages(v, m) == [i \in DOMAIN m.skins |-> WriteImage(SkinFields(v), m.skins[i], <<>>)["image"]]

PlainAnims(v, m, body) ==
    [k \in AnimKeys(body) |-> IF ChunkedContainer(v) /\ "chunked" \in m.root.globalFlags
                              THEN Chunked(<<Section("AFM2", body, k)>>) ELSE Raw(body[k])]

BoneImage(v, m)       == WriteImage(SkelBones(v), m.skel, Sinks(m.skel.sequences))
AttachmentImage(v, m) == WriteImage(SkelAttachments(v), m.skel, Sinks(m.skel.sequences))
SequenceImage(v, m)   == WriteImage(SkelSequences(v), m.skel, <<>>)["image"]

SkeletonAnims(body, bones, attachments) ==
    [k \in AnimKeys(body) \cup AnimKeys(bones) \cup AnimKeys(attachments) |->
        Chunked(<<Section("AFM2", body, k), Section("AFSA", attachments, k), Section("AFSB", bones, k)>>)]

\* A skeleton that is saved alone has nothing to say about the body's events.
LoneSkeletonAnims(bones, attachments) ==
    [k \in AnimKeys(bones) \cup AnimKeys(attachments) |->
        Chunked(<<Section("AFSA", attachments, k), Section("AFSB", bones, k)>>)]

SkeletonFile(v, m, bones, attachments) ==
    [sks1 |-> SequenceImage(v, m), skb1 |-> bones["image"], ska1 |-> attachments["image"]]

NoSkeleton == [sks1 |-> EmptyBuffer, skb1 |-> EmptyBuffer, ska1 |-> EmptyBuffer]

StoredModel(v, m, body, bones, attachments) ==
    [main  |-> [buf |-> body["image"], skel |-> m.skel.on],
     skins |-> SkinImages(v, m),
     anims |-> (IF m.skel.on THEN SkeletonAnims(body, bones, attachments) ELSE PlainAnims(v, m, body)) @@ files.anims,
     skel  |-> IF m.skel.on THEN SkeletonFile(v, m, bones, attachments) ELSE files.skel]

StoredSkeleton(v, m, bones, attachments) ==
    [files EXCEPT !.anims = LoneSkeletonAnims(bones, attachments) @@ @,
                  !.skel  = SkeletonFile(v, m, bones, attachments)]

---------------------------------------------------------------------------
(* Reading.                                                                 *)

Total(chunks) == FoldLeft(LAMBDA n, c : n + 8 + c.buf.size, 0, chunks)

\* A file counts as chunked by the section it begins with.
Window(anims, key, target) ==
    CASE key \notin DOMAIN anims -> EmptyBuffer
      [] key \in DOMAIN anims /\ anims[key].chunks = <<>> ->
            IF target = "AFM2" THEN anims[key].raw ELSE EmptyBuffer
      [] key \in DOMAIN anims /\ anims[key].chunks /= <<>> /\ anims[key].chunks[1].id /= "AFM2" ->
            IF target = "AFM2" THEN [EmptyBuffer EXCEPT !.size = Total(anims[key].chunks)] ELSE EmptyBuffer
      [] OTHER -> Section(target, [id \in {c.id : c \in Range(anims[key].chunks)} |->
                                      (CHOOSE c \in Range(anims[key].chunks) : c.id = id).buf], target).buf

\* An alias owns no data: what its records refer to is never read.
SequenceBases(seqs, inline, anims, target) ==
    [i \in DOMAIN seqs |-> CASE seqs[i].kind = "alias"    -> EmptyBuffer
                             [] seqs[i].kind = "inline"   -> inline
                             [] seqs[i].kind = "external" -> Window(anims, seqs[i].key, target)]

CheckHeader(v, r) ==
    IF r.err = "none" /\ (r.val.magic /= Md20 \/ r.val.formatVersion \notin FormatVersionRange(v))
    THEN Fail("FormatVersionMismatch") ELSE [err |-> r.err, val |-> r.val]

\* The sequences come before the first track: they are known when it is read.
UpToSequences(v) == SubSeq(RootOf[v], 1, SelectInSeq(RootOf[v], LAMBDA f : f.name = "sequences"))

ReadBody(v, buf, seqs, anims) ==
    CASE seqs.err /= "none" -> seqs
      [] seqs.err = "none" ->
            CheckHeader(v, ReadImage(RootOf[v], buf, Blank(Record(RootOf[v])),
                                     SequenceBases(seqs.val.sequences, buf, anims, "AFM2")))

ReadPlainBody(v, buf, anims) ==
    IF HasSatellites(v)
    THEN ReadBody(v, buf, ReadImage(UpToSequences(v), buf, Blank(Record(UpToSequences(v))), <<>>), anims)
    ELSE CheckHeader(v, ReadImage(RootOf[v], buf, Blank(Record(RootOf[v])), <<>>))

\* The first error of several reads, or what they read.
Both(a, b) == IF a.err /= "none" THEN Fail(a.err) ELSE [err |-> b.err, val |-> IF b.err = "none" THEN a.val @@ b.val ELSE <<>>]

ReadBlock(v, fields, buf, seqs, anims, target) ==
    ReadImage(fields, buf, Blank(Record(fields)), SequenceBases(seqs, buf, anims, target))

ReadSkeletonBlocks(v, skel, sequences, anims) ==
    CASE sequences.err /= "none" -> Fail(sequences.err)
      [] sequences.err = "none"  ->
            Both(sequences,
                 Both(ReadBlock(v, SkelBones(v), skel.skb1, sequences.val.sequences, anims, "AFSB"),
                      ReadBlock(v, SkelAttachments(v), skel.ska1, sequences.val.sequences, anims, "AFSA")))

ReadSkeletonFile(v, skel, anims) ==
    ReadSkeletonBlocks(v, skel, ReadImage(SkelSequences(v), skel.sks1, Blank(Record(SkelSequences(v))), <<>>), anims)

ReadViews(v, images) ==
    FoldLeft(LAMBDA acc, image :
                IF acc.err /= "none" THEN acc
                ELSE LET r == ReadImage(SkinFields(v), image, Blank(Record(SkinFields(v))), <<>>)
                     IN  [err |-> r.err, val |-> Append(acc.val, r.val)],
             Got(<<>>), images)

NoSkel == [on |-> FALSE]

Assembled(v, skel, root) ==
    CASE skel.err /= "none" -> Fail(skel.err)
      [] skel.err = "none" /\ root.err /= "none" -> Fail(root.err)
      [] OTHER -> LET views == IF HasSatellites(v) THEN ReadViews(v, SubSeq(files.skins, 1, root.val.numSkinProfiles))
                                                   ELSE Got(<<>>)
                  IN  IF views.err /= "none" THEN Fail(views.err)
                      ELSE Got([root |-> root.val, skins |-> views.val, skel |-> skel.val])

ReadModel(v) ==
    IF files.main.skel
    THEN LET skel == ReadSkeletonFile(v, files.skel, files.anims)
         IN  Assembled(v, [err |-> skel.err, val |-> [on |-> TRUE] @@ skel.val],
                       ReadBody(v, files.main.buf, skel, files.anims))
    ELSE Assembled(v, Got(NoSkel), ReadPlainBody(v, files.main.buf, files.anims))

---------------------------------------------------------------------------
Nothing == [what |-> "nothing"]

Init ==
    /\ client \in Clients
    /\ model \in DOMAIN Models[client]
    /\ files = [main |-> [buf |-> EmptyBuffer, skel |-> FALSE], skins |-> <<>>, anims |-> <<>>, skel |-> NoSkeleton]
    /\ saved = Nothing
    /\ lost = {} /\ cut = {}
    /\ seen = Nothing

Edit ==
    /\ \E name \in DOMAIN Models[client] : model' = name
    /\ seen' = Nothing
    /\ UNCHANGED <<client, files, saved, lost, cut>>

SaveOf(m) ==
    \E bones \in {IF m.skel.on THEN BoneImage(client, m) ELSE <<>>},
       attachments \in {IF m.skel.on THEN AttachmentImage(client, m) ELSE <<>>} :
          files' = StoredModel(client, m, BodyImage(client, m), bones, attachments)

Save ==
    /\ \E m \in {Held} : SaveOf(m)
    /\ saved' = [what |-> "model", model |-> model]
    /\ lost' = {} /\ cut' = {k \in cut \cap DOMAIN files'.anims : files'.anims[k] = files.anims[k]}
    /\ seen' = Nothing
    /\ UNCHANGED <<client, model>>

SaveSkeleton ==
    /\ \E m \in {Held} :
          /\ m.skel.on
          /\ files' = StoredSkeleton(client, m, BoneImage(client, m), AttachmentImage(client, m))
    /\ saved' = [what |-> "skeleton", model |-> model]
    /\ lost' = {} /\ cut' = {}
    /\ seen' = Nothing
    /\ UNCHANGED <<client, model>>

Read ==
    /\ saved.what = "model"
    /\ seen' = [what |-> "model", got |-> ReadModel(client)]
    /\ UNCHANGED <<client, model, files, saved, lost, cut>>

ReadSkeleton ==
    /\ saved /= Nothing /\ Models[client][saved.model].skel.on
    /\ seen' = [what |-> "skeleton", got |-> ReadSkeletonFile(client, files.skel, files.anims)]
    /\ UNCHANGED <<client, model, files, saved, lost, cut>>

Lose ==
    /\ \E key \in DOMAIN files.anims :
         /\ files' = [files EXCEPT !.anims = [k \in DOMAIN @ \ {key} |-> @[k]]]
         /\ lost' = lost \cup {key} /\ cut' = cut \ {key}
    /\ seen' = Nothing
    /\ UNCHANGED <<client, model, saved>>

Shortened(buf) == [buf EXCEPT !.size = @ - 1]

\* A file that has no chunks around it loses its last byte.
Cut ==
    /\ saved /= Nothing /\ cut = {} /\ ~ChunkedContainer(client)
    /\ \/ /\ files' = [files EXCEPT !.main.buf = Shortened(@)]
          /\ cut' = {"main"}
       \/ \E key \in DOMAIN files.anims :
            /\ files.anims[key].raw.size > 0
            /\ files' = [files EXCEPT !.anims[key].raw = Shortened(@)]
            /\ cut' = {key}
    /\ seen' = Nothing
    /\ UNCHANGED <<client, model, saved, lost>>

Next == Edit \/ Save \/ SaveSkeleton \/ Read \/ ReadSkeleton \/ Lose \/ Cut

Spec == Init /\ [][Next]_vars

---------------------------------------------------------------------------
(* What a save promises.                                                    *)

RECURSIVE Without(_, _, _)
\* A value of a type without the tracks of the sequences that are dead.
Without(type, value, dead) ==
    CASE type.kind \in {"scalar", "text"} -> value
      [] type.kind = "vector" -> [i \in DOMAIN value |-> Without(type.of, value[i], dead)]
      [] type.kind = "record" ->
            [name \in DOMAIN value |->
                LET f == CHOOSE x \in Range(type.fields) : x.name = name
                IN  IF f.each /\ value.globalSequence = NoLoop
                    THEN [i \in DOMAIN value[name] |-> IF i \in dead THEN <<>> ELSE value[name][i]]
                    ELSE Without(f.type, value[name], dead)]

\* Aliases never have tracks; an external sequence has those of its file.
Dead(m) == {i \in DOMAIN SequencesOf(m) :
                \/ SequencesOf(m)[i].kind = "alias"
                \/ SequencesOf(m)[i].kind = "external" /\ SequencesOf(m)[i].key \in lost}

ExpectedRoot(v, m) ==
    [name \in DOMAIN m.root |->
        CASE name = "numSkinProfiles" -> Len(m.skins)
          [] name = "textureCombinerCombos" /\ "combos" \notin m.root.globalFlags -> <<>>
          [] OTHER -> Without(Record(RootOf[v]), m.root, Dead(m))[name]]

SkeletonFields(v) == SkelSequences(v) \o SkelBones(v) \o SkelAttachments(v)

ExpectedSkeleton(v, m) == Without(Record(SkeletonFields(v)), [f \in DOMAIN m.skel \ {"on"} |-> m.skel[f]], Dead(m))

Expected(v, m) ==
    [root  |-> ExpectedRoot(v, m),
     skins |-> m.skins,
     skel  |-> IF m.skel.on THEN [on |-> TRUE] @@ ExpectedSkeleton(v, m) ELSE NoSkel]

Apart(buf) ==
    \A a \in DOMAIN buf.cells :
        /\ a + buf.cells[a].size <= buf.size
        /\ \A b \in DOMAIN buf.cells : a < b => a + buf.cells[a].size <= b

StoredBuffers ==
    Range(files.skins) \cup Range(files.skel)
        \cup {files.anims[k].raw : k \in DOMAIN files.anims \ cut}
        \cup (IF "main" \in cut THEN {} ELSE {files.main.buf})
        \cup UNION {{c.buf : c \in Range(files.anims[k].chunks)} : k \in DOMAIN files.anims}

ReadsBack(got, expected, m) ==
    \/ got.err = "none" /\ got.val = expected
    \/ got.err = "OffsetOutOfBounds" /\ cut \cap ({"main"} \cup {SequencesOf(m)[i].key : i \in DOMAIN SequencesOf(m)}) /= {}
    \/ got.err = "FormatVersionMismatch" /\ m.root.formatVersion \notin FormatVersionRange(client)

SeenIs(m) ==
    /\ seen.what = "model"    => ReadsBack(seen.got, Expected(client, m), m)
    /\ seen.what = "skeleton" => ReadsBack(seen.got, ExpectedSkeleton(client, m), m)

\* A saved model reads back equal: every block where its reference says, no two
\* on the same bytes, every track in the file of its sequence.  A missing .anim
\* file costs the tracks of its sequences and no other; a file that lost its
\* last byte is refused, unless nothing that is read was there
\* (offset_block.hpp, satellites.hpp, m2.hpp read and write).
SavedReadsBack ==
    /\ \A buf \in StoredBuffers : Apart(buf)
    /\ saved.what = "model" => SeenIs(Models[client][saved.model])

\* A skeleton that was saved alone reads back equal too ("Writing standalone
\* regenerates the .skel and its .anim files", skeleton.hpp).
SkeletonReadsBack ==
    saved.what = "skeleton" /\ seen.what = "skeleton" =>
        seen.got = Got(ExpectedSkeleton(client, Models[client][saved.model]))

---------------------------------------------------------------------------
(* What validate() asks of a model.                                         *)

NoIndex == 65535        \* -1 in a signed lookup, all ones in an unsigned one

---------------------------------------------------------------------------
(* The contracts the members are annotated with.                            *)

CountMatches(values, scale, target)  == values = <<>> \/ Len(values) * scale = Len(target)
CountMultipleOf(values, n)           == Len(values) % n = 0
Indexes(values, target)              == \A i \in DOMAIN values : values[i] < Len(target)

IndexesOptional(values, target)      == \A i \in DOMAIN values : values[i] /= NoIndex => values[i] < Len(target)

\* Arrays of arrays also pair up element by element.
NestedCountMatches(values, target) ==
    \A i \in DOMAIN values \cap DOMAIN target : Len(values[i]) = Len(target[i])

TrackSound(v, track) ==
    /\ CountMatches(track.values, 1, track.timestamps)
    /\ v >= PerSequenceTimelines => NestedCountMatches(track.values, track.timestamps)

BoneTracks(bone) == {bone.translation, bone.rotation, bone.scale}
ModelTracks(root) ==
    UNION {BoneTracks(b) : b \in Range(root.bones)} \cup {w.weight : w \in Range(root.textureWeights)}
        \cup {a.animateAttached : a \in Range(root.attachments)}

---------------------------------------------------------------------------
(* The contracts that are code.                                             *)

\* Parents come before their children, so that one pass computes every bone.
BonesSound(bones) ==
    \A i \in DOMAIN bones :
        bones[i].parentBone /= NoIndex => /\ bones[i].parentBone < Len(bones)
                                          /\ bones[i].parentBone < i - 1

RECURSIVE AliasSteps(_, _, _)
\* The steps the walk over the aliases has counted when it stops, 0 when a link is bad.
AliasSteps(seqs, at, steps) ==
    IF steps > Len(seqs) THEN steps + 1
    ELSE LET next == seqs[at + 1].aliasNext
         IN  CASE next >= Len(seqs) \/ next = at -> 0
               [] next < Len(seqs) /\ next /= at /\ seqs[next + 1].kind /= "alias" -> steps + 1
               [] OTHER -> AliasSteps(seqs, next, steps + 1)

Mut_AliasesSound(seqs) ==
    \A i \in DOMAIN seqs : seqs[i].kind = "alias" => AliasSteps(seqs, i - 1, 0) /= 0

AliasesSound(seqs) ==
    \A i \in DOMAIN seqs : seqs[i].kind = "alias" => AliasSteps(seqs, i - 1, 0) \in 1 .. Len(seqs)

RootSound(v, r) ==
    /\ IndexesOptional(r.sequenceLookups, r.sequences)
    /\ IndexesOptional(r.replacableTextureLookup, r.textures)
    /\ IndexesOptional(r.textureLookupTable, r.textures)
    /\ IndexesOptional(r.transparencyLookupTable, r.textureWeights)
    /\ IndexesOptional(r.textureTransformsLookupTable, r.textureTransforms)
    /\ CountMultipleOf(r.collisionTriangles, 3) /\ Indexes(r.collisionTriangles, r.collisionVertices)
    /\ CountMatches(r.collisionNormals, 3, r.collisionTriangles)
    /\ IndexesOptional(r.attachmentLookupTable, r.attachments)
    /\ IndexesOptional(r.cameraLookupTable, r.cameras)
    /\ \A t \in ModelTracks(r) : TrackSound(v, t)
    /\ BonesSound(r.bones)
    /\ AliasesSound(r.sequences)

IndexStart(submesh) == submesh.indexStart + submesh.level * 65536

ProfileSound(p) ==
    /\ CountMultipleOf(p.indices, 3) /\ Indexes(p.indices, p.vertices)
    /\ CountMatches(p.bones, 1, p.vertices)
    /\ \A s \in Range(p.submeshes) :
          /\ s.vertexStart + s.vertexCount <= Len(p.vertices)
          /\ IndexStart(s) + s.indexCount <= Len(p.indices)
          /\ s.indexCount % 3 = 0
    /\ \A b \in Range(p.batches) : b.skinSectionIndex < Len(p.submeshes)

\* What needs the profile and the body.  Two of a batch's runs are checked at their start only.
ProfileFitsRoot(p, r) ==
    /\ Indexes(p.vertices, r.vertices)
    /\ \A s \in Range(p.submeshes) : s.boneComboIndex + s.boneCount <= Len(r.boneLookupTable)
    /\ \A b \in Range(p.batches) :
          /\ b.materialIndex < Len(r.materials)
          /\ b.colorIndex /= NoIndex => b.colorIndex < Len(r.colors)
          /\ b.textureComboIndex + b.textureCount <= Len(r.textureLookupTable)
          /\ r.transparencyLookupTable /= <<>> => b.textureWeightComboIndex < Len(r.transparencyLookupTable)
          /\ r.textureTransformsLookupTable /= <<>> =>
                b.textureTransformComboIndex < Len(r.textureTransformsLookupTable)

EffectiveBones(m) == IF m.root.bones = <<>> /\ m.skel.on THEN m.skel.bones ELSE m.root.bones

Profiles(v, m) ==
    IF HasSatellites(v) THEN {s.profile : s \in Range(m.skins)} ELSE Range(m.root.skinProfiles)

Valid(v, m) ==
    /\ RootSound(v, m.root)
    /\ IndexesOptional(m.root.boneLookupTable, EffectiveBones(m))
    /\ IndexesOptional(m.root.keyBoneLookup, EffectiveBones(m))
    /\ \A p \in Profiles(v, m) : ProfileSound(p) /\ ProfileFitsRoot(p, m.root)

---------------------------------------------------------------------------
(* Timelines.                                                               *)

NatMin(a, b) == IF a < b THEN a ELSE b

SharesTimeline(v, track) ==
    v < PerSequenceTimelines /\ (track.globalSequence /= NoLoop \/ track.interpolationRanges = <<>>)

TimelineCount(v, track) ==
    CASE v >= PerSequenceTimelines -> Len(track.timestamps)
      [] SharesTimeline(v, track)  -> IF track.timestamps = <<>> THEN 0 ELSE 1
      [] v < PerSequenceTimelines /\ ~SharesTimeline(v, track) -> Len(track.interpolationRanges)

\* [first, count) of a timeline in the shared arrays: its range, both ends included.
TimelineSlice(v, track, t) ==
    IF SharesTimeline(v, track) THEN <<0, Len(track.timestamps)>>
    ELSE LET range == track.interpolationRanges[t]
             first == NatMin(range.minimum, Len(track.timestamps))
             end   == NatMin(range.maximum + 1, Len(track.timestamps))
         IN  <<first, IF end < first THEN 0 ELSE end - first>>

TimelineTimestamps(v, track, t) ==
    IF v >= PerSequenceTimelines THEN track.timestamps[t]
    ELSE LET s == TimelineSlice(v, track, t) IN SubSeq(track.timestamps, s[1] + 1, s[1] + s[2])

TimelineValues(v, track, t) ==
    IF v >= PerSequenceTimelines THEN track.values[t]
    ELSE LET s     == TimelineSlice(v, track, t)
             first == NatMin(s[1], Len(track.values))
         IN  SubSeq(track.values, first + 1, first + NatMin(s[2], Len(track.values) - first))

---------------------------------------------------------------------------
(* What the client does with a model, by its tables alone.                  *)

\* The sequences from which a way along the aliases leads to tracks.
Resolved(seqs) ==
    FoldLeft(LAMBDA ends, n : ends \cup {i \in DOMAIN seqs : seqs[i].aliasNext + 1 \in ends},
             {i \in DOMAIN seqs : seqs[i].kind /= "alias"}, seqs)

\* The bones one pass over them has computed.
Posed(bones) ==
    FoldLeftDomain(LAMBDA done, i : IF bones[i].parentBone = NoIndex \/ bones[i].parentBone + 1 \in done
                                    THEN done \cup {i} ELSE done, {}, bones)

Lands(table, first, count, target) ==
    \A i \in first + 1 .. first + count :
        i \in DOMAIN table /\ (table[i] = NoIndex \/ table[i] + 1 \in DOMAIN target)

DrawnInside(p, m) ==
    /\ \A b \in Range(p.batches) :
          /\ b.skinSectionIndex + 1 \in DOMAIN p.submeshes /\ b.materialIndex + 1 \in DOMAIN m.root.materials
          /\ Lands(m.root.textureLookupTable, b.textureComboIndex, b.textureCount, m.root.textures)
    /\ \A s \in Range(p.submeshes) :
          /\ Lands(m.root.boneLookupTable, s.boneComboIndex, s.boneCount, EffectiveBones(m))
          /\ \A i \in IndexStart(s) + 1 .. IndexStart(s) + s.indexCount :
                i \in DOMAIN p.indices /\ p.indices[i] + 1 \in DOMAIN p.vertices
                    /\ p.vertices[p.indices[i] + 1] + 1 \in DOMAIN m.root.vertices

PairedTimelines(v, track) ==
    track.values /= <<>> =>
        \A t \in 1 .. TimelineCount(v, track) :
            Len(TimelineTimestamps(v, track, t)) = Len(TimelineValues(v, track, t))

\* A profile draws inside the tables of both files, and every key of a timeline
\* has its value.
Usable(m) ==
    /\ \A p \in Profiles(client, m) : DrawnInside(p, m)
    /\ \A t \in ModelTracks(m.root) : PairedTimelines(client, t)

\* validate() refuses the circles and dangling links that hang the client, and
\* nothing else of the kind: the aliases are sound exactly when a way along them
\* leads from each to a sequence with tracks, however long, and the bones exactly
\* when one pass over them poses every one.  A model it passes is drawn inside
\* its tables and has a value for every key (m2.hpp validate, root.hpp and
\* skin/records.hpp validateExtra).  Nothing is said of the global sequences that
\* tracks refer to: the comment at root.hpp:347 has validateExtra check them too,
\* but it looks at no track, and a reference to one that is not there passes.
ValidIsUsable ==
    \A m \in {Held} :
        /\ AliasesSound(m.root.sequences) <=> Resolved(m.root.sequences) = DOMAIN m.root.sequences
        /\ BonesSound(m.root.bones) <=> Posed(m.root.bones) = DOMAIN m.root.bones
        /\ Valid(client, m) => Usable(m)
=============================================================================
