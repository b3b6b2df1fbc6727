------------------------- MODULE MCModelFiles -------------------------
(***************************************************************************)
(* Small models of three releases, sound ones and broken ones.             *)
(***************************************************************************)
EXTENDS ModelFiles

MCClients == {TBC, WotLK, Legion}

BlankOf(fields) == Blank(Record(fields))
BlankRoot(v)    == [BlankOf(RootOf[v]) EXCEPT !.magic = Md20, !.formatVersion = FormatVersion[v], !.globalFlags = {}]
Sequence(v, key, kind, alias) ==
    [BlankOf(M2Sequence(v).fields) EXCEPT !.key = key, !.kind = kind, !.aliasNext = alias]
Inline(v)     == Sequence(v, "none", "inline", 0)
External(v, key) == Sequence(v, key, "external", 0)
Alias(v, n)   == Sequence(v, "a", "alias", n)

Animated(track, timestamps, values) == [track EXCEPT !.timestamps = timestamps, !.values = values]
Bone(v, parent, timestamps, values) ==
    LET bone == [BlankOf(M2CompBone(v).fields) EXCEPT !.parentBone = parent]
    IN  [bone EXCEPT !.translation = Animated(@, timestamps, values)]
Event(v, timestamps) == [BlankOf(M2Event(v).fields) EXCEPT !.enabled.timestamps = timestamps]
Attachment(v, timestamps, values) ==
    [BlankOf(M2Attachment(v).fields) EXCEPT !.animateAttached = Animated(@, timestamps, values)]
Texture(name) == [BlankOf(M2Texture.fields) EXCEPT !.filename = name]

Profile(v) ==
    [BlankOf(ProfileFields(v)) EXCEPT
        !.vertices  = <<1, 0, 1>>, !.indices = <<0, 1, 2>>, !.bones = <<0, 0, 0>>,
        !.submeshes = <<[BlankOf(M2SkinSection(v).fields) EXCEPT !.vertexCount = 3, !.indexCount = 3, !.boneCount = 1]>>,
        !.batches   = <<[BlankOf(M2Batch.fields) EXCEPT !.textureCount = 1, !.colorIndex = NoIndex]>>]
Skin(v) == [magic |-> 2, profile |-> Profile(v)]

\* Two vertices, one bone, one texture: what the profile above draws.
Body(v) == [BlankRoot(v) EXCEPT !.name = <<1, 2>>, !.vertices = <<7, 8>>, !.boneLookupTable = <<0>>, !.materials = <<5>>,
                                !.textures = <<Texture(<<3>>)>>, !.textureLookupTable = <<0, NoIndex>>,
                                !.bones = <<Bone(v, NoIndex, <<>>, <<>>)>>]
Model(root, skins) == [root |-> root, skins |-> skins, skel |-> NoSkel]

Keys   == <<<<10, 20>>, <<30>>, <<40>>>>
Values == <<<<11, 21>>, <<31>>, <<41>>>>

Ranged == Bone(TBC, NoIndex, <<10, 20, 30>>, <<11, 21, 31>>)
Range2(a, b) == [minimum |-> a, maximum |-> b]
TbcModels ==
    [plain |-> Model([Body(TBC) EXCEPT !.skinProfiles = <<Profile(TBC)>>, !.sequences = <<Inline(TBC)>>,
                                       !.bones = <<[Ranged EXCEPT !.translation.interpolationRanges =
                                                        <<Range2(0, 1), Range2(2, 9), Range2(2, 1)>>]>>], <<>>),
     combos |-> Model([Body(TBC) EXCEPT !.globalFlags = {"combos"}, !.textureCombinerCombos = <<1, 2>>,
                                        !.bones = <<[Ranged EXCEPT !.translation.globalSequence = 0]>>], <<>>),
     hidden |-> Model([Body(TBC) EXCEPT !.textureCombinerCombos = <<1, 2>>], <<>>),
     foreign |-> Model([Body(TBC) EXCEPT !.formatVersion = 264], <<>>),
     overrun |-> Model([Body(TBC) EXCEPT !.skinProfiles =
                            <<[Profile(TBC) EXCEPT !.submeshes[1].indexStart = 1]>>], <<>>)]

Mixed(v) == <<External(v, "a"), Inline(v), External(v, "b")>>
Acting(v, seqs) ==
    [Body(v) EXCEPT !.sequences = seqs, !.bones = <<Bone(v, NoIndex, Keys, Values)>>, !.events = <<Event(v, Keys)>>]

WotlkModels ==
    [acting |-> Model(Acting(WotLK, Mixed(WotLK)), <<Skin(WotLK)>>),
     shared |-> Model([Acting(WotLK, <<External(WotLK, "a"), External(WotLK, "a"), Alias(WotLK, 0)>>)
                        EXCEPT !.attachments = <<Attachment(WotLK, Keys, Values)>>], <<>>),
     looped |-> Model([Acting(WotLK, Mixed(WotLK)) EXCEPT !.globalLoops = <<9>>,
                            !.bones[1].translation.globalSequence = 0], <<Skin(WotLK), Skin(WotLK)>>),
     lastAlias |-> Model([Acting(WotLK, <<Inline(WotLK), Inline(WotLK), Alias(WotLK, 0)>>)
                            EXCEPT !.events = <<>>, !.textures = <<>>], <<>>),
     chain |-> Model([Body(WotLK) EXCEPT !.sequences =
                            <<Alias(WotLK, 2), Inline(WotLK), Alias(WotLK, 3), Alias(WotLK, 1)>>], <<>>),
     circle |-> Model([Acting(WotLK, <<Inline(WotLK), Alias(WotLK, 2), Alias(WotLK, 1)>>) EXCEPT !.name = <<>>], <<>>),
     unpaired |-> Model([Acting(WotLK, Mixed(WotLK)) EXCEPT
                            !.bones = <<Bone(WotLK, NoIndex, Keys, <<<<11>>, <<31>>, <<41>>>>)>>], <<>>),
     upside |-> Model([Body(WotLK) EXCEPT !.bones = <<Bone(WotLK, 1, <<>>, <<>>), Bone(WotLK, NoIndex, <<>>, <<>>)>>],
                      <<[Skin(WotLK) EXCEPT !.profile.vertices = <<2, 0, 1>>]>>)]

Boneless == [Body(Legion) EXCEPT !.bones = <<>>, !.events = <<Event(Legion, Keys)>>]
Skeletal(seqs, events) ==
    [root  |-> [Boneless EXCEPT !.events = events], skins |-> <<Skin(Legion)>>,
     skel  |-> [on |-> TRUE] @@ BlankOf(SkeletonFields(Legion)) @@ <<>>]
Skeleton(seqs, bones, attachments, events) ==
    [Skeletal(seqs, events) EXCEPT !.skel.sequences = seqs, !.skel.bones = bones, !.skel.attachments = attachments]

LegionModels ==
    [raw      |-> Model(Acting(Legion, Mixed(Legion)), <<Skin(Legion)>>),
     chunked  |-> Model([Acting(Legion, Mixed(Legion)) EXCEPT !.globalFlags = {"chunked"}], <<>>),
     skeletal |-> Skeleton(Mixed(Legion), <<Bone(Legion, NoIndex, Keys, Values)>>,
                           <<Attachment(Legion, <<<<50>>>>, <<<<51>>>>)>>, <<Event(Legion, Keys)>>),
     silent   |-> Skeleton(Mixed(Legion), <<Bone(Legion, NoIndex, Keys, Values)>>, <<>>, <<>>)]

MCModels == (TBC :> TbcModels) @@ (WotLK :> WotlkModels) @@ (Legion :> LegionModels)
=============================================================================
