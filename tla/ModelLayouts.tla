------------------------- MODULE ModelLayouts -------------------------
(***************************************************************************)
(* The records of the model files, release by release, as the serializer   *)
(* sees them (formats/m2/root, formats/m2/skin, formats/m2/skeleton.hpp).  *)
(* Scalars that nothing tells apart are one field of their common size.    *)
(***************************************************************************)
EXTENDS OffsetBlocks, ClientEras

CompressedBones      == TBC
PerSequenceTimelines == WotLK
MultitexParticles    == Cata

Scalars(n) == Vec(Scalar(n))
Words      == Scalars(2)
Vector3    == Scalar(12)

---------------------------------------------------------------------------
(* Tracks: one timeline the sequences share, or one per sequence.           *)

TrackHeader == <<F("interpolationType", 2), [F("globalSequence", 2) EXCEPT !.init = NoLoop]>>

EventTrack(v) ==
    Record(TrackHeader \o IF v < PerSequenceTimelines
                          THEN <<V("interpolationRanges", Scalar(8)), V("timestamps", Scalar(4))>>
                          ELSE <<PerSequence("timestamps", Scalar(4))>>)

Track(v, n) ==
    Record(TrackHeader \o IF v < PerSequenceTimelines
                          THEN <<V("interpolationRanges", Scalar(8)), V("timestamps", Scalar(4)),
                                 V("values", Scalar(n))>>
                          ELSE <<PerSequence("timestamps", Scalar(4)), PerSequence("values", Scalar(n))>>)

FBlock(n) == Record(<<V("timestamps", Scalar(2)), V("values", Scalar(n))>>)

Tracks(v, n, names) == [i \in DOMAIN names |-> Field(names[i], Track(v, n))]

---------------------------------------------------------------------------
(* The records of the body.                                                 *)

SequenceFields(v) ==
    <<F("key", 4)>>
        \o IF v < PerSequenceTimelines THEN <<F("timestamps", 8)>> ELSE <<F("duration", 4)>>
M2Sequence(v) == Record(SequenceFields(v) \o <<F("motion", 4), F("kind", 4), F("blending", 16), F("bounds", 28),
                                              F("variationNext", 2), F("aliasNext", 2)>>)

M2CompBone(v) ==
    Record(<<F("keyBoneId", 4), F("flags", 4), F("parentBone", 2), F("submeshId", 2)>>
           \o Since(v >= CompressedBones, <<F("boneNameCrc", 4)>>)
           \o Tracks(v, 12, <<"translation">>)
           \o Tracks(v, IF v < CompressedBones THEN 16 ELSE 8, <<"rotation">>)
           \o Tracks(v, 12, <<"scale">>) \o <<Field("pivot", Vector3)>>)

M2Texture           == Record(<<F("type", 4), F("flags", 4), Field("filename", Text)>>)
M2Color(v)          == Record(Tracks(v, 12, <<"color">>) \o Tracks(v, 2, <<"alpha">>))
M2TextureWeight(v)  == Record(Tracks(v, 2, <<"weight">>))
M2TextureFlipbook(v) == Record(Tracks(v, 2, <<"frames">>))
M2TextureTransform(v) ==
    Record(Tracks(v, 12, <<"translation">>) \o Tracks(v, 16, <<"rotation">>) \o Tracks(v, 12, <<"scaling">>))

M2Attachment(v) ==
    Record(<<F("id", 4), F("bone", 2), F("unknown", 2), Field("position", Vector3)>>
           \o Tracks(v, 1, <<"animateAttached">>))

M2Event(v) ==
    Record(<<F("identifier", 4), F("data", 4), F("bone", 4), Field("position", Vector3),
             Field("enabled", EventTrack(v))>>)

M2Light(v) ==
    Record(<<F("type", 2), F("bone", 2), Field("position", Vector3)>>
           \o Tracks(v, 12, <<"ambientColor">>) \o Tracks(v, 4, <<"ambientIntensity">>)
           \o Tracks(v, 12, <<"diffuseColor">>)
           \o Tracks(v, 4, <<"diffuseIntensity", "attenuationStart", "attenuationEnd">>)
           \o Tracks(v, 1, <<"visibility">>))

CameraPath(v) ==
    Tracks(v, 36, <<"positions">>) \o <<Field("positionBase", Vector3)>>
        \o Tracks(v, 36, <<"targetPosition">>) \o <<Field("targetPositionBase", Vector3)>> \o Tracks(v, 12, <<"roll">>)
PlainCamera(v) == Record(<<F("type", 4), F("fov", 4), F("clip", 8)>> \o CameraPath(v))
LensCamera(v)  == Record(<<F("type", 4), F("clip", 8)>> \o CameraPath(v) \o Tracks(v, 12, <<"fov">>))
M2Camera(v)    == IF v < MultitexParticles THEN PlainCamera(v) ELSE LensCamera(v)

M2Ribbon(v) ==
    Record(<<F("ribbonId", 4), F("boneIndex", 4), Field("position", Vector3), V("textureIndices", Scalar(2)),
             V("materialIndices", Scalar(2))>>
           \o Tracks(v, 12, <<"color">>) \o Tracks(v, 2, <<"alpha">>) \o Tracks(v, 4, <<"heightAbove", "heightBelow">>)
           \o <<F("edges", 12), F("textureGrid", 4)>> \o Tracks(v, 2, <<"texSlot">>) \o Tracks(v, 1, <<"visibility">>)
           \o Since(v >= PerSequenceTimelines, <<F("priorityPlane", 2), F("colorIndex", 1), F("transformLookup", 1)>>))

---------------------------------------------------------------------------
(* Particles: the head, the emission tracks and the tail of each era.       *)

ParticleHead == <<F("particleId", 4), F("flags", 4), Field("position", Vector3), F("boneId", 2), F("textureId", 2),
                  Field("geometryModelFilename", Text), Field("recursionModelFilename", Text)>>
ParticleGrid == <<F("priorityPlane", 2), F("rows", 2), F("columns", 2)>>
Area         == <<"emissionAreaWidth", "emissionAreaLength", "zSource">>
Emission(v)  == Tracks(v, 4, <<"emissionSpeed", "speedVariation", "verticalRange", "horizontalRange", "gravity",
                               "lifespan", "emissionRate">> \o Area)
Motion       == <<F("tumble", 24), F("wind", 16), F("follow", 16), V("splinePoints", Vector3)>>

\* Key values as plain arrays: colors, scales, and the animation of the texture.
KeyValues == <<F("midPoint", 4), F("colorValues", 12), F("scaleValues", 12), F("lifespanUvAnim", 6),
               F("decayUvAnim", 6), F("tailUvAnim", 4), F("tailDecayUvAnim", 4)>>
OldTail(v) == KeyValues \o <<F("twinkle", 20), F("inherit", 4), F("drag", 4), F("spin", 4)>> \o Motion
              \o Tracks(v, 1, <<"enabled">>)

VanillaParticle(v) ==
    Record(ParticleHead \o <<F("blendingType", 2), F("emitterType", 2), F("particleType", 1), F("headOrTail", 1)>>
           \o ParticleGrid \o Emission(v) \o OldTail(v))
ColoredParticle(v) ==
    Record(ParticleHead
           \o <<F("blendingType", 1), F("emitterType", 1), F("particleColorIndex", 2), F("particleType", 1),
                F("headOrTail", 1)>>
           \o ParticleGrid \o Emission(v) \o OldTail(v))

SpreadEmission(v) ==
    Tracks(v, 4, <<"emissionSpeed", "speedVariation", "verticalRange", "horizontalRange", "gravity", "lifespan">>)
        \o <<F("lifespanVariation", 4)>> \o Tracks(v, 4, <<"emissionRate">>) \o <<F("emissionRateVariation", 4)>>
        \o Tracks(v, 4, Area)
KeyTracks ==
    <<Field("colorTrack", FBlock(12)), Field("alphaTrack", FBlock(2)), Field("scaleTrack", FBlock(8)),
      F("scaleVary", 8), Field("headUvAnim", FBlock(2)), Field("tailUvAnim", FBlock(2))>>
SpreadTail(v) == KeyTracks \o <<F("twinkle", 20), F("inherit", 4), F("drag", 4), F("spin", 16)>> \o Motion
                 \o Tracks(v, 1, <<"enabled">>)
KeyedParticle(v) ==
    Record(ParticleHead
           \o <<F("blendingType", 1), F("emitterType", 1), F("particleColorIndex", 2), F("particleType", 1),
                F("headOrTail", 1)>>
           \o ParticleGrid \o SpreadEmission(v) \o SpreadTail(v))
MultitexParticle(v) ==
    Record(ParticleHead
           \o <<F("blendingType", 1), F("emitterType", 1), F("particleColorIndex", 2), F("multiTexScale", 2)>>
           \o ParticleGrid \o SpreadEmission(v) \o SpreadTail(v)
           \o <<F("multiTexScrollMid", 8), F("multiTexScrollRange", 8)>>)

M2Particle(v) ==
    CASE v < CompressedBones -> VanillaParticle(v)
      [] v >= CompressedBones /\ v < PerSequenceTimelines -> ColoredParticle(v)
      [] v >= PerSequenceTimelines /\ v < MultitexParticles -> KeyedParticle(v)
      [] v >= MultitexParticles -> MultitexParticle(v)

---------------------------------------------------------------------------
(* Profiles of a view.                                                      *)

M2SkinSection(v) ==
    Record(<<F("skinSectionId", 2), F("level", 2), F("vertexStart", 2), F("vertexCount", 2), F("indexStart", 2),
             F("indexCount", 2), F("boneCount", 2), F("boneComboIndex", 2), F("boneInfluences", 2),
             F("centerBoneIndex", 2), Field("centerPosition", Vector3)>>
           \o Since(v >= CompressedBones, <<F("sortCenter", 16)>>))

M2Batch ==
    Record(<<F("flags", 4), F("skinSectionIndex", 2), F("geosetIndex", 2), F("colorIndex", 2), F("materialIndex", 2),
             F("materialLayer", 2), F("textureCount", 2), F("textureComboIndex", 2), F("textureCoordComboIndex", 2),
             F("textureWeightComboIndex", 2), F("textureTransformComboIndex", 2)>>)

ProfileFields(v) ==
    <<V("vertices", Scalar(2)), V("indices", Scalar(2)), V("bones", Scalar(4)), V("submeshes", M2SkinSection(v)),
      V("batches", M2Batch), F("boneCountMax", 4)>>
    \o Since(v >= MultitexParticles, <<V("shadowBatches", Scalar(12))>>)

SkinFields(v) == <<F("magic", 4), Field("profile", Record(ProfileFields(v)))>>

---------------------------------------------------------------------------
(* The model body, and the blocks of the skeleton that stand in for its own *)

RootIdentity(v) ==
    <<F("magic", 4), F("formatVersion", 4), Field("name", Text), F("globalFlags", 4), V("globalLoops", Scalar(4)),
      V("sequences", M2Sequence(v)), Field("sequenceLookups", Words), V("bones", M2CompBone(v)),
      Field("keyBoneLookup", Words), V("vertices", Scalar(48)), V("colors", M2Color(v)), V("textures", M2Texture),
      V("textureWeights", M2TextureWeight(v)), V("textureTransforms", M2TextureTransform(v))>>
RootLookups ==
    <<Field("replacableTextureLookup", Words), V("materials", Scalar(4)), Field("boneLookupTable", Words),
      Field("textureLookupTable", Words), Field("textureMappingLookupTable", Words),
      Field("transparencyLookupTable", Words), Field("textureTransformsLookupTable", Words),
      F("bounds", 56), Field("collisionTriangles", Words), V("collisionVertices", Vector3),
      V("collisionNormals", Vector3)>>
RootScene(v) ==
    <<V("attachments", M2Attachment(v)), Field("attachmentLookupTable", Words), V("events", M2Event(v)),
      V("lights", M2Light(v)), V("cameras", M2Camera(v)), Field("cameraLookupTable", Words),
      V("ribbonEmitters", M2Ribbon(v)), V("particleEmitters", M2Particle(v))>>

DataPreWotlk(v) ==
    After("sequenceLookups", <<V("playableAnimationLookup", Scalar(4))>>)
        \o After("vertices", <<V("skinProfiles", Record(ProfileFields(v)))>>)
        \o After("textureWeights", <<V("textureFlipbooks", M2TextureFlipbook(v))>>)
DataWotlk == After("vertices", <<F("numSkinProfiles", 4)>>)
DataTbc   == After("particleEmitters", <<Gated(V("textureCombinerCombos", Scalar(2)), "combos")>>)

RootTraits(v) ==
    (IF v < PerSequenceTimelines THEN DataPreWotlk(v) ELSE DataWotlk) \o Since(v >= CompressedBones, DataTbc)

RootFields(v) == MemberOrder(RootIdentity(v) \o RootLookups \o RootScene(v), RootTraits(v))

SkelSequences(v)   == <<V("globalLoops", Scalar(4)), V("sequences", M2Sequence(v)), Field("sequenceLookups", Words),
                        F("padding", 8)>>
SkelBones(v)       == <<V("bones", M2CompBone(v)), Field("keyBoneLookup", Words)>>
SkelAttachments(v) == <<V("attachments", M2Attachment(v)), Field("attachmentLookupTable", Words)>>

---------------------------------------------------------------------------
(* The sizes the layout tests demand (tests/unit/test_m2_layout.cpp).       *)

ASSUME TrackSizes ==
    /\ LayoutSize(Track(Vanilla, 12)) = 28 /\ LayoutSize(Track(WotLK, 12)) = 20
    /\ LayoutSize(EventTrack(Vanilla)) = 20 /\ LayoutSize(EventTrack(WotLK)) = 12
    /\ LayoutSize(FBlock(12)) = 16

ASSUME RecordSizes ==
    /\ LayoutSize(M2CompBone(Vanilla)) = 108 /\ LayoutSize(M2CompBone(TBC)) = 112
    /\ LayoutSize(M2CompBone(WotLK)) = 88 /\ LayoutSize(M2Texture) = 16 /\ LayoutSize(M2Color(WotLK)) = 40
    /\ LayoutSize(M2TextureTransform(WotLK)) = 60 /\ LayoutSize(M2Attachment(WotLK)) = 40
    /\ LayoutSize(M2Event(WotLK)) = 36 /\ LayoutSize(M2Light(WotLK)) = 156
    /\ LayoutSize(M2Camera(Vanilla)) = 124 /\ LayoutSize(M2Camera(WotLK)) = 100 /\ LayoutSize(M2Camera(Cata)) = 116
    /\ LayoutSize(M2Ribbon(Vanilla)) = 220 /\ LayoutSize(M2Ribbon(WotLK)) = 176
    /\ LayoutSize(M2Particle(Vanilla)) = 504 /\ LayoutSize(M2Particle(WotLK)) = 476
    /\ LayoutSize(M2Particle(Cata)) = 492
    /\ LayoutSize(M2Sequence(Vanilla)) = 68 /\ LayoutSize(M2Sequence(WotLK)) = 64
    /\ LayoutSize(Record(ProfileFields(WotLK))) = 44 /\ LayoutSize(Record(ProfileFields(Cata))) = 52

ASSUME RootSizes ==
    \A v \in {Vanilla, TBC, WotLK, Cata, WoD} :
        LET size == ImageSize(RootFields(v), [globalFlags |-> {}])
        IN  size = IF v < PerSequenceTimelines THEN 324 ELSE 304
=============================================================================
