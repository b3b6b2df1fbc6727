------------------------- MODULE AssetCalls -------------------------
(***************************************************************************)
(* A program reads, changes and writes an asset that spans several files:  *)
(* a map object and its groups (formats/wmo/wmo.hpp), a map and its        *)
(* satellites (formats/wdt/wdt.hpp), a terrain tile and its split files    *)
(* (formats/adt/adt.hpp), a model and its views, animations, poses,        *)
(* skeleton and physics (formats/m2/m2.hpp, skeleton.hpp, satellites.hpp). *)
(* First which files make up an asset, how they are found, and in which    *)
(* order they are stored; then the calls. Every call of the filesystem is  *)
(* a step of its own: between two of them a read may fail, another program *)
(* may store a file, and the program may die.                              *)
(*                                                                         *)
(* A file is named <<stem, what, number>>; its FileDataID stands for the   *)
(* same name, and the ids in Unnamed resolve to no path. A file holds      *)
(* data, what is in it, 0 when there is nothing; count, in a main file:    *)
(* the groups or views it announces; refs, the FileDataIDs it carries, by  *)
(* slot <<what, number>>. An asset in memory is [main, parts], parts by    *)
(* slot.                                                                   *)
(***************************************************************************)
EXTENDS Naturals, FiniteSets, Functions, SequencesExt

CONSTANTS Unnamed       \* the files whose FileDataID resolves to no path

Main    == <<"main", 0>>
Skel    == <<"skel", 0>>
Parent  == <<"parent", 0>>
Anim    == <<"anim", 0>>
Phys    == <<"phys", 0>>
Numbered(what, n) == [i \in 1 .. n |-> <<what, i - 1>>]

Missing == [data |-> 0, count |-> 0, refs |-> <<>>, there |-> FALSE]
Hollow  == [data |-> 0, count |-> 0, refs |-> <<>>, there |-> TRUE]
NoAsset == [main |-> Missing, parts |-> <<>>]

\* f with x set to v; f with g where f has nothing.
With(f, x, v) == [y \in DOMAIN f \cup {x} |-> IF y = x THEN v ELSE f[y]]
Over(f, g)    == [y \in DOMAIN f \cup DOMAIN g |-> IF y \in DOMAIN f THEN f[y] ELSE g[y]]

HasPath(file)    == file \notin Unnamed
Path(stem, slot) == <<stem>> \o slot

\* Slots in the order of their numbers; and those of a kind that f has.
InOrder(slots) ==
    CHOOSE q \in [1 .. Cardinality(slots) -> slots] : \A i, j \in DOMAIN q : i < j => q[i][2] < q[j][2]
Several(f, what) == InOrder({s \in DOMAIN f : s[1] = what})

---------------------------------------------------------------------------
(* Where the parts are.  An entry is [slot, file, policy]: a part that      *)
(* "must" be there, one that "may" be missing, one whose reading may fail   *)
(* without a word ("quiet").                                                *)

NoRef == <<>>
Entry(slot, file, policy) == [slot |-> slot, file |-> file, policy |-> policy]

\* The entries of refs of one kind; a reference of 0 is skipped, so the parts
\* are counted from 0 again.
Referred(refs, what) ==
    LET slots == Several(refs, what)
    IN  [i \in DOMAIN slots |-> Entry(<<what, i - 1>>, refs[slots[i]], "must")]

GroupsById(main) == Len(Several(main.refs, "group")) >= main.count

WmoParts(kind, main, stem) ==
    [i \in 1 .. main.count |->
        Entry(<<"group", i - 1>>,
              IF kind = "wmoIds" /\ GroupsById(main) THEN main.refs[<<"group", i - 1>>]
                                                     ELSE Path(stem, <<"group", i - 1>>),
              "must")]

Occ  == <<"occ", 0>>
Lgt  == <<"lgt", 0>>
Fogs == <<"fogs", 0>>
Mpv  == <<"mpv", 0>>
Satellites(kind) == IF kind = "wdt" THEN {Occ, Lgt} ELSE {Occ, Lgt, Fogs, Mpv}

\* By name, or those the map refers to.
WdtParts(kind, main, stem) ==
    LET Asked(slot) == IF slot \in DOMAIN main.refs THEN <<Entry(slot, main.refs[slot], "may")>> ELSE <<>>
    IN  IF kind = "wdt" THEN <<Entry(Occ, Path(stem, Occ), "may"), Entry(Lgt, Path(stem, Lgt), "may")>>
        ELSE Asked(Occ) \o Asked(Lgt) \o Asked(Fogs) \o Asked(Mpv)

AdtParts(stem) ==
    <<Entry(<<"tex0", 0>>, Path(stem, <<"tex0", 0>>), "may"),
      Entry(<<"obj0", 0>>, Path(stem, <<"obj0", 0>>), "may"),
      Entry(<<"obj1", 0>>, Path(stem, <<"obj1", 0>>), "quiet"),
      Entry(<<"lod", 0>>,  Path(stem, <<"lod", 0>>), "quiet")>>

\* The external animation is resolved while the body is decoded.
M2NamedParts(main, stem) ==
    LET views == Numbered("skin", main.count)
    IN  <<Entry(Anim, Path(stem, Anim), "quiet")>>
            \o [i \in DOMAIN views |-> Entry(views[i], Path(stem, views[i]), "must")]

\* A skeleton without references of a kind uses those of its parent.
Effective(parts, what) ==
    IF Several(parts[Skel].refs, what) /= <<>> \/ Parent \notin DOMAIN parts THEN parts[Skel].refs
                                                                           ELSE parts[Parent].refs

HasSkel(main) == Skel \in DOMAIN main.refs

SkeletonParts(a) ==
    <<Entry(Skel, a.main.refs[Skel], "must")>>
        \o IF Skel \in DOMAIN a.parts /\ Parent \in DOMAIN a.parts[Skel].refs
           THEN <<Entry(Parent, a.parts[Skel].refs[Parent], "quiet")>> ELSE <<>>

\* The external animation: by the references there are, else by name, if any.
AnimParts(a, file) ==
    LET refs == IF HasSkel(a.main) THEN Effective(a.parts, "anim") ELSE a.main.refs
    IN  IF Anim \in DOMAIN refs THEN <<Entry(Anim, refs[Anim], "quiet")>>
        ELSE <<Entry(Anim, IF HasPath(file) THEN Path(file[1], Anim) ELSE NoRef, "quiet")>>

BoneParts(a) ==
    Referred(IF HasSkel(a.main) THEN Effective(a.parts, "bone") ELSE a.main.refs, "bone")

\* Fewer view references than the body announces views is an error.
ViewParts(main) ==
    LET views == Several(main.refs, "skin")
    IN  IF Len(views) < main.count THEN <<Entry(<<"skin", 0>>, NoRef, "must")>>
        ELSE SubSeq(Referred(main.refs, "skin"), 1, main.count) \o Referred(main.refs, "lod")

PhysParts(main) == IF Phys \in DOMAIN main.refs THEN <<Entry(Phys, main.refs[Phys], "quiet")>> ELSE <<>>

M2ChunkedParts(a, file, tried) ==
    LET first == IF HasSkel(a.main) THEN SkeletonParts(a) ELSE <<>>
    IN  IF \E i \in DOMAIN first : first[i].slot \notin tried THEN first
        ELSE first \o AnimParts(a, file) \o ViewParts(a.main) \o BoneParts(a) \o PhysParts(a.main)

Parts(kind, a, file, tried) ==
    CASE kind \in {"wmo", "wmoIds"} -> WmoParts(kind, a.main, file[1])
      [] kind \in {"wdt", "wdtIds"} -> WdtParts(kind, a.main, file[1])
      [] kind = "adtSplit"          -> AdtParts(file[1])
      [] kind = "m2Named"           -> M2NamedParts(a.main, file[1])
      [] kind = "m2Chunked"         -> M2ChunkedParts(a, file, tried)
      [] kind \in {"adtWhole", "m2Alone"} -> <<>>

\* What is to be read next after the slots in tried: one entry, or none.
Wanted(kind, a, file, tried) ==
    LET parts == Parts(kind, a, file, tried)
        First(i) == parts[i].slot \notin tried /\ \A j \in 1 .. i - 1 : parts[j].slot \in tried
    IN  {parts[i] : i \in {n \in DOMAIN parts : First(n)}}

\* A part whose file has to be named is out of reach of a mere FileDataID.
NeedsPath(kind, main) == \/ kind \in {"wmo", "wdt", "adtSplit", "m2Named"}
                         \/ kind = "wmoIds" /\ ~GroupsById(main)

\* One part is read; fault says that the read, or the decoding, fails.
ReadPart(a, e, files, fault) ==
    LET found == IF e.file \in DOMAIN files THEN files[e.file] ELSE Missing
        taken == [a EXCEPT !.parts = With(@, e.slot, found)]
        after == IF found.there /\ ~fault THEN taken
                 ELSE IF e.policy = "quiet" /\ e.slot = Anim THEN [a EXCEPT !.parts = With(@, Anim, Hollow)]
                 ELSE a
        fails == e.policy /= "quiet" /\ (fault \/ (e.policy = "must" /\ ~found.there))
    IN  [asset |-> IF fails THEN a ELSE after,
         err   |-> IF ~fails THEN "none"
                   ELSE IF e.file = NoRef THEN "InvalidEntityState"
                   ELSE IF found.there THEN "ReadFailed" ELSE "FileNotFound"]

---------------------------------------------------------------------------
(* What is stored, in which order: a sequence of [file, content].           *)

Store(stem, slot, content) == [file |-> Path(stem, slot), content |-> content]
Stored(a, stem, slots)     == [i \in DOMAIN slots |-> Store(stem, slots[i], a.parts[slots[i]])]
Held(a, slot)              == IF slot \in DOMAIN a.parts THEN <<slot>> ELSE <<>>
Fresh(stem, slots)         == [s \in Range(slots) |-> Path(stem, s)]

WmoStores(a, stem) == <<Store(stem, Main, a.main)>> \o Stored(a, stem, Several(a.parts, "group"))

\* Only a satellite that was read, or holds something, is stored.
WdtStores(kind, a, stem) ==
    LET byId == IF kind = "wdt" THEN <<>> ELSE Held(a, Fogs) \o Held(a, Mpv)
    IN  <<Store(stem, Main, a.main)>> \o Stored(a, stem, Held(a, Occ) \o Held(a, Lgt) \o byId)

AdtStores(a, stem) ==
    LET Of(slot) == IF slot \in DOMAIN a.parts THEN a.parts[slot] ELSE Hollow
        both == <<Store(stem, <<"tex0", 0>>, Of(<<"tex0", 0>>)), Store(stem, <<"obj0", 0>>, Of(<<"obj0", 0>>))>>
    IN  <<Store(stem, Main, a.main)>>
            \o (both \o Stored(a, stem, Held(a, <<"obj1", 0>>) \o Held(a, <<"lod", 0>>)))

Mut_Body(a) == [a.main EXCEPT !.count = 0]

\* The body carries the number of views that are held.
Body(a) == [a.main EXCEPT !.count = Len(Several(a.parts, "skin"))]

M2NamedStores(a, stem) ==
    <<Store(stem, Main, Body(a))>> \o Stored(a, stem, Held(a, Anim) \o Several(a.parts, "skin"))

\* The skeleton, empty if it was not read, with fresh references and its parent.
StoredSkeleton(a, stem) ==
    [(IF Skel \in DOMAIN a.parts THEN a.parts[Skel] ELSE Hollow) EXCEPT !.refs =
        Over(Fresh(stem, Held(a, Anim) \o Several(a.parts, "bone")), [s \in DOMAIN @ \cap {Parent} |-> @[s]])]

\* The parts come first, so that the model refers to what is stored.
M2ChunkedStores(a, stem) ==
    LET bones == Several(a.parts, "bone")
        anims == Held(a, Anim)
        views == Several(a.parts, "skin") \o Several(a.parts, "lod")
        skel  == IF HasSkel(a.main) THEN <<Store(stem, Skel, StoredSkeleton(a, stem))>> ELSE <<>>
        kept  == [s \in {x \in DOMAIN a.main.refs : HasSkel(a.main) /\ x[1] = "bone"} |-> a.main.refs[s]]
        refs  == Over(Fresh(stem, views \o Held(a, Phys)
                                  \o IF HasSkel(a.main) THEN <<Skel>> ELSE anims \o bones), kept)
    IN  Stored(a, stem, bones) \o Stored(a, stem, anims) \o skel
            \o Stored(a, stem, views \o Held(a, Phys))
            \o <<Store(stem, Main, [Body(a) EXCEPT !.refs = refs])>>

Mut_Stores(kind, a, stem) ==
    LET stores == CASE kind \in {"wmo", "wmoIds"} -> WmoStores(a, stem)
                    [] kind = "m2Chunked"         -> M2ChunkedStores(a, stem)
                    [] OTHER                      -> <<Store(stem, Main, a.main)>>
    IN  [i \in DOMAIN stores |-> stores[Len(stores) + 1 - i]]

Stores(kind, a, stem) ==
    CASE kind \in {"wmo", "wmoIds"} -> WmoStores(a, stem)
      [] kind \in {"wdt", "wdtIds"} -> WdtStores(kind, a, stem)
      [] kind = "adtSplit"          -> AdtStores(a, stem)
      [] kind = "m2Named"           -> M2NamedStores(a, stem)
      [] kind = "m2Chunked"         -> M2ChunkedStores(a, stem)
      [] kind \in {"adtWhole", "m2Alone"} -> <<Store(stem, Main, a.main)>>

\* Every group needs its record in the root, and no more.
Storable(kind, a) ==
    kind \in {"wmo", "wmoIds"} => a.main.count = Len(Several(a.parts, "group"))

---------------------------------------------------------------------------
(* The calls.                                                               *)

CONSTANTS Kinds,            \* the kinds of asset looked at
          Disks(_),         \* the files there may be at first, by kind
          Stem,             \* the name the asset is written under
          Data,             \* what a part may hold
          MaxEdits, MaxMishaps, MaxSaves   \* bounds; a mishap is a failure or a foreign store

\* A file has a name of three parts, and ids in finitely many slots.
IsName(f)    == f = <<f[1], f[2], f[3]>>
IsSlot(s)    == s = <<s[1], s[2]>> /\ s[2] \in Nat
IsContent(c) == /\ c = [data |-> c.data, count |-> c.count, refs |-> c.refs, there |-> c.there]
                /\ c.count \in Nat /\ c.there \in BOOLEAN
                /\ IsFiniteSet(DOMAIN c.refs) /\ \A s \in DOMAIN c.refs : IsSlot(s)

ASSUME KindsAssumption ==
    Kinds \subseteq {"wmo", "wmoIds", "wdt", "wdtIds", "adtWhole", "adtSplit", "m2Alone", "m2Named", "m2Chunked"}
ASSUME DisksAssumption ==
    \A k \in Kinds : \A d \in Disks(k) :
        /\ d = [f \in DOMAIN d |-> d[f]]
        /\ \A f \in DOMAIN d : IsName(f) /\ IsContent(d[f])

VARIABLES kind,
          disk,             \* file name -> what the file holds
          stamp,            \* history: the save that stored a file, 0 at first
          asset,            \* the entity in memory
          call,             \* the call under way: what, file, tried or todo
          last,             \* how the last call ended: what, file, err
          calm,             \* history: nobody else stored a file since the call began
          clean,            \* history: read without failures, and nothing changed since
          edits, faults, foreign, saves

vars == <<kind, disk, stamp, asset, call, last, calm, clean, edits, faults, foreign, saves>>

Files == DOMAIN disk
Idle  == [what |-> "idle", file |-> NoRef, tried |-> {}, todo |-> <<>>]
MainFiles == {f \in Files : Tail(f) = Main}

Init == /\ kind \in Kinds
        /\ disk \in Disks(kind)
        /\ stamp = [f \in DOMAIN disk |-> 0]
        /\ asset = NoAsset
        /\ call = Idle
        /\ last = [what |-> "none", file |-> NoRef, err |-> "none"]
        /\ calm = TRUE /\ clean = FALSE
        /\ edits = 0 /\ faults = 0 /\ foreign = 0 /\ saves = 0

Return(what, file, err) == /\ call' = Idle
                           /\ last' = [what |-> what, file |-> file, err |-> err]

\* A call that fails, for whatever reason of the storage below.
Fault == faults + foreign < MaxMishaps /\ faults' = faults + 1
Well  == faults' = faults

Mut_BeginRead(file) ==
    /\ call = Idle /\ file \in MainFiles
    /\ calm' = TRUE /\ Well /\ disk[file].there /\ HasPath(file)
    /\ asset' = [asset EXCEPT !.main = disk[file]] /\ clean' = TRUE
    /\ call' = [Idle EXCEPT !.what = "read", !.file = file]
    /\ UNCHANGED <<last, kind, disk, stamp, edits, foreign, saves>>

\* The main file.  A tile is emptied before it is read, a split tile needs its
\* path before, and every other asset that names its parts after.
BeginRead(file) ==
    /\ call = Idle /\ file \in MainFiles
    /\ calm' = TRUE
    /\ LET emptied == IF kind \in {"adtWhole", "adtSplit"} THEN NoAsset ELSE asset
           read    == [NoAsset EXCEPT !.main = disk[file]]
           lost    == NeedsPath(kind, disk[file]) /\ ~HasPath(file)
       IN  \/ /\ kind = "adtSplit" /\ lost /\ Well
              /\ asset' = NoAsset /\ clean' = FALSE /\ Return("read", file, "PathNotResolvable")
           \/ /\ ~(kind = "adtSplit" /\ lost)
              /\ IF disk[file].there THEN Fault ELSE Well
              /\ asset' = emptied /\ clean' = FALSE /\ Return("read", file, "FileNotFound")
           \/ /\ disk[file].there /\ Well
              /\ lost /\ kind /= "adtSplit"
              /\ asset' = IF kind = "m2Named" THEN NoAsset ELSE read
              /\ clean' = FALSE /\ Return("read", file, "PathNotResolvable")
           \/ /\ disk[file].there /\ Well /\ ~lost
              /\ asset' = read /\ clean' = TRUE
              /\ call' = [Idle EXCEPT !.what = "read", !.file = file] /\ UNCHANGED last
    /\ UNCHANGED <<kind, disk, stamp, edits, foreign, saves>>

\* The next part.
ReadNext ==
    /\ call.what = "read"
    /\ \E e \in Wanted(kind, asset, call.file, call.tried), fault \in BOOLEAN :
         LET r == ReadPart(asset, e, disk, fault)
         IN  /\ IF fault THEN e.file \in Files /\ disk[e.file].there /\ Fault ELSE Well
             /\ asset' = r.asset
             /\ clean' = (clean /\ ~fault /\ r.err = "none")
             /\ IF r.err = "none" THEN /\ call' = [call EXCEPT !.tried = @ \cup {e.slot}]
                                       /\ UNCHANGED last
                                  ELSE Return("read", call.file, r.err)
    /\ UNCHANGED <<kind, disk, stamp, calm, edits, foreign, saves>>

EndRead == /\ call.what = "read" /\ Wanted(kind, asset, call.file, call.tried) = {}
           /\ Return("read", call.file, "none")
           /\ UNCHANGED <<kind, disk, stamp, asset, calm, clean, edits, faults, foreign, saves>>

BeginWrite(file) ==
    /\ call = Idle /\ asset.main.there /\ saves < MaxSaves /\ file \in MainFiles
    /\ saves' = saves + 1
    /\ calm' = TRUE
    /\ IF ~HasPath(file) THEN Return("write", file, "PathNotResolvable")
       ELSE IF ~Storable(kind, asset) THEN Return("write", file, "InvalidEntityState")
       ELSE /\ call' = [Idle EXCEPT !.what = "write", !.file = file,
                                    !.todo = Stores(kind, asset, file[1])]
            /\ UNCHANGED last
    /\ UNCHANGED <<kind, disk, stamp, asset, clean, edits, faults, foreign>>

\* FileSystem::addFile of the next file; it may fail, and ends the call.
StoreNext ==
    /\ call.what = "write" /\ call.todo /= <<>>
    /\ LET s == Head(call.todo)
       IN  \/ /\ Well
              /\ disk' = With(disk, s.file, s.content)
              /\ stamp' = With(stamp, s.file, saves)
              /\ call' = [call EXCEPT !.todo = Tail(@)] /\ UNCHANGED last
           \/ /\ Fault
              /\ Return("write", call.file, "WriteFailed") /\ UNCHANGED <<disk, stamp>>
    /\ UNCHANGED <<kind, asset, calm, clean, edits, foreign, saves>>

EndWrite == /\ call.what = "write" /\ call.todo = <<>>
            /\ Return("write", call.file, "none")
            /\ UNCHANGED <<kind, disk, stamp, asset, calm, clean, edits, faults, foreign, saves>>

\* The program dies, with what it has in memory.
Crash == /\ call /= Idle
         /\ Fault
         /\ asset' = NoAsset /\ clean' = FALSE
         /\ Return("crash", call.file, "none")
         /\ UNCHANGED <<kind, disk, stamp, calm, edits, foreign, saves>>

\* Another program stores one of the files during a call.
StoreElsewhere == /\ call /= Idle /\ faults + foreign < MaxMishaps
                  /\ foreign' = foreign + 1
                  /\ \E f \in Files, d \in Data :
                       /\ disk[f].there /\ d /= disk[f].data
                       /\ disk' = [disk EXCEPT ![f].data = d]
                  /\ calm' = FALSE /\ clean' = FALSE
                  /\ UNCHANGED <<kind, stamp, asset, call, last, edits, faults, saves>>

---------------------------------------------------------------------------
(* What the program does to the entity between two calls.                   *)

Edit(changed) == /\ call = Idle /\ asset.main.there /\ edits < MaxEdits
                 /\ edits' = edits + 1
                 /\ asset' = changed /\ asset' /= asset
                 /\ clean' = FALSE
                 /\ last' = [last EXCEPT !.what = "edit"]
                 /\ UNCHANGED <<kind, disk, stamp, call, calm, faults, foreign, saves>>

ChangePart == \E s \in DOMAIN asset.parts \ {Parent}, d \in Data :
                Edit([asset EXCEPT !.parts[s].data = d])

\* A group comes with its record, or without.
AddPart == \E what \in {"group", "skin", "bone", "occ"} :
    LET next == <<what, Len(Several(asset.parts, what))>>
        new  == [Hollow EXCEPT !.data = CHOOSE d \in Data : TRUE]
        with == [asset EXCEPT !.parts = With(@, next, new)]
    IN  /\ what \in CASE kind \in {"wmo", "wmoIds"} -> {"group"}
                      [] kind \in {"wdt", "wdtIds"} -> {"occ"}
                      [] kind = "m2Named"           -> {"skin"}
                      [] kind = "m2Chunked"         -> {"skin", "bone"}
                      [] OTHER                      -> {}
        /\ Path(Stem, next) \in Files
        /\ \/ Edit(with)
           \/ what = "group" /\ Edit([with EXCEPT !.main.count = @ + 1])

\* The last group with its record, the last view or pose, a satellite.
DropPart == \E s \in DOMAIN asset.parts \ {Skel, Parent, Anim, <<"tex0", 0>>, <<"obj0", 0>>} :
    /\ \A x \in DOMAIN asset.parts : x[1] = s[1] => x[2] <= s[2]
    /\ Edit([main  |-> IF s[1] = "group" /\ asset.main.count > 0 THEN [asset.main EXCEPT !.count = @ - 1]
                                                                 ELSE asset.main,
             parts |-> [x \in DOMAIN asset.parts \ {s} |-> asset.parts[x]]])

Step == ReadNext \/ EndRead \/ StoreNext \/ EndWrite

Next == \/ \E file \in MainFiles : BeginRead(file) \/ BeginWrite(file)
        \/ Step \/ Crash \/ StoreElsewhere
        \/ ChangePart \/ AddPart \/ DropPart

\* A call that has begun goes on: it waits for nobody.
Spec == Init /\ [][Next]_vars

---------------------------------------------------------------------------
(* Properties                                                               *)

\* A read without failures, at once.  No asset has more parts than files.
ReadAll(file) ==
    LET Go(r, i) == LET todo == Wanted(kind, r.asset, file, r.tried)
                    IN  IF r.err /= "none" \/ todo = {} THEN r
                        ELSE LET e   == CHOOSE x \in todo : TRUE
                                 got == ReadPart(r.asset, e, disk, FALSE)
                             IN  [asset |-> got.asset, err |-> got.err, tried |-> r.tried \cup {e.slot}]
    IN  FoldLeft(Go, [asset |-> [NoAsset EXCEPT !.main = disk[file]], err |-> "none", tried |-> {}],
                 [i \in 1 .. Cardinality(Files) + 1 |-> i])

\* Type invariant.
TypeOK == /\ call.what \in {"idle", "read", "write"}
          /\ call.what /= "idle" => call.file \in MainFiles
          /\ \A s \in DOMAIN asset.parts : asset.parts[s].there
          /\ ~asset.main.there => asset.parts = <<>>

\* What a read returns is what the files hold, all of it and nothing that was
\* in the entity before, unless a file was replaced meanwhile.
ReadIsCurrent ==
    call = Idle /\ last.what = "read" /\ clean /\ calm =>
        ReadAll(last.file) = [ReadAll(last.file) EXCEPT !.asset = asset, !.err = "none"]

\* The parts that a later read will not look for where they were stored, or
\* finds though they are gone from the entity.
Astray(file) ==
    LET stem == file[1]
        Left(slot) == slot \notin DOMAIN asset.parts /\ disk[Path(stem, slot)].there
    IN  CASE kind = "wmoIds" -> GroupsById(asset.main) /\
                \E g \in DOMAIN asset.main.refs : asset.main.refs[g] /= Path(stem, g)
          [] kind = "wdt"    -> \E s \in Satellites(kind) : Left(s)
          [] kind = "wdtIds" -> \E s \in Satellites(kind) :
                IF s \in DOMAIN asset.main.refs
                THEN asset.main.refs[s] /= Path(stem, s) \/ Left(s)
                ELSE s \in DOMAIN asset.parts
          [] kind = "adtSplit" -> \E s \in {<<"obj1", 0>>, <<"lod", 0>>} : Left(s)
          [] kind = "m2Chunked" -> Left(Anim)
          [] OTHER -> FALSE

\* An asset that was stored whole reads back: unless a part went astray, the
\* same parts with the same content.
SavedReadsBack ==
    call = Idle /\ last.what = "write" /\ last.err = "none" /\ calm /\ ~Astray(last.file) =>
        LET r       == ReadAll(last.file)
            Told(a) == [x \in {y \in DOMAIN a.parts \ {Parent} : a.parts[y].data /= 0} |-> a.parts[x].data]
        IN  /\ r.err = "none"
            /\ r.asset.main.data = asset.main.data
            /\ Told(r.asset) = Told(asset)

\* The files a model refers to.  One with a skeleton keeps the ids of poses it
\* may carry itself, which nobody reads.
UsedRefs(main) == {main.refs[s] : s \in {x \in DOMAIN main.refs : ~(HasSkel(main) /\ x[1] = "bone")}}

\* Whatever fails in between: the files a chunked model on disk refers to are
\* there, stored by the same save or a later one; of every other asset no part is
\* newer than the main file, so a group or view is never there before the root
\* that announces it.
StoredInOrder ==
    \A m \in MainFiles : disk[m].there =>
        IF kind = "m2Chunked"
        THEN stamp[m] > 0 =>
                \A f \in UsedRefs(disk[m]) : f \in Files /\ disk[f].there /\ stamp[f] >= stamp[m]
        ELSE \A f \in Files : f[1] = m[1] => stamp[f] <= stamp[m]

\* The program stores what it read, unchanged, where it read it from.
SavesWhatItRead == /\ clean /\ clean' /\ last.what = "read"
                   /\ call.what = "write" /\ call.file = last.file

\* A map whose satellites are found by name is stored with those it had.
NoSatelliteAppears ==
    [][kind = "wdt" /\ SavesWhatItRead => \A f \in Files : disk'[f].there => disk[f].there]_vars

\* Such a save changes no file, when the parts are found by name: it may only
\* add some.
UnchangedSaveChangesNothing ==
    [][SavesWhatItRead /\ kind \in {"wmo", "wdt", "adtSplit", "adtWhole", "m2Named", "m2Alone"}
       => \A f \in Files : disk[f].there => disk'[f] = disk[f]]_vars

\* Storing what was read, where it was read from, changes nothing: no file that
\* was there, and no satellite appears.
ResaveIsHarmless == NoSatelliteAppears /\ UnchangedSaveChangesNothing

\* The types of the variables, and the order in which the files of an asset
\* reach the disk.
AssetInv == TypeOK /\ StoredInOrder
=============================================================================
