--------------------------- MODULE MCAssetCalls ---------------------------
(* AssetCalls on one asset of each kind, named "a"; "u" is the same main file *)
(* known by its FileDataID alone, and "f" are files ids may point to.         *)
EXTENDS AssetCalls, TLC

MCKinds   == {"wmo", "wmoIds", "wdt", "wdtIds", "adtWhole", "adtSplit", "m2Alone", "m2Named", "m2Chunked"}
MCUnnamed == {<<"u", "main", 0>>, <<"f", "group", 0>>, <<"f", "occ", 0>>, <<"f", "skin", 0>>}

G(i) == <<"group", i>>
S(i) == <<"skin", i>>
B(i) == <<"bone", i>>
A(slot) == Path("a", slot)

Of(count, refs) == [Hollow EXCEPT !.data = 1, !.count = count, !.refs = refs]
One == Of(0, <<>>)

\* The slots an asset of a kind may come to have.
Slots(k) == CASE k \in {"wmo", "wmoIds"} -> {G(0), G(1)}
              [] k = "wdt"       -> {<<"occ", 0>>, <<"lgt", 0>>}
              [] k = "wdtIds"    -> {<<"occ", 0>>, <<"lgt", 0>>, <<"fogs", 0>>, <<"mpv", 0>>}
              [] k = "adtSplit"  -> {<<"tex0", 0>>, <<"obj0", 0>>, <<"obj1", 0>>, <<"lod", 0>>}
              [] k = "m2Named"   -> {Anim, S(0), S(1)}
              [] k = "m2Chunked" -> {Anim, S(0), S(1), <<"lod", 0>>, B(0), B(1), Skel, Phys}
              [] OTHER -> {}

\* The ids its main file may carry.
Refs(k) == CASE k = "wmoIds" -> {<<>>, G(0) :> A(G(0)), G(0) :> <<"f", "group", 0>>}
             [] k = "wdtIds" -> {<<>>, <<"occ", 0>> :> A(<<"occ", 0>>),
                                 <<"occ", 0>> :> <<"f", "occ", 0>> @@ <<"mpv", 0>> :> A(<<"mpv", 0>>)}
             [] k = "m2Chunked" -> {S(0) :> A(S(0)),
                                    S(0) :> <<"f", "skin", 0>> @@ B(1) :> A(B(1)) @@ Phys :> A(Phys),
                                    S(0) :> A(S(0)) @@ <<"lod", 0>> :> A(<<"lod", 0>>) @@ Anim :> A(Anim),
                                    S(0) :> A(S(0)) @@ Skel :> A(Skel),
                                    S(0) :> A(S(0)) @@ Skel :> A(Skel) @@ B(0) :> <<"f", "skin", 0>>}
             [] OTHER -> {<<>>}

\* A skeleton with its own ids, and one that shares its parent's.
Skeletons == {Of(0, Anim :> A(Anim) @@ B(0) :> A(B(0))), Of(0, Parent :> <<"f", "skel", 0>>)}

MCDisks(k) ==
    LET parts == {A(s) : s \in Slots(k)}
        ids(x) == CASE x = "wmoIds" -> {<<"f", "group", 0>>}
                    [] x = "wdtIds" -> {<<"f", "occ", 0>>}
                    [] x = "m2Chunked" -> {<<"f", "skin", 0>>, <<"f", "skel", 0>>}
                    [] OTHER -> {}
        Other(skel, absent, f) ==
            CASE f = A(Skel) -> skel
              [] f = <<"f", "skel", 0>> -> Of(0, Anim :> A(Anim))
              [] f \in absent -> Missing
              [] OTHER -> One
        Absent == {{}, parts} \cup {{A(s)} : s \in Slots(k) \cap {Anim, G(0), S(0), <<"obj1", 0>>, <<"occ", 0>>}}
        Counts == IF k \in {"wmo", "wmoIds", "m2Named"} THEN 0 .. 1 ELSE {IF k = "m2Chunked" THEN 1 ELSE 0}
    IN  UNION {{[f \in parts \cup ids(k) \cup {<<"u", "main", 0>>, A(Main)} |->
                    IF Tail(f) = Main THEN Of(count, refs) ELSE Other(skel, absent, f)] :
                    count \in Counts, skel \in IF Skel \in DOMAIN refs THEN Skeletons ELSE {One}, absent \in Absent} :
               refs \in Refs(k)}
=============================================================================
