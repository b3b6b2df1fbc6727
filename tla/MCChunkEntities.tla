------------------------ MODULE MCChunkEntities ------------------------
(* ChunkEntities on small files of eleven entities. *)
EXTENDS ChunkEntities

MCSchemas == {Wdl, Group, Root, Particulates, BoneFile, WdtRoot, Occlusion, Lights, Fogs, M2Chunked, Skel}
MCClients == [WDL |-> {TBC, Legion}, WMOGroup |-> {WotLK}, WMORoot |-> {Legion, BfA},
              WDTParticulates |-> {BfA}, BoneFile |-> {WoD}, WDTRoot |-> {WotLK, BfA},
              WDTOcclusion |-> {WoD}, WDTLights |-> {WoD, SL}, WDTFogs |-> {BfA, TWW},
              M2ChunkedFile |-> {Legion, BfA}, Skeleton |-> {Legion}]
MCTouchable == {"MOCV", "MOPY", "MARE", "MAOF", "MAHO", "MAOE", "MOGI", "MOTX", "PVMI", "BIDA",
                "MAIN", "MAID", "MAOH", "MPLT", "MPL3", "VFEX", "SFID", "TXID", "SKPD"}
MCPayloads == {Bytes(<<>>), Bytes(<<1>>), Bytes(<<1, 0>>), Bytes(<<1, 1>>)}

C(cc, els) == [cc |-> cc, pay |-> Bytes(els)]
Stream(head, chunks, rest) == [els |-> head, sub |-> chunks, rest |-> rest]
Version == C("MVER", <<1>>)

\* The chunks a file may go on with, in any order and number up to its bound.
Alphabet(S, v) ==
    CASE S.name = "WDL" -> {C("MARE", <<1>>), C("MARE", <<2>>)}
                           \cup (IF v = TBC THEN {C("MAHO", <<3>>), C("MAOC", <<4>>)}
                                           ELSE {C("MAOE", <<3>>), C("????", <<1>>)})
      [] S.name = "WMOGroup" -> {C("MOCV", <<1>>), C("MOPY", <<1>>), C("MOPY", <<>>), C("????", <<1>>)}
      [] S.name = "WMORoot"  -> {C("MOGI", <<1>>), C("MOGI", <<1, 1>>), C("MOTX", <<1>>), C("MOTX", <<>>)}
      [] S.name = "WDTParticulates" -> {C("PVMI", <<1>>), C("PVMI", <<2>>), C("PVPD", <<1>>)}
      [] S.name = "BoneFile" -> {C("BIDA", <<1>>), C("BIDA", <<2>>), C("????", <<>>)}
      [] S.name = "WDTRoot" -> {C("MPHD", <<1>>), C("MAIN", <<1>>), C("MAID", <<2>>)}
      [] S.name = "WDTOcclusion" -> {C("MAOI", <<1>>), C("MAOH", <<2>>)}
      [] S.name = "WDTLights" -> {C("MPLT", <<1>>), C("MPL3", <<1>>), C("MLTA", <<2>>)}
      [] S.name = "WDTFogs" -> {C("VFOG", <<1>>), C("VFEX", <<2>>)}
      [] S.name = "M2ChunkedFile" -> {C("MD21", <<1>>), C("SFID", <<1>>), C("TXID", <<2>>)}
      [] S.name = "Skeleton" -> {C("SKL1", <<1>>), C("SKPD", <<2>>), C("SKB1", <<1>>)}

Bodies(S, v, n) == UNION {[1 .. k -> Alphabet(S, v)] : k \in 0 .. n}

Damaged(S) == LET v2 == C("MVER", <<2>>)
              IN  CASE S.name = "BoneFile" -> {Stream(<<>>, <<>>, "none"),
                            Stream(<<1>>, <<[cc |-> "BIDA", pay |-> [Bytes(<<1>>) EXCEPT !.rest = "stray"]]>>, "none")}
                    [] S.name = "WDTParticulates" -> {Stream(<<>>, <<>>, "none"), Stream(<<>>, <<Version>>, "overrun")}
                    [] OTHER -> {Stream(<<>>, <<v2, C("MAOF", <<>>), C("MOHD", <<0, 0, 0, 9>>),
                                               [cc |-> "MOGP", pay |-> Stream(<<1>>, <<>>, "none")]>>, "none")}

\* Files older than Legion carry the name list, often an empty one.
Wrapped(S, v, body, rest) ==
    CASE S.name = "WDL" -> {Stream(<<>>, <<Version>> \o (IF v < Legion THEN <<C("MWMO", <<>>)>> ELSE <<>>)
                                            \o <<C("MAOF", table)>> \o body, rest) :
                              table \in {<<>>} \cup [1 .. 2 -> 0 .. 6]}
      [] S.name = "WMOGroup" -> {Stream(<<>>, <<Version, [cc |-> "MOGP", pay |-> Stream(<<7>>, body, rest)]>>, "none"),
                                 Stream(<<>>, <<Version, [cc |-> "MOGP", pay |-> Stream(<<7>>, body, "none")],
                                                C("????", <<2>>)>>, rest)}
      [] S.name = "WMORoot" -> {Stream(<<>>, <<Version, C("MOHD", <<n, 0, 0, 9>>)>> \o body, rest) : n \in 0 .. 2}
      [] S.name = "BoneFile" -> {Stream(<<5>>, body, rest)}
      [] S.name \in {"M2ChunkedFile", "Skeleton"} -> {Stream(<<>>, body, rest)}
      [] OTHER -> {Stream(<<>>, <<Version>> \o body, rest)}

\* Three chunks where a capacity or the tiles ask for them, and two with stray bytes.
MCFiles(S, v) ==
    LET longest == IF S.name \in {"WDL", "WMOGroup", "WDTRoot"} THEN 3 ELSE 2
        plain   == UNION {Wrapped(S, v, body, "none") : body \in Bodies(S, v, longest)}
        stray   == UNION {Wrapped(S, v, body, "stray") : body \in Bodies(S, v, longest - 1)}
    IN  Damaged(S) \cup {file \in plain \cup stray : Genuine(S, v, file)}
=============================================================================
