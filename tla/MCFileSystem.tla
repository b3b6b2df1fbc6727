--------------------------- MODULE MCFileSystem ---------------------------
(***************************************************************************)
(* Small installations of MPQ clients, of one file that any member may     *)
(* hold, and CASC clients: with and without a .build.info, of one flavour  *)
(* and of several, with stale configurations.                              *)
(***************************************************************************)
EXTENDS FileSystem

CONSTANT f

MCRows == <<"data", "data", "locale">>

Entry(dir, tier, key, spelling, form) ==
    [dir |-> dir, tier |-> tier, key |-> key, spelling |-> spelling, kind |-> form]

\* Contents of `es` that `contents` admits.
Fillings(es, contents(_)) ==
    {[e \in es |-> [g \in Files |-> h[e]]] :
        h \in {h \in [es -> {"none", "full", "delta", "bad"}] : \A e \in es : h[e] \in contents(e)}}

\* A directory holds one entry of a name.
Distinct(es) == \A a, b \in es : [a EXCEPT !.kind = ""] = [b EXCEPT !.kind = ""] => a = b

HasLocale(es) == \E e \in es : e.dir = "locale"

\* At most `most` of the candidates.  A version before 2 needs no directory for
\* the locale; of the others, one that is there may also be empty.
Disks(scheme, major, candidates, most, contents(_)) ==
    UNION {[scheme : {scheme}, major : {major}, entries : {es},
            localeDir : {HasLocale(es), HasLocale(es) \/ major >= 2},
            content : Fillings(es, contents)] :
              es \in {es \in SUBSET candidates : Cardinality(es) <= most /\ Distinct(es)}}

\* Patches of an early client: the locale's code is rank 3, "patch-z" is rank 5.
ClassicNames ==
    {Entry("data", "base", <<1>>, 0, "file"), Entry("locale", "base", <<3>>, 0, "file"),
     Entry("data", "patch", <<>>, 0, "file"), Entry("data", "patch", <<2>>, 0, "file"),
     Entry("data", "patch", <<2>>, 1, "dir"), Entry("data", "patch", <<5>>, 0, "dir"),
     Entry("data", "patch", <<3>>, 0, "file"), Entry("data", "patch", <<2>>, 0, "other"),
     Entry("locale", "patch", <<3>>, 0, "file"), Entry("locale", "patch", <<3, 2>>, 0, "dir")}

Plain(e) == IF e.tier = "base" \/ e.kind = "dir" THEN {"none", "full"} ELSE {"full"}

MCClassic == Disks("classic", 1, ClassicNames, 5, Plain)

\* Updates of a cataclysm client, two of them with one number.
UpdateNames ==
    {Entry("data", "base", <<1>>, 0, "file"), Entry("data", "base", <<2>>, 0, "file"),
     Entry("data", "base", <<2>>, 0, "dir"), Entry("locale", "base", <<3>>, 0, "file"),
     Entry("data", "update", <<4>>, 0, "file"), Entry("data", "update", <<4>>, 1, "file"),
     Entry("data", "update", <<6>>, 0, "file"), Entry("locale", "update", <<4>>, 0, "file")}

Patching(e) == IF e.tier = "update" THEN {"full", "delta"} ELSE {"none", "full"}

MCUpdates == Disks("updates", 4, UpdateNames, 5, Patching)

\* Updates in which the file does not open.
Damaged(e) == IF e.tier = "update" THEN {"full", "bad"} ELSE {"none", "full"}
MCDamaged == Disks("updates", 4, UpdateNames, 3, Damaged)

MCInstalls == MCClassic \cup MCUpdates \cup MCDamaged

---------------------------------------------------------------------------
CONSTANTS tact, o1, o2

Unparseable == 9
Row(product, build, active, complete) == [product |-> product, build |-> build, active |-> active, complete |-> complete]
Repack(builds, matches) ==
    [plain |-> {}, builds |-> builds, matches |-> matches, beside |-> <<>>, above |-> <<>>, flavor |-> "none"]
Installed(beside, above, flavor) ==
    [plain |-> {row.product : row \in {r \in ToSet(FlattenSeq(beside \o above)) : r.active}},
     builds |-> [k \in {"a"} |-> 2], matches |-> {"a"}, beside |-> beside, above |-> above, flavor |-> flavor]

Live == Row("wow", 3, TRUE, TRUE)
Era  == Row("era", 2, TRUE, TRUE)
Past == Row("wow", 1, FALSE, TRUE)
Torn  == Row("era", 3, TRUE, FALSE)
Odd   == Row("wow", Unparseable, TRUE, TRUE)

MCClients ==
    {Repack([k \in {"a", "b"} |-> CASE k = "a" -> 1 [] k = "b" -> 2], matches) : matches \in {{}, {"a"}, {"a", "b"}}}
        \cup {Repack([k \in {} |-> 0], {}), Repack([k \in {"a", "b"} |-> 2], {"b"})}
        \cup {Installed(<<<<Past, Era, Torn>>>>, <<>>, "none"), Installed(<<>>, <<<<Live, Era>>>>, "era"),
              Installed(<<>>, <<<<Live, Era>>>>, "none"), Installed(<<<<Live>>>>, <<<<Era>>>>, "era"), Installed(<<<<Odd>>>>, <<>>, "wow")}

Unknown == 0
MCSettings == {[product |-> "detect", build |-> Unknown], [product |-> "wow", build |-> 1]}
MCHeld == [i \in {1, 2, 3} |-> CASE i = 1 -> "here" [] i = 2 -> "remote" [] i = 3 -> tact]
MCListfiles == {<<<<1, "p">>, <<2, "q">>, <<3, "r">>, <<1, "s">>>>, <<<<1, "p">>, <<4, "p">>>>}
=============================================================================
