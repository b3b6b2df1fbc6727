--------------------------- MODULE MpqStorage ---------------------------
(***************************************************************************)
(* The storage of an MPQ client: which archives of a Data directory it     *)
(* loads and in which order (fs/mpq/mpq_chain.cpp), opening them, with     *)
(* updates attached, and the three walks over them (mpq_storage.cpp).      *)
(*                                                                         *)
(* A directory entry is a record:                                          *)
(*   dir       "data" or "locale" (Data/ or Data/{locale}/)                *)
(*   tier      what its name is: "base" (a name of the table), "patch"     *)
(*             (patch... .MPQ), "update" (wow-update-... .MPQ), "other"    *)
(*   key       base: <<row>>; update: <<the number at the end>>; patch:    *)
(*             the parts of the name after "patch", split at the dashes,   *)
(*             each replaced by its rank in case-insensitive order         *)
(*   spelling  tells apart names that differ in case only, or, of updates, *)
(*             in what precedes the number                                 *)
(*   kind      "file", "dir" (loose files) or "other" (a dangling link)    *)
(* Of the names that count, none has a dash where another goes on with a   *)
(* different character, so comparing them by character is by part.         *)
(*                                                                         *)
(* StormLib is external; what its calls answer is in HasFile, OpenFile and *)
(* FindNames, and any archive may refuse to open.  Once open the chain does*)
(* not change and every probe holds its archive's lock, so calls of several*)
(* threads do not meet and one at a time is modelled; what may change below*)
(* them is a directory of loose files.                                     *)
(***************************************************************************)
EXTENDS Naturals, Sequences, FiniteSets, SequencesExt

CONSTANTS Rows,         \* the base table: for each row, the directory it is in
          OneChar,      \* the ranks of the parts of one character
          LocaleRank,   \* the rank of the locale's code
          BuildLimit    \* build numbers are kept modulo BuildLimit (2^32)

ASSUME RowsAssumption == Rows \in Seq({"data", "locale"})
ASSUME RanksAssumption == /\ OneChar \subseteq Nat \ {0}
                          /\ LocaleRank \in (Nat \ {0}) \ OneChar
ASSUME BuildAssumption == BuildLimit \in Nat \ {0}

\* The stems of the two directories: "patch" and "patch-{locale}".
Stem(dir) == IF dir = "data" THEN <<>> ELSE <<LocaleRank>>

\* The stem itself, or the stem and a suffix of one character.
IsPatchCore(key, stem) == \/ key = stem
                          \/ \E c \in OneChar : key = Append(stem, c)

\* Lexicographic order; a proper prefix comes first.
CiLess(a, b) ==
    \E i \in 1 .. Len(b) : /\ Len(a) >= i - 1
                           /\ SubSeq(a, 1, i - 1) = SubSeq(b, 1, i - 1)
                           /\ Len(a) = i - 1 \/ a[i] < b[i]

\* The digits after the last dash, in unsigned arithmetic.
UpdateBuild(key) == key[1] % BuildLimit

\* x goes behind everything it is not less than, which makes the sort stable.
InsertInOrder(sorted, x, Less(_, _)) ==
    LET behind == Cardinality({i \in DOMAIN sorted : ~Less(x, sorted[i])})
    IN  InsertAt(sorted, behind + 1, x)

StableSort(s, Less(_, _)) ==
    FoldLeft(LAMBDA sorted, x : InsertInOrder(sorted, x, Less), <<>>, s)

\* A row is served by a file or by a directory of loose files; others are skipped.
BaseTier(entries) ==
    LET Present(row) == {e \in entries : /\ e.tier = "base"
                                         /\ e.key = <<row>>
                                         /\ e.dir = Rows[row]
                                         /\ e.kind \in {"file", "dir"}}
    IN  FlattenSeq([row \in DOMAIN Rows |-> SetToSeq(Present(row))])

\* `order` is what the directory iterator yields.
CollectPatches(order, dir) ==
    SelectSeq(order, LAMBDA e : /\ e.tier = "patch"
                                /\ IsPatchCore(e.key, Stem(dir))
                                /\ e.kind \in {"file", "dir"})

CollectUpdates(order) ==
    SelectSeq(order, LAMBDA e : e.tier = "update" /\ e.kind = "file")

Mut_ClassicTier(inData, inLocale) ==
    LET Less(a, b) == CiLess(a.key, b.key)
    IN  StableSort(CollectPatches(inData, "data"), Less)
          \o StableSort(CollectPatches(inLocale, "locale"), Less)

\* One list of both directories' patches, sorted by name.
ClassicTier(inData, inLocale) ==
    StableSort(CollectPatches(inData, "data") \o CollectPatches(inLocale, "locale"),
               LAMBDA a, b : CiLess(a.key, b.key))

\* One list of both directories' updates, sorted by build.
UpdateTier(inData, inLocale) ==
    StableSort(CollectUpdates(inData) \o CollectUpdates(inLocale),
               LAMBDA a, b : UpdateBuild(a.key) < UpdateBuild(b.key))

ExpandChain(scheme, inData, inLocale) ==
    BaseTier(ToSet(inData \o inLocale))
      \o (IF scheme = "classic" THEN ClassicTier(inData, inLocale) ELSE <<>>)
      \o (IF scheme = "updates" THEN UpdateTier(inData, inLocale) ELSE <<>>)

-----------------------------------------------------------------------------
(* What the chain has to be, said of the entries and not of a procedure.   *)

\* The entries the client loads.
IsMember(scheme, e) ==
    \/ /\ e.tier = "base"
       /\ e.kind # "other"
       /\ \E row \in DOMAIN Rows : e.key = <<row>> /\ e.dir = Rows[row]
    \/ /\ scheme = "classic" /\ e.tier = "patch" /\ e.kind # "other"
       /\ \/ e.dir = "data" /\ e.key = <<>>
          \/ e.dir = "data" /\ \E c \in OneChar : e.key = <<c>>
          \/ e.dir = "locale" /\ e.key = <<LocaleRank>>
          \/ e.dir = "locale" /\ \E c \in OneChar : e.key = <<LocaleRank, c>>
    \/ scheme = "updates" /\ e.tier = "update" /\ e.kind = "file"

\* A number that grows with the name of a member: a part that is missing
\* counts as 0, below every rank.
NameWeight(key) ==
    LET Part(i) == IF Len(key) >= i THEN key[i] ELSE 0
        Base == 1 + LocaleRank + FoldLeft(+, 0, SetToSeq(OneChar))
    IN  Part(1) * Base + Part(2)

TierRank(e) == CASE e.tier = "base" -> 1 [] e.tier = "patch" -> 2 [] OTHER -> 3

\* Member b takes precedence over member a.
ClientBefore(a, b) ==
    \/ TierRank(a) < TierRank(b)
    \/ /\ a.tier = b.tier
       /\ \/ a.tier # "patch" /\ a.key[1] < b.key[1]
          \/ a.tier = "patch" /\ NameWeight(a.key) < NameWeight(b.key)
          \/ a.tier = "update" /\ a.key = b.key /\ a.dir = "data" /\ b.dir = "locale"

IsClientOrder(chain, scheme, entries) ==
    /\ chain \in Seq(entries)
    /\ ToSet(chain) = {e \in entries : IsMember(scheme, e)}
    /\ Len(chain) = Cardinality(ToSet(chain))
    /\ \A i, j \in DOMAIN chain : i <= j => ~ClientBefore(chain[j], chain[i])

---------------------------------------------------------------------------
(* The storage.                                                            *)

CONSTANTS Installs,      \* installations: scheme ("classic", "updates" or, where no table
                         \* fits the version, "unknown"), major version, whether the
                         \* locale's directory exists, entries and their content
          Files,         \* canonical paths
          Placeholder    \* a name StormLib makes up for an entry without one

ASSUME PlaceholderAssumption == Placeholder \notin Files

\* A directory holds files as they are; only updates hold what changes a file.
ASSUME InstallAssumption ==
    \A i \in Installs :
        /\ i.content \in [i.entries -> [Files -> {"none", "full", "delta", "bad"}]]
        /\ \A e \in i.entries :
              /\ e.kind \in {"file", "dir", "other"}
              /\ \A f \in Files : /\ e.tier # "update" => i.content[e][f] # "delta"
                                  /\ e.kind = "dir" => i.content[e][f] \in {"none", "full"}

VARIABLES install,   \* the installation; nothing changes it
          gone,      \* loose files removed since: pairs of an entry and a path
          phase,     \* "closed", "opening" or "open"
          chain,     \* while opening, the members still to be opened
          archives,  \* _archives
          handles,   \* the archives StormLib has open
          call,      \* the call in progress
          said       \* history: for each path, the last answer of each call

mvars == <<install, gone, phase, chain, archives, handles, call, said>>

\* What an entry holds of f: "none", "full", "delta" (updates only) or "bad",
\* which is there but does not open.
Content(e, f) == install.content[e][f]

\* What a read answers; `layers` is what the file is made of, by its place in
\* the order of attachment.
IsOutcome(r) == /\ r.status \in {"unasked", "found", "missing", "error", "not_open"}
                /\ DOMAIN r.layers \subseteq Nat
                /\ ToSet(r.layers) \subseteq install.entries

Status(s) == [status |-> s, layers |-> <<>>]

NoCall == [op |-> "none", f |-> Placeholder, at |-> 0, names |-> {}]

NothingSaid == [read   |-> [f \in Files |-> Status("unasked")],
                exists |-> [f \in Files |-> "unasked"],
                listed |-> {}]

MqInit == /\ install \in Installs
          /\ gone = {}
          /\ phase = "closed"
          /\ chain = <<>>
          /\ archives = <<>>
          /\ handles = {}
          /\ call = NoCall
          /\ said = NothingSaid

-----------------------------------------------------------------------------
(* Opening.                                                                *)

\* The orders in which the iterator may yield a directory.
Orders(dir) == SetToSeqs({e \in install.entries : e.dir = dir})

\* No table for the version, or its locale's directory is missing where the
\* version needs it: an error, and nothing is open.
MayOpen == /\ install.scheme # "unknown"
           /\ install.major >= 2 => install.localeDir

\* A chain without a member is an error too.
IsUsable(members) == members # <<>>

Expand == /\ phase = "closed"
          /\ MayOpen
          /\ \E inData \in Orders("data"), inLocale \in Orders("locale") :
                chain' = ExpandChain(install.scheme, inData, inLocale)
          /\ IsUsable(chain')
          /\ phase' = "opening"
          /\ UNCHANGED <<install, gone, archives, handles, call, said>>

\* One member: an archive is opened, a directory is indexed.
OpenArchive == /\ phase = "opening" /\ chain # <<>>
               /\ LET e == Head(chain) IN
                  /\ e.tier # "update"
                  /\ e.kind = "file"
                  /\ archives' = Append(archives, [entry |-> e, patches |-> <<>>, loose |-> {}])
                  /\ handles' = handles \cup {e}
               /\ chain' = Tail(chain)
               /\ UNCHANGED <<install, gone, phase, call, said>>

IndexLoose == /\ phase = "opening" /\ chain # <<>>
              /\ LET e == Head(chain)
                     loose == {f \in Files : Content(e, f) = "full" /\ <<e, f>> \notin gone}
                 IN  /\ e.kind = "dir"
                     /\ archives' = Append(archives, [entry |-> e, patches |-> <<>>, loose |-> loose])
              /\ chain' = Tail(chain)
              /\ UNCHANGED <<install, gone, phase, handles, call, said>>

Mut_Attaches(update, a) == a.entry.kind = "file"

\* An update is attached to the archives, not directories, beside it.
Attaches(update, a) == a.entry.kind = "file" /\ a.entry.dir = update.dir

AttachUpdate == /\ phase = "opening" /\ chain # <<>>
                /\ LET u == Head(chain) IN
                   /\ u.tier = "update"
                   /\ archives' = [i \in DOMAIN archives |->
                         IF Attaches(u, archives[i])
                         THEN [archives[i] EXCEPT !.patches = Append(@, u)]
                         ELSE archives[i]]
                /\ chain' = Tail(chain)
                /\ UNCHANGED <<install, gone, phase, handles, call, said>>

\* The entries in _archives.
Opened == {archives[i].entry : i \in DOMAIN archives}

Mut_Closed(hs) == hs

\* _close: every handle held is closed.
Closed(hs) == hs \ Opened

Forget == /\ phase' = "closed"
          /\ chain' = <<>>
          /\ archives' = <<>>
          /\ handles' = Closed(handles)
          /\ UNCHANGED <<install, gone>>

\* StormLib refuses the member: an archive, or an update at any of the archives
\* it is to be attached to.
OpenFail == /\ phase = "opening" /\ chain # <<>>
            /\ LET e == Head(chain) IN
               \/ e.tier # "update" /\ e.kind = "file"
               \/ e.tier = "update" /\ \E i \in DOMAIN archives : Attaches(e, archives[i])
            /\ Forget
            /\ UNCHANGED <<call, said>>

OpenDone == /\ phase = "opening" /\ chain = <<>>
            /\ phase' = "open"
            /\ UNCHANGED <<install, gone, chain, archives, handles, call, said>>

Close == /\ phase = "open" /\ call = NoCall
         /\ Forget
         /\ said' = NothingSaid
         /\ UNCHANGED call

-----------------------------------------------------------------------------
(* StormLib, as this code uses it.                                         *)

\* SFileHasFile: the archive's own table.
HasFile(a, f) == Content(a.entry, f) # "none"

\* SFileOpenFileEx: the archive and its updates in the order of attachment.
\* Deltas apply to the newest complete file below them; deltas alone are no file.
Attached(a)    == <<a.entry>> \o a.patches
Touching(a, f) == {i \in DOMAIN Attached(a) : Content(Attached(a)[i], f) # "none"}
Ends(a, f)     == {i \in Touching(a, f) : Content(Attached(a)[i], f) # "delta"}

OpenFile(a, f) ==
    CASE Ends(a, f) = {} -> Status("missing")
      [] \E i \in Ends(a, f) : Content(Attached(a)[i], f) = "bad" -> Status("error")
      [] OTHER -> [status |-> "found",
                   layers |-> [i \in {i \in Touching(a, f) : i >= Max(Ends(a, f))} |-> Attached(a)[i]]]

\* SFileAddListFile and the find calls: any of the complete files of the archive
\* and its updates (the listfile may be short or absent), and placeholders.
FindNames(a) == SUBSET ({Placeholder} \cup
    {f \in Files : \E e \in {a.entry} \cup ToSet(a.patches) : Content(e, f) = "full"})

-----------------------------------------------------------------------------
(* The three walks.                                                        *)

\* readFile at one member; "missing" is to go on.  The look at the archive's own
\* table would not see what an update adds.
ReadArchive(a, f) ==
    IF a.patches = <<>> /\ ~HasFile(a, f) THEN Status("missing") ELSE OpenFile(a, f)

ReadLoose(a, f) ==
    IF f \notin a.loose THEN Status("missing")
    ELSE IF <<a.entry, f>> \in gone THEN Status("error")
    ELSE [status |-> "found", layers |-> <<a.entry>>]

ReadAt(a, f) == IF a.entry.kind = "dir" THEN ReadLoose(a, f) ELSE ReadArchive(a, f)

Mut_ExistsAt(a, f) == IF a.entry.kind = "dir" THEN f \in a.loose ELSE HasFile(a, f)

\* exists at one member: any failure to open is taken for a miss.
ExistsAt(a, f) ==
    IF a.entry.kind = "dir" THEN f \in a.loose
    ELSE IF a.patches # <<>> THEN OpenFile(a, f).status = "found"
    ELSE HasFile(a, f)

IsSyntheticName(name) == name = Placeholder

\* readFile and exists walk from the last member down, enumeratePaths up.
Start(op) == IF op = "enumerate" THEN 1 ELSE Len(archives)

Ask(op, f) == /\ phase = "open" /\ call = NoCall /\ archives # <<>>
              /\ call' = [op |-> op, f |-> f, at |-> Start(op), names |-> {}]
              /\ UNCHANGED <<install, gone, phase, chain, archives, handles, said>>

\* A storage that holds no archive answers at once.
AskNotOpen(f) == /\ phase = "open" /\ call = NoCall /\ archives = <<>>
                 /\ \/ said' = [said EXCEPT !.read[f] = Status("not_open")]
                    \/ said' = [said EXCEPT !.exists[f] = "no"]
                 /\ UNCHANGED <<install, gone, phase, chain, archives, handles, call>>

\* The call ends, with `said` updated, or goes on to the next member.
Return(answers) == call' = NoCall /\ said' = answers
Proceed(at) == call' = [call EXCEPT !.at = at] /\ UNCHANGED said

Read == /\ call.op = "read"
        /\ LET answer == IF call.at = 0 THEN Status("missing")
                                        ELSE ReadAt(archives[call.at], call.f)
           IN  IF call.at > 0 /\ answer.status = "missing"
               THEN Proceed(call.at - 1)
               ELSE Return([said EXCEPT !.read[call.f] = answer])
        /\ UNCHANGED <<install, gone, phase, chain, archives, handles>>

Exists == /\ call.op = "exists"
          /\ \/ call.at = 0 /\ Return([said EXCEPT !.exists[call.f] = "no"])
             \/ call.at > 0 /\ IF ExistsAt(archives[call.at], call.f)
                               THEN Return([said EXCEPT !.exists[call.f] = "yes"])
                               ELSE Proceed(call.at - 1)
          /\ UNCHANGED <<install, gone, phase, chain, archives, handles>>

Enumerate ==
    /\ call.op = "enumerate"
    /\ \/ /\ call.at > Len(archives)
          /\ Return([said EXCEPT !.listed = call.names])
       \/ /\ call.at <= Len(archives)
          /\ LET a == archives[call.at] IN
             \E names \in IF a.entry.kind = "dir" THEN {a.loose} ELSE FindNames(a) :
                call' = [call EXCEPT !.at = @ + 1,
                                     !.names = @ \cup {n \in names : ~IsSyntheticName(n)}]
          /\ UNCHANGED said
    /\ UNCHANGED <<install, gone, phase, chain, archives, handles>>

\* Someone removes a loose file.
LoseLoose == \E e \in install.entries, f \in Files :
             /\ e.kind = "dir" /\ Content(e, f) = "full"
             /\ gone' = gone \cup {<<e, f>>}
             /\ UNCHANGED <<install, phase, chain, archives, handles, call, said>>

Open == Expand \/ OpenArchive \/ IndexLoose \/ AttachUpdate \/ OpenFail \/ OpenDone

Calls == \/ \E f \in Files : Ask("read", f) \/ Ask("exists", f) \/ AskNotOpen(f)
         \/ \E f \in Files : Ask("enumerate", f)
         \/ Read \/ Exists \/ Enumerate

MqNext == Open \/ Close \/ Calls \/ LoseLoose

MqSpec == MqInit /\ [][MqNext]_mvars

-----------------------------------------------------------------------------
(* Properties.                                                             *)

MqTypeOK ==
    /\ install.content \in [install.entries -> [Files -> {"none", "full", "delta", "bad"}]]
    /\ gone \subseteq install.entries \X Files
    /\ phase \in {"closed", "opening", "open"}
    /\ chain \in Seq(install.entries)
    /\ archives \in Seq([entry : install.entries, patches : Seq(install.entries),
                         loose : SUBSET Files])
    /\ handles \subseteq install.entries
    /\ call \in [op : {"none", "read", "exists", "enumerate"}, f : Files \cup {Placeholder},
                 at : Nat, names : SUBSET Files]
    /\ DOMAIN said = {"read", "exists", "listed"}
    /\ DOMAIN said.read = Files /\ \A f \in Files : IsOutcome(said.read[f])
    /\ said.exists \in [Files -> {"unasked", "yes", "no"}]
    /\ said.listed \subseteq Files

\* expandChain's order is the client's, whatever order the directory iterators
\* yield: exactly the members, each once, none before one it takes precedence over.
ExpandsInClientOrder ==
    [][Expand => IsClientOrder(chain', install.scheme, install.entries)]_mvars

\* Every handle StormLib has open is held by a member of _archives: an open that
\* fails part way, with archives open and updates attached, leaks none.
NoHandleLeaks == handles = {e \in Opened : e.kind = "file"}

Members == {e \in install.entries : IsMember(install.scheme, e)}

\* What serves e's paths: e and, if e is an archive, the updates beside it.
Group(e) == {e} \cup {u \in Members : u.tier = "update" /\ u.dir = e.dir /\ e.kind = "file"}

Carriers(f) == {e \in Members : /\ e.tier # "update"
                                /\ \E g \in Group(e) : /\ Content(g, f) \in {"full", "bad"}
                                                       /\ <<g, f>> \notin gone}

Strongest(f) == {e \in Carriers(f) : \A c \in Carriers(f) : ~ClientBefore(e, c)}

\* `layers` is what e serves as f: a complete file and deltas on top of it, in
\* order, and nothing that touches f and is newer than the start is left out.
IsVersionOf(layers, f, e) ==
    /\ ToSet(layers) \subseteq {g \in Group(e) : Content(g, f) # "none"}
    /\ \A i, j \in DOMAIN layers : i < j => ~ClientBefore(layers[j], layers[i])
    /\ \E base \in DOMAIN layers :
          /\ \A i \in DOMAIN layers : base <= i /\ (Content(layers[i], f) = "delta" <=> base # i)
          /\ \A g \in Group(e) : Content(g, f) # "none" /\ ClientBefore(layers[base], g)
                                    => g \in ToSet(layers)

\* A read is served by the member the client's precedence puts highest among
\* those that carry the file, with every update beside it applied; it misses
\* only a file nobody carries.  Loose files somebody removed are left aside.
ServesStrongest ==
    gone = {} => \A f \in Files :
        /\ said.read[f].status = "found"
              => \E e \in Strongest(f) : IsVersionOf(said.read[f].layers, f, e)
        /\ said.read[f].status = "missing" => Carriers(f) = {}

\* exists and readFile agree: what exists affirms a read finds, or fails to
\* deliver with an error; what it denies a read does not find either (exists takes
\* an archive in which the file does not open for one without it).
ExistsAgreesWithRead ==
    \A f \in Files :
        /\ said.exists[f] = "yes" => said.read[f].status # "missing"
        /\ said.exists[f] = "no" => said.read[f].status # "found"

\* What enumeratePaths lists can be asked for: files that only an update added
\* are found, and no name StormLib made up is listed.  Only of a file that does
\* not open in some archive may exists say that it is not there.
ListedIsFound ==
    \A f \in said.listed : /\ f \in Files
                           /\ said.read[f].status # "missing"
                           /\ said.exists[f] = "no"
                                 => \E e \in install.entries : Content(e, f) = "bad"

\* The types of the variables, and the agreement of the three walks over the
\* chain: what is listed or affirmed is found.
WalksAgree == MqTypeOK /\ ExistsAgreesWithRead /\ ListedIsFound
=============================================================================
