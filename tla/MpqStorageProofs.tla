------------------------ MODULE MpqStorageProofs ------------------------
(***************************************************************************)
(* Proofs about MpqStorage for every value of its constants.               *)
(***************************************************************************)
EXTENDS MpqStorage, FiniteSetTheorems, SequenceTheorems, WellFoundedInduction, TLAPS

---------------------------------------------------------------------------
(* The handles.                                                             *)

\* The invariant of the proof: besides the property, that archives is a
\* sequence of records with an entry.  What else they hold does not matter.
HandlesInv == /\ \E S : archives \in Seq(S)
              /\ \A i \in DOMAIN archives : "entry" \in DOMAIN archives[i]
              /\ NoHandleLeaks

\* Appending a record to a sequence adds its entry to the entries held.
LEMMA AppendEntries ==
    ASSUME NEW S, NEW s \in Seq(S), NEW x
    PROVE  /\ Append(s, x) \in Seq(S \cup {x})
           /\ {Append(s, x)[i].entry : i \in DOMAIN Append(s, x)}
                = {s[i].entry : i \in DOMAIN s} \cup {x.entry}
           /\ \A i \in DOMAIN Append(s, x) :
                 Append(s, x)[i] = x \/ (i \in DOMAIN s /\ Append(s, x)[i] = s[i])
<1>1. s \in Seq(S \cup {x}) /\ x \in S \cup {x}
  OBVIOUS
<1>2. Append(s, x) \in Seq(S \cup {x})
  BY <1>1
<1>3. /\ DOMAIN s = 1 .. Len(s) /\ Len(s) \in Nat
      /\ DOMAIN Append(s, x) = 1 .. (Len(s) + 1)
      /\ Append(s, x)[Len(s) + 1] = x
      /\ \A i \in 1 .. Len(s) : Append(s, x)[i] = s[i]
  BY <1>1
<1>4. 1 .. (Len(s) + 1) = (1 .. Len(s)) \cup {Len(s) + 1}
  BY <1>3
<1>5. {Append(s, x)[i].entry : i \in DOMAIN Append(s, x)}
        = {s[i].entry : i \in DOMAIN s} \cup {x.entry}
  BY <1>3, <1>4
<1> QED BY <1>2, <1>3, <1>4, <1>5

\* Changing no entry of a sequence changes no entry held (attaching an update).
LEMMA SameEntries ==
    ASSUME NEW S, NEW s \in Seq(S), NEW t,
           t = [i \in DOMAIN s |-> t[i]],
           \A i \in DOMAIN s : t[i].entry = s[i].entry
    PROVE  /\ t \in Seq({t[i] : i \in DOMAIN s})
           /\ {t[i].entry : i \in DOMAIN t} = {s[i].entry : i \in DOMAIN s}
<1>1. DOMAIN s = 1 .. Len(s) /\ Len(s) \in Nat
  OBVIOUS
<1>2. DOMAIN t = DOMAIN s
  OBVIOUS
<1>3. t \in [1 .. Len(s) -> {t[i] : i \in DOMAIN s}]
  BY <1>1, <1>2
<1>4. t \in Seq({t[i] : i \in DOMAIN s})
  BY <1>1, <1>3
<1> QED BY <1>2, <1>4

\* Nothing is open at first.
LEMMA HandlesInvInit == MqInit => HandlesInv
<1> SUFFICES ASSUME MqInit PROVE HandlesInv
  OBVIOUS
<1>1. archives = <<>> /\ handles = {}
  BY DEF MqInit
<1>2. archives \in Seq({})
  BY <1>1
<1>3. Opened = {}
  BY <1>1 DEF Opened
<1> QED BY <1>1, <1>2, <1>3 DEF HandlesInv, NoHandleLeaks

\* A close, of a storage in use or after a failure, leaves nothing open.
LEMMA ForgetKeepsHandlesInv ==
    ASSUME HandlesInv, Forget
    PROVE  HandlesInv'
<1>1. archives' = <<>> /\ handles' = handles \ Opened
  BY DEF Forget, Closed
<1>2. handles' = {}
  BY <1>1 DEF HandlesInv, NoHandleLeaks
<1>3. Opened' = {}
  BY <1>1 DEF Opened
<1>4. archives' \in Seq({})
  BY <1>1
<1> QED BY <1>2, <1>3, <1>4 DEF HandlesInv, NoHandleLeaks

\* An archive that is opened is held; a directory has no handle.
LEMMA AppendKeepsHandlesInv ==
    ASSUME HandlesInv, NEW a, "entry" \in DOMAIN a, archives' = Append(archives, a),
           handles' = IF a.entry.kind = "file" THEN handles \cup {a.entry} ELSE handles
    PROVE  HandlesInv'
<1>1. PICK S : archives \in Seq(S)
  BY DEF HandlesInv
<1>2. /\ archives' \in Seq(S \cup {a}) /\ Opened' = Opened \cup {a.entry}
      /\ \A i \in DOMAIN archives' :
            archives'[i] = a \/ (i \in DOMAIN archives /\ archives'[i] = archives[i])
  BY <1>1, AppendEntries DEF Opened
<1>3. handles = {e \in Opened : e.kind = "file"}
  BY DEF HandlesInv, NoHandleLeaks
<1>4. handles' = {e \in Opened' : e.kind = "file"}
  BY <1>2, <1>3
<1>5. \A i \in DOMAIN archives' : "entry" \in DOMAIN archives'[i]
  BY <1>2 DEF HandlesInv
<1> QED BY <1>2, <1>4, <1>5 DEF HandlesInv, NoHandleLeaks

\* Attaching an update opens no handle of its own.
LEMMA AttachKeepsHandlesInv ==
    ASSUME HandlesInv, AttachUpdate
    PROVE  HandlesInv'
<1>1. PICK S : archives \in Seq(S)
  BY DEF HandlesInv
<1>2. /\ archives' = [i \in DOMAIN archives |-> archives'[i]]
      /\ \A i \in DOMAIN archives :
            archives'[i] = IF Attaches(Head(chain), archives[i])
                           THEN [archives[i] EXCEPT !.patches = Append(@, Head(chain))]
                           ELSE archives[i]
      /\ handles' = handles
  BY DEF AttachUpdate
<1>3. \A i \in DOMAIN archives : /\ archives'[i].entry = archives[i].entry
                                 /\ "entry" \in DOMAIN archives'[i]
  BY <1>2 DEF HandlesInv
<1>4. archives' \in Seq({archives'[i] : i \in DOMAIN archives}) /\ Opened' = Opened
  BY <1>1, <1>2, <1>3, SameEntries DEF Opened
<1> QED BY <1>2, <1>3, <1>4 DEF HandlesInv, NoHandleLeaks

\* Every step keeps the invariant.
LEMMA HandlesInvStep == HandlesInv /\ [MqNext]_mvars => HandlesInv'
<1> SUFFICES ASSUME HandlesInv, [MqNext]_mvars PROVE HandlesInv'
  OBVIOUS
<1>1. CASE OpenArchive
  <2>1. PICK a : a = [entry |-> Head(chain), patches |-> <<>>, loose |-> {}]
    OBVIOUS
  <2>2. a.entry = Head(chain) /\ a.entry.kind = "file" /\ "entry" \in DOMAIN a
    BY <1>1, <2>1 DEF OpenArchive
  <2>3. archives' = Append(archives, a) /\ handles' = handles \cup {a.entry}
    BY <1>1, <2>1, <2>2 DEF OpenArchive
  <2> QED BY <2>2, <2>3, AppendKeepsHandlesInv
<1>2. CASE IndexLoose
  <2> DEFINE loose == {f \in Files : /\ Content(Head(chain), f) = "full"
                                     /\ <<Head(chain), f>> \notin gone}
  <2>1. PICK a : a = [entry |-> Head(chain), patches |-> <<>>, loose |-> loose]
    OBVIOUS
  <2>2. a.entry = Head(chain) /\ a.entry.kind = "dir" /\ "entry" \in DOMAIN a
    BY <1>2, <2>1 DEF IndexLoose
  <2>3. archives' = Append(archives, a) /\ handles' = handles
    BY <1>2, <2>1 DEF IndexLoose
  <2> QED BY <2>2, <2>3, AppendKeepsHandlesInv
<1>3. CASE AttachUpdate
  BY <1>3, AttachKeepsHandlesInv
<1>4. CASE OpenFail \/ Close
  BY <1>4, ForgetKeepsHandlesInv DEF OpenFail, Close
<1>5. CASE UNCHANGED <<archives, handles>>
  BY <1>5 DEF HandlesInv, NoHandleLeaks, Opened
<1>6. CASE Expand \/ OpenDone
  BY <1>5, <1>6 DEF Expand, OpenDone
<1>7. CASE Calls \/ LoseLoose
  BY <1>5, <1>7 DEF Calls, LoseLoose, Ask, AskNotOpen, Read, Exists, Enumerate
<1>8. CASE UNCHANGED mvars
  BY <1>5, <1>8 DEF mvars
<1> QED BY <1>1, <1>2, <1>3, <1>4, <1>6, <1>7, <1>8 DEF MqNext, Open

\* No handle leaks: whatever fails to open and wherever, what StormLib has open
\* is what the storage holds, and closing it closes everything.
THEOREM HandlesAreHeld == MqSpec => []NoHandleLeaks
<1>1. MqInit => HandlesInv
  BY HandlesInvInit
<1>2. HandlesInv /\ [MqNext]_mvars => HandlesInv'
  BY HandlesInvStep
<1>3. HandlesInv => NoHandleLeaks
  BY DEF HandlesInv
<1> QED BY <1>1, <1>2, <1>3, PTL DEF MqSpec

---------------------------------------------------------------------------
(* One member of the chain.                                                 *)

Archive == [entry : install.entries, patches : Seq(install.entries), loose : SUBSET Files]

\* An archive or a directory of loose files; updates are attached to archives.
IsWellFormed(a) ==
    /\ a.entry.tier # "update" /\ a.entry.kind \in {"file", "dir"}
    /\ a.entry.kind = "dir" => a.patches = <<>>

\* What a member has of a file, whether it opens or not and whoever removes it.
Serves(a, f) == IF a.entry.kind = "dir" THEN f \in a.loose ELSE Ends(a, f) # {}

Lists(a, f) == IF a.entry.kind = "dir" THEN f \in a.loose
               ELSE \E e \in {a.entry} \cup ToSet(a.patches) : Content(e, f) = "full"

\* A set of positions in a sequence has a last one.
LEMMA LastPosition ==
    ASSUME NEW n \in Nat, NEW at \in SUBSET (1 .. n), at # {}
    PROVE  Max(at) \in at /\ \A i \in at : i <= Max(at)
<1> DEFINE Left == {n - i : i \in at}
<1>1. Left \in SUBSET Nat /\ Left # {}
  <2>1. \A i \in at : n - i \in Nat
    OBVIOUS
  <2>2. PICK i \in at : TRUE
    OBVIOUS
  <2>3. n - i \in Left
    OBVIOUS
  <2> QED BY <2>1, <2>3
<1>2. PICK k \in Left : \A j \in Left : ~(<<j, k>> \in OpToRel(<, Nat))
  BY <1>1, NatLessThanWellFounded, WFMin
<1>3. PICK last \in at : k = n - last
  BY <1>2
<1>4. \A i \in at : last >= i
  <2> SUFFICES ASSUME NEW i \in at, i > last PROVE FALSE
    BY <1>3
  <2>1. n - i \in Left /\ n - i \in Nat /\ k \in Nat /\ n - i < k
    BY <1>3
  <2> QED BY <2>1, <1>2 DEF OpToRel
<1> QED BY <1>3, <1>4 DEF Max

LEMMA ContentIs ==
    ASSUME install \in Installs, NEW e \in install.entries, NEW f \in Files
    PROVE  /\ Content(e, f) \in {"none", "full", "delta", "bad"}
           /\ e.tier # "update" => Content(e, f) # "delta"
           /\ e.kind = "dir" => Content(e, f) \in {"none", "full"}
<1>1. /\ install.content \in [install.entries -> [Files -> {"none", "full", "delta", "bad"}]]
      /\ \A d \in install.entries : \A g \in Files :
            /\ d.tier # "update" => install.content[d][g] # "delta"
            /\ d.kind = "dir" => install.content[d][g] \in {"none", "full"}
  <2>1. \A i \in Installs :
          /\ i.content \in [i.entries -> [Files -> {"none", "full", "delta", "bad"}]]
          /\ \A d \in i.entries : \A g \in Files :
                /\ d.tier # "update" => i.content[d][g] # "delta"
                /\ d.kind = "dir" => i.content[d][g] \in {"none", "full"}
    BY InstallAssumption DEF InstallAssumption
  <2> QED BY <2>1
<1>2. install.content[e] \in [Files -> {"none", "full", "delta", "bad"}]
  BY <1>1
<1>3. install.content[e][f] \in {"none", "full", "delta", "bad"}
  BY <1>2
<1> QED BY <1>1, <1>3 DEF Content

LEMMA AttachedIs ==
    ASSUME NEW a \in Archive
    PROVE  /\ Attached(a) \in Seq(install.entries) /\ Len(a.patches) \in Nat
           /\ DOMAIN Attached(a) = 1 .. (Len(a.patches) + 1)
           /\ Attached(a)[1] = a.entry
           /\ \A i \in DOMAIN a.patches : Attached(a)[i + 1] = a.patches[i]
           /\ \A i \in DOMAIN Attached(a) : i = 1 \/ (i - 1 \in DOMAIN a.patches /\ Attached(a)[i] = a.patches[i - 1])
<1>1. a.entry \in install.entries /\ a.patches \in Seq(install.entries)
  BY DEF Archive
<1>2. PICK s : s = a.patches
  OBVIOUS
<1>3. PICK t : t = <<a.entry>>
  OBVIOUS
<1>4. /\ s \in Seq(install.entries) /\ t \in Seq(install.entries) /\ Len(t) = 1 /\ t[1] = a.entry
      /\ DOMAIN s = 1 .. Len(s) /\ Len(s) \in Nat
  <2>1. s \in Seq(install.entries) /\ DOMAIN s = 1 .. Len(s) /\ Len(s) \in Nat
    BY <1>1, <1>2
  <2>2. t \in Seq(install.entries)
    <3>1. \A S : \A x \in S : <<x>> \in Seq(S)
      OBVIOUS
    <3> QED BY <1>1, <1>3, <3>1
  <2>3. Len(t) = 1 /\ t[1] = a.entry
    BY <1>3
  <2> QED BY <2>1, <2>2, <2>3
<1>5. /\ t \o s \in Seq(install.entries) /\ Len(t \o s) = Len(s) + 1
      /\ DOMAIN (t \o s) = 1 .. (Len(s) + 1)
      /\ (t \o s)[1] = a.entry
      /\ \A i \in DOMAIN s : (t \o s)[i + 1] = s[i]
  <2>0. /\ t \o s \in Seq(install.entries) /\ Len(t \o s) = Len(t) + Len(s)
        /\ \A i \in 1 .. Len(t) + Len(s) : (t \o s)[i] = IF i <= Len(t) THEN t[i] ELSE s[i - Len(t)]
    BY ONLY <1>4, ConcatProperties
  <2>1. t \o s \in Seq(install.entries) /\ Len(t \o s) = Len(s) + 1
    BY ONLY <1>4, <2>0
  <2>2. DOMAIN (t \o s) = 1 .. (Len(s) + 1)
    BY ONLY <1>4, <2>1
  <2>3. \A i \in 1 .. (Len(s) + 1) : (t \o s)[i] = IF i <= Len(t) THEN t[i] ELSE s[i - Len(t)]
    BY ONLY <1>4, <2>0
  <2>4. (t \o s)[1] = a.entry
    BY ONLY <1>4, <2>3
  <2>5. ASSUME NEW i \in DOMAIN s PROVE (t \o s)[i + 1] = s[i]
    <3>1. i + 1 \in 1 .. (Len(s) + 1) /\ ~(i + 1 <= Len(t)) /\ (i + 1) - Len(t) = i
      BY ONLY <1>4, i \in DOMAIN s
    <3> QED BY ONLY <2>3, <3>1
  <2> QED BY <2>1, <2>2, <2>4, <2>5
<1>6. \A i \in DOMAIN (t \o s) : i = 1 \/ (i - 1 \in DOMAIN s /\ (t \o s)[i] = s[i - 1])
  BY ONLY <1>4, <1>5
<1>7. Attached(a) = t \o s
  BY <1>2, <1>3 DEF Attached
<1> QED BY <1>2, <1>4, <1>5, <1>6, <1>7

\* The newest complete file of an archive.
LEMMA LastEnd ==
    ASSUME NEW a \in Archive, NEW f, Ends(a, f) # {}
    PROVE  Max(Ends(a, f)) \in Ends(a, f) /\ \A i \in Ends(a, f) : i <= Max(Ends(a, f))
<1>1. PICK n : n = Len(a.patches) + 1
  OBVIOUS
<1>2. n \in Nat /\ Ends(a, f) \in SUBSET (1 .. n)
  BY <1>1, AttachedIs DEF Ends, Touching
<1> QED BY <1>2, LastPosition

\* What readFile answers at one member.
LEMMA ReadAtIs ==
    ASSUME install \in Installs, NEW a \in Archive, IsWellFormed(a), NEW f \in Files
    PROVE  /\ IsOutcome(ReadAt(a, f))
           /\ ReadAt(a, f).status \in {"found", "missing", "error"}
           /\ ReadAt(a, f).status = "missing" <=> ~Serves(a, f)
           /\ ReadAt(a, f).status = "found" => ExistsAt(a, f)
           /\ ExistsAt(a, f) => Serves(a, f)
<1>1. a.entry \in install.entries
  BY DEF Archive
<1>2. CASE a.entry.kind = "dir"
  <2>1. PICK layers : layers = <<a.entry>>
    OBVIOUS
  <2>2. DOMAIN layers \subseteq Nat /\ ToSet(layers) \subseteq install.entries
    BY <1>1, <2>1 DEF ToSet
  <2>3. DOMAIN <<>> \subseteq Nat /\ ToSet(<<>>) \subseteq install.entries
    BY DEF ToSet
  <2> QED BY <1>2, <2>1, <2>2, <2>3 DEF ReadAt, ReadLoose, Status, Serves, ExistsAt, IsOutcome
<1>3. CASE a.entry.kind # "dir"
  <2>1. a.patches = <<>> /\ ~HasFile(a, f) => Ends(a, f) = {}
    BY AttachedIs DEF Ends, Touching, HasFile
  <2>2. a.patches = <<>> /\ HasFile(a, f) => 1 \in Ends(a, f)
    BY <1>1, AttachedIs, ContentIs DEF Ends, Touching, HasFile, IsWellFormed
  <2>3. /\ IsOutcome(OpenFile(a, f))
        /\ OpenFile(a, f).status \in {"found", "missing", "error"}
        /\ OpenFile(a, f).status = "missing" <=> Ends(a, f) = {}
    <3>1. CASE Ends(a, f) = {}
      <4>1. OpenFile(a, f) = Status("missing")
        BY <3>1 DEF OpenFile
      <4> QED BY <3>1, <4>1 DEF Status, IsOutcome, ToSet
    <3>2. CASE Ends(a, f) # {} /\ \E i \in Ends(a, f) : Content(Attached(a)[i], f) = "bad"
      <4>1. OpenFile(a, f) = Status("error")
        BY <3>2 DEF OpenFile
      <4> QED BY <3>2, <4>1 DEF Status, IsOutcome, ToSet
    <3>3. CASE Ends(a, f) # {} /\ ~\E i \in Ends(a, f) : Content(Attached(a)[i], f) = "bad"
      <4> DEFINE at == {i \in Touching(a, f) : i >= Max(Ends(a, f))}
      <4>1. OpenFile(a, f) = [status |-> "found", layers |-> [i \in at |-> Attached(a)[i]]]
        BY <3>3 DEF OpenFile
      <4>2. at \subseteq DOMAIN Attached(a)
        BY DEF Touching
      <4>3. at \subseteq Nat /\ \A i \in at : Attached(a)[i] \in install.entries
        BY <4>2, AttachedIs
      <4> HIDE DEF at
      <4>4. PICK layers : layers = [i \in at |-> Attached(a)[i]]
        OBVIOUS
      <4>5. DOMAIN layers \subseteq Nat /\ ToSet(layers) \subseteq install.entries
        BY <4>3, <4>4 DEF ToSet
      <4>6. OpenFile(a, f).status = "found" /\ OpenFile(a, f).layers = layers
        BY <4>1, <4>4
      <4> QED BY <3>3, <4>5, <4>6 DEF IsOutcome
    <3> QED BY <3>1, <3>2, <3>3
  <2>4. IsOutcome(Status("missing")) /\ Status("missing").status = "missing"
    BY DEF IsOutcome, Status, ToSet
  <2>5. ReadAt(a, f) = IF a.patches = <<>> /\ ~HasFile(a, f) THEN Status("missing") ELSE OpenFile(a, f)
    BY <1>3 DEF ReadAt, ReadArchive
  <2>6. ExistsAt(a, f) <=> IF a.patches # <<>> THEN OpenFile(a, f).status = "found" ELSE HasFile(a, f)
    BY <1>3 DEF ExistsAt
  <2>7. Serves(a, f) <=> Ends(a, f) # {}
    BY <1>3 DEF Serves
  <2>8. CASE a.patches = <<>> /\ ~HasFile(a, f)
    BY <2>1, <2>4, <2>5, <2>6, <2>7, <2>8
  <2>9. CASE a.patches = <<>> /\ HasFile(a, f)
    BY <2>2, <2>3, <2>5, <2>6, <2>7, <2>9
  <2>10. CASE a.patches # <<>>
    BY <2>3, <2>5, <2>6, <2>7, <2>10
  <2> QED BY <2>8, <2>9, <2>10
<1> QED BY <1>2, <1>3

\* What enumeratePaths takes from one member.
LEMMA ListsIs ==
    ASSUME install \in Installs, NEW a \in Archive, IsWellFormed(a), NEW f \in Files, Lists(a, f)
    PROVE  /\ Serves(a, f)
           /\ ~ExistsAt(a, f) => \E e \in install.entries : Content(e, f) = "bad"
<1>1. a.entry \in install.entries
  BY DEF Archive
<1>2. CASE a.entry.kind = "dir"
  BY <1>2 DEF Lists, Serves, ExistsAt
<1>3. CASE a.entry.kind # "dir"
  <2>1. PICK e \in {a.entry} \cup ToSet(a.patches) : Content(e, f) = "full"
    BY <1>3 DEF Lists
  <2>2. PICK i \in DOMAIN Attached(a) : Attached(a)[i] = e
    <3>1. CASE e = a.entry
      BY <3>1, AttachedIs
    <3>2. CASE e # a.entry
      <4>1. PICK j \in DOMAIN a.patches : a.patches[j] = e
        BY <2>1, <3>2 DEF ToSet
      <4>2. j + 1 \in DOMAIN Attached(a)
        BY <4>1, AttachedIs DEF Archive
      <4> QED BY <4>1, <4>2, AttachedIs
    <3> QED BY <3>1, <3>2
  <2>3. i \in Ends(a, f)
    BY <2>1, <2>2 DEF Ends, Touching
  <2>4. ASSUME ~ExistsAt(a, f) PROVE \E g \in install.entries : Content(g, f) = "bad"
    <3>1. CASE a.patches = <<>>
      <4>1. e = a.entry
        BY <2>1, <3>1 DEF ToSet
      <4> QED BY <1>3, <2>1, <2>4, <3>1, <4>1 DEF ExistsAt, HasFile
    <3>2. CASE a.patches # <<>>
      <4>1. OpenFile(a, f).status # "found"
        BY <1>3, <2>4, <3>2 DEF ExistsAt
      <4>2. \E j \in Ends(a, f) : Content(Attached(a)[j], f) = "bad"
        BY <2>3, <4>1 DEF OpenFile
      <4> QED BY <4>2, AttachedIs DEF Ends, Touching
    <3> QED BY <3>1, <3>2
  <2> QED BY <1>3, <2>3, <2>4 DEF Serves
<1> QED BY <1>2, <1>3

---------------------------------------------------------------------------
(* The chain.                                                               *)

\* What the proof takes of the expansion: its order is the client's.
\* ExpandsInClientOrder says it of every Expand.
Ordered == Expand => IsClientOrder(chain', install.scheme, install.entries)

Updates(dir) == {u \in Members : u.tier = "update" /\ u.dir = dir}
Rest == ToSet(chain)

\* An open in progress: members are opened and updates attached in the order of
\* the client, and none is lost on the way.
ChainInv ==
    /\ phase \in {"closed", "open"} => chain = <<>>
    /\ phase = "closed" => archives = <<>>
    /\ Rest \subseteq Members
    /\ \A i, j \in DOMAIN chain : i <= j => ~ClientBefore(chain[j], chain[i])
    /\ (\E e \in Rest : e.tier # "update") => {u \in Members : u.tier = "update"} \subseteq Rest
    /\ phase # "closed" => {e \in Members : e.tier # "update"} \subseteq Opened \cup Rest
    /\ \A i \in DOMAIN archives : LET a == archives[i] IN
          /\ a.entry \in Members
          /\ \A e \in Rest : ~ClientBefore(e, a.entry)
          /\ \A j \in DOMAIN archives : i <= j => ~ClientBefore(archives[j].entry, a.entry)
          /\ ToSet(a.patches) \subseteq Updates(a.entry.dir)
          /\ a.entry.kind # "dir" => Updates(a.entry.dir) \subseteq ToSet(a.patches) \cup Rest
          /\ \A j, k \in DOMAIN a.patches : j <= k => ~ClientBefore(a.patches[k], a.patches[j])
          /\ \A j \in DOMAIN a.patches, e \in Rest : ~ClientBefore(e, a.patches[j])
          /\ gone = {} => \A f \in Files :
                a.entry.kind = "dir" => (f \in a.loose <=> Content(a.entry, f) = "full")

---------------------------------------------------------------------------
(* The walks.                                                               *)

\* What a call in progress has passed, and what the calls that ended have said.
CallInv ==
    /\ call.op = "read" => /\ call.f \in Files /\ call.at <= Len(archives)
                           /\ \A i \in DOMAIN archives : i > call.at => ~Serves(archives[i], call.f)
    /\ call.op = "exists" => /\ call.f \in Files /\ call.at <= Len(archives)
                             /\ \A i \in DOMAIN archives : i > call.at => ~ExistsAt(archives[i], call.f)
    /\ call.op = "enumerate" => call.at \in Nat \ {0}
    /\ \A f \in call.names : f \in Files /\ \E i \in DOMAIN archives : Lists(archives[i], f)

SaidInv ==
    /\ \A f \in Files :
          /\ said.read[f].status = "missing" => \A i \in DOMAIN archives : ~Serves(archives[i], f)
          /\ said.read[f].status = "found" => \E i \in DOMAIN archives : ExistsAt(archives[i], f)
          /\ said.exists[f] = "yes" => \E i \in DOMAIN archives : ExistsAt(archives[i], f)
          /\ said.exists[f] = "no" => \A i \in DOMAIN archives : ~ExistsAt(archives[i], f)
    /\ \A f \in said.listed : f \in Files /\ \E i \in DOMAIN archives : Lists(archives[i], f)

QuietInv == phase # "open" => said = NothingSaid /\ call = NoCall

TypeInv == /\ install \in Installs /\ MqTypeOK
           /\ \A i \in DOMAIN archives : IsWellFormed(archives[i])

MqInv == TypeInv /\ QuietInv /\ ChainInv /\ CallInv /\ SaidInv /\ ServesStrongest

\* While nothing has been asked nothing is claimed.
LEMMA NothingIsClaimed ==
    ASSUME said = NothingSaid, call = NoCall
    PROVE  /\ CallInv /\ SaidInv /\ ServesStrongest
           /\ call \in [op : {"none", "read", "exists", "enumerate"}, f : Files \cup {Placeholder},
                       at : Nat, names : SUBSET Files]
           /\ DOMAIN said = {"read", "exists", "listed"}
           /\ DOMAIN said.read = Files /\ \A f \in Files : IsOutcome(said.read[f])
           /\ said.exists \in [Files -> {"unasked", "yes", "no"}]
           /\ said.listed \subseteq Files
<1>1. call.op = "none" /\ call.names = {}
  BY DEF NoCall
<1>2. \A f \in Files : said.read[f] = Status("unasked") /\ said.exists[f] = "unasked"
  BY DEF NothingSaid
<1>3. said.listed = {} /\ DOMAIN said.read = Files /\ DOMAIN said = {"read", "exists", "listed"}
  BY DEF NothingSaid
<1>4. IsOutcome(Status("unasked")) /\ Status("unasked").status = "unasked"
  BY DEF IsOutcome, Status, ToSet
<1>5. CallInv
  BY <1>1 DEF CallInv
<1>6. SaidInv
  BY <1>2, <1>3, <1>4 DEF SaidInv
<1>7. ServesStrongest
  BY <1>2, <1>4 DEF ServesStrongest
<1> QED BY <1>2, <1>3, <1>4, <1>5, <1>6, <1>7 DEF NoCall, NothingSaid

LEMMA MqInvInit == MqInit => MqInv
<1> SUFFICES ASSUME MqInit PROVE MqInv
  OBVIOUS
<1>1. /\ install \in Installs /\ gone = {} /\ phase = "closed" /\ chain = <<>> /\ archives = <<>>
      /\ handles = {} /\ call = NoCall /\ said = NothingSaid
  BY DEF MqInit
<1>2. CallInv /\ SaidInv /\ ServesStrongest
  BY <1>1, NothingIsClaimed
<1>3. MqTypeOK
  <2>1. install.content \in [install.entries -> [Files -> {"none", "full", "delta", "bad"}]]
    BY <1>1, InstallAssumption DEF InstallAssumption
  <2>2. chain \in Seq(install.entries) /\ archives \in Seq([entry : install.entries, patches : Seq(install.entries),
                                                          loose : SUBSET Files])
    BY <1>1
  <2> QED BY <1>1, <2>1, <2>2, NothingIsClaimed DEF MqTypeOK
<1>4. TypeInv /\ QuietInv
  BY <1>1, <1>3 DEF TypeInv, QuietInv
<1>5. ChainInv
  <2>1. DOMAIN chain = {} /\ DOMAIN archives = {} /\ Rest = {}
    BY <1>1 DEF Rest, ToSet
  <2> QED BY <1>1, <2>1 DEF ChainInv
<1> QED BY <1>2, <1>4, <1>5 DEF MqInv

\* Nothing is asked before the storage is open, nor after it is closed.
LEMMA QuietStep ==
    ASSUME MqInv, said' = NothingSaid, call' = NoCall, TypeInv', ChainInv'
    PROVE  MqInv'
<1>1. (said = NothingSaid /\ call = NoCall)' => CallInv' /\ SaidInv' /\ ServesStrongest'
  BY NothingIsClaimed, PTL
<1>2. (said = NothingSaid /\ call = NoCall)'
  BY DEF NothingSaid, NoCall, Status
<1> QED BY <1>1, <1>2 DEF MqInv, QuietInv

---------------------------------------------------------------------------
(* Opening.                                                                 *)

\* The member at the head of the chain, and what is left behind it.
LEMMA HeadAndRest ==
    ASSUME MqInv, chain # <<>>
    PROVE  /\ phase = "opening" /\ said = NothingSaid /\ call = NoCall
           /\ Head(chain) \in Rest /\ Head(chain) \in Members /\ Head(chain) \in install.entries
           /\ Tail(chain) \in Seq(install.entries)
           /\ ToSet(Tail(chain)) \subseteq Rest /\ Rest \subseteq ToSet(Tail(chain)) \cup {Head(chain)}
           /\ \A e \in Rest : ~ClientBefore(e, Head(chain))
           /\ \A i, j \in DOMAIN Tail(chain) : i <= j => ~ClientBefore(Tail(chain)[j], Tail(chain)[i])
<1>1. PICK s : s = chain
  OBVIOUS
<1>2. s \in Seq(install.entries) /\ s # <<>>
  BY <1>1 DEF MqInv, TypeInv, MqTypeOK
<1>3. PICK t : t = Tail(s)
  OBVIOUS
<1>4. Len(s) \in Nat \ {0} /\ DOMAIN s = 1 .. Len(s)
  BY ONLY <1>2, EmptySeq
<1>5. t \in Seq(install.entries) /\ Len(t) = Len(s) - 1 /\ DOMAIN t = 1 .. (Len(s) - 1) /\ Head(s) = s[1]
  BY ONLY <1>2, <1>3, <1>4
<1>6. \A i \in DOMAIN t : i + 1 \in DOMAIN s /\ t[i] = s[i + 1]
  BY ONLY <1>2, <1>3, <1>4, <1>5
<1>7. \A i \in DOMAIN s : i = 1 \/ (i - 1 \in DOMAIN t /\ s[i] = t[i - 1])
  BY ONLY <1>4, <1>5, <1>6
<1>8. 1 \in DOMAIN s /\ \A i \in DOMAIN s : 1 <= i
  BY ONLY <1>4
<1>9. \A i, j \in DOMAIN s : i <= j => ~ClientBefore(s[j], s[i])
  BY <1>1 DEF MqInv, ChainInv
<1>10. Rest = ToSet(s) /\ Rest \subseteq Members
  BY <1>1 DEF MqInv, ChainInv, Rest
<1>11. /\ Head(s) \in ToSet(s) /\ ToSet(t) \subseteq ToSet(s) /\ ToSet(s) \subseteq ToSet(t) \cup {Head(s)}
  BY <1>5, <1>6, <1>7, <1>8 DEF ToSet
<1>12. \A e \in ToSet(s) : ~ClientBefore(e, Head(s))
  BY <1>5, <1>8, <1>9 DEF ToSet
<1>13. \A i, j \in DOMAIN t : i <= j => i + 1 <= j + 1
  BY ONLY <1>4, <1>5
<1>14. \A i, j \in DOMAIN t : i <= j => ~ClientBefore(t[j], t[i])
  BY <1>6, <1>9, <1>13
<1>15. phase = "opening" /\ said = NothingSaid /\ call = NoCall
  <2>1. phase \in {"closed", "opening", "open"}
    BY DEF MqInv, TypeInv, MqTypeOK
  <2> QED BY <2>1 DEF MqInv, ChainInv, QuietInv
<1> QED BY <1>1, <1>2, <1>3, <1>5, <1>10, <1>11, <1>12, <1>14, <1>15 DEF Members

\* Updates come after everything else.
LEMMA UpdatesAreLast ==
    ASSUME NEW e \in Members, e.tier # "update", NEW u, u.tier = "update"
    PROVE  ClientBefore(e, u)
<1>1. e.tier \in {"base", "patch"}
  BY DEF Members, IsMember
<1>2. TierRank(e) \in {1, 2} /\ TierRank(u) = 3
  BY <1>1 DEF TierRank
<1> QED BY <1>2 DEF ClientBefore

\* A member that is opened takes its place behind those opened before it.
LEMMA PushKeeps ==
    ASSUME MqInv, phase = "opening", chain # <<>>, NEW a \in Archive, IsWellFormed(a),
           a.entry = Head(chain), a.patches = <<>>,
           gone = {} => \A f \in Files : a.entry.kind = "dir" => (f \in a.loose <=> Content(a.entry, f) = "full"),
           archives' = Append(archives, a), chain' = Tail(chain), handles' \subseteq install.entries,
           UNCHANGED <<install, gone, phase, call, said>>
    PROVE  MqInv'
<1> DEFINE h == Head(chain)
           n == Len(archives) + 1
<1>1. archives \in Seq(Archive) /\ Len(archives) \in Nat /\ DOMAIN archives = 1 .. Len(archives)
  BY DEF MqInv, TypeInv, MqTypeOK, Archive
<1>2. /\ archives' \in Seq(Archive) /\ DOMAIN archives' = 1 .. n /\ archives'[n] = a
      /\ \A i \in DOMAIN archives : i \in DOMAIN archives' /\ archives'[i] = archives[i]
  BY <1>1
<1>3. \A i \in DOMAIN archives' : (i \in DOMAIN archives /\ archives'[i] = archives[i] /\ i < n) \/ (i = n /\ archives'[i] = a)
  BY <1>1, <1>2
<1>4. n \in Nat /\ n \in DOMAIN archives' /\ \A i \in DOMAIN archives : i < n
  BY <1>1, <1>2
<1> HIDE DEF n
<1>5. /\ phase' = "opening" /\ said = NothingSaid /\ call = NoCall /\ said' = NothingSaid /\ call' = NoCall
      /\ h \in Rest /\ h \in Members /\ h \in install.entries
      /\ chain' \in Seq(install.entries)
      /\ Rest' \subseteq Rest /\ Rest \subseteq Rest' \cup {h}
      /\ \A e \in Rest : ~ClientBefore(e, h)
      /\ \A i, j \in DOMAIN chain' : i <= j => ~ClientBefore(chain'[j], chain'[i])
  BY HeadAndRest DEF Rest
<1>6. TypeInv'
  <2>1. (\A i \in DOMAIN archives : IsWellFormed(archives[i]))'
    <3>1. \A i \in DOMAIN archives' : IsWellFormed(archives'[i])
      BY <1>3 DEF MqInv, TypeInv
    <3> QED BY <3>1 DEF IsWellFormed
  <2>2. archives' \in Seq([entry : install'.entries, patches : Seq(install'.entries), loose : SUBSET Files])
    BY <1>2 DEF Archive
  <2>3. MqTypeOK'
    BY <1>5, <2>2 DEF MqInv, TypeInv, MqTypeOK, IsOutcome
  <2> QED BY <2>1, <2>3 DEF MqInv, TypeInv
<1>7. h.tier # "update"
  BY DEF IsWellFormed
<1>8. Members' = Members /\ \A d : Updates(d)' = Updates(d)
  BY DEF Members, Updates
<1>9. \A d : Updates(d) \subseteq Rest'
  <2>1. {u \in Members : u.tier = "update"} \subseteq Rest
    BY <1>5, <1>7 DEF MqInv, ChainInv
  <2> QED BY <1>5, <1>7, <2>1 DEF Updates
<1>10. ToSet(a.patches) = {} /\ DOMAIN a.patches = {}
  BY DEF ToSet
<1>11. Opened' = Opened \cup {h}
  <2>1. \A i \in DOMAIN archives' : archives'[i].entry \in Opened \cup {h}
    BY <1>3 DEF Opened
  <2>2. Opened \subseteq Opened'
    BY <1>2 DEF Opened
  <2>3. h \in Opened'
    BY <1>2, <1>4 DEF Opened
  <2> QED BY <2>1, <2>2, <2>3 DEF Opened
<1>12. ChainInv'
  <2>1. phase' # "closed" /\ phase' # "open" /\ Rest' \subseteq Members'
    BY <1>5, <1>8 DEF MqInv, ChainInv
  <2>2. ((\E e \in Rest : e.tier # "update") => {u \in Members : u.tier = "update"} \subseteq Rest)'
    BY <1>8, <1>9 DEF Updates
  <2>3. ({e \in Members : e.tier # "update"} \subseteq Opened \cup Rest)'
    BY <1>5, <1>8, <1>11 DEF MqInv, ChainInv
  <2>4. ASSUME NEW i \in DOMAIN archives'
        PROVE  LET b == archives'[i] IN
          /\ b.entry \in Members
          /\ \A e \in Rest' : ~ClientBefore(e, b.entry)
          /\ \A j \in DOMAIN archives' : i <= j => ~ClientBefore(archives'[j].entry, b.entry)
          /\ ToSet(b.patches) \subseteq Updates(b.entry.dir)
          /\ b.entry.kind # "dir" => Updates(b.entry.dir) \subseteq ToSet(b.patches) \cup Rest'
          /\ \A j, k \in DOMAIN b.patches : j <= k => ~ClientBefore(b.patches[k], b.patches[j])
          /\ \A j \in DOMAIN b.patches, e \in Rest' : ~ClientBefore(e, b.patches[j])
          /\ gone = {} => \A f \in Files :
                b.entry.kind = "dir" => (f \in b.loose <=> Content(b.entry, f) = "full")
    <3>1. CASE i \in DOMAIN archives /\ archives'[i] = archives[i] /\ i < n
      <4>1. \A j \in DOMAIN archives' : i <= j => ~ClientBefore(archives'[j].entry, archives[i].entry)
        BY <1>3, <1>5, <3>1 DEF MqInv, ChainInv
      <4> QED BY <1>5, <1>9, <3>1, <4>1 DEF MqInv, ChainInv
    <3>2. CASE i = n /\ archives'[i] = a
      <4>1. \A j \in DOMAIN archives' : i <= j => archives'[j] = a
        BY <1>3, <1>4, <3>2
      <4> QED BY <1>5, <1>9, <1>10, <3>2, <4>1
    <3> QED BY <1>3, <3>1, <3>2
  <2> QED BY <1>5, <1>8, <2>1, <2>2, <2>3, <2>4 DEF ChainInv, Content
<1> QED BY <1>5, <1>6, <1>12, QuietStep

LEMMA OpenMemberKeeps == ASSUME MqInv, OpenArchive \/ IndexLoose PROVE MqInv'
<1>1. chain # <<>> /\ phase = "opening"
  BY DEF OpenArchive, IndexLoose
<1>2. Head(chain) \in Members /\ Head(chain) \in install.entries
  BY <1>1, HeadAndRest
<1>3. handles \subseteq install.entries
  BY DEF MqInv, TypeInv, MqTypeOK
<1>4. CASE OpenArchive
  <2>1. PICK a : a = [entry |-> Head(chain), patches |-> <<>>, loose |-> {}]
    OBVIOUS
  <2>2. a \in Archive /\ a.entry = Head(chain) /\ a.patches = <<>>
    BY <1>2, <2>1 DEF Archive
  <2>3. /\ a.entry.tier # "update" /\ a.entry.kind = "file" /\ archives' = Append(archives, a)
        /\ handles' = handles \cup {a.entry} /\ chain' = Tail(chain)
        /\ UNCHANGED <<install, gone, phase, call, said>>
    BY <1>4, <2>1, <2>2 DEF OpenArchive
  <2>4. handles' \subseteq install.entries
    BY <1>2, <1>3, <2>2, <2>3
  <2>5. IsWellFormed(a)
    BY <2>2, <2>3 DEF IsWellFormed
  <2> QED BY <1>1, <2>2, <2>3, <2>4, <2>5, PushKeeps
<1>5. CASE IndexLoose
  <2>1. PICK loose : loose = {f \in Files : Content(Head(chain), f) = "full" /\ <<Head(chain), f>> \notin gone}
    OBVIOUS
  <2>2. PICK a : a = [entry |-> Head(chain), patches |-> <<>>, loose |-> loose]
    OBVIOUS
  <2>3. a \in Archive /\ a.entry = Head(chain) /\ a.patches = <<>> /\ a.loose = loose
    BY <1>2, <2>1, <2>2 DEF Archive
  <2>4. /\ a.entry.kind = "dir" /\ archives' = Append(archives, a) /\ chain' = Tail(chain)
        /\ UNCHANGED <<install, gone, phase, handles, call, said>>
    BY <1>5, <2>1, <2>2, <2>3 DEF IndexLoose
  <2>5. a.entry.tier # "update"
    BY <1>2, <2>3, <2>4 DEF Members, IsMember
  <2>6. IsWellFormed(a)
    BY <2>3, <2>4, <2>5 DEF IsWellFormed
  <2>7. gone = {} => \A f \in Files : f \in a.loose <=> Content(a.entry, f) = "full"
    BY <2>1, <2>3
  <2> QED BY <1>1, <1>3, <2>3, <2>4, <2>6, <2>7, PushKeeps
<1> QED BY <1>4, <1>5

\* An update at the end of an archive's updates.
LEMMA AttachedTo ==
    ASSUME NEW a \in Archive, IsWellFormed(a), NEW u \in install.entries,
           NEW b, Attaches(u, a) => b = [a EXCEPT !.patches = Append(@, u)],
           ~Attaches(u, a) => b = a
    PROVE  /\ b \in Archive /\ IsWellFormed(b) /\ b.entry = a.entry /\ b.loose = a.loose
           /\ ToSet(a.patches) \subseteq ToSet(b.patches)
           /\ Attaches(u, a) => u \in ToSet(b.patches)
           /\ \A i \in DOMAIN b.patches :
                 \/ i \in DOMAIN a.patches /\ b.patches[i] = a.patches[i]
                 \/ /\ Attaches(u, a) /\ b.patches[i] = u
                    /\ \A j \in DOMAIN b.patches : i <= j => b.patches[j] = u
<1>1. CASE ~Attaches(u, a)
  BY <1>1
<1>2. CASE Attaches(u, a)
  <2>1. PICK s : s = a.patches
    OBVIOUS
  <2>2. s \in Seq(install.entries) /\ Len(s) \in Nat /\ DOMAIN s = 1 .. Len(s)
    BY <2>1 DEF Archive
  <2>3. PICK t : t = Append(s, u)
    OBVIOUS
  <2>4. /\ t \in Seq(install.entries) /\ DOMAIN t = 1 .. (Len(s) + 1) /\ t[Len(s) + 1] = u
        /\ \A i \in 1 .. Len(s) : t[i] = s[i]
    BY ONLY <2>2, <2>3, u \in install.entries
  <2>5. b \in Archive /\ b.entry = a.entry /\ b.loose = a.loose /\ b.patches = t
    BY <1>2, <2>1, <2>3, <2>4 DEF Archive
  <2>6. a.entry.kind = "file" /\ IsWellFormed(b)
    BY <1>2, <2>5 DEF Attaches, IsWellFormed
  <2>7. ToSet(s) \subseteq ToSet(t) /\ u \in ToSet(t)
    BY <2>2, <2>4 DEF ToSet
  <2>8. \A i \in DOMAIN t : \/ i \in DOMAIN s /\ t[i] = s[i]
                            \/ t[i] = u /\ \A j \in DOMAIN t : i <= j => t[j] = u
    BY ONLY <2>2, <2>4
  <2> QED BY <1>2, <2>1, <2>5, <2>6, <2>7, <2>8
<1> QED BY <1>1, <1>2

LEMMA AttachKeeps == ASSUME MqInv, AttachUpdate PROVE MqInv'
<1> DEFINE u == Head(chain)
<1>1. /\ chain # <<>> /\ phase = "opening" /\ u.tier = "update"
      /\ archives' = [i \in DOMAIN archives |->
                         IF Attaches(u, archives[i]) THEN [archives[i] EXCEPT !.patches = Append(@, u)] ELSE archives[i]]
      /\ chain' = Tail(chain) /\ UNCHANGED <<install, gone, phase, handles, call, said>>
  BY DEF AttachUpdate
<1>2. /\ phase' = "opening" /\ said' = NothingSaid /\ call' = NoCall
      /\ u \in Rest /\ u \in Members /\ u \in install.entries
      /\ chain' \in Seq(install.entries)
      /\ Rest' \subseteq Rest /\ Rest \subseteq Rest' \cup {u}
      /\ \A e \in Rest : ~ClientBefore(e, u)
      /\ \A i, j \in DOMAIN chain' : i <= j => ~ClientBefore(chain'[j], chain'[i])
  BY <1>1, HeadAndRest DEF Rest
<1>3. archives \in Seq(Archive) /\ DOMAIN archives' = DOMAIN archives
  BY <1>1 DEF MqInv, TypeInv, MqTypeOK, Archive
<1>4. ASSUME NEW i \in DOMAIN archives
      PROVE  /\ archives'[i] \in Archive /\ IsWellFormed(archives'[i])
             /\ archives'[i].entry = archives[i].entry /\ archives'[i].loose = archives[i].loose
             /\ ToSet(archives[i].patches) \subseteq ToSet(archives'[i].patches)
             /\ Attaches(u, archives[i]) => u \in ToSet(archives'[i].patches)
             /\ \A k \in DOMAIN archives'[i].patches :
                   \/ k \in DOMAIN archives[i].patches /\ archives'[i].patches[k] = archives[i].patches[k]
                   \/ /\ Attaches(u, archives[i]) /\ archives'[i].patches[k] = u
                      /\ \A j \in DOMAIN archives'[i].patches : k <= j => archives'[i].patches[j] = u
  <2>1. archives[i] \in Archive /\ IsWellFormed(archives[i])
    BY <1>3 DEF MqInv, TypeInv
  <2>2. archives'[i] = IF Attaches(u, archives[i]) THEN [archives[i] EXCEPT !.patches = Append(@, u)] ELSE archives[i]
    BY <1>1
  <2>3. PICK a, b, v : a = archives[i] /\ b = archives'[i] /\ v = u
    OBVIOUS
  <2> HIDE DEF u
  <2>4. /\ Attaches(v, a) => b = [a EXCEPT !.patches = Append(@, v)]
        /\ ~Attaches(v, a) => b = a
    BY <2>2, <2>3
  <2>5. a \in Archive /\ IsWellFormed(a) /\ v \in install.entries
    BY <1>2, <2>1, <2>3
  <2>6. /\ b \in Archive /\ IsWellFormed(b) /\ b.entry = a.entry /\ b.loose = a.loose
        /\ ToSet(a.patches) \subseteq ToSet(b.patches)
        /\ Attaches(v, a) => v \in ToSet(b.patches)
        /\ \A k \in DOMAIN b.patches :
              \/ k \in DOMAIN a.patches /\ b.patches[k] = a.patches[k]
              \/ /\ Attaches(v, a) /\ b.patches[k] = v
                 /\ \A j \in DOMAIN b.patches : k <= j => b.patches[j] = v
    BY ONLY <2>4, <2>5, AttachedTo
  <2> QED BY ONLY <2>3, <2>6
<1> HIDE DEF u
<1>5. Members' = Members /\ \A d : Updates(d)' = Updates(d)
  BY <1>1 DEF Members, Updates
<1>6. TypeInv'
  <2>1. archives' \in Seq(Archive)
    <3>1. archives' = [i \in DOMAIN archives |-> archives'[i]]
      BY <1>1
    <3>2. archives' \in [DOMAIN archives -> Archive] /\ DOMAIN archives = 1 .. Len(archives) /\ Len(archives) \in Nat
      BY <1>3, <1>4, <3>1
    <3> QED BY <3>2
  <2>2. archives' \in Seq([entry : install'.entries, patches : Seq(install'.entries), loose : SUBSET Files])
    BY <1>1, <2>1 DEF Archive
  <2>3. MqTypeOK'
    BY <1>1, <1>2, <2>2 DEF MqInv, TypeInv, MqTypeOK, IsOutcome
  <2>4. (\A i \in DOMAIN archives : IsWellFormed(archives[i]))'
    BY <1>3, <1>4 DEF IsWellFormed
  <2> QED BY <1>1, <2>3, <2>4 DEF MqInv, TypeInv
<1>7. Opened' = Opened
  BY <1>3, <1>4 DEF Opened
<1>8. ASSUME NEW e \in Rest', e.tier # "update" PROVE FALSE
  <2>1. e \in Members /\ ~ClientBefore(e, u)
    BY <1>2, <1>8 DEF MqInv, ChainInv
  <2> QED BY <1>1, <1>8, <2>1, UpdatesAreLast
<1>9. ChainInv'
  <2>1. phase' # "closed" /\ phase' # "open" /\ Rest' \subseteq Members'
    BY <1>2, <1>5 DEF MqInv, ChainInv
  <2>2. ((\E e \in Rest : e.tier # "update") => {v \in Members : v.tier = "update"} \subseteq Rest)'
    BY <1>8
  <2>3. ({e \in Members : e.tier # "update"} \subseteq Opened \cup Rest)'
    BY <1>1, <1>2, <1>5, <1>7 DEF MqInv, ChainInv
  <2>4. ASSUME NEW i \in DOMAIN archives'
        PROVE  LET b == archives'[i] IN
          /\ b.entry \in Members
          /\ \A e \in Rest' : ~ClientBefore(e, b.entry)
          /\ \A j \in DOMAIN archives' : i <= j => ~ClientBefore(archives'[j].entry, b.entry)
          /\ ToSet(b.patches) \subseteq Updates(b.entry.dir)
          /\ b.entry.kind # "dir" => Updates(b.entry.dir) \subseteq ToSet(b.patches) \cup Rest'
          /\ \A j, k \in DOMAIN b.patches : j <= k => ~ClientBefore(b.patches[k], b.patches[j])
          /\ \A j \in DOMAIN b.patches, e \in Rest' : ~ClientBefore(e, b.patches[j])
          /\ gone = {} => \A f \in Files :
                b.entry.kind = "dir" => (f \in b.loose <=> Content(b.entry, f) = "full")
    <3> DEFINE a == archives[i]
               b == archives'[i]
    <3>0. i \in DOMAIN archives
      BY <1>3
    <3>1. /\ a.entry \in Members
          /\ \A e \in Rest : ~ClientBefore(e, a.entry)
          /\ \A j \in DOMAIN archives : i <= j => ~ClientBefore(archives[j].entry, a.entry)
          /\ ToSet(a.patches) \subseteq Updates(a.entry.dir)
          /\ a.entry.kind # "dir" => Updates(a.entry.dir) \subseteq ToSet(a.patches) \cup Rest
          /\ \A j, k \in DOMAIN a.patches : j <= k => ~ClientBefore(a.patches[k], a.patches[j])
          /\ \A j \in DOMAIN a.patches, e \in Rest : ~ClientBefore(e, a.patches[j])
          /\ gone = {} => \A f \in Files :
                a.entry.kind = "dir" => (f \in a.loose <=> Content(a.entry, f) = "full")
      BY <3>0 DEF MqInv, ChainInv
    <3>2. \A j \in DOMAIN archives' : i <= j => ~ClientBefore(archives'[j].entry, b.entry)
      BY <1>3, <1>4, <3>0, <3>1
    <3>3. b.entry = a.entry /\ b.loose = a.loose /\ IsWellFormed(a)
      BY <1>4, <3>0 DEF MqInv, TypeInv
    <3>4. Attaches(u, a) => u \in Updates(a.entry.dir)
      BY <1>1, <1>2 DEF Attaches, Updates
    <3>5. ToSet(b.patches) \subseteq Updates(b.entry.dir)
      <4> SUFFICES ASSUME NEW k \in DOMAIN b.patches PROVE b.patches[k] \in Updates(a.entry.dir)
        BY <3>3 DEF ToSet
      <4> QED BY <1>4, <3>0, <3>1, <3>4 DEF ToSet
    <3>6. b.entry.kind # "dir" => Updates(b.entry.dir) \subseteq ToSet(b.patches) \cup Rest'
      <4> SUFFICES ASSUME a.entry.kind # "dir", NEW v \in Updates(a.entry.dir), v \notin Rest'
                   PROVE  v \in ToSet(b.patches)
        BY <3>3
      <4>1. CASE v = u
        <5>1. Attaches(u, a)
          BY <3>3, <4>1 DEF Attaches, Updates, IsWellFormed
        <5> QED BY <1>4, <3>0, <4>1, <5>1
      <4>2. CASE v # u
        BY <1>2, <1>4, <3>0, <3>1, <4>2
      <4> QED BY <4>1, <4>2
    <3>7. \A j, k \in DOMAIN b.patches : j <= k => ~ClientBefore(b.patches[k], b.patches[j])
      <4> SUFFICES ASSUME NEW j \in DOMAIN b.patches, NEW k \in DOMAIN b.patches, j <= k
                   PROVE  ~ClientBefore(b.patches[k], b.patches[j])
        OBVIOUS
      <4>1. \/ j \in DOMAIN a.patches /\ b.patches[j] = a.patches[j]
            \/ b.patches[j] = u /\ b.patches[k] = u
        BY <1>4, <3>0
      <4>2. (k \in DOMAIN a.patches /\ b.patches[k] = a.patches[k]) \/ b.patches[k] = u
        BY <1>4, <3>0
      <4> QED BY <1>2, <3>1, <4>1, <4>2
    <3>8. \A j \in DOMAIN b.patches, e \in Rest' : ~ClientBefore(e, b.patches[j])
      BY <1>2, <1>4, <3>0, <3>1
    <3> QED BY <1>2, <3>1, <3>2, <3>3, <3>5, <3>6, <3>7, <3>8
  <2>5. gone' = gone /\ \A e, f : Content(e, f)' = Content(e, f)
    BY <1>1 DEF Content
  <2>6. \A i, j \in DOMAIN chain' : i <= j => ~ClientBefore(chain'[j], chain'[i])
    BY <1>2
  <2> HIDE <1>1, <1>2, <1>4
  <2> QED BY <1>5, <2>1, <2>2, <2>3, <2>4, <2>5, <2>6 DEF ChainInv
<1> QED BY <1>2, <1>6, <1>9, QuietStep

LEMMA ExpandKeeps == ASSUME MqInv, Expand, Ordered PROVE MqInv'
<1>1. /\ phase = "closed" /\ phase' = "opening" /\ said' = NothingSaid /\ call' = NoCall
      /\ UNCHANGED <<install, gone, archives, handles>> /\ archives = <<>>
  BY DEF Expand, MqInv, QuietInv, ChainInv
<1>2. /\ chain' \in Seq(install.entries)
      /\ ToSet(chain') = Members
      /\ \A i, j \in DOMAIN chain' : i <= j => ~ClientBefore(chain'[j], chain'[i])
  BY DEF Ordered, IsClientOrder, Members
<1>3. TypeInv'
  BY <1>1, <1>2, NothingIsClaimed DEF MqInv, TypeInv, MqTypeOK, IsOutcome, QuietInv, IsWellFormed
<1>4. Members' = Members /\ Rest' = Members /\ DOMAIN archives' = {}
  BY <1>1, <1>2 DEF Members, Rest
<1>5. ChainInv'
  BY <1>1, <1>2, <1>4 DEF ChainInv
<1> QED BY <1>1, <1>3, <1>5, QuietStep

LEMMA ForgetKeeps == ASSUME MqInv, OpenFail \/ Close PROVE MqInv'
<1>1. /\ phase' = "closed" /\ chain' = <<>> /\ archives' = <<>> /\ handles' \subseteq handles
      /\ UNCHANGED <<install, gone>>
  BY DEF OpenFail, Close, Forget, Closed
<1>2. said' = NothingSaid /\ call' = NoCall
  BY DEF OpenFail, Close, MqInv, QuietInv
<1>3. TypeInv'
  <2>1. (said = NothingSaid /\ call = NoCall)'
    BY <1>2 DEF NothingSaid, NoCall, Status
  <2>2. (said = NothingSaid /\ call = NoCall)' =>
           (/\ call \in [op : {"none", "read", "exists", "enumerate"}, f : Files \cup {Placeholder},
                          at : Nat, names : SUBSET Files]
            /\ DOMAIN said = {"read", "exists", "listed"}
            /\ DOMAIN said.read = Files /\ \A f \in Files : IsOutcome(said.read[f])
            /\ said.exists \in [Files -> {"unasked", "yes", "no"}]
            /\ said.listed \subseteq Files)'
    BY NothingIsClaimed, PTL
  <2>3. chain' \in Seq(install'.entries) /\ archives' \in Seq([entry : install'.entries, patches : Seq(install'.entries),
                                                            loose : SUBSET Files])
    BY <1>1
  <2>4. MqTypeOK'
    BY <1>1, <2>1, <2>2, <2>3 DEF MqInv, TypeInv, MqTypeOK
  <2> QED BY <1>1, <2>4 DEF MqInv, TypeInv
<1>4. DOMAIN archives' = {} /\ DOMAIN chain' = {} /\ Rest' = {}
  BY <1>1 DEF Rest, ToSet
<1>5. ChainInv'
  BY <1>1, <1>4 DEF ChainInv
<1> QED BY <1>2, <1>3, <1>5, QuietStep

LEMMA OpenDoneKeeps == ASSUME MqInv, OpenDone PROVE MqInv'
<1>1. /\ phase = "opening" /\ phase' = "open" /\ chain = <<>> /\ said' = NothingSaid /\ call' = NoCall
      /\ UNCHANGED <<install, gone, chain, archives, handles, call, said>>
  BY DEF OpenDone, MqInv, QuietInv
<1>2. TypeInv'
  BY <1>1 DEF MqInv, TypeInv, MqTypeOK, IsOutcome, IsWellFormed
<1>3. ChainInv'
  BY <1>1 DEF MqInv, ChainInv, Rest, Opened, Members, Updates, Content
<1> QED BY <1>1, <1>2, <1>3, QuietStep

---------------------------------------------------------------------------
(* Calls.                                                                   *)

\* Nothing a call asks changes under it.
LEMMA SameMembers ==
    ASSUME UNCHANGED <<install, archives>>
    PROVE  /\ \A i \in DOMAIN archives, f \in Files :
                 /\ Serves(archives[i], f)' <=> Serves(archives[i], f)
                 /\ ExistsAt(archives[i], f)' <=> ExistsAt(archives[i], f)
                 /\ Lists(archives[i], f)' <=> Lists(archives[i], f)
<1> SUFFICES ASSUME NEW i \in DOMAIN archives, NEW f \in Files
             PROVE  /\ Serves(archives[i], f)' <=> Serves(archives[i], f)
                    /\ ExistsAt(archives[i], f)' <=> ExistsAt(archives[i], f)
                    /\ Lists(archives[i], f)' <=> Lists(archives[i], f)
  OBVIOUS
<1>1. \A e, g : Content(e, g)' = Content(e, g)
  BY DEF Content
<1>2. /\ Touching(archives[i], f)' = Touching(archives[i], f)
      /\ Attached(archives[i])' = Attached(archives[i])
  BY <1>1 DEF Touching, Attached
<1>3. Ends(archives[i], f)' = Ends(archives[i], f)
  BY <1>1, <1>2 DEF Ends
<1>4. OpenFile(archives[i], f)' = OpenFile(archives[i], f)
  BY <1>1, <1>2, <1>3 DEF OpenFile, Status
<1>5. HasFile(archives[i], f)' <=> HasFile(archives[i], f)
  BY <1>1 DEF HasFile
<1> QED BY <1>1, <1>3, <1>4, <1>5 DEF Serves, ExistsAt, Lists

\* What a read has said stays true: precedence is fixed, and once a loose file
\* is gone nothing is claimed.
LEMMA StillStrongest ==
    ASSUME MqInv, UNCHANGED install, said'.read = said.read, gone' = {} => gone = {}
    PROVE  ServesStrongest'
<1> SUFFICES ASSUME gone' = {} PROVE ServesStrongest'
  BY DEF ServesStrongest
<1>1. /\ Members' = Members
      /\ \A e, g : Content(e, g)' = Content(e, g)
      /\ \A e : Group(e)' = Group(e)
  BY DEF Members, Group, Content
<1>2. \A f : Carriers(f)' = Carriers(f) /\ Strongest(f)' = Strongest(f)
  BY <1>1 DEF Carriers, Strongest
<1>3. \A f \in Files : said.read[f]' = said.read[f]
  OBVIOUS
<1>4. \A f \in Files : \A e : IsVersionOf(said.read[f].layers, f, e)' <=> IsVersionOf(said.read[f].layers, f, e)
  BY <1>1, <1>3 DEF IsVersionOf
<1> QED BY <1>2, <1>3, <1>4 DEF MqInv, ServesStrongest

LEMMA LoseLooseKeeps == ASSUME MqInv, LoseLoose PROVE MqInv'
<1>1. /\ UNCHANGED <<install, phase, chain, archives, handles, call, said>> /\ gone' # {}
      /\ gone' \subseteq install.entries \X Files
  <2>1. PICK e \in install.entries, f \in Files : gone' = gone \cup {<<e, f>>}
    BY DEF LoseLoose
  <2>2. gone \subseteq install.entries \X Files
    BY DEF MqInv, TypeInv, MqTypeOK
  <2>3. <<e, f>> \in install.entries \X Files /\ gone' # {}
    BY <2>1
  <2>4. gone' \subseteq install.entries \X Files
    BY <2>1, <2>2, <2>3
  <2> QED BY <2>3, <2>4 DEF LoseLoose
<1>2. TypeInv' /\ QuietInv'
  BY <1>1 DEF MqInv, TypeInv, MqTypeOK, IsOutcome, IsWellFormed, QuietInv, NothingSaid, NoCall, Status
<1>3. ChainInv'
  BY <1>1 DEF MqInv, ChainInv, Rest, Opened, Members, Updates, Content
<1>4. CallInv' /\ SaidInv'
  BY <1>1, SameMembers DEF MqInv, CallInv, SaidInv
<1>5. ServesStrongest'
  BY <1>1 DEF ServesStrongest
<1> QED BY <1>2, <1>3, <1>4, <1>5 DEF MqInv

\* A step of a call.
LEMMA CallStep ==
    ASSUME MqInv, phase = "open", UNCHANGED <<install, gone, phase, chain, archives, handles>>,
           call' \in [op : {"none", "read", "exists", "enumerate"}, f : Files \cup {Placeholder},
                      at : Nat, names : SUBSET Files],
           DOMAIN said' = {"read", "exists", "listed"},
           DOMAIN said'.read = Files, \A f \in Files : IsOutcome(said'.read[f]),
           said'.exists \in [Files -> {"unasked", "yes", "no"}], said'.listed \subseteq Files,
           CallInv', SaidInv', ServesStrongest'
    PROVE  MqInv'
<1>1. TypeInv' /\ QuietInv'
  BY DEF MqInv, TypeInv, MqTypeOK, IsOutcome, IsWellFormed, QuietInv
<1>2. ChainInv'
  BY DEF MqInv, ChainInv, Rest, Opened, Members, Updates, Content
<1> QED BY <1>1, <1>2 DEF MqInv

\* The members opened so far.
LEMMA ArchivesAre ==
    ASSUME MqInv
    PROVE  /\ archives \in Seq(Archive) /\ Len(archives) \in Nat
           /\ DOMAIN archives = 1 .. Len(archives)
           /\ \A i \in DOMAIN archives : i \in Nat /\ archives[i] \in Archive
<1>1. archives \in Seq(Archive)
  BY DEF MqInv, TypeInv, MqTypeOK, Archive
<1>2. PICK s : s = archives
  OBVIOUS
<1>3. PICK S : S = Archive
  OBVIOUS
<1>4. s \in Seq(S)
  BY <1>1, <1>2, <1>3
<1>5. /\ Len(s) \in Nat /\ DOMAIN s = 1 .. Len(s) /\ \A i \in DOMAIN s : i \in Nat /\ s[i] \in S
  BY ONLY <1>4
<1> QED BY <1>1, <1>2, <1>3, <1>5

\* An open storage: its members are those of the chain, with all updates attached.
LEMMA OpenChain ==
    ASSUME MqInv, phase = "open", NEW i \in DOMAIN archives
    PROVE  /\ archives[i] \in Archive /\ IsWellFormed(archives[i]) /\ archives[i].entry \in Members
           /\ Group(archives[i].entry) = {archives[i].entry} \cup ToSet(archives[i].patches)
           /\ {e \in Members : e.tier # "update"} \subseteq Opened
<1>1. chain = <<>> /\ Rest = {}
  BY DEF MqInv, ChainInv, Rest, ToSet
<1>2. archives[i] \in Archive /\ IsWellFormed(archives[i])
  BY ArchivesAre DEF MqInv, TypeInv
<1> DEFINE a == archives[i]
<1>3. /\ a.entry \in Members /\ ToSet(a.patches) \subseteq Updates(a.entry.dir)
      /\ a.entry.kind # "dir" => Updates(a.entry.dir) \subseteq ToSet(a.patches)
      /\ {e \in Members : e.tier # "update"} \subseteq Opened
  BY <1>1 DEF MqInv, ChainInv
<1>4. CASE a.entry.kind = "dir"
  <2>1. ToSet(a.patches) = {}
    BY <1>2, <1>4 DEF IsWellFormed, ToSet
  <2>2. Group(a.entry) = {a.entry}
    BY <1>4 DEF Group
  <2> QED BY <1>2, <1>3, <2>1, <2>2
<1>5. CASE a.entry.kind = "file"
  <2>1. Group(a.entry) = {a.entry} \cup Updates(a.entry.dir)
    BY <1>5 DEF Group, Updates
  <2> QED BY <1>2, <1>3, <1>5, <2>1
<1> QED BY <1>2, <1>4, <1>5 DEF IsWellFormed

\* A member carries a file when it serves it.
LEMMA CarriesIfServes ==
    ASSUME MqInv, phase = "open", gone = {}, NEW i \in DOMAIN archives, NEW f \in Files
    PROVE  archives[i].entry \in Carriers(f) <=> Serves(archives[i], f)
<1> DEFINE a == archives[i]
<1>1. /\ a \in Archive /\ IsWellFormed(a) /\ a.entry \in Members /\ a.entry.tier # "update"
      /\ Group(a.entry) = {a.entry} \cup ToSet(a.patches) /\ install \in Installs
  BY OpenChain DEF IsWellFormed, MqInv, TypeInv
<1>2. a.entry \in Carriers(f) <=> \E g \in Group(a.entry) : Content(g, f) \in {"full", "bad"}
  BY <1>1 DEF Carriers
<1>3. CASE a.entry.kind = "dir"
  <2>1. Group(a.entry) = {a.entry}
    BY <1>3 DEF Group
  <2>2. Content(a.entry, f) \in {"none", "full"}
    BY <1>1, <1>3, ContentIs DEF Archive
  <2>3. f \in a.loose <=> Content(a.entry, f) = "full"
    BY <1>3 DEF MqInv, ChainInv
  <2> QED BY <1>2, <1>3, <2>1, <2>2, <2>3 DEF Serves
<1>4. CASE a.entry.kind # "dir"
  <2>1. \A g \in Group(a.entry) : \E j \in DOMAIN Attached(a) : Attached(a)[j] = g
    <3> SUFFICES ASSUME NEW g \in Group(a.entry) PROVE \E j \in DOMAIN Attached(a) : Attached(a)[j] = g
      OBVIOUS
    <3>1. CASE g = a.entry
      BY <1>1, <3>1, AttachedIs
    <3>2. CASE g # a.entry
      <4>1. PICK k \in DOMAIN a.patches : a.patches[k] = g
        BY <1>1, <3>2 DEF ToSet
      <4>2. k + 1 \in DOMAIN Attached(a)
        BY <1>1, <4>1, AttachedIs DEF Archive
      <4> QED BY <1>1, <4>1, <4>2, AttachedIs
    <3> QED BY <3>1, <3>2
  <2>2. \A j \in DOMAIN Attached(a) : Attached(a)[j] \in Group(a.entry) /\ Attached(a)[j] \in install.entries
    BY <1>1, AttachedIs DEF ToSet
  <2>3. \A g \in install.entries : Content(g, f) \in {"none", "full", "delta", "bad"}
    BY <1>1, ContentIs
  <2>4. Ends(a, f) # {} <=> \E g \in Group(a.entry) : Content(g, f) \in {"full", "bad"}
    BY <2>1, <2>2, <2>3 DEF Ends, Touching
  <2> QED BY <1>2, <1>4, <2>4 DEF Serves
<1> QED BY <1>3, <1>4

\* A file that opens is the newest complete one with every delta above it.
LEMMA ReadsVersion ==
    ASSUME MqInv, phase = "open", gone = {}, NEW i \in DOMAIN archives, NEW f \in Files,
           ReadAt(archives[i], f).status = "found"
    PROVE  IsVersionOf(ReadAt(archives[i], f).layers, f, archives[i].entry)
<1> DEFINE a == archives[i]
<1>1. /\ a \in Archive /\ IsWellFormed(a) /\ install \in Installs
      /\ Group(a.entry) = {a.entry} \cup ToSet(a.patches)
      /\ \A j \in DOMAIN archives : i <= j => ~ClientBefore(archives[j].entry, a.entry)
      /\ \A j, k \in DOMAIN a.patches : j <= k => ~ClientBefore(a.patches[k], a.patches[j])
      /\ ToSet(a.patches) \subseteq Updates(a.entry.dir)
  BY OpenChain DEF MqInv, TypeInv, ChainInv
<1>2. i <= i /\ ~ClientBefore(a.entry, a.entry)
  <2>1. i \in Nat
    BY ArchivesAre
  <2> QED BY <1>1, <2>1
<1>3. CASE a.entry.kind = "dir"
  <2>1. PICK layers : layers = <<a.entry>>
    OBVIOUS
  <2>2. DOMAIN layers = {1} /\ layers[1] = a.entry /\ ToSet(layers) = {a.entry}
    BY <2>1 DEF ToSet
  <2>3. ReadAt(a, f).layers = layers /\ f \in a.loose
    BY <1>3, <2>1 DEF ReadAt, ReadLoose, Status
  <2>4. Content(a.entry, f) = "full"
    BY <1>3, <2>3 DEF MqInv, ChainInv
  <2>5. Group(a.entry) = {a.entry}
    BY <1>3 DEF Group
  <2>6. IsVersionOf(layers, f, a.entry)
    BY <2>2, <2>4, <2>5 DEF IsVersionOf
  <2> QED BY <2>3, <2>6
<1>4. CASE a.entry.kind # "dir"
  <2>1. ReadAt(a, f) = OpenFile(a, f)
    BY <1>4 DEF ReadAt, ReadArchive, Status
  <2>2. Ends(a, f) # {} /\ \A j \in Ends(a, f) : Content(Attached(a)[j], f) # "bad"
    BY <2>1 DEF OpenFile, Status
  <2>3. PICK base : base = Max(Ends(a, f))
    OBVIOUS
  <2>4. base \in Ends(a, f) /\ \A j \in Ends(a, f) : j <= base
    BY <1>1, <2>2, <2>3, LastEnd
  <2>5. PICK at : at = {j \in Touching(a, f) : j >= base}
    OBVIOUS
  <2>6. PICK layers : layers = [j \in at |-> Attached(a)[j]]
    OBVIOUS
  <2>7. ReadAt(a, f).layers = layers
    BY <2>1, <2>2, <2>3, <2>5, <2>6 DEF OpenFile
  <2>8. /\ DOMAIN Attached(a) \subseteq Nat
        /\ \A j \in DOMAIN Attached(a) : Attached(a)[j] \in Group(a.entry) /\ Attached(a)[j] \in install.entries
    <3>1. Len(a.patches) \in Nat /\ DOMAIN Attached(a) = 1 .. (Len(a.patches) + 1)
      BY <1>1, AttachedIs
    <3>2. DOMAIN Attached(a) \subseteq Nat
      BY <3>1
    <3>3. a.entry \in install.entries /\ a.patches \in Seq(install.entries)
      BY <1>1 DEF Archive
    <3>4. \A j \in DOMAIN a.patches : a.patches[j] \in install.entries
      BY <3>3
    <3>5. \A j \in DOMAIN a.patches : a.patches[j] \in Group(a.entry)
      BY <1>1 DEF ToSet
    <3>6. a.entry \in Group(a.entry)
      BY <1>1
    <3>7. \A j \in DOMAIN Attached(a) :
             Attached(a)[j] = a.entry \/ \E k \in DOMAIN a.patches : Attached(a)[j] = a.patches[k]
      BY <1>1, AttachedIs
    <3> QED BY <3>2, <3>3, <3>4, <3>5, <3>6, <3>7
  <2>9. \A j, k \in DOMAIN Attached(a) : j <= k => ~ClientBefore(Attached(a)[k], Attached(a)[j])
    <3> SUFFICES ASSUME NEW j \in DOMAIN Attached(a), NEW k \in DOMAIN Attached(a), j <= k
                 PROVE  ~ClientBefore(Attached(a)[k], Attached(a)[j])
      OBVIOUS
    <3>1. CASE j = 1
      <4>1. CASE k = 1
        BY <1>1, <1>2, <3>1, <4>1, AttachedIs
      <4>2. CASE k # 1
        <5>1. Attached(a)[k] \in Updates(a.entry.dir)
          BY <1>1, <4>2, AttachedIs DEF ToSet
        <5>2. Attached(a)[k].tier = "update" /\ a.entry.tier # "update" /\ a.entry \in Members
          BY <1>1, <5>1, OpenChain DEF Updates, IsWellFormed
        <5>3. TierRank(Attached(a)[k]) = 3 /\ TierRank(a.entry) \in {1, 2}
          BY <5>2 DEF TierRank, Members, IsMember
        <5>4. ~ClientBefore(Attached(a)[k], a.entry)
          BY <5>2, <5>3 DEF ClientBefore
        <5> QED BY <1>1, <3>1, <5>4, AttachedIs
      <4> QED BY <4>1, <4>2
    <3>2. CASE j # 1
      <4>1. k # 1 /\ j \in Nat /\ k \in Nat
        BY <2>8, <1>1, <3>2, AttachedIs
      <4>2. /\ j - 1 \in DOMAIN a.patches /\ Attached(a)[j] = a.patches[j - 1]
            /\ k - 1 \in DOMAIN a.patches /\ Attached(a)[k] = a.patches[k - 1]
        BY <1>1, <3>2, <4>1, AttachedIs
      <4>3. j - 1 <= k - 1
        BY <4>1
      <4> QED BY <1>1, <4>2, <4>3
    <3> QED BY <3>1, <3>2
  <2>10. at \subseteq DOMAIN Attached(a) /\ base \in at
    BY <2>4, <2>5, <2>8 DEF Ends, Touching
  <2>11. \A j \in at : /\ base <= j /\ Content(Attached(a)[j], f) # "none"
                       /\ (Content(Attached(a)[j], f) = "delta" <=> base # j)
    <3> SUFFICES ASSUME NEW j \in at
                 PROVE  /\ base <= j /\ Content(Attached(a)[j], f) # "none"
                        /\ (Content(Attached(a)[j], f) = "delta" <=> base # j)
      OBVIOUS
    <3>1. j \in Nat /\ base \in Nat /\ base <= j /\ j \in Touching(a, f)
      BY <2>5, <2>8, <2>10
    <3>2. j \in Ends(a, f) => j = base
      BY <2>4, <3>1
    <3> QED BY <2>4, <3>1, <3>2 DEF Ends, Touching
  <2>12. ToSet(layers) = {Attached(a)[j] : j \in at}
    BY <2>6 DEF ToSet
  <2>13. ASSUME NEW g \in Group(a.entry), Content(g, f) # "none", ClientBefore(Attached(a)[base], g)
         PROVE  g \in ToSet(layers)
    <3>1. PICK j \in DOMAIN Attached(a) : Attached(a)[j] = g
      <4>1. CASE g = a.entry
        BY <1>1, <4>1, AttachedIs
      <4>2. CASE g # a.entry
        <5>1. PICK k \in DOMAIN a.patches : a.patches[k] = g
          BY <1>1, <4>2 DEF ToSet
        <5>2. k + 1 \in DOMAIN Attached(a)
          BY <1>1, <5>1, AttachedIs DEF Archive
        <5> QED BY <1>1, <5>1, <5>2, AttachedIs
      <4> QED BY <4>1, <4>2
    <3>2. j \in Touching(a, f)
      BY <2>13, <3>1 DEF Touching
    <3>3. ~(j <= base)
      BY <2>9, <2>10, <2>13, <3>1
    <3>4. j >= base
      BY <2>8, <2>10, <3>3
    <3> QED BY <2>5, <2>12, <3>1, <3>2, <3>4
  <2>14. IsVersionOf(layers, f, a.entry)
    <3>1. DOMAIN layers = at /\ \A j \in at : layers[j] = Attached(a)[j]
      BY <2>6
    <3>2. \A j \in at : layers[j] \in {g \in Group(a.entry) : Content(g, f) # "none"}
      BY <2>8, <2>10, <2>11, <3>1
    <3>3. \A j, k \in at : j < k => ~ClientBefore(layers[k], layers[j])
      <4>1. \A j, k \in at : j < k => j <= k
        BY <2>8, <2>10
      <4> QED BY <2>9, <2>10, <3>1, <4>1
    <3>4. /\ base \in DOMAIN layers
          /\ \A j \in DOMAIN layers : base <= j /\ (Content(layers[j], f) = "delta" <=> base # j)
          /\ \A g \in Group(a.entry) : Content(g, f) # "none" /\ ClientBefore(layers[base], g)
                                            => g \in ToSet(layers)
      BY <2>10, <2>11, <2>13, <3>1
    <3>5. ToSet(layers) \subseteq {g \in Group(a.entry) : Content(g, f) # "none"}
      BY <3>1, <3>2 DEF ToSet
    <3> QED BY <3>1, <3>3, <3>4, <3>5 DEF IsVersionOf
  <2> QED BY <2>7, <2>14
<1> QED BY <1>3, <1>4

---------------------------------------------------------------------------
(* The calls.                                                               *)

\* What the answer of a read changes in what was said, and that of exists.
LEMMA ReadSaid ==
    ASSUME MqInv, NEW f \in Files, NEW r, IsOutcome(r), said' = [said EXCEPT !.read[f] = r]
    PROVE  /\ DOMAIN said' = {"read", "exists", "listed"}
           /\ DOMAIN said'.read = Files /\ \A g \in Files : IsOutcome(said'.read[g])
           /\ said'.read[f] = r /\ \A g \in Files : g # f => said'.read[g] = said.read[g]
           /\ said'.exists = said.exists /\ said'.exists \in [Files -> {"unasked", "yes", "no"}]
           /\ said'.listed = said.listed /\ said'.listed \subseteq Files
<1>1. /\ DOMAIN said = {"read", "exists", "listed"} /\ DOMAIN said.read = Files
      /\ \A g \in Files : IsOutcome(said.read[g])
      /\ said.exists \in [Files -> {"unasked", "yes", "no"}] /\ said.listed \subseteq Files
  BY DEF MqInv, TypeInv, MqTypeOK
<1>2. /\ DOMAIN said' = DOMAIN said /\ said'.exists = said.exists /\ said'.listed = said.listed
      /\ DOMAIN said'.read = Files /\ said'.read[f] = r
      /\ \A g \in Files : g # f => said'.read[g] = said.read[g]
  BY <1>1
<1> QED BY <1>1, <1>2

LEMMA ExistsSaid ==
    ASSUME MqInv, NEW f \in Files, NEW r \in {"yes", "no"}, said' = [said EXCEPT !.exists[f] = r]
    PROVE  /\ DOMAIN said' = {"read", "exists", "listed"}
           /\ said'.read = said.read
           /\ DOMAIN said'.read = Files /\ \A g \in Files : IsOutcome(said'.read[g])
           /\ said'.exists[f] = r /\ \A g \in Files : g # f => said'.exists[g] = said.exists[g]
           /\ said'.exists \in [Files -> {"unasked", "yes", "no"}]
           /\ said'.listed = said.listed /\ said'.listed \subseteq Files
<1>1. /\ DOMAIN said = {"read", "exists", "listed"} /\ DOMAIN said.read = Files
      /\ \A g \in Files : IsOutcome(said.read[g])
      /\ said.exists \in [Files -> {"unasked", "yes", "no"}] /\ said.listed \subseteq Files
  BY DEF MqInv, TypeInv, MqTypeOK
<1>2. /\ DOMAIN said' = DOMAIN said /\ said'.read = said.read /\ said'.listed = said.listed
      /\ said'.exists = [said.exists EXCEPT ![f] = r]
  BY <1>1
<1> QED BY <1>1, <1>2

\* A call that goes on has said nothing yet; one that ended leaves none behind.
LEMMA SameSaid ==
    ASSUME MqInv, UNCHANGED <<install, gone, archives, said>>
    PROVE  /\ DOMAIN said' = {"read", "exists", "listed"}
           /\ DOMAIN said'.read = Files /\ \A g \in Files : IsOutcome(said'.read[g])
           /\ said'.exists \in [Files -> {"unasked", "yes", "no"}] /\ said'.listed \subseteq Files
           /\ SaidInv' /\ ServesStrongest'
<1>1. SaidInv'
  BY SameMembers DEF MqInv, SaidInv
<1>2. ServesStrongest'
  BY StillStrongest
<1> QED BY <1>1, <1>2 DEF MqInv, TypeInv, MqTypeOK

LEMMA NoCallLeft ==
    ASSUME call' = NoCall
    PROVE  /\ CallInv'
           /\ call' \in [op : {"none", "read", "exists", "enumerate"}, f : Files \cup {Placeholder},
                         at : Nat, names : SUBSET Files]
<1>1. call'.op = "none" /\ call'.names = {}
  BY DEF NoCall
<1>2. CallInv'
  BY <1>1 DEF CallInv
<1> QED BY <1>2 DEF NoCall

\* What has been served stays the client's version when only one answer changes
\* and that one is.
LEMMA SaysStrongest ==
    ASSUME MqInv, UNCHANGED <<install, gone>>, NEW f \in Files,
           \A g \in Files : g # f => said'.read[g] = said.read[g],
           gone = {} /\ said'.read[f].status = "found"
               => \E e \in Strongest(f) : IsVersionOf(said'.read[f].layers, f, e),
           gone = {} /\ said'.read[f].status = "missing" => Carriers(f) = {}
    PROVE  ServesStrongest'
<1> SUFFICES ASSUME gone' = {} PROVE ServesStrongest'
  BY DEF ServesStrongest
<1>1. /\ Members' = Members
      /\ \A e, g : Content(e, g)' = Content(e, g)
      /\ \A e : Group(e)' = Group(e)
  BY DEF Members, Group, Content
<1>2. \A g : Carriers(g)' = Carriers(g) /\ Strongest(g)' = Strongest(g)
  BY <1>1 DEF Carriers, Strongest
<1>3. PICK read : read = said'.read
  OBVIOUS
<1>4. \A g \in Files : \A e : IsVersionOf(said.read[g].layers, g, e)' <=> IsVersionOf(read[g].layers, g, e)
  BY <1>1, <1>3 DEF IsVersionOf
<1>5. ASSUME NEW g \in Files
      PROVE  /\ read[g].status = "found" => \E e \in Strongest(g) : IsVersionOf(read[g].layers, g, e)
             /\ read[g].status = "missing" => Carriers(g) = {}
  <2>1. CASE g = f
    BY <1>3, <2>1
  <2>2. CASE g # f
    <3>1. read[g] = said.read[g]
      BY <1>3, <2>2
    <3> QED BY <3>1 DEF MqInv, ServesStrongest
  <2> QED BY <2>1, <2>2
<1> QED BY <1>2, <1>3, <1>4, <1>5 DEF ServesStrongest

\* A step that changes nothing.
LEMMA SameAll ==
    ASSUME MqInv, UNCHANGED mvars
    PROVE  MqInv'
<1>1. UNCHANGED <<install, gone, phase, chain, archives, handles, call, said>>
  BY DEF mvars
<1>2. TypeInv' /\ QuietInv'
  BY <1>1 DEF MqInv, TypeInv, MqTypeOK, IsOutcome, IsWellFormed, QuietInv, NothingSaid, NoCall, Status
<1>3. ChainInv'
  BY <1>1 DEF MqInv, ChainInv, Rest, Opened, Members, Updates, Content
<1>4. CallInv'
  BY <1>1, SameMembers DEF MqInv, CallInv
<1>5. SaidInv' /\ ServesStrongest'
  BY <1>1, SameSaid
<1> QED BY <1>2, <1>3, <1>4, <1>5 DEF MqInv

LEMMA AskKeeps ==
    ASSUME MqInv, NEW f \in Files, NEW op \in {"read", "exists", "enumerate"}, Ask(op, f)
    PROVE  MqInv'
<1>1. /\ phase = "open" /\ call = NoCall
      /\ call' = [op |-> op, f |-> f, at |-> Start(op), names |-> {}]
      /\ UNCHANGED <<install, gone, phase, chain, archives, handles, said>>
  BY DEF Ask
<1>2. Len(archives) \in Nat /\ DOMAIN archives = 1 .. Len(archives)
  BY ArchivesAre
<1>3. Start(op) \in Nat /\ (op = "enumerate" => Start(op) = 1) /\ (op # "enumerate" => Start(op) = Len(archives))
  BY <1>2 DEF Start
<1>4. PICK at : at = Start(op)
  OBVIOUS
<1>5. call' = [op |-> op, f |-> f, at |-> at, names |-> {}] /\ at \in Nat
  BY <1>1, <1>3, <1>4
<1>6. call'.op = op /\ call'.f = f /\ call'.at = at /\ call'.names = {}
  BY <1>5
<1>7. call' \in [op : {"none", "read", "exists", "enumerate"}, f : Files \cup {Placeholder},
                 at : Nat, names : SUBSET Files]
  BY <1>5
<1>8. op # "enumerate" => \A i \in DOMAIN archives : ~(i > at)
  BY <1>2, <1>3, <1>4
<1>9. CallInv'
  <2>1. op # "enumerate" => at <= Len(archives)
    BY <1>2, <1>3, <1>4
  <2>2. op = "enumerate" => at \in Nat \ {0}
    BY <1>3, <1>4
  <2> QED BY <1>1, <1>6, <1>8, <2>1, <2>2 DEF CallInv
<1>10. SaidInv' /\ ServesStrongest'
  <2>1. SaidInv'
    BY <1>1, SameMembers DEF MqInv, SaidInv
  <2> QED BY <1>1, <2>1, StillStrongest DEF MqInv
<1> QED BY <1>1, <1>7, <1>9, <1>10, CallStep DEF MqInv, TypeInv, MqTypeOK, IsOutcome

LEMMA AskNotOpenKeeps ==
    ASSUME MqInv, NEW f \in Files, AskNotOpen(f)
    PROVE  MqInv'
<1>1. /\ phase = "open" /\ archives = <<>> /\ call = NoCall
      /\ UNCHANGED <<install, gone, phase, chain, archives, handles, call>>
      /\ \/ said' = [said EXCEPT !.read[f] = Status("not_open")]
         \/ said' = [said EXCEPT !.exists[f] = "no"]
  BY DEF AskNotOpen
<1>2. DOMAIN archives = {}
  BY <1>1
<1>3. IsOutcome(Status("not_open")) /\ Status("not_open").status = "not_open"
  BY DEF IsOutcome, Status, ToSet
<1>4. call' = NoCall
  BY <1>1 DEF NoCall
<1>5. CASE said' = [said EXCEPT !.read[f] = Status("not_open")]
  <2>1. SaidInv'
    BY <1>1, <1>2, <1>3, <1>5, ReadSaid, SameMembers DEF MqInv, SaidInv
  <2>2. ServesStrongest'
    BY <1>1, <1>3, <1>5, ReadSaid, SaysStrongest
  <2> QED BY <1>1, <1>3, <1>4, <1>5, <2>1, <2>2, ReadSaid, NoCallLeft, CallStep
<1>6. CASE said' = [said EXCEPT !.exists[f] = "no"]
  <2>1. SaidInv'
    BY <1>1, <1>2, <1>6, ExistsSaid, SameMembers DEF MqInv, SaidInv
  <2>2. ServesStrongest'
    BY <1>1, <1>6, ExistsSaid, StillStrongest
  <2> QED BY <1>1, <1>4, <1>6, <2>1, <2>2, ExistsSaid, NoCallLeft, CallStep
<1> QED BY <1>1, <1>5, <1>6

\* The members that carry a file are among those opened.
LEMMA CarriersAreOpened ==
    ASSUME MqInv, phase = "open", gone = {}, NEW f \in Files, NEW e \in Carriers(f)
    PROVE  \E i \in DOMAIN archives : archives[i].entry = e /\ Serves(archives[i], f)
<1>1. e \in Members /\ e.tier # "update"
  BY DEF Carriers
<1>2. {d \in Members : d.tier # "update"} \subseteq Opened
  <2>1. chain = <<>> /\ Rest = {}
    BY DEF MqInv, ChainInv, Rest, ToSet
  <2> QED BY <2>1 DEF MqInv, ChainInv
<1>3. PICK i \in DOMAIN archives : archives[i].entry = e
  BY <1>1, <1>2 DEF Opened
<1> QED BY <1>3, CarriesIfServes

\* A read that finds the file at a member no later one serves has found the
\* client's version of it.
LEMMA FoundIsStrongest ==
    ASSUME MqInv, phase = "open", gone = {}, NEW i \in DOMAIN archives, NEW f \in Files,
           ReadAt(archives[i], f).status = "found",
           \A j \in DOMAIN archives : j > i => ~Serves(archives[j], f)
    PROVE  \E e \in Strongest(f) : IsVersionOf(ReadAt(archives[i], f).layers, f, e)
<1>1. install \in Installs /\ archives[i] \in Archive /\ IsWellFormed(archives[i])
  BY OpenChain DEF MqInv, TypeInv
<1>2. Serves(archives[i], f)
  BY <1>1, ReadAtIs
<1>3. archives[i].entry \in Carriers(f)
  BY <1>2, CarriesIfServes
<1>4. ASSUME NEW c \in Carriers(f) PROVE ~ClientBefore(archives[i].entry, c)
  <2>1. PICK j \in DOMAIN archives : archives[j].entry = c /\ Serves(archives[j], f)
    BY CarriersAreOpened
  <2>2. j <= i
    <3>1. i \in Nat /\ j \in Nat /\ ~(j > i)
      BY <2>1, ArchivesAre
    <3> QED BY ONLY <3>1
  <2>3. ~ClientBefore(archives[i].entry, archives[j].entry)
    BY <2>2 DEF MqInv, ChainInv
  <2> QED BY <2>1, <2>3
<1>5. archives[i].entry \in Strongest(f)
  BY <1>3, <1>4 DEF Strongest
<1> QED BY <1>5, ReadsVersion

LEMMA ReadKeeps ==
    ASSUME MqInv, Read
    PROVE  MqInv'
<1>1. /\ phase = "open" /\ UNCHANGED <<install, gone, phase, chain, archives, handles>>
      /\ call.op = "read"
  BY DEF Read, MqInv, QuietInv, NoCall
<1>2. PICK f : f = call.f
  OBVIOUS
<1>3. PICK at : at = call.at
  OBVIOUS
<1>4. f \in Files /\ at \in Nat /\ at <= Len(archives)
  BY <1>1, <1>2, <1>3 DEF MqInv, CallInv, TypeInv, MqTypeOK
<1>5. \A i \in DOMAIN archives : i > at => ~Serves(archives[i], f)
  BY <1>1, <1>2, <1>3 DEF MqInv, CallInv
<1>6. CASE at = 0
  <2>1. call' = NoCall /\ said' = [said EXCEPT !.read[f] = Status("missing")]
    BY <1>2, <1>3, <1>6 DEF Read, Return
  <2>2. IsOutcome(Status("missing")) /\ Status("missing").status = "missing"
    BY DEF IsOutcome, Status, ToSet
  <2>3. \A i \in DOMAIN archives : ~Serves(archives[i], f)
    <3>1. \A i \in DOMAIN archives : i > 0
      BY ArchivesAre
    <3> QED BY <1>5, <1>6, <3>1
  <2>4. gone = {} => Carriers(f) = {}
    BY <1>1, <1>4, <2>3, CarriersAreOpened
  <2>5. SaidInv'
    BY <1>1, <1>4, <2>1, <2>2, <2>3, ReadSaid, SameMembers DEF MqInv, SaidInv
  <2>6. ServesStrongest'
    BY <1>1, <1>4, <2>1, <2>2, <2>4, ReadSaid, SaysStrongest
  <2> QED BY <1>1, <1>4, <2>1, <2>2, <2>5, <2>6, ReadSaid, NoCallLeft, CallStep
<1>7. CASE at > 0
  <2>1. at \in DOMAIN archives
    BY <1>4, <1>7, ArchivesAre
  <2>2. install \in Installs /\ archives[at] \in Archive /\ IsWellFormed(archives[at])
    BY <1>1, <2>1, OpenChain DEF MqInv, TypeInv
  <2>3. PICK answer : answer = ReadAt(archives[at], f)
    OBVIOUS
  <2>4. /\ IsOutcome(answer) /\ answer.status \in {"found", "missing", "error"}
        /\ answer.status = "missing" <=> ~Serves(archives[at], f)
        /\ answer.status = "found" => ExistsAt(archives[at], f)
    BY <1>4, <2>2, <2>3, ReadAtIs
  <2>5. IF answer.status = "missing" THEN Proceed(at - 1)
        ELSE Return([said EXCEPT !.read[f] = answer])
    BY <1>2, <1>3, <1>7, <2>3 DEF Read
  <2>6. CASE answer.status = "missing"
    <3>1. call' = [call EXCEPT !.at = at - 1] /\ said' = said
      BY <2>5, <2>6 DEF Proceed
    <3>2. at - 1 \in Nat /\ at - 1 <= Len(archives)
      BY <1>4, <1>7, ArchivesAre
    <3>3. /\ call' \in [op : {"none", "read", "exists", "enumerate"}, f : Files \cup {Placeholder},
                        at : Nat, names : SUBSET Files]
          /\ call'.op = "read" /\ call'.f = f /\ call'.at = at - 1 /\ call'.names = call.names
      BY <1>1, <1>2, <3>1, <3>2 DEF MqInv, TypeInv, MqTypeOK
    <3>4. \A i \in DOMAIN archives : i > at - 1 => ~Serves(archives[i], f)
      <4>1. \A i \in DOMAIN archives : i > at - 1 => i > at \/ i = at
        BY <1>4, ArchivesAre
      <4> QED BY <1>5, <2>4, <2>6, <4>1
    <3>5. CallInv'
      BY <1>1, <1>4, <3>2, <3>3, <3>4, SameMembers DEF MqInv, CallInv
    <3> QED BY <1>1, <3>1, <3>3, <3>5, SameSaid, CallStep
  <2>7. CASE answer.status # "missing"
    <3>1. call' = NoCall /\ said' = [said EXCEPT !.read[f] = answer]
      BY <2>5, <2>7 DEF Return
    <3>2. SaidInv'
      BY <1>1, <1>4, <2>1, <2>4, <2>7, <3>1, ReadSaid, SameMembers DEF MqInv, SaidInv
    <3>3. gone = {} /\ answer.status = "found" => \E e \in Strongest(f) : IsVersionOf(answer.layers, f, e)
      BY <1>1, <1>4, <1>5, <2>1, <2>3, FoundIsStrongest
    <3>4. ServesStrongest'
      BY <1>1, <1>4, <2>4, <2>7, <3>1, <3>3, ReadSaid, SaysStrongest
    <3> QED BY <1>1, <1>4, <2>4, <3>1, <3>2, <3>4, ReadSaid, NoCallLeft, CallStep
  <2> QED BY <2>6, <2>7
<1> QED BY <1>4, <1>6, <1>7

LEMMA ExistsKeeps ==
    ASSUME MqInv, Exists
    PROVE  MqInv'
<1>1. /\ phase = "open" /\ UNCHANGED <<install, gone, phase, chain, archives, handles>>
      /\ call.op = "exists"
  BY DEF Exists, MqInv, QuietInv, NoCall
<1>2. PICK f : f = call.f
  OBVIOUS
<1>3. PICK at : at = call.at
  OBVIOUS
<1>4. f \in Files /\ at \in Nat /\ at <= Len(archives)
  BY <1>1, <1>2, <1>3 DEF MqInv, CallInv, TypeInv, MqTypeOK
<1>5. \A i \in DOMAIN archives : i > at => ~ExistsAt(archives[i], f)
  BY <1>1, <1>2, <1>3 DEF MqInv, CallInv
<1>6. ASSUME NEW answer \in {"yes", "no"}, Return([said EXCEPT !.exists[f] = answer]),
             answer = "yes" => \E i \in DOMAIN archives : ExistsAt(archives[i], f),
             answer = "no" => \A i \in DOMAIN archives : ~ExistsAt(archives[i], f)
      PROVE  MqInv'
  <2>1. call' = NoCall /\ said' = [said EXCEPT !.exists[f] = answer]
    BY <1>6 DEF Return
  <2>2. SaidInv'
    BY <1>1, <1>4, <1>6, <2>1, ExistsSaid, SameMembers DEF MqInv, SaidInv
  <2>3. ServesStrongest'
    BY <1>1, <1>4, <2>1, ExistsSaid, StillStrongest
  <2> QED BY <1>1, <1>4, <2>1, <2>2, <2>3, ExistsSaid, NoCallLeft, CallStep
<1>7. CASE at = 0
  <2>1. \A i \in DOMAIN archives : ~ExistsAt(archives[i], f)
    <3>1. \A i \in DOMAIN archives : i > 0
      BY ArchivesAre
    <3> QED BY <1>5, <1>7, <3>1
  <2>2. Return([said EXCEPT !.exists[f] = "no"])
    BY <1>2, <1>3, <1>7 DEF Exists
  <2> QED BY <1>6, <2>1, <2>2
<1>8. CASE at > 0
  <2>1. at \in DOMAIN archives
    BY <1>4, <1>8, ArchivesAre
  <2>2. IF ExistsAt(archives[at], f) THEN Return([said EXCEPT !.exists[f] = "yes"]) ELSE Proceed(at - 1)
    BY <1>2, <1>3, <1>8 DEF Exists
  <2>3. CASE ExistsAt(archives[at], f)
    BY <1>6, <2>1, <2>2, <2>3
  <2>4. CASE ~ExistsAt(archives[at], f)
    <3>1. call' = [call EXCEPT !.at = at - 1] /\ said' = said
      BY <2>2, <2>4 DEF Proceed
    <3>2. at - 1 \in Nat /\ at - 1 <= Len(archives)
      BY <1>4, <1>8, ArchivesAre
    <3>3. /\ call' \in [op : {"none", "read", "exists", "enumerate"}, f : Files \cup {Placeholder},
                        at : Nat, names : SUBSET Files]
          /\ call'.op = "exists" /\ call'.f = f /\ call'.at = at - 1 /\ call'.names = call.names
      BY <1>1, <1>2, <3>1, <3>2 DEF MqInv, TypeInv, MqTypeOK
    <3>4. \A i \in DOMAIN archives : i > at - 1 => ~ExistsAt(archives[i], f)
      <4>1. \A i \in DOMAIN archives : i > at - 1 => i > at \/ i = at
        BY <1>4, ArchivesAre
      <4> QED BY <1>5, <2>4, <4>1
    <3>5. CallInv'
      BY <1>1, <1>4, <3>2, <3>3, <3>4, SameMembers DEF MqInv, CallInv
    <3> QED BY <1>1, <3>1, <3>3, <3>5, SameSaid, CallStep
  <2> QED BY <2>3, <2>4
<1> QED BY <1>4, <1>7, <1>8

LEMMA EnumerateKeeps ==
    ASSUME MqInv, Enumerate
    PROVE  MqInv'
<1>1. /\ phase = "open" /\ UNCHANGED <<install, gone, phase, chain, archives, handles>>
      /\ call.op = "enumerate"
  <2>1. call.op = "enumerate" /\ UNCHANGED <<install, gone, phase, chain, archives, handles>>
    BY DEF Enumerate
  <2>2. call # NoCall
    BY <2>1 DEF NoCall
  <2> QED BY <2>1, <2>2 DEF MqInv, QuietInv
<1>2. /\ call.at \in Nat \ {0} /\ call.names \subseteq Files
      /\ \A f \in call.names : f \in Files /\ \E i \in DOMAIN archives : Lists(archives[i], f)
  BY <1>1 DEF MqInv, CallInv, TypeInv, MqTypeOK
<1>3. CASE call.at > Len(archives)
  <2>1. call' = NoCall /\ said' = [said EXCEPT !.listed = call.names]
    <3>1. ~(call.at <= Len(archives))
      BY <1>2, <1>3, ArchivesAre
    <3> QED BY <3>1 DEF Enumerate, Return
  <2>2. /\ DOMAIN said' = {"read", "exists", "listed"} /\ said'.listed = call.names
        /\ said'.read = said.read /\ said'.exists = said.exists
    BY <2>1 DEF MqInv, TypeInv, MqTypeOK
  <2>3. SaidInv'
    BY <1>1, <1>2, <2>2, SameMembers DEF MqInv, SaidInv
  <2>4. ServesStrongest'
    BY <1>1, <2>2, StillStrongest
  <2>5. /\ DOMAIN said'.read = Files /\ \A f \in Files : IsOutcome(said'.read[f])
        /\ said'.exists \in [Files -> {"unasked", "yes", "no"}] /\ said'.listed \subseteq Files
    BY <1>2, <2>2 DEF MqInv, TypeInv, MqTypeOK
  <2> QED BY <1>1, <2>1, <2>2, <2>3, <2>4, <2>5, NoCallLeft, CallStep
<1>4. CASE call.at <= Len(archives)
  <2>1. call.at \in DOMAIN archives
    BY <1>2, <1>4, ArchivesAre
  <2>2. PICK a : a = archives[call.at]
    OBVIOUS
  <2>3. PICK names \in IF a.entry.kind = "dir" THEN {a.loose} ELSE FindNames(a) :
            call' = [call EXCEPT !.at = @ + 1, !.names = @ \cup {n \in names : ~IsSyntheticName(n)}]
    <3>1. ~(call.at > Len(archives))
      BY <1>2, <1>4, ArchivesAre
    <3> QED BY <2>2, <3>1 DEF Enumerate
  <2>4. said' = said
    <3>1. ~(call.at > Len(archives))
      BY <1>2, <1>4, ArchivesAre
    <3> QED BY <3>1 DEF Enumerate
  <2>5. PICK new : new = {n \in names : ~IsSyntheticName(n)}
    OBVIOUS
  <2>6. \A f \in new : f \in Files /\ Lists(a, f)
    <3>1. a \in Archive
      BY <2>1, <2>2, ArchivesAre
    <3>2. CASE a.entry.kind = "dir"
      BY <2>3, <2>5, <3>1, <3>2 DEF Archive, Lists
    <3>3. CASE a.entry.kind # "dir"
      BY <2>3, <2>5, <3>3 DEF FindNames, IsSyntheticName, Lists
    <3> QED BY <3>2, <3>3
  <2>7. /\ call'.op = "enumerate" /\ call'.at = call.at + 1 /\ call'.names = call.names \cup new
        /\ call' \in [op : {"none", "read", "exists", "enumerate"}, f : Files \cup {Placeholder},
                      at : Nat, names : SUBSET Files]
    <3>1. call' = [call EXCEPT !.at = call.at + 1, !.names = call.names \cup new]
      BY <2>3, <2>5
    <3>2. call \in [op : {"none", "read", "exists", "enumerate"}, f : Files \cup {Placeholder},
                   at : Nat, names : SUBSET Files]
      BY DEF MqInv, TypeInv, MqTypeOK
    <3>3. call.at + 1 \in Nat /\ call.names \cup new \in SUBSET Files
      BY <1>2, <2>6
    <3> QED BY ONLY <1>1, <3>1, <3>2, <3>3
  <2>8. \A f \in call'.names : f \in Files /\ \E i \in DOMAIN archives : Lists(archives[i], f)
    BY <1>2, <2>1, <2>2, <2>6, <2>7
  <2>9. CallInv'
    BY <1>1, <1>2, <2>7, <2>8, SameMembers DEF CallInv
  <2> QED BY <1>1, <2>4, <2>7, <2>9, SameSaid, CallStep
<1> QED BY <1>2, <1>3, <1>4, ArchivesAre

---------------------------------------------------------------------------
(* The theorems.                                                            *)

\* A step of a storage whose expansion is in the client's order.
LEMMA MqInvStep == MqInv /\ [MqNext]_mvars /\ [Ordered]_mvars => MqInv'
<1> SUFFICES ASSUME MqInv, [MqNext]_mvars, [Ordered]_mvars PROVE MqInv'
  OBVIOUS
<1>1. CASE Open
  <2>1. CASE UNCHANGED mvars
    BY <2>1, SameAll
  <2>2. CASE Expand /\ ~UNCHANGED mvars
    BY <2>2, ExpandKeeps
  <2> QED BY <1>1, <2>1, <2>2, OpenMemberKeeps, AttachKeeps, ForgetKeeps, OpenDoneKeeps DEF Open
<1>2. CASE Close
  BY <1>2, ForgetKeeps
<1>3. CASE Calls
  BY <1>3, AskKeeps, AskNotOpenKeeps, ReadKeeps, ExistsKeeps, EnumerateKeeps DEF Calls
<1>4. CASE LoseLoose
  BY <1>4, LoseLooseKeeps
<1>5. CASE UNCHANGED mvars
  BY <1>5, SameAll
<1> QED BY <1>1, <1>2, <1>3, <1>4, <1>5 DEF MqNext

\* What the three walks have said of a file agrees.
LEMMA MqInvAgrees ==
    ASSUME MqInv
    PROVE  WalksAgree
<1>1. install \in Installs /\ MqTypeOK
  BY DEF MqInv, TypeInv
<1>2. \A i \in DOMAIN archives : archives[i] \in Archive /\ IsWellFormed(archives[i])
  BY ArchivesAre DEF MqInv, TypeInv
<1>3. \A i \in DOMAIN archives, f \in Files :
         /\ ExistsAt(archives[i], f) => Serves(archives[i], f)
         /\ Lists(archives[i], f)
               => /\ Serves(archives[i], f)
                  /\ ~ExistsAt(archives[i], f) => \E e \in install.entries : Content(e, f) = "bad"
  BY <1>1, <1>2, ReadAtIs, ListsIs
<1>4. ExistsAgreesWithRead
  BY <1>3 DEF MqInv, SaidInv, ExistsAgreesWithRead
<1>5. ListedIsFound
  BY <1>3 DEF MqInv, SaidInv, ListedIsFound
<1> QED BY <1>1, <1>4, <1>5 DEF WalksAgree

\* The walks agree: of a storage whose expansion is in the client's order, what
\* exists affirms and enumeratePaths lists a read does not miss, and what exists
\* denies no read finds.
THEOREM TheWalksAgree == MqSpec /\ ExpandsInClientOrder => []WalksAgree
<1>1. MqInit => MqInv
  BY MqInvInit
<1>2. MqInv /\ [MqNext]_mvars /\ [Ordered]_mvars => MqInv'
  BY MqInvStep
<1>3. MqInv => WalksAgree
  BY MqInvAgrees
<1>4. ExpandsInClientOrder <=> [][Ordered]_mvars
  BY DEF ExpandsInClientOrder, Ordered
<1> QED BY <1>1, <1>2, <1>3, <1>4, PTL DEF MqSpec

\* A read serves what the client would: of a storage whose expansion is in the
\* client's order, the strongest member that carries the file, with the newest
\* complete file and every delta above it, and it misses only what nobody carries.
THEOREM ReadsTheStrongest == MqSpec /\ ExpandsInClientOrder => []ServesStrongest
<1>1. MqInit => MqInv
  BY MqInvInit
<1>2. MqInv /\ [MqNext]_mvars /\ [Ordered]_mvars => MqInv'
  BY MqInvStep
<1>3. MqInv => ServesStrongest
  BY DEF MqInv
<1>4. ExpandsInClientOrder <=> [][Ordered]_mvars
  BY DEF ExpandsInClientOrder, Ordered
<1> QED BY <1>1, <1>2, <1>3, <1>4, PTL DEF MqSpec
=============================================================================
