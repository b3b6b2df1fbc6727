------------------------ MODULE FileSystemProofs ------------------------
(***************************************************************************)
(* Proofs about FileSystem, and the CASC storage behind it, for every      *)
(* value of their constants: every open gets the best storage there is,    *)
(* and what the gateway lists it can read.                                 *)
(***************************************************************************)
EXTENDS FileSystem, MpqStorageProofs

---------------------------------------------------------------------------
(* The listfile.                                                            *)

\* The line that counts for a path or an id is one of those that are about it.
LEMMA LineOfPath ==
    ASSUME NEW S, NEW l \in Seq(S), NEW p, NEW m \in DOMAIN l, l[m][2] = p
    PROVE  \E n \in DOMAIN l : IdOf(l, p) = <<l[n]>> /\ l[n][2] = p
<1> DEFINE at == {i \in DOMAIN l : l[i][2] = p}
<1>1. at \in SUBSET (1 .. Len(l)) /\ at # {} /\ Len(l) \in Nat
  OBVIOUS
<1>2. Max(at) \in at
  BY <1>1, LastPosition
<1>3. IdOf(l, p) = <<l[Max(at)]>>
  BY <1>1 DEF IdOf, LastOf
<1> QED BY <1>2, <1>3

LEMMA LineOfId ==
    ASSUME NEW S, NEW l \in Seq(S), NEW i, PathOf(l, i) # <<>>
    PROVE  \E n \in DOMAIN l : PathOf(l, i) = <<l[n]>> /\ l[n][1] = i
<1> DEFINE at == {j \in DOMAIN l : l[j][1] = i}
<1>1. at # {}
  BY DEF PathOf, LastOf
<1>2. at \in SUBSET (1 .. Len(l)) /\ Len(l) \in Nat
  OBVIOUS
<1>3. Max(at) \in at
  BY <1>1, <1>2, LastPosition
<1>4. PathOf(l, i) = <<l[Max(at)]>>
  BY <1>1 DEF PathOf, LastOf
<1> QED BY <1>3, <1>4

\* What is listed is readable, whatever the keys of the storage.
LEMMA ReadableIfListed ==
    ASSUME NEW S, NEW l \in Seq(S), OneToOne(l), NEW p \in EnumeratePaths(l), NEW c
    PROVE  ReadFile(c, l, p) \in {"found", "EncryptedContent"}
<1>1. PICK i \in EnumerateIds : PathOf(l, i) # <<>> /\ p = PathOf(l, i)[1][2]
  BY DEF EnumeratePaths
<1>2. PICK m \in DOMAIN l : PathOf(l, i) = <<l[m]>> /\ l[m][1] = i
  BY <1>1, LineOfId
<1>3. l[m][2] = p
  BY <1>1, <1>2
<1>4. PICK n \in DOMAIN l : IdOf(l, p) = <<l[n]>> /\ l[n][2] = p
  BY <1>3, LineOfPath
<1>5. l[n][1] = i
  BY <1>2, <1>3, <1>4 DEF OneToOne
<1>6. IdOf(l, p) # <<>> /\ IdOf(l, p)[1][1] = i
  BY <1>4, <1>5
<1>7. i \in DOMAIN Held /\ Held[i] # "remote"
  BY <1>1 DEF EnumerateIds
<1>8. ReadId(c, i) \in {"found", "EncryptedContent"}
  BY <1>7 DEF ReadId, Openable
<1> QED BY <1>6, <1>8 DEF ReadFile
---------------------------------------------------------------------------
(* The storage.                                                             *)

Trying == {"unlink", "link", "truncate", "fill", "try"}

\* The newest of the builds that were asked for, or of all.
IsBest(c) ==
    LET asked == {k \in disk.matches : disk.builds[k] = c.build} IN
    /\ c.product \notin disk.plain
    /\ asked # {} => c.key \in asked
    /\ asked = {} => \A k \in disk.matches : disk.builds[k] <= disk.builds[c.key]

\* What holds of one call, whatever the others do: its result is right, and of
\* the configurations still to be tried none is out of order and, if the call
\* is clean, none that matches has been passed over.
Sound(c) ==
    /\ c.pc = "open" => (c.key = Own /\ c.product \in disk.plain) \/ c.key \in disk.matches
    /\ c.pc = "open" /\ c.clean /\ c.key # Own => IsBest(c)
    /\ c.err # "none" /\ c.clean =>
          c.err = "StorageOpenFailed" /\ disk.matches = {} /\ c.product \notin disk.plain
    /\ c.clean /\ c.pc \in Trying \cup {"scan"} => c.product \notin disk.plain
    /\ c.pc \in Trying =>
          /\ c.todo \in Seq(DOMAIN disk.builds) /\ c.todo # <<>>
          /\ \A i, j \in DOMAIN c.todo : i < j => ~Ranks(c.todo[j], c.todo[i], c.build)
          /\ c.clean => disk.matches \subseteq ToSet(c.todo)

\* The shim directory of the configuration in hand, as a call that runs alone
\* has left it.
ShimIsOwn(c) ==
    c.clean => LET s == shim[Head(c.todo)] IN
       /\ c.pc = "link" => ~s.link
       /\ c.pc \in {"truncate", "fill", "try"} => s.link
       /\ c.pc = "fill" => s.info = "empty"
       /\ c.pc = "try" => s.info = c.product

\* clean means what it says.
IsAlone(o) == casc[o].clean /\ Midway(o) => \A q \in Openers : q # o => ~Midway(q)

CascShape ==
    /\ disk \in Clients
    /\ DOMAIN shim = DOMAIN disk.builds
    /\ \A k \in DOMAIN shim : DOMAIN shim[k] = {"link", "info"} /\ shim[k].link \in BOOLEAN
    /\ DOMAIN casc = Openers
    /\ \A o \in Openers : DOMAIN casc[o] = DOMAIN NotOpen /\ casc[o].clean \in BOOLEAN

CascInv ==
    /\ CascShape
    /\ \A o \in Openers : Sound(casc[o]) /\ ShimIsOwn(casc[o]) /\ IsAlone(o)

\* An order of a finite set is a sequence of exactly its elements.
LEMMA OrderHasAll ==
    ASSUME NEW S, IsFiniteSet(S), NEW todo \in SetToSeqs(S)
    PROVE  todo \in Seq(S) /\ ToSet(todo) = S
<1> DEFINE n == Cardinality(S)
<1>1. n \in Nat
  BY FS_CardinalityType
<1>2. todo \in [1 .. n -> S] /\ \A i, j \in 1 .. n : i # j => todo[i] # todo[j]
  BY DEF SetToSeqs
<1>3. todo \in Injection(1 .. n, S)
  BY <1>2 DEF Injection, IsInjective
<1>4. Cardinality(1 .. n) = n
  BY <1>1, FS_Interval
<1>5. todo \in Surjection(1 .. n, S)
  BY <1>3, <1>4, FS_Injection
<1>6. ToSet(todo) = S
  BY <1>2, <1>5 DEF Surjection, ToSet
<1>7. todo \in Seq(S)
  BY <1>1, <1>2
<1> QED BY <1>6, <1>7

\* The shape of an order of preference: what comes first of those that are left
\* is the best of the matches among them.
LEMMA FirstIsBest ==
    ASSUME CascShape, CascAssumption, NEW c, Sound(c), c.pc \in Trying, c.clean,
           Head(c.todo) \in disk.matches, NEW d, d.product = c.product,
           d.build = c.build, d.key = Head(c.todo)
    PROVE  IsBest(d)
<1>1. /\ c.product \notin disk.plain /\ c.todo \in Seq(DOMAIN disk.builds) /\ c.todo # <<>>
      /\ \A i, j \in DOMAIN c.todo : i < j => ~Ranks(c.todo[j], c.todo[i], c.build)
      /\ disk.matches \subseteq ToSet(c.todo)
  BY DEF Sound
<1>2. disk.matches \subseteq DOMAIN disk.builds /\ \A k \in DOMAIN disk.builds : disk.builds[k] \in Int
  BY DEF CascShape, CascAssumption
<1>3. Head(c.todo) = c.todo[1] /\ 1 \in DOMAIN c.todo /\ DOMAIN c.todo = 1 .. Len(c.todo) /\ Len(c.todo) \in Nat
  BY <1>1
<1>4. ASSUME NEW k \in disk.matches PROVE k = d.key \/ ~Ranks(k, d.key, d.build)
  <2>1. PICK j \in DOMAIN c.todo : k = c.todo[j]
    BY <1>1 DEF ToSet
  <2>2. j = 1 \/ 1 < j
    BY <1>3
  <2> QED BY <1>1, <1>3, <2>1, <2>2
<1>5. \A k \in disk.matches : k = d.key \/ ~Ranks(k, d.key, d.build)
  BY <1>4
<1>6. ASSUME NEW k \in disk.matches, disk.builds[k] = d.build PROVE disk.builds[d.key] = d.build
  BY <1>5, <1>6 DEF Ranks
<1>7. ASSUME \A k \in disk.matches : disk.builds[k] # d.build, NEW k \in disk.matches
      PROVE  disk.builds[k] <= disk.builds[d.key]
  <2>1. disk.builds[d.key] # d.build /\ disk.builds[k] # d.build
    BY <1>7
  <2>2. disk.builds[k] \in Int /\ disk.builds[d.key] \in Int
    BY <1>2
  <2> QED BY <1>5, <2>1, <2>2 DEF Ranks
<1>8. d.key \in disk.matches /\ d.product \notin disk.plain
  BY <1>1
<1> QED BY <1>6, <1>7, <1>8 DEF IsBest

\* One step of an open that is under way: the others are not disturbed, because
\* those that are under way too are no longer clean.
LEMMA OneStep ==
    ASSUME CascInv, NEW o \in Openers, Midway(o), NEW d,
           disk' = disk, casc' = [casc EXCEPT ![o] = d],
           DOMAIN d = DOMAIN NotOpen, d.clean \in BOOLEAN, d.clean => casc[o].clean,
           DOMAIN shim' = DOMAIN shim,
           \A k \in DOMAIN shim : DOMAIN shim'[k] = {"link", "info"} /\ shim'[k].link \in BOOLEAN,
           Sound(d), ShimIsOwn(d)'
    PROVE  CascInv'
<1>1. casc'[o] = d /\ \A q \in Openers : q # o => casc'[q] = casc[q]
  BY DEF CascInv, CascShape
<1>2. CascShape'
  BY <1>1 DEF CascInv, CascShape
<1>3. \A q \in Openers : q # o /\ casc[q].clean => ~Midway(q)
  BY DEF CascInv, IsAlone
<1>4. ASSUME NEW q \in Openers PROVE Sound(casc[q])'
  <2>1. Sound(casc'[q])
    BY <1>1 DEF CascInv
  <2> QED BY <2>1 DEF Sound, IsBest, Ranks
<1>5. ASSUME NEW q \in Openers PROVE ShimIsOwn(casc[q])'
  <2>1. CASE q = o
    BY <2>1, <1>1 DEF ShimIsOwn
  <2>2. CASE q # o
    BY <2>2, <1>1, <1>3 DEF ShimIsOwn, Midway
  <2> QED BY <2>1, <2>2
<1>6. ASSUME NEW q \in Openers PROVE IsAlone(q)'
  <2>1. CASE q = o
    <3>1. d.clean => \A r \in Openers : r # o => ~Midway(r)
      BY DEF CascInv, IsAlone
    <3> QED BY <2>1, <3>1, <1>1 DEF IsAlone, Midway
  <2>2. CASE q # o
    BY <2>2, <1>1, <1>3 DEF IsAlone, Midway
  <2> QED BY <2>1, <2>2
<1> QED BY <1>2, <1>4, <1>5, <1>6 DEF CascInv

\* An open that ends with an error, and one that is killed.
LEMMA FailedIsSound ==
    ASSUME NEW c, c.clean \in BOOLEAN, NEW err,
           c.clean => err = "StorageOpenFailed" /\ disk.matches = {} /\ c.product \notin disk.plain
    PROVE  /\ Sound(Failed(c, err)) /\ DOMAIN Failed(c, err) = DOMAIN NotOpen
           /\ Failed(c, err).clean = c.clean /\ Failed(c, err).pc = "idle"
BY DEF Failed, NotOpen, Sound, Trying

LEMMA NotOpenIsSound ==
    /\ Sound(NotOpen) /\ NotOpen.clean \in BOOLEAN /\ ~NotOpen.clean /\ ShimIsOwn(NotOpen)'
    /\ ShimIsOwn(NotOpen)
BY DEF NotOpen, Sound, ShimIsOwn, Trying

LEMMA TryPlainKeeps == ASSUME CascInv, NEW o \in Openers, TryPlain(o) PROVE CascInv'
<1> DEFINE c == casc[o]
<1>0. PICK d : d = IF c.product \in disk.plain THEN [c EXCEPT !.pc = "open", !.key = Own] ELSE [c EXCEPT !.pc = "scan"]
  OBVIOUS
<1>1. c.pc = "plain" /\ casc' = [casc EXCEPT ![o] = d] /\ UNCHANGED <<disk, shim>>
  BY <1>0 DEF TryPlain, At
<1>2. DOMAIN c = DOMAIN NotOpen /\ c.clean \in BOOLEAN /\ Sound(c)
  BY DEF CascInv, CascShape
<1>3. DOMAIN d = DOMAIN NotOpen /\ d.clean = c.clean /\ d.product = c.product /\ d.err = c.err
  BY <1>0, <1>2 DEF NotOpen
<1>4. d.pc = "scan" \/ d.pc = "open"
  BY <1>0, <1>2 DEF NotOpen
<1>5. d.pc = "open" => d.key = Own /\ d.product \in disk.plain
  BY <1>0, <1>2 DEF NotOpen
<1>6. d.pc = "scan" => d.product \notin disk.plain
  BY <1>0, <1>2 DEF NotOpen
<1> HIDE DEF c
<1>7. Sound(d) /\ ShimIsOwn(d)'
  BY <1>2, <1>3, <1>4, <1>5, <1>6 DEF Sound, ShimIsOwn, Trying
<1>8. Midway(o)
  BY <1>1 DEF Midway, c
<1> QED BY <1>1, <1>2, <1>3, <1>7, <1>8, OneStep DEF CascInv, CascShape, c

LEMMA ScanKeeps == ASSUME CascInv, CascAssumption, NEW o \in Openers, Scan(o) PROVE CascInv'
<1> DEFINE c == casc[o]
<1>1. PICK found \in SUBSET DOMAIN disk.builds :
      \E todo \in SetToSeqs(found) :
        /\ \A i, j \in DOMAIN todo : i < j => ~Ranks(todo[j], todo[i], c.build)
        /\ LET e == [c EXCEPT !.clean = @ /\ found = DOMAIN disk.builds] IN
           casc' = [casc EXCEPT ![o] = IF todo = <<>> THEN Failed(e, "StorageOpenFailed")
                                       ELSE [e EXCEPT !.pc = "unlink", !.todo = todo]]
  BY DEF Scan
<1>2. PICK todo \in SetToSeqs(found) :
        /\ \A i, j \in DOMAIN todo : i < j => ~Ranks(todo[j], todo[i], c.build)
        /\ LET e == [c EXCEPT !.clean = @ /\ found = DOMAIN disk.builds] IN
           casc' = [casc EXCEPT ![o] = IF todo = <<>> THEN Failed(e, "StorageOpenFailed")
                                       ELSE [e EXCEPT !.pc = "unlink", !.todo = todo]]
  BY <1>1
<1> PICK e : e = [c EXCEPT !.clean = @ /\ found = DOMAIN disk.builds]
  OBVIOUS
<1> PICK d : d = IF todo = <<>> THEN Failed(e, "StorageOpenFailed") ELSE [e EXCEPT !.pc = "unlink", !.todo = todo]
  OBVIOUS
<1>3. casc' = [casc EXCEPT ![o] = d] /\ c.pc = "scan" /\ UNCHANGED <<disk, shim>>
  BY <1>2 DEF Scan, At
<1>4. DOMAIN c = DOMAIN NotOpen /\ c.clean \in BOOLEAN /\ Sound(c)
  BY DEF CascInv, CascShape
<1>5. /\ IsFiniteSet(DOMAIN disk.builds) /\ disk.matches \subseteq DOMAIN disk.builds
  BY DEF CascInv, CascShape, CascAssumption
<1>6. todo \in Seq(found) /\ ToSet(todo) = found
  BY <1>5, FS_Subset, OrderHasAll
<1>7. /\ DOMAIN e = DOMAIN NotOpen /\ e.clean \in BOOLEAN /\ e.product = c.product /\ e.err = c.err /\ e.build = c.build
      /\ e.clean => c.clean /\ found = DOMAIN disk.builds
  BY <1>4 DEF NotOpen
<1>8. c.clean => c.product \notin disk.plain
  BY <1>3, <1>4 DEF Sound
<1> HIDE DEF c
<1>9. CASE todo = <<>>
  <2>1. d = Failed(e, "StorageOpenFailed")
    BY <1>9
  <2>2. ToSet(todo) = {}
    BY <1>9 DEF ToSet
  <2>3. e.clean => disk.matches = {} /\ e.product \notin disk.plain
    BY <2>2, <1>5, <1>6, <1>7, <1>8
  <2>4. Sound(d) /\ DOMAIN d = DOMAIN NotOpen /\ d.clean \in BOOLEAN /\ (d.clean <=> e.clean) /\ ShimIsOwn(d)'
    <3>1. e.clean \in BOOLEAN
      BY <1>7
    <3>2. \A err : (e.clean => err = "StorageOpenFailed" /\ disk.matches = {} /\ e.product \notin disk.plain)
             => /\ Sound(Failed(e, err)) /\ DOMAIN Failed(e, err) = DOMAIN NotOpen
                /\ Failed(e, err).clean = e.clean /\ Failed(e, err).pc = "idle"
      BY ONLY <3>1, FailedIsSound
    <3>3. Sound(d) /\ DOMAIN d = DOMAIN NotOpen /\ d.clean = e.clean /\ d.pc = "idle"
      BY ONLY <2>1, <2>3, <3>2
    <3> QED BY <3>1, <3>3 DEF ShimIsOwn
  <2> QED BY <1>3, <1>7, <2>4, OneStep DEF CascInv, CascShape, c, Midway
<1>10. CASE todo # <<>>
  <2>1. d = [e EXCEPT !.pc = "unlink", !.todo = todo]
    BY <1>10
  <2>2. /\ DOMAIN d = DOMAIN NotOpen /\ d.clean = e.clean /\ d.product = e.product /\ d.err = e.err /\ d.build = e.build
        /\ d.pc = "unlink" /\ d.todo = todo
    BY <2>1, <1>7 DEF NotOpen
  <2>3. d.todo \in Seq(DOMAIN disk.builds)
    BY <1>6, <2>2
  <2>4. \A i, j \in DOMAIN d.todo : i < j => ~Ranks(d.todo[j], d.todo[i], d.build)
    BY <1>2, <1>7, <2>2 DEF c
  <2>5. d.clean => disk.matches \subseteq ToSet(d.todo)
    BY <1>5, <1>6, <1>7, <2>2
  <2>6. Sound(d)
    BY <1>4, <1>7, <1>8, <1>10, <2>2, <2>3, <2>4, <2>5 DEF Sound, Trying
  <2>7. ShimIsOwn(d)'
    BY <2>2 DEF ShimIsOwn
  <2> QED BY <1>3, <1>7, <2>2, <2>6, <2>7, OneStep DEF CascInv, CascShape, c, Midway
<1> QED BY <1>9, <1>10

\* A step of the work on one shim, which no clean open of another sees.
LEMMA ShimStep ==
    ASSUME CascInv, NEW o \in Openers, casc[o].pc \in Trying, NEW pc \in Trying,
           NEW s, DOMAIN s = {"link", "info"}, s.link \in BOOLEAN,
           disk' = disk, casc' = [casc EXCEPT ![o].pc = pc],
           shim' = [shim EXCEPT ![Head(casc[o].todo)] = s],
           casc[o].clean => /\ pc = "link" => ~s.link
                            /\ pc \in {"truncate", "fill", "try"} => s.link
                            /\ pc = "fill" => s.info = "empty"
                            /\ pc = "try" => s.info = casc[o].product
    PROVE  CascInv'
<1> DEFINE c == casc[o]
           k == Head(c.todo)
<1>1. PICK d : d = [c EXCEPT !.pc = pc]
  OBVIOUS
<1>2. casc' = [casc EXCEPT ![o] = d]
  BY <1>1
<1>3. DOMAIN c = DOMAIN NotOpen /\ c.clean \in BOOLEAN /\ Sound(c)
  BY DEF CascInv, CascShape
<1>4. /\ DOMAIN d = DOMAIN NotOpen /\ d.clean = c.clean /\ d.product = c.product /\ d.err = c.err
      /\ d.build = c.build /\ d.todo = c.todo /\ d.pc = pc
  BY <1>1, <1>3 DEF NotOpen
<1>5. c.todo \in Seq(DOMAIN disk.builds) /\ c.todo # <<>>
  BY <1>3 DEF Sound
<1>6. k \in DOMAIN shim
  BY <1>5 DEF CascInv, CascShape
<1>7. shim'[k] = s /\ DOMAIN shim' = DOMAIN shim
  BY <1>6
<1>8. \A j \in DOMAIN shim : DOMAIN shim'[j] = {"link", "info"} /\ shim'[j].link \in BOOLEAN
  BY <1>7 DEF CascInv, CascShape
<1>9. PICK first : first = k
  OBVIOUS
<1>10. Head(d.todo) = first /\ shim'[first] = s
  BY <1>4, <1>7, <1>9
<1>11. ShimIsOwn(d)'
  <2>1. d.clean => /\ d.pc = "link" => ~s.link
                   /\ d.pc \in {"truncate", "fill", "try"} => s.link
                   /\ d.pc = "fill" => s.info = "empty"
                   /\ d.pc = "try" => s.info = d.product
    BY <1>4
  <2> QED BY <1>10, <2>1 DEF ShimIsOwn
<1>12. Sound(d)
  BY <1>3, <1>4 DEF Sound, Trying
<1>13. Midway(o)
  BY DEF Midway, Trying
<1> QED BY <1>2, <1>3, <1>4, <1>7, <1>8, <1>11, <1>12, <1>13, OneStep DEF CascInv, CascShape

\* What is known of the shim in hand.
LEMMA ShimInHand ==
    ASSUME CascInv, NEW o \in Openers, casc[o].pc \in Trying
    PROVE  /\ Head(casc[o].todo) \in DOMAIN shim
           /\ DOMAIN shim[Head(casc[o].todo)] = {"link", "info"}
           /\ shim[Head(casc[o].todo)].link \in BOOLEAN
           /\ ShimIsOwn(casc[o])
<1>1. casc[o].todo \in Seq(DOMAIN disk.builds) /\ casc[o].todo # <<>>
  BY DEF CascInv, Sound
<1> QED BY <1>1 DEF CascInv, CascShape

LEMMA ShimSteps ==
    ASSUME CascInv, NEW o \in Openers, Unlink(o) \/ Truncate(o) \/ Fill(o)
    PROVE  CascInv'
<1> DEFINE c == casc[o]
           s == shim[Head(c.todo)]
<1>1. CASE Unlink(o)
  <2>1. /\ c.pc = "unlink" /\ disk' = disk /\ casc' = [casc EXCEPT ![o].pc = "link"]
        /\ shim' = [shim EXCEPT ![Head(c.todo)].link = FALSE]
    BY <1>1 DEF Unlink, At, Goes, Unlinked
  <2>2. c.pc \in Trying /\ "link" \in Trying
    BY <2>1 DEF Trying
  <2>3. PICK t : t = [s EXCEPT !.link = FALSE]
    OBVIOUS
  <2>4. DOMAIN t = {"link", "info"} /\ t.link = FALSE
    BY <2>2, <2>3, ShimInHand
  <2>5. shim' = [shim EXCEPT ![Head(c.todo)] = t]
    BY <2>1, <2>3
  <2> QED BY <2>1, <2>2, <2>4, <2>5, ShimStep
<1>2. CASE Truncate(o)
  <2>1. /\ c.pc = "truncate" /\ disk' = disk /\ casc' = [casc EXCEPT ![o].pc = "fill"]
        /\ shim' = [shim EXCEPT ![Head(c.todo)].info = "empty"]
    BY <1>2 DEF Truncate, At, Goes
  <2>2. c.pc \in Trying /\ "fill" \in Trying
    BY <2>1 DEF Trying
  <2>3. PICK t : t = [s EXCEPT !.info = "empty"]
    OBVIOUS
  <2>4. DOMAIN t = {"link", "info"} /\ t.info = "empty" /\ t.link = s.link
    BY <2>2, <2>3, ShimInHand
  <2>5. c.clean => s.link
    BY <2>1, <2>2, ShimInHand DEF ShimIsOwn
  <2>6. shim' = [shim EXCEPT ![Head(c.todo)] = t] /\ t.link \in BOOLEAN
    BY <2>1, <2>2, <2>3, <2>4, ShimInHand
  <2> QED BY <2>1, <2>2, <2>4, <2>5, <2>6, ShimStep
<1>3. CASE Fill(o)
  <2>1. c.pc = "fill" /\ disk' = disk /\ casc' = [casc EXCEPT ![o].pc = "try"]
    BY <1>3 DEF Fill, At, Goes
  <2>2. PICK info \in {c.product} \cup (IF s.info = "empty" THEN {} ELSE {"mixed"}) :
           shim' = [shim EXCEPT ![Head(c.todo)].info = info]
    BY <1>3 DEF Fill
  <2>3. c.pc \in Trying /\ "try" \in Trying
    BY <2>1 DEF Trying
  <2>4. PICK t : t = [s EXCEPT !.info = info]
    OBVIOUS
  <2>5. DOMAIN t = {"link", "info"} /\ t.info = info /\ t.link = s.link
    BY <2>3, <2>4, ShimInHand
  <2>6. c.clean => s.link /\ s.info = "empty"
    BY <2>1, <2>3, ShimInHand DEF ShimIsOwn
  <2>7. c.clean => info = c.product
    BY <2>2, <2>6
  <2>8. shim' = [shim EXCEPT ![Head(c.todo)] = t] /\ t.link \in BOOLEAN
    BY <2>2, <2>3, <2>4, <2>5, ShimInHand
  <2> QED BY <2>1, <2>3, <2>5, <2>6, <2>7, <2>8, ShimStep
<1> QED BY <1>1, <1>2, <1>3

\* An open under way that fails.
LEMMA FailKeeps ==
    ASSUME CascInv, NEW o \in Openers, casc[o].pc \in Trying, NEW c, NEW err,
           c = casc[o] \/ c = [casc[o] EXCEPT !.clean = FALSE],
           c.clean => err = "StorageOpenFailed" /\ disk.matches = {} /\ c.product \notin disk.plain,
           casc' = [casc EXCEPT ![o] = Failed(c, err)], UNCHANGED <<disk, shim>>
    PROVE  CascInv'
<1>1. DOMAIN casc[o] = DOMAIN NotOpen /\ casc[o].clean \in BOOLEAN
  BY DEF CascInv, CascShape
<1>2. c.clean \in BOOLEAN /\ (c.clean => casc[o].clean)
  BY <1>1 DEF NotOpen
<1>3. PICK d : d = Failed(c, err)
  OBVIOUS
<1>4. Sound(d) /\ DOMAIN d = DOMAIN NotOpen /\ d.clean = c.clean /\ d.pc = "idle"
  BY <1>2, <1>3, FailedIsSound
<1>5. ShimIsOwn(d)'
  BY <1>4 DEF ShimIsOwn
<1>6. Midway(o) /\ casc' = [casc EXCEPT ![o] = d]
  BY <1>3 DEF Midway, Trying
<1>7. \A k \in DOMAIN shim : DOMAIN shim'[k] = {"link", "info"} /\ shim'[k].link \in BOOLEAN
  BY DEF CascInv, CascShape
<1> QED BY <1>2, <1>4, <1>5, <1>6, <1>7, OneStep

LEMMA LinkKeeps == ASSUME CascInv, NEW o \in Openers, Link(o) PROVE CascInv'
<1> DEFINE c == casc[o]
           s == shim[Head(c.todo)]
<1>1. c.pc = "link" /\ c.pc \in Trying /\ "truncate" \in Trying /\ disk' = disk
  BY DEF Link, At, Trying
<1>2. CASE s.link
  <2>1. casc' = [casc EXCEPT ![o] = Failed(c, "IoError")] /\ UNCHANGED <<disk, shim>>
    BY <1>2 DEF Link
  <2>2. ~c.clean
    BY <1>1, <1>2, ShimInHand DEF ShimIsOwn
  <2> QED BY <1>1, <2>1, <2>2, FailKeeps
<1>3. CASE ~s.link
  <2>1. casc' = [casc EXCEPT ![o].pc = "truncate"] /\ shim' = [shim EXCEPT ![Head(c.todo)].link = TRUE]
    BY <1>3 DEF Link, Goes
  <2>2. PICK t : t = [s EXCEPT !.link = TRUE]
    OBVIOUS
  <2>3. DOMAIN t = {"link", "info"} /\ t.link = TRUE
    BY <1>1, <2>2, ShimInHand
  <2>4. shim' = [shim EXCEPT ![Head(c.todo)] = t]
    BY <2>1, <2>2
  <2> QED BY <1>1, <2>1, <2>3, <2>4, ShimStep
<1> QED BY <1>2, <1>3

\* The head of the order that does not match is passed over.
LEMMA TailIsSound ==
    ASSUME CascShape, NEW c, Sound(c), c.pc \in Trying, Len(c.todo) # 1,
           c.clean => Head(c.todo) \notin disk.matches
    PROVE  /\ Tail(c.todo) \in Seq(DOMAIN disk.builds) /\ Tail(c.todo) # <<>>
           /\ \A i, j \in DOMAIN Tail(c.todo) : i < j => ~Ranks(Tail(c.todo)[j], Tail(c.todo)[i], c.build)
           /\ c.clean => disk.matches \subseteq ToSet(Tail(c.todo))
<1> DEFINE s == c.todo
           t == Tail(c.todo)
<1>1. /\ s \in Seq(DOMAIN disk.builds) /\ s # <<>>
      /\ \A i, j \in DOMAIN s : i < j => ~Ranks(s[j], s[i], c.build)
      /\ c.clean => disk.matches \subseteq ToSet(s)
  BY DEF Sound
<1>2. /\ Len(s) \in Nat /\ Len(s) > 1 /\ DOMAIN s = 1 .. Len(s)
      /\ t \in Seq(DOMAIN disk.builds) /\ Len(t) = Len(s) - 1 /\ DOMAIN t = 1 .. (Len(s) - 1)
      /\ \A i \in DOMAIN t : t[i] = s[i + 1]
      /\ Head(s) = s[1]
  <2> PICK q : q = s
    OBVIOUS
  <2>1. q \in Seq(DOMAIN disk.builds) /\ q # <<>> /\ Len(q) # 1
    BY <1>1
  <2>2. Len(q) \in Nat /\ Len(q) > 1 /\ DOMAIN q = 1 .. Len(q) /\ Head(q) = q[1]
    <3>1. Len(q) \in Nat \ {0}
      BY ONLY <2>1, EmptySeq
    <3>2. Len(q) > 1
      <4>1. \A n \in Nat \ {0} : n # 1 => n > 1
        OBVIOUS
      <4> QED BY ONLY <2>1, <3>1, <4>1
    <3>3. DOMAIN q = 1 .. Len(q) /\ Head(q) = q[1]
      BY ONLY <2>1
    <3> QED BY ONLY <3>1, <3>2, <3>3
  <2>3. Tail(q) \in Seq(DOMAIN disk.builds) /\ Len(Tail(q)) = Len(q) - 1
    BY ONLY <2>1, <2>2
  <2>4. DOMAIN Tail(q) = 1 .. (Len(q) - 1) /\ \A i \in DOMAIN Tail(q) : Tail(q)[i] = q[i + 1]
    BY ONLY <2>1, <2>2, <2>3
  <2> QED BY <2>2, <2>3, <2>4
<1> HIDE DEF s, t
<1>3. \A i, j \in DOMAIN t : i < j => ~Ranks(t[j], t[i], c.build)
  BY <1>1, <1>2
<1>4. ASSUME c.clean, NEW k \in disk.matches PROVE k \in ToSet(t)
  <2>1. PICK i \in DOMAIN s : s[i] = k
    BY <1>1, <1>4 DEF ToSet
  <2>2. k # Head(s)
    BY <1>4 DEF s
  <2>3. i - 1 \in DOMAIN t /\ t[i - 1] = k
    BY <1>2, <2>1, <2>2
  <2> QED BY <2>3 DEF ToSet
<1>5. t # <<>>
  BY <1>2
<1> QED BY <1>2, <1>3, <1>4, <1>5 DEF t

LEMMA TryKeeps == ASSUME CascInv, CascAssumption, NEW o \in Openers, Try(o) PROVE CascInv'
<1> DEFINE c == casc[o]
<1>1. c.pc = "try" /\ c.pc \in Trying /\ Midway(o) /\ UNCHANGED <<disk, shim>>
  BY DEF Try, At, Trying, Midway
<1>2. PICK opened \in Opens(c) :
        casc' = [casc EXCEPT ![o] =
          IF opened THEN [c EXCEPT !.pc = "open", !.key = Head(c.todo), !.todo = <<>>]
          ELSE IF Len(c.todo) = 1 THEN Failed(c, "StorageOpenFailed")
          ELSE [c EXCEPT !.pc = "unlink", !.todo = Tail(c.todo)]]
  BY DEF Try
<1>3. /\ DOMAIN c = DOMAIN NotOpen /\ c.clean \in BOOLEAN /\ Sound(c) /\ CascShape
      /\ \A k \in DOMAIN shim : DOMAIN shim'[k] = {"link", "info"} /\ shim'[k].link \in BOOLEAN
  BY <1>1 DEF CascInv, CascShape
<1>4. c.clean => c.product \notin disk.plain
  BY <1>1, <1>3 DEF Sound
<1>5. /\ opened => Head(c.todo) \in disk.matches
      /\ c.clean /\ ~opened => Head(c.todo) \notin disk.matches
  <2>1. c.clean => shim[Head(c.todo)].link /\ shim[Head(c.todo)].info = c.product
    BY <1>1, ShimInHand DEF ShimIsOwn
  <2> QED BY <2>1 DEF Opens
<1>6. CASE opened
  <2>1. PICK d : d = [c EXCEPT !.pc = "open", !.key = Head(c.todo), !.todo = <<>>]
    OBVIOUS
  <2>2. casc' = [casc EXCEPT ![o] = d]
    BY <1>2, <1>6, <2>1
  <2>3. /\ DOMAIN d = DOMAIN NotOpen /\ d.clean = c.clean /\ d.product = c.product /\ d.build = c.build
        /\ d.err = c.err /\ d.pc = "open" /\ d.key = Head(c.todo)
    BY <1>3, <2>1 DEF NotOpen
  <2>4. c.clean => IsBest(d)
    BY <1>1, <1>3, <1>5, <1>6, <2>3, FirstIsBest
  <2> HIDE DEF c
  <2>5. Sound(d)
    BY <1>3, <1>5, <1>6, <2>3, <2>4 DEF Sound, Trying
  <2>6. ShimIsOwn(d)'
    BY <2>3 DEF ShimIsOwn
  <2> QED BY <1>1, <1>3, <2>2, <2>3, <2>5, <2>6, OneStep DEF c
<1>7. CASE ~opened /\ Len(c.todo) = 1
  <2>1. c.clean => disk.matches = {}
    <3> SUFFICES ASSUME c.clean, NEW k \in disk.matches PROVE FALSE
      OBVIOUS
    <3>1. PICK i \in DOMAIN c.todo : c.todo[i] = k
      BY <1>1, <1>3 DEF Sound, ToSet
    <3>2. i = 1 /\ Head(c.todo) = c.todo[1]
      BY <1>1, <1>3, <1>7 DEF Sound
    <3> QED BY <1>5, <1>7, <3>1, <3>2
  <2> QED BY <1>1, <1>2, <1>4, <1>7, <2>1, FailKeeps
<1>8. CASE ~opened /\ Len(c.todo) # 1
  <2>1. PICK d : d = [c EXCEPT !.pc = "unlink", !.todo = Tail(c.todo)]
    OBVIOUS
  <2>2. casc' = [casc EXCEPT ![o] = d]
    BY <1>2, <1>8, <2>1
  <2>3. /\ DOMAIN d = DOMAIN NotOpen /\ d.clean = c.clean /\ d.product = c.product /\ d.build = c.build
        /\ d.err = c.err /\ d.pc = "unlink" /\ d.todo = Tail(c.todo)
    BY <1>3, <2>1 DEF NotOpen
  <2>4. /\ d.todo \in Seq(DOMAIN disk.builds) /\ d.todo # <<>>
        /\ \A i, j \in DOMAIN d.todo : i < j => ~Ranks(d.todo[j], d.todo[i], d.build)
        /\ d.clean => disk.matches \subseteq ToSet(d.todo)
    BY <1>1, <1>3, <1>5, <1>8, <2>3, TailIsSound
  <2> HIDE DEF c
  <2>5. Sound(d)
    BY <1>3, <1>4, <2>3, <2>4 DEF Sound, Trying
  <2>6. ShimIsOwn(d)'
    BY <2>3 DEF ShimIsOwn
  <2> QED BY <1>1, <1>3, <2>2, <2>3, <2>5, <2>6, OneStep DEF c
<1> QED BY <1>6, <1>7, <1>8

LEMMA OpeningKeeps ==
    ASSUME CascInv, CascAssumption, NEW o \in Openers, CascOpening(o)
    PROVE  CascInv'
<1>1. ASSUME DiskFails(o) PROVE CascInv'
  <2>1. PICK c : c = [casc[o] EXCEPT !.clean = FALSE]
    OBVIOUS
  <2>2. casc' = [casc EXCEPT ![o] = Failed(c, "IoError")] /\ UNCHANGED <<disk, shim>>
    BY <1>1, <2>1 DEF DiskFails
  <2>3. casc[o].pc \in Trying
    BY <1>1 DEF DiskFails, Trying
  <2>4. ~c.clean
    BY <2>1 DEF CascInv, CascShape, NotOpen
  <2> QED BY <2>1, <2>2, <2>3, <2>4, FailKeeps
<1>2. ASSUME Killed(o) PROVE CascInv'
  <2>1. PICK d : d = NotOpen
    OBVIOUS
  <2>2. casc' = [casc EXCEPT ![o] = d] /\ UNCHANGED <<disk, shim>> /\ Midway(o)
    BY <1>2, <2>1 DEF Killed
  <2>3. Sound(d) /\ d.clean \in BOOLEAN /\ ~d.clean /\ DOMAIN d = DOMAIN NotOpen
    BY <2>1, NotOpenIsSound
  <2>4. ShimIsOwn(d)'
    BY <2>3 DEF ShimIsOwn
  <2>5. \A k \in DOMAIN shim : DOMAIN shim'[k] = {"link", "info"} /\ shim'[k].link \in BOOLEAN
    BY <2>2 DEF CascInv, CascShape
  <2> QED BY <2>2, <2>3, <2>4, <2>5, OneStep
<1> QED BY <1>1, <1>2, TryPlainKeeps, ScanKeeps, ShimSteps, LinkKeeps, TryKeeps DEF CascOpening

\* A step of a call that is not under way: what it leaves is neither.
LEMMA RestingStep ==
    ASSUME CascInv, NEW o \in Openers, ~Midway(o), NEW d, DOMAIN d = DOMAIN NotOpen,
           d.clean \in BOOLEAN, d.pc \in {"idle", "open"}, Sound(d),
           casc' = [casc EXCEPT ![o] = d], UNCHANGED <<disk, shim>>
    PROVE  CascInv'
<1>1. casc'[o] = d /\ \A q \in Openers : q # o => casc'[q] = casc[q]
  BY DEF CascInv, CascShape
<1>2. CascShape'
  BY <1>1 DEF CascInv, CascShape
<1>3. \A q \in Openers : Midway(q)' <=> (q # o /\ Midway(q))
  BY <1>1 DEF Midway
<1>4. ASSUME NEW q \in Openers PROVE Sound(casc[q])' /\ ShimIsOwn(casc[q])' /\ IsAlone(q)'
  <2>1. Sound(casc'[q])
    BY <1>1 DEF CascInv
  <2>2. Sound(casc[q])'
    BY <2>1 DEF Sound, IsBest, Ranks
  <2>3. ShimIsOwn(casc[q])'
    <3>1. CASE q = o
      BY <3>1, <1>1 DEF ShimIsOwn
    <3>2. CASE q # o
      BY <3>2, <1>1 DEF CascInv, ShimIsOwn
    <3> QED BY <3>1, <3>2
  <2>4. IsAlone(q)'
    BY <1>1, <1>3 DEF CascInv, IsAlone
  <2> QED BY <2>2, <2>3, <2>4
<1> QED BY <1>2, <1>4 DEF CascInv

LEMMA BeginKeeps ==
    ASSUME CascInv, NEW o \in Openers, NEW product, NEW build, CascBegin(o, product, build)
    PROVE  CascInv'
<1>1. PICK begun : begun = [NotOpen EXCEPT !.pc = "plain", !.product = product, !.build = build,
                                           !.clean = \A r \in Openers : ~Midway(r)]
  OBVIOUS
<1>2. /\ DOMAIN begun = DOMAIN NotOpen /\ begun.pc = "plain" /\ begun.err = "none" /\ begun.clean \in BOOLEAN
      /\ begun.clean => \A r \in Openers : ~Midway(r)
  BY <1>1 DEF NotOpen
<1>3. /\ casc' = [q \in Openers |-> IF q = o THEN begun
                                   ELSE IF Midway(q) THEN [casc[q] EXCEPT !.clean = FALSE] ELSE casc[q]]
      /\ UNCHANGED <<disk, shim>>
  BY <1>1 DEF CascBegin
<1>4. /\ casc'[o] = begun
      /\ \A q \in Openers : q # o /\ Midway(q) => casc'[q] = [casc[q] EXCEPT !.clean = FALSE]
      /\ \A q \in Openers : q # o /\ ~Midway(q) => casc'[q] = casc[q]
  BY <1>3
<1>5. Sound(begun)
  BY <1>2 DEF Sound, Trying
<1>6. ASSUME NEW q \in Openers, q # o, Midway(q)
      PROVE  /\ DOMAIN casc'[q] = DOMAIN NotOpen /\ casc'[q].clean = FALSE /\ Sound(casc'[q])
             /\ casc'[q].pc = casc[q].pc
  <2>1. PICK d : d = casc'[q]
    OBVIOUS
  <2>2. PICK c : c = casc[q]
    OBVIOUS
  <2>3. d = [c EXCEPT !.clean = FALSE] /\ DOMAIN c = DOMAIN NotOpen /\ Sound(c)
    BY <1>4, <1>6, <2>1, <2>2 DEF CascInv, CascShape
  <2>4. /\ DOMAIN d = DOMAIN NotOpen /\ d.clean = FALSE /\ d.product = c.product /\ d.build = c.build
        /\ d.pc = c.pc /\ d.key = c.key /\ d.todo = c.todo
    BY <2>3 DEF NotOpen
  <2>5. Sound(d)
    BY <2>3, <2>4 DEF Sound
  <2> QED BY <2>1, <2>2, <2>4, <2>5
<1>7. ASSUME NEW q \in Openers PROVE Sound(casc'[q])
  BY <1>4, <1>5, <1>6 DEF CascInv
<1>8. ASSUME NEW q \in Openers PROVE Sound(casc[q])'
  BY <1>3, <1>7 DEF Sound, IsBest, Ranks
<1>9. ASSUME NEW q \in Openers PROVE ShimIsOwn(casc[q])'
  <2>1. CASE q = o
    BY <2>1, <1>2, <1>4 DEF ShimIsOwn
  <2>2. CASE q # o /\ Midway(q)
    BY <2>2, <1>6 DEF ShimIsOwn
  <2>3. CASE q # o /\ ~Midway(q)
    BY <2>3, <1>3, <1>4 DEF CascInv, ShimIsOwn
  <2> QED BY <2>1, <2>2, <2>3
<1>10. ASSUME NEW q \in Openers PROVE IsAlone(q)'
  <2>1. CASE q = o
    BY <2>1, <1>2, <1>4 DEF IsAlone, Midway
  <2>2. CASE q # o /\ Midway(q)
    BY <2>2, <1>6 DEF IsAlone
  <2>3. CASE q # o /\ ~Midway(q)
    BY <2>3, <1>4 DEF IsAlone, Midway
  <2> QED BY <2>1, <2>2, <2>3
<1>11. CascShape'
  <2>1. disk' \in Clients /\ DOMAIN shim' = DOMAIN disk'.builds /\ DOMAIN casc' = Openers
        /\ \A k \in DOMAIN shim' : DOMAIN shim'[k] = {"link", "info"} /\ shim'[k].link \in BOOLEAN
    BY <1>3 DEF CascInv, CascShape
  <2>2. ASSUME NEW q \in Openers PROVE DOMAIN casc'[q] = DOMAIN NotOpen /\ casc'[q].clean \in BOOLEAN
    BY <1>2, <1>4, <1>6 DEF CascInv, CascShape
  <2> QED BY <2>1, <2>2 DEF CascShape
<1> QED BY <1>8, <1>9, <1>10, <1>11 DEF CascInv

---------------------------------------------------------------------------
(* The gateway.                                                             *)

\* The invariant: the storage's, and that the listfile is a sequence.
GateInv ==
    /\ CascInv
    /\ lines \in Seq(ToSet(lines))

LEMMA GateInvInit ==
    ASSUME CascAssumption, FileSystemAssumption
    PROVE  FsInit => GateInv
<1> SUFFICES ASSUME FsInit PROVE GateInv
  OBVIOUS
<1>1. disk \in Clients /\ lines \in Seq(ToSet(lines))
  <2>1. AnyClient \in Clients
    BY DEF AnyClient, FileSystemAssumption
  <2>2. <<>> \in Seq(ToSet(<<>>))
    BY DEF ToSet
  <2> QED BY <2>1, <2>2 DEF FsInit, FileSystemAssumption
<1>2. /\ shim = [k \in DOMAIN disk.builds |-> NoShim]
      /\ casc = [o \in Openers |-> NotOpen]
  BY DEF FsInit, CascInit
<1>3. CascShape
  BY <1>1, <1>2, NotOpenIsSound DEF CascShape, NoShim
<1>4. ASSUME NEW o \in Openers PROVE Sound(casc[o]) /\ ShimIsOwn(casc[o]) /\ IsAlone(o)
  <2>1. casc[o] = NotOpen
    BY <1>2
  <2> QED BY <2>1, NotOpenIsSound DEF IsAlone
<1> QED BY <1>1, <1>3, <1>4 DEF GateInv, CascInv

LEMMA GateInvNext ==
    ASSUME CascAssumption
    PROVE  GateInv /\ [FsNext]_fsVars => GateInv'
<1> SUFFICES ASSUME GateInv, [FsNext]_fsVars PROVE GateInv'
  OBVIOUS
<1> USE DEF GateInv
<1>1. lines' = lines
  BY DEF FsNext, OpenMpq, StepMpq, ProjectRefused, OpenCasc, OpenRefused, FsClose, FsImportKeys, StepCasc, fsVars
<1>2. (lines \in Seq(ToSet(lines)))'
  BY <1>1
<1>3. ASSUME UNCHANGED cascVars PROVE CascInv'
  <2>1. CascShape'
    BY <1>3 DEF CascInv, CascShape, cascVars
  <2>2. ASSUME NEW o \in Openers PROVE Sound(casc[o])' /\ ShimIsOwn(casc[o])' /\ IsAlone(o)'
    BY <1>3 DEF CascInv, cascVars, Sound, IsBest, Ranks, ShimIsOwn, IsAlone, Midway
  <2> QED BY <2>1, <2>2 DEF CascInv
<1>4. ASSUME NEW o \in Openers, NEW d, casc' = [casc EXCEPT ![o] = d], UNCHANGED <<disk, shim>>, At(o, "idle"),
             \E err : d = [NotOpen EXCEPT !.err = err]
      PROVE  CascInv'
  <2>1. DOMAIN d = DOMAIN NotOpen /\ d.clean = FALSE /\ d.pc = "idle" /\ ~Midway(o)
    BY <1>4 DEF NotOpen, Midway, At
  <2>2. Sound(d)
    BY <2>1 DEF Sound, Trying
  <2> QED BY <1>4, <2>1, <2>2, RestingStep
<1>5. ASSUME NEW o \in Openers, ProjectRefused(o) PROVE CascInv'
  <2>1. CASE kind = "Mpq"
    BY <2>1, <1>3, <1>5 DEF ProjectRefused, cascVars
  <2>2. CASE kind # "Mpq"
    BY <2>2, <1>4, <1>5 DEF ProjectRefused
  <2> QED BY <2>1, <2>2
<1>6. ASSUME NEW o \in Openers, OpenRefused(o) PROVE CascInv'
  BY <1>4, <1>6 DEF OpenRefused
<1>7. ASSUME NEW o \in Openers, OpenCasc(o) PROVE CascInv'
  BY <1>7, BeginKeeps DEF OpenCasc
<1>8. ASSUME NEW o \in Openers, FsClose(o) PROVE CascInv'
  <2>1. PICK d : d = NotOpen
    OBVIOUS
  <2>2. ~Midway(o) /\ casc' = [casc EXCEPT ![o] = d] /\ UNCHANGED <<disk, shim>>
    BY <1>8, <2>1 DEF FsClose, CascClose, Midway, At
  <2>3. Sound(d) /\ DOMAIN d = DOMAIN NotOpen /\ d.clean \in BOOLEAN /\ d.pc = "idle"
    BY <2>1, NotOpenIsSound DEF NotOpen
  <2> QED BY <2>2, <2>3, RestingStep
<1>9. ASSUME NEW o \in Openers, FsImportKeys(o) PROVE CascInv'
  <2>1. PICK keys : casc' = [casc EXCEPT ![o].tact = @ \cup keys]
    BY <1>9 DEF FsImportKeys, ImportKeys
  <2>2. ~Midway(o) /\ casc[o].pc = "open" /\ UNCHANGED <<disk, shim>>
    BY <1>9 DEF FsImportKeys, ImportKeys, Midway, At
  <2>3. PICK c : c = casc[o]
    OBVIOUS
  <2>4. PICK d : d = [c EXCEPT !.tact = @ \cup keys]
    OBVIOUS
  <2>5. Sound(c) /\ DOMAIN c = DOMAIN NotOpen /\ c.clean \in BOOLEAN
    BY <2>3 DEF CascInv, CascShape
  <2>6. /\ DOMAIN d = DOMAIN NotOpen /\ d.clean = c.clean /\ d.product = c.product /\ d.build = c.build
        /\ d.pc = c.pc /\ d.key = c.key /\ d.todo = c.todo /\ d.err = c.err
    BY <2>4, <2>5 DEF NotOpen
  <2>7. IsBest(c) => IsBest(d)
    BY <2>6 DEF IsBest
  <2>8. Sound(d)
    BY <2>5, <2>6, <2>7 DEF Sound
  <2>9. casc' = [casc EXCEPT ![o] = d]
    BY <2>1, <2>3, <2>4
  <2> QED BY <2>2, <2>3, <2>5, <2>6, <2>8, <2>9, RestingStep
<1>10. ASSUME NEW o \in Openers, StepCasc(o) PROVE CascInv'
  BY <1>10, OpeningKeeps DEF StepCasc
<1>11. ASSUME OpenMpq \/ StepMpq \/ UNCHANGED fsVars PROVE CascInv'
  BY <1>3, <1>11 DEF OpenMpq, StepMpq, fsVars
<1> QED BY <1>2, <1>5, <1>6, <1>7, <1>8, <1>9, <1>10, <1>11 DEF FsNext

\* What the run checks follows from the invariant.
LEMMA GateInvImplies == GateInv => GatewayOpensItsClient
<1> SUFFICES ASSUME GateInv PROVE GatewayOpensItsClient
  OBVIOUS
<1>1. OpensTheBest
  BY DEF GateInv, CascInv, Sound, IsBest, OpensTheBest
<1>2. ListedIsReadable
  BY ReadableIfListed DEF GateInv, ListedIsReadable
<1> QED BY <1>1, <1>2 DEF GatewayOpensItsClient

\* Every open of a CASC client, next to opens of other threads and processes
\* that share its shim directories, fail or are killed anywhere, gets a storage
\* of the client's; alone, it gets the build asked for or the newest; and what
\* the gateway lists, it can read (FileSystem::open, CascStorage::open).
THEOREM OpensItsClient == FsSpec => []GatewayOpensItsClient
<1>1. FsInit => GateInv
  BY GateInvInit, CascAssumption, FileSystemAssumption
<1>2. GateInv /\ [FsNext]_fsVars => GateInv'
  BY GateInvNext, CascAssumption
<1>3. GateInv => GatewayOpensItsClient
  BY GateInvImplies
<1> QED BY <1>1, <1>2, <1>3, PTL DEF FsSpec

---------------------------------------------------------------------------
(* The storage behind the gateway.                                          *)

\* The gateway's steps as steps of MpqStorage (FileSystem::open, close).
LEMMA GatewayRunsItsStorage == FsSpec => MqSpec
<1>1. FsInit => MqInit
  BY DEF FsInit
<1>2. [FsNext]_fsVars => [MqNext]_mvars
  <2> SUFFICES ASSUME [FsNext]_fsVars PROVE [MqNext]_mvars
    OBVIOUS
  <2>1. CASE StepMpq
    BY <2>1 DEF StepMpq
  <2>2. CASE OpenMpq \/ UNCHANGED fsVars
    BY <2>2 DEF OpenMpq, fsVars
  <2>3. ASSUME NEW o \in Openers,
               ProjectRefused(o) \/ OpenCasc(o) \/ OpenRefused(o) \/ FsClose(o) \/ FsImportKeys(o) \/ StepCasc(o)
        PROVE  UNCHANGED mvars
    BY <2>3 DEF ProjectRefused, OpenCasc, OpenRefused, FsClose, FsImportKeys, StepCasc
  <2> QED BY <2>1, <2>2, <2>3 DEF FsNext
<1> QED BY <1>1, <1>2, PTL DEF FsSpec, MqSpec

\* What the gateway's run checks of an MPQ client, for every installation: no
\* handle leaks, the walks agree and a read serves the strongest member.
COROLLARY GatewayServesTheChain ==
    /\ FsSpec => []NoHandleLeaks
    /\ FsSpec /\ ExpandsInClientOrder => [](WalksAgree /\ ServesStrongest)
BY GatewayRunsItsStorage, HandlesAreHeld, TheWalksAgree, ReadsTheStrongest, PTL
=============================================================================
