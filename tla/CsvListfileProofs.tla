------------------------- MODULE CsvListfileProofs -------------------------
(***************************************************************************)
(* Proofs about CsvListfile, for any threads, paths, files and id width.   *)
(***************************************************************************)
EXTENDS CsvListfile, FiniteSetTheorems, TLAPS

(***************************************************************************)
(* The allocator and the operators on lines.                               *)
(***************************************************************************)

\* A number below the modulus is its own residue.
LEMMA ModSmall == \A n, m \in Nat : n < m => n % m = n
  OBVIOUS

\* The ids: the custom range is part of the u32 range, and one past its last
\* id is still a u32.
LEMMA IdFacts ==
  /\ MaxId \in Nat /\ MaxId + 1 = U32 - 1
  /\ CustomIds \subseteq Ids /\ Ids \subseteq Nat
  /\ CustomFdidStart \in Cursors /\ Cursors \subseteq Nat
  BY U32Assumption, StartAssumption DEF MaxId, CustomIds, Ids, Cursors

\* noteExisting never moves the cursor back, leaves it in its range, and
\* leaves it past every custom id it is shown.
LEMMA NoteLineMoves ==
  ASSUME NEW c \in Cursors, NEW i \in Ids
  PROVE  /\ NoteLine(c, i) \in Cursors
         /\ NoteLine(c, i) >= c
         /\ i \in CustomIds => i < NoteLine(c, i)
  <1>1. c \in Nat /\ c >= CustomFdidStart /\ i \in Nat /\ MaxId \in Nat
    BY IdFacts, StartAssumption, U32Assumption DEF Cursors, Ids
  <1>2. i <= MaxId => (i + 1) % U32 = i + 1
    BY <1>1, ModSmall, U32Assumption DEF MaxId
  <1>3. QED
    BY <1>1, <1>2, StartAssumption
    DEF NoteLine, NoteExisting, Cursors, CustomIds

\* An id handed out is in the custom range.
LEMMA NextIsCustom ==
  ASSUME NEW c \in Cursors, ~Exhausted(c)
  PROVE  c \in CustomIds /\ c + 1 \in Cursors /\ c \in Nat
  BY U32Assumption, StartAssumption DEF Exhausted, CustomIds, Cursors, MaxId, Ids

\* Terminating, appending and rewriting keep a file a file.
LEMMA FileOps ==
  ASSUME NEW f \in Seq(Line), NEW line \in Line, NEW k \in Nat \ {0}
  PROVE  /\ Put(f, line) \in Seq(Line)
         /\ WriteAt(f, k, line) \in Seq(Line)
  <1>1. Append(f, line) \in Seq(Line)
    OBVIOUS
  <1>2. ASSUME f # <<>>
        PROVE  [f EXCEPT ![Len(f)] = [@ EXCEPT !.path = Junk, !.nl = line.nl]] \in Seq(Line)
    <2>1. f[Len(f)] \in Line /\ line.nl \in BOOLEAN
      BY <1>2 DEF Line
    <2>2. [f[Len(f)] EXCEPT !.path = Junk, !.nl = line.nl] \in Line
      BY <2>1 DEF Line
    <2>3. QED
      BY <1>2, <2>2
  <1>3. Hole \in Line
    BY DEF Hole, Line
  <1>4. WriteAt(f, k, line) \in Seq(Line)
    <2> DEFINE n == IF k > Len(f) THEN k ELSE Len(f)
    <2>1. n \in Nat
      OBVIOUS
    <2>2. WriteAt(f, k, line) = [j \in 1..n |->
            IF j = k THEN line ELSE IF j <= Len(f) THEN f[j] ELSE Hole]
      BY DEF WriteAt
    <2>3. \A j \in 1..n : (IF j = k THEN line ELSE IF j <= Len(f) THEN f[j] ELSE Hole) \in Line
      BY <1>3
    <2>4. QED
      BY <2>1, <2>2, <2>3
  <1>5. QED
    BY <1>1, <1>2, <1>4 DEF Put

\* The file after the newline registerPath writes first is a file.
LEMMA TerminatedType ==
  ASSUME TypeOK, NEW b
  PROVE  Terminated(b) \in Seq(Line)
  <1>1. ASSUME file # <<>>
        PROVE  [file[Len(file)] EXCEPT !.nl = TRUE] \in Line
    <2>1. file[Len(file)] \in Line
      BY <1>1 DEF TypeOK
    <2>2. QED
      BY <2>1 DEF Line
  <1>2. QED
    BY <1>1 DEF TypeOK, Terminated

(***************************************************************************)
(* Type correctness.                                                       *)
(***************************************************************************)

\* The rank of an entry is a line number, and ranks keep the order of ids.
LEMMA RankFacts ==
  ASSUME TypeOK
  PROVE  /\ \A i \in Known : Rank(i) \in Nat \ {0}
         /\ \A i, j \in Known : i < j => Rank(i) < Rank(j)
  <1> DEFINE Below(i) == {j \in Known : j <= i}
  <1>1. Ids \subseteq Nat /\ Known \subseteq Ids
    BY IdFacts DEF Known
  <1>2. IsFiniteSet(Ids)
    BY FS_Interval, U32Assumption DEF Ids
  <1>3. ASSUME NEW i \in Known
        PROVE  IsFiniteSet(Below(i)) /\ i \in Below(i)
    <2>1. i \in Nat
      BY <1>1
    <2>2. Below(i) \subseteq Ids
      BY <1>1
    <2>3. QED
      BY <1>2, <2>1, <2>2, FS_Subset
  <1>4. ASSUME NEW i \in Known
        PROVE  Rank(i) \in Nat \ {0}
    <2>1. Cardinality(Below(i)) \in Nat /\ Cardinality(Below(i)) # 0
      BY <1>3, FS_CardinalityType, FS_EmptySet
    <2>2. QED
      BY <2>1 DEF Rank
  <1>5. ASSUME NEW i \in Known, NEW j \in Known, i < j
        PROVE  Rank(i) < Rank(j)
    <2>1. Below(i) \subseteq Below(j) /\ j \notin Below(i) /\ j \in Below(j)
      <3>1. \A n \in Known : n \in Nat
        BY <1>1
      <3>2. \A n \in Known : n <= i => n <= j
        BY <1>5, <3>1
      <3>3. j <= j /\ ~(j <= i)
        BY <1>5, <3>1
      <3>4. QED
        BY <3>2, <3>3
    <2>2. Cardinality(Below(i)) < Cardinality(Below(j))
      <3>1. Below(i) # Below(j)
        BY <2>1
      <3>2. /\ IsFiniteSet(Below(i)) /\ IsFiniteSet(Below(j))
            /\ Cardinality(Below(i)) \in Nat /\ Cardinality(Below(j)) \in Nat
        BY <1>3, FS_CardinalityType
      <3>3. /\ Cardinality(Below(i)) <= Cardinality(Below(j))
            /\ Cardinality(Below(i)) = Cardinality(Below(j)) => Below(i) = Below(j)
        BY <2>1, <3>2, FS_Subset
      <3>4. QED
        BY <3>1, <3>2, <3>3
    <2>3. QED
      BY <2>2 DEF Rank
  <1>6. QED
    BY <1>4, <1>5

\* The line save() writes is a line.
LEMMA EntryType ==
  ASSUME TypeOK, NEW i \in Known
  PROVE  Entry(i) \in Line
  BY DEF Entry, Line, TypeOK, Known

\* A thread outside of registerPath and save has a well-typed state.
LEMMA IdleType == IdleThread \in ThreadState
  BY DEF IdleThread, ThreadState

\* A constructed database has the types of TypeOK.
LEMMA InitType == Init => TypeOK
  <1> SUFFICES ASSUME Init PROVE TypeOK
    OBVIOUS
  <1>1. file \in Seq(Line)
    <2>1. <<>> \in Seq(Line)
      OBVIOUS
    <2>2. QED
      BY <2>1, SourceAssumption DEF Init
  <1>2. th \in [Threads -> ThreadState]
    BY IdleType DEF Init
  <1>3. acked \subseteq [path : Paths, id : CustomIds]
    BY DEF Init
  <1>4. /\ pathToId \in [CanonPaths -> Ids \cup {NoId}]
        /\ idToPath \in [Ids -> CanonPaths \cup {NoPath}]
    BY DEF Init, NoPathToId, NoIdToPath
  <1>5. hurt \in BOOLEAN /\ hasSource \in BOOLEAN
    BY Zenon DEF Init
  <1>6. /\ phase \in {"down", "loading", "up"} /\ lineNo \in Nat \ {0}
        /\ next \in Cursors /\ crashes \in Nat
    BY IdFacts DEF Init
  <1>7. QED
    BY <1>1, <1>2, <1>3, <1>4, <1>5, <1>6 DEF TypeOK

\* Every step keeps the types.
LEMMA TypeStep ==
  ASSUME TypeOK, WriterInv, [Next]_vars
  PROVE  TypeOK'
  <1> USE DEF TypeOK, mem, ghosts
  <1>1. CASE Open
    BY <1>1, IdFacts DEF Open, NoPathToId, NoIdToPath
  <1>2. CASE LoadLine
    <2> DEFINE line == file[lineNo]
    <2>1. line \in Line
      BY <1>2 DEF LoadLine
    <2>2. CASE line.path = Blank
      BY <1>2, <2>2 DEF LoadLine
    <2>3. CASE line.path # Blank
      <3>1. line.id \in Ids /\ line.path \in CanonPaths
        BY <1>2, <2>1, <2>3 DEF Line, LoadLine
      <3>2. NoteLine(next, line.id) \in Cursors
        BY <3>1, NoteLineMoves
      <3>3. QED
        BY <1>2, <2>3, <3>1, <3>2 DEF LoadLine
    <2>4. QED
      BY <2>2, <2>3
  <1>3. CASE LoadFail
    BY <1>3, IdFacts DEF LoadFail, NoPathToId, NoIdToPath
  <1>4. CASE LoadDone
    BY <1>4 DEF LoadDone
  <1>5. CASE Crash
    <2>1. /\ pathToId' \in [CanonPaths -> Ids \cup {NoId}]
          /\ idToPath' \in [Ids -> CanonPaths \cup {NoPath}]
      BY <1>5 DEF Crash, NoPathToId, NoIdToPath
    <2>2. th' \in [Threads -> ThreadState]
      BY <1>5, IdleType DEF Crash
    <2>3. acked' \subseteq [path : Paths, id : CustomIds]
      BY <1>5 DEF Crash
    <2>4. hurt' \in BOOLEAN
      BY <1>5, Zenon DEF Crash
    <2>5. /\ phase' \in {"down", "loading", "up"} /\ lineNo' \in Nat \ {0}
          /\ next' \in Cursors /\ crashes' \in Nat
      BY <1>5, IdFacts DEF Crash
    <2>6. UNCHANGED <<file, hasSource>>
      BY <1>5 DEF Crash
    <2>7. QED
      BY <2>1, <2>2, <2>3, <2>4, <2>5, <2>6
  <1>6. ASSUME NEW t \in Threads, Register(t)
        PROVE  TypeOK'
    <2>1. ASSUME NEW s \in Spellings, RegisterRefused(t, s)
          PROVE  TypeOK'
      BY <2>1 DEF RegisterRefused, vars
    <2>2. ASSUME NEW s \in Spellings, RegisterBegin(t, s)
          PROVE  TypeOK'
      <3>1. Norm[s] \in Paths
        BY <2>2, PathAssumption DEF RegisterBegin, CanonPaths
      <3>2. next \in Ids /\ next + 1 \in Cursors
        BY <2>2, NextIsCustom, IdFacts DEF RegisterBegin
      <3>3. QED
        BY <2>2, <3>1, <3>2 DEF RegisterBegin, ThreadState, WriterPCs
    <2>3. CASE ReadTail(t)
      <3>1. NeedsNewline \in BOOLEAN
        BY DEF NeedsNewline, Line
      <3>2. QED
        BY <2>3, <3>1 DEF ReadTail, ThreadState, WriterPCs
    <2>4. CASE Persist(t)
      <3> DEFINE line == [id |-> th[t].id, path |-> th[t].path, nl |-> TRUE]
      <3>1. line \in Line
        BY <2>4, IdFacts DEF Persist, WriterInv, Writers, WriterPCs, Line, CanonPaths
      <3>2. Terminated(th[t].nl) \in Seq(Line)
        BY TerminatedType
      <3>3. file' \in Seq(Line)
        BY <2>4, <3>1, <3>2, FileOps DEF Persist
      <3>4. QED
        BY <2>4, <3>3 DEF Persist, ThreadState, WriterPCs
    <2>5. CASE PersistFail(t)
      <3>1. Terminated(th[t].nl) \in Seq(Line)
        BY TerminatedType
      <3>2. TornLines(t) \subseteq Line
        <4>1. th[t].path \in Paths /\ th[t].id \in Ids
          BY <2>5, IdFacts DEF PersistFail, WriterInv, Writers, WriterPCs
        <4>2. Cut[th[t].path] \subseteq CanonPaths
          BY <4>1, PathAssumption DEF CanonPaths
        <4>3. \A p \in CanonPaths : [id |-> th[t].id, path |-> p, nl |-> FALSE] \in Line
          BY <4>1 DEF Line
        <4>4. [id |-> NoId, path |-> Junk, nl |-> FALSE] \in Line
          BY DEF Line
        <4>5. QED
          BY <4>1, <4>2, <4>3, <4>4 DEF TornLines, CanonPaths
      <3>3. file' \in Seq(Line)
        BY <2>5, <3>1, <3>2, FileOps DEF PersistFail
      <3>4. QED
        BY <2>5, <3>3 DEF PersistFail, IdleThread, ThreadState
    <2>6. CASE Publish(t)
      <3>1. th[t].path \in Paths /\ th[t].id \in CustomIds
        BY <2>6 DEF Publish, WriterInv, Writers, WriterPCs
      <3>2. QED
        <4>1. /\ pathToId' \in [CanonPaths -> Ids \cup {NoId}]
              /\ idToPath' \in [Ids -> CanonPaths \cup {NoPath}]
          BY <2>6, <3>1, IdFacts DEF Publish, CanonPaths
        <4>2. th' \in [Threads -> ThreadState]
          BY <2>6, IdleType DEF Publish
        <4>3. acked' \subseteq [path : Paths, id : CustomIds]
          BY <2>6, <3>1 DEF Publish
        <4>4. QED
          BY <2>6, <4>1, <4>2, <4>3 DEF Publish
    <2>7. QED
      BY <1>6, <2>1, <2>2, <2>3, <2>4, <2>5, <2>6 DEF Register
  <1>7. ASSUME NEW t \in Threads, Save(t)
        PROVE  TypeOK'
    <2>1. CASE SaveBegin(t)
      <3>1. [IdleThread EXCEPT !.pc = "save"] \in ThreadState
        BY DEF IdleThread, ThreadState
      <3>2. <<>> \in Seq(Line)
        OBVIOUS
      <3>3. hurt' \in BOOLEAN
        BY <2>1, Zenon DEF SaveBegin
      <3>4. QED
        BY <2>1, <3>1, <3>2, <3>3 DEF SaveBegin
    <2>2. CASE SaveEntry(t)
      <3>1. PICK i \in Unwritten(t) : /\ file' = WriteAt(file, Rank(i), Entry(i))
                                      /\ th' = [th EXCEPT ![t].id = i]
        BY <2>2 DEF SaveEntry
      <3>2. i \in Known /\ i \in Ids
        BY DEF Unwritten, Known
      <3>3. file' \in Seq(Line)
        BY <3>1, <3>2, EntryType, RankFacts, FileOps
      <3>4. QED
        BY <2>2, <3>1, <3>2, <3>3 DEF SaveEntry, ThreadState
    <2>3. CASE SaveEnd(t)
      BY <2>3 DEF SaveEnd, IdleThread, ThreadState
    <2>4. CASE SaveFail(t)
      BY <2>4 DEF SaveFail, IdleThread, ThreadState
    <2>5. QED
      BY <1>7, <2>1, <2>2, <2>3, <2>4 DEF Save
  <1>8. CASE UNCHANGED vars
    BY <1>8 DEF vars
  <1>9. QED
    BY <1>1, <1>2, <1>3, <1>4, <1>5, <1>6, <1>7, <1>8 DEF Next, Load

(***************************************************************************)
(* The inductive invariant.  Parts of it other than the types:             *)
(***************************************************************************)
Parts == LockInv /\ WriterInv /\ CursorInv /\ AckedInv /\ SaveInv

\* The sets of lock holders and the entries of the file, in terms of their
\* members.
LEMMA Holders ==
  /\ \A t : t \in Writers <=> t \in Threads /\ th[t].pc \in WriterPCs
  /\ \A t : t \in Savers <=> t \in Threads /\ th[t].pc = "save"
  /\ \A t : t \in Writers' <=> t \in Threads /\ th'[t].pc \in WriterPCs
  /\ \A t : t \in Savers' <=> t \in Threads /\ th'[t].pc = "save"
  BY DEF Writers, Savers

\* Before anything is loaded every part of the invariant holds.
LEMMA InitParts == Init => Parts
  <1> SUFFICES ASSUME Init PROVE Parts
    OBVIOUS
  <1>1. Writers = {} /\ Savers = {} /\ Known = {} /\ acked = {}
    BY DEF Init, Writers, Savers, WriterPCs, IdleThread, Known, NoIdToPath
  <1>2. phase = "down" /\ ~hurt /\ (~hasSource => file = <<>>)
    BY DEF Init
  <1>3. QED
    BY <1>1, <1>2
    DEF Parts, LockInv, WriterInv, CursorInv, AckedInv, SaveInv, AckedOnFile

\* Opening, the failure of a load and a crash leave no lock held, no map
\* entries, and no acknowledged registration that is not on file.
LEMMA ResetParts ==
  ASSUME TypeOK, Parts, Open \/ LoadFail \/ Crash
  PROVE  Parts'
  <1>1. Writers' = {} /\ Savers' = {}
    <2>1. CASE Open
      BY <2>1 DEF Open, Parts, LockInv, Writers, Savers
    <2>2. CASE LoadFail
      BY <2>2 DEF LoadFail, Parts, LockInv, Writers, Savers
    <2>3. CASE Crash
      BY <2>3 DEF Crash, Writers, Savers, WriterPCs, IdleThread
    <2>4. QED
      BY <2>1, <2>2, <2>3
  <1>2. Known' = {} /\ lineNo' = 1 /\ UNCHANGED <<file, hasSource>> /\ ~hurt'
    BY DEF Open, LoadFail, Crash, Known, NoIdToPath, Parts, LockInv, ghosts
  <1>3. /\ acked' \subseteq acked
        /\ ~hasSource /\ phase' # "up" => acked' = {}
        /\ phase' # "loading" \/ hasSource
        /\ phase' = "up" => ~hasSource /\ acked' = {}
        /\ hasSource /\ acked' # {} => ~Exposed
    BY <1>1 DEF Open, LoadFail, Crash, Parts, LockInv, ghosts, Exposed
  <1>4. LockInv'
    BY <1>1, <1>2, <1>3 DEF Parts, LockInv
  <1>5. WriterInv' /\ SaveInv'
    BY <1>1 DEF WriterInv, SaveInv
  <1>6. CursorInv'
    BY <1>2, <1>3 DEF CursorInv, Parts, LockInv, Entries, TypeOK
  <1>7. AckedInv'
    BY <1>2, <1>3
    DEF Parts, AckedInv, AckedOnFile, OnFile, Exposed, Entries, IsRead, TypeOK
  <1>8. QED
    BY <1>4, <1>5, <1>6, <1>7 DEF Parts

\* A line that parses is an entry with an id, or empty.
LEMMA LineKinds ==
  ASSUME TypeOK, NEW k \in DOMAIN file, file[k].path # Junk
  PROVE  IF file[k].path = Blank THEN k \notin Entries
                                 ELSE k \in Entries /\ file[k].id \in Ids
  <1>1. file[k] \in Line
    BY DEF TypeOK
  <1>2. QED
    BY <1>1, PathAssumption DEF Line, Entries

\* One iteration of the loop in load() keeps every part: the line read cannot
\* contradict an acknowledged one, and noteExisting moves the cursor past it.
LEMMA LoadLineParts ==
  ASSUME TypeOK, Parts, LoadLine
  PROVE  Parts'
  <1> DEFINE line == file[lineNo]
  <1>1. /\ phase = "loading" /\ lineNo' = lineNo + 1 /\ lineNo \in DOMAIN file
        /\ UNCHANGED <<file, hasSource, phase, th, acked, hurt>>
    BY DEF LoadLine, ghosts, TypeOK
  <1>2. Writers = {} /\ Savers = {} /\ Writers' = {} /\ Savers' = {}
    BY <1>1 DEF Parts, LockInv, Writers, Savers
  <1>3. Entries' = Entries /\ Entries \subseteq Nat
    BY <1>1 DEF Entries, TypeOK
  <1>4. LockInv' /\ WriterInv' /\ SaveInv'
    BY <1>1, <1>2 DEF Parts, LockInv, WriterInv, SaveInv
  <1>5. AckedOnFile'
    BY <1>1, <1>2 DEF Parts, AckedInv, AckedOnFile, OnFile, Exposed
  <1>6. CASE line.path = Blank
    <2>1. UNCHANGED mem /\ lineNo \notin Entries
      BY <1>1, <1>6, LineKinds DEF LoadLine
    <2>2. \A k \in Entries : k < lineNo' <=> k < lineNo
      BY <1>1, <1>3, <2>1 DEF TypeOK
    <2>3. CursorInv'
      BY <1>1, <1>3, <2>1, <2>2 DEF Parts, CursorInv, mem, Known
    <2>4. AckedInv'
      BY <1>1, <1>3, <1>5, <2>1, <2>2 DEF Parts, AckedInv, mem, IsRead
    <2>5. QED
      BY <1>4, <2>3, <2>4 DEF Parts
  <1>7. CASE line.path # Blank
    <2>1. lineNo \in Entries /\ line.id \in Ids /\ line.path \in CanonPaths
      BY <1>1, <1>7, LineKinds DEF LoadLine, Entries
    <2>2. /\ idToPath' = [idToPath EXCEPT ![line.id] = line.path]
          /\ pathToId' = [pathToId EXCEPT ![line.path] = line.id]
          /\ next' = NoteLine(next, line.id)
      BY <1>7 DEF LoadLine
    <2>3. next' \in Nat /\ next \in Nat /\ next' >= next
          /\ (line.id \in CustomIds => line.id < next')
      BY <2>1, <2>2, NoteLineMoves, IdFacts DEF TypeOK
    <2>4. \A k \in Entries : k < lineNo' => k < lineNo \/ k = lineNo
      BY <1>1, <1>3 DEF TypeOK
    <2>5. CursorInv'
      <3>1. \A i \in Known' \cap CustomIds : i < next'
        <4>1. Known' \subseteq Known \cup {line.id}
          BY <2>1, <2>2 DEF Known, TypeOK
        <4>2. \A i \in Known \cap CustomIds : i < next /\ i \in Nat
          BY IdFacts DEF Parts, CursorInv, Known
        <4>3. QED
          BY <2>3, <4>1, <4>2
      <3>2. ASSUME NEW k \in Entries, file[k].id \in CustomIds, k < lineNo'
            PROVE  file[k].id < next'
        <4>1. file[k].id \in Nat
          BY <3>2, IdFacts
        <4>2. CASE k < lineNo
          BY <1>1, <2>3, <3>2, <4>1, <4>2 DEF Parts, CursorInv
        <4>3. CASE k = lineNo
          BY <2>3, <3>2, <4>3
        <4>4. QED
          BY <2>4, <3>2, <4>2, <4>3
      <3>3. QED
        BY <1>1, <1>3, <3>1, <3>2 DEF CursorInv
    <2>6. AckedInv'
      <3>1. ASSUME NEW b \in acked, IsRead(b)'
            PROVE  idToPath'[b.id] = b.path /\ pathToId'[b.path] # NoId
        <4>1. b.id \in Ids /\ b.path \in CanonPaths
          BY IdFacts DEF TypeOK, CanonPaths
        <4>2. PICK k \in Entries : k < lineNo' /\ file[k].id = b.id /\ file[k].path = b.path
          BY <1>1, <1>3, <3>1 DEF IsRead
        <4>3. line.id = b.id => line.path = b.path
          BY <2>1 DEF Parts, AckedInv
        <4>4. CASE k = lineNo
          BY <2>1, <2>2, <4>1, <4>2, <4>4, PathAssumption DEF TypeOK
        <4>5. CASE k < lineNo
          <5>1. idToPath[b.id] = b.path /\ pathToId[b.path] # NoId
            BY <1>1, <4>2, <4>5 DEF Parts, AckedInv, IsRead
          <5>2. QED
            BY <2>1, <2>2, <4>1, <4>3, <5>1, PathAssumption DEF TypeOK
        <4>6. QED
          BY <2>4, <4>2, <4>4, <4>5
      <3>2. QED
        BY <1>1, <1>3, <1>5, <3>1 DEF Parts, AckedInv
    <2>7. QED
      BY <1>4, <2>5, <2>6 DEF Parts
  <1>8. QED
    BY <1>6, <1>7

\* The return of load() keeps every part: all lines have been read, so every
\* acknowledged registration is in the maps.
LEMMA LoadDoneParts ==
  ASSUME TypeOK, Parts, LoadDone
  PROVE  Parts'
  <1>1. /\ phase = "loading" /\ phase' = "up" /\ lineNo > Len(file)
        /\ UNCHANGED <<file, hasSource, lineNo, mem, th, acked, hurt>>
    BY DEF LoadDone, ghosts
  <1>2. hasSource /\ ~hurt
    BY <1>1 DEF Parts, LockInv
  <1>3. Writers = {} /\ Savers = {} /\ Writers' = {} /\ Savers' = {}
    BY <1>1 DEF Parts, LockInv, Writers, Savers
  <1>4. Entries' = Entries /\ \A k \in Entries : k < lineNo
    BY <1>1 DEF Entries, TypeOK
  <1>5. Known' = Known
    BY <1>1 DEF Known, mem
  <1>6. LockInv' /\ WriterInv' /\ SaveInv'
    BY <1>1, <1>2, <1>3 DEF Parts, LockInv, WriterInv, SaveInv
  <1>7. CursorInv'
    BY <1>1, <1>4, <1>5 DEF Parts, CursorInv, mem
  <1>8. AckedInv'
    <2>1. ~Exposed /\ ~Exposed'
      BY <1>1, <1>2, <1>3 DEF Exposed
    <2>2. AckedOnFile'
      BY <1>1, <2>1 DEF Parts, AckedInv, AckedOnFile, OnFile
    <2>3. ASSUME NEW b \in acked
          PROVE  idToPath[b.id] = b.path /\ pathToId[b.path] # NoId
      <3>1. PICK k \in DOMAIN file : file[k].id = b.id /\ file[k].path = b.path
        BY <2>1 DEF Parts, AckedInv, AckedOnFile, OnFile
      <3>2. k \in Entries
        BY <3>1 DEF Entries, TypeOK, CanonPaths
      <3>3. IsRead(b)
        BY <1>1, <1>4, <3>1, <3>2 DEF IsRead
      <3>4. QED
        BY <3>3 DEF Parts, AckedInv
    <2>4. QED
      BY <1>1, <1>4, <2>2, <2>3 DEF Parts, AckedInv, mem
  <1>9. QED
    BY <1>6, <1>7, <1>8 DEF Parts

(***************************************************************************)
(* registerPath.                                                           *)
(***************************************************************************)

\* Terminating the last line keeps every line's id and path; a line put after
\* it is a line of its own.
LEMMA AppendFacts ==
  ASSUME TypeOK, NEW line \in Line, NEW f, NEW g,
         f = Terminated(NeedsNewline), g = Put(f, line)
  PROVE  /\ f \in Seq(Line) /\ Len(f) = Len(file)
         /\ \A k \in DOMAIN file : f[k].id = file[k].id /\ f[k].path = file[k].path
         /\ g \in Seq(Line) /\ Len(g) = Len(file) + 1 /\ g[Len(file) + 1] = line
         /\ \A k \in DOMAIN file : g[k].id = file[k].id /\ g[k].path = file[k].path
  <1>1. f \in Seq(Line)
    BY TerminatedType
  <1>2. CASE NeedsNewline
    <2>1. f = [file EXCEPT ![Len(file)].nl = TRUE] /\ file # <<>>
      BY <1>2 DEF Terminated, NeedsNewline
    <2>2. file[Len(file)] \in Line
      BY <2>1 DEF TypeOK
    <2>3. /\ f[Len(file)].nl = TRUE
          /\ f[Len(file)].id = file[Len(file)].id
          /\ f[Len(file)].path = file[Len(file)].path
      BY <2>1, <2>2 DEF TypeOK, Line
    <2>4. Len(f) = Len(file)
      BY <2>1 DEF TypeOK
    <2>5. \A k \in DOMAIN file : f[k].id = file[k].id /\ f[k].path = file[k].path
      BY <2>1, <2>3 DEF TypeOK
    <2>6. g = Append(f, line)
      BY <2>1, <2>3, <2>4 DEF Put
    <2>7. QED
      BY <1>1, <2>4, <2>5, <2>6 DEF TypeOK
  <1>3. CASE ~NeedsNewline
    <2>1. f = file
      BY <1>3 DEF Terminated
    <2>2. g = Append(f, line)
      BY <1>3, <2>1 DEF Put, NeedsNewline
    <2>3. /\ g \in Seq(Line) /\ Len(g) = Len(file) + 1 /\ g[Len(file) + 1] = line
          /\ \A k \in DOMAIN file : g[k] = file[k]
      <3>1. /\ g \in Seq(Line) /\ Len(g) = Len(f) + 1 /\ g[Len(f) + 1] = line
            /\ \A k \in 1..Len(f) : g[k] = f[k]
        BY <1>1, <2>2
      <3>2. DOMAIN file = 1..Len(f)
        BY <1>1, <2>1
      <3>3. QED
        BY <2>1, <3>1, <3>2
    <2>4. QED
      BY <1>1, <2>1, <2>3
  <1>4. QED
    BY <1>2, <1>3

\* The line of a registration in progress is a line.
LEMMA WriterLine ==
  ASSUME TypeOK, WriterInv, NEW t \in Writers, NEW n \in BOOLEAN
  PROVE  [id |-> th[t].id, path |-> th[t].path, nl |-> n] \in Line
  BY IdFacts DEF WriterInv, Line, CanonPaths

\* What a failed write leaves is a line that does not parse or has the id of
\* the registration.
LEMMA TornType ==
  ASSUME TypeOK, WriterInv, NEW t \in Writers, NEW line \in TornLines(t)
  PROVE  line \in Line /\ (line.id = th[t].id \/ line.path = Junk)
  <1>1. th[t].path \in Paths /\ th[t].id \in Ids
    BY IdFacts DEF WriterInv
  <1>2. Cut[th[t].path] \subseteq CanonPaths
    BY <1>1, PathAssumption DEF CanonPaths
  <1>3. \A p \in CanonPaths : [id |-> th[t].id, path |-> p, nl |-> FALSE] \in Line
    BY <1>1 DEF Line
  <1>4. [id |-> NoId, path |-> Junk, nl |-> FALSE] \in Line
    BY DEF Line
  <1>5. CASE line = [id |-> NoId, path |-> Junk, nl |-> FALSE]
    BY <1>4, <1>5
  <1>6. ASSUME NEW p \in CanonPaths, line = [id |-> th[t].id, path |-> p, nl |-> FALSE]
        PROVE  line \in Line /\ line.id = th[t].id
    BY <1>3, <1>6
  <1>7. QED
    BY <1>1, <1>2, <1>5, <1>6 DEF TornLines, CanonPaths

\* The start of registerPath keeps every part: the id is past every known one.
LEMMA RegisterBeginParts ==
  ASSUME TypeOK, Parts, NEW t \in Threads, NEW s \in Spellings, RegisterBegin(t, s)
  PROVE  Parts'
  <1> DEFINE p == Norm[s]
  <1>1. p \in Paths
    BY PathAssumption DEF RegisterBegin, CanonPaths
  <1>2. next \in CustomIds /\ next \in Nat /\ next \in Ids /\ next' = next + 1
    BY NextIsCustom, IdFacts DEF RegisterBegin, TypeOK
  <1>3. /\ phase = "up" /\ Writers = {} /\ Savers = {}
        /\ pathToId[p] = NoId
        /\ UNCHANGED <<file, hasSource, phase, lineNo, pathToId, idToPath, acked, hurt>>
    BY DEF RegisterBegin, CanLockExclusive, ghosts
  <1>4. /\ th'[t].pc = IF hasSource THEN "tail" ELSE "publish"
        /\ th'[t].path = p /\ th'[t].id = next
        /\ \A u \in Threads \ {t} : th'[u] = th[u]
    BY DEF RegisterBegin, TypeOK
  <1>5. Writers' = {t} /\ Savers' = {}
    BY <1>3, <1>4 DEF Writers, Savers, WriterPCs
  <1>6. Entries' = Entries /\ Known' = Known
    BY <1>3 DEF Entries, Known
  <1>7. \A i \in Known \cap CustomIds : i \in Nat /\ i < next
    BY IdFacts DEF Parts, CursorInv, Known
  <1>8. \A b \in acked : b.id # next /\ b.path # p
    <2>1. ASSUME NEW b \in acked
          PROVE  b.id # next /\ b.path # p
      <3>1. b.id \in CustomIds /\ b.path \in Paths /\ b.id \in Ids
        BY IdFacts DEF TypeOK
      <3>2. idToPath[b.id] = b.path /\ pathToId[b.path] # NoId
        BY <1>3 DEF Parts, AckedInv, IsRead
      <3>3. b.id \in Known
        BY <3>1, <3>2, PathAssumption DEF Known, CanonPaths
      <3>4. QED
        BY <1>3, <1>7, <3>1, <3>2, <3>3
    <2>2. QED
      BY <2>1
  <1>9. \A k \in Entries : file[k].id \in CustomIds => file[k].id \in Nat /\ file[k].id < next
    BY <1>3, IdFacts DEF Parts, CursorInv
  <1>10. idToPath[next] = NoPath
    BY <1>2, <1>7 DEF Known
  <1>11. LockInv'
    BY <1>3, <1>5 DEF Parts, LockInv
  <1>12. WriterInv'
    BY <1>1, <1>2, <1>3, <1>4, <1>5, <1>6, <1>8, <1>9, <1>10
    DEF WriterInv, Parts, LockInv
  <1>13. CursorInv'
    BY <1>2, <1>3, <1>6, <1>7, <1>9 DEF CursorInv
  <1>14. AckedInv'
    BY <1>3, <1>5, <1>6
    DEF Parts, AckedInv, AckedOnFile, OnFile, Exposed, IsRead
  <1>15. SaveInv'
    BY <1>5 DEF SaveInv
  <1>16. QED
    BY <1>11, <1>12, <1>13, <1>14, <1>15 DEF Parts

\* Looking at the last byte of the file keeps every part: only this thread can
\* change the file until it has appended.
LEMMA ReadTailParts ==
  ASSUME TypeOK, Parts, NEW t \in Threads, ReadTail(t)
  PROVE  Parts'
  <1>1. t \in Writers /\ th[t].pc = "tail"
    BY DEF ReadTail, Writers, WriterPCs
  <1>2. UNCHANGED <<file, hasSource, phase, lineNo, mem, acked, hurt>>
    BY DEF ReadTail, ghosts
  <1>3. /\ th'[t].pc = "append" /\ th'[t].nl = NeedsNewline
        /\ th'[t].path = th[t].path /\ th'[t].id = th[t].id
        /\ \A u \in Threads \ {t} : th'[u] = th[u]
    BY DEF ReadTail, TypeOK, ThreadState
  <1>4. Writers = {t} /\ Savers = {} /\ Writers' = {t} /\ Savers' = {}
    BY <1>1, <1>3 DEF Parts, LockInv, Writers, Savers, WriterPCs
  <1>5. Entries' = Entries /\ Known' = Known /\ NeedsNewline' = NeedsNewline
    BY <1>2 DEF Entries, Known, NeedsNewline, mem
  <1>6. LockInv' /\ SaveInv'
    BY <1>2, <1>4 DEF Parts, LockInv, SaveInv
  <1>7. WriterInv'
    <2>1. th'[t].nl = NeedsNewline'
      BY <1>3, <1>5, Zenon
    <2>2. UNCHANGED <<next, idToPath, pathToId>>
      BY <1>2 DEF mem
    <2>3. /\ th[t].path \in Paths /\ th[t].id \in CustomIds /\ th[t].id < next
          /\ idToPath[th[t].id] = NoPath /\ pathToId[th[t].path] = NoId
          /\ \A b \in acked : b.id # th[t].id /\ b.path # th[t].path
          /\ \A k \in Entries : file[k].id # th[t].id
          /\ hasSource
      BY <1>1 DEF Parts, WriterInv
    <2>4. ASSUME NEW u \in Writers'
          PROVE  u = t
      BY <1>4
    <2>5. QED
      BY <1>2, <1>3, <1>5, <2>1, <2>2, <2>3, <2>4 DEF WriterInv
  <1>8. CursorInv'
    BY <1>2, <1>5 DEF Parts, CursorInv, mem
  <1>9. AckedInv'
    BY <1>2, <1>4, <1>5
    DEF Parts, AckedInv, AckedOnFile, OnFile, Exposed, IsRead, mem
  <1>10. QED
    BY <1>6, <1>7, <1>8, <1>9 DEF Parts

\* Appending the line, whole or torn, adds at most one entry, and that one has
\* the id of the registration.
LEMMA PersistParts ==
  ASSUME TypeOK, Parts, NEW t \in Threads, Persist(t) \/ PersistFail(t)
  PROVE  Parts'
  <1>1. t \in Writers /\ th[t].pc = "append"
    BY DEF Persist, PersistFail, Writers, WriterPCs
  <1>2. UNCHANGED <<hasSource, phase, lineNo, mem, acked, hurt>>
    BY DEF Persist, PersistFail, ghosts
  <1>3. phase = "up" /\ Writers = {t} /\ Savers = {}
    BY <1>1 DEF Parts, LockInv
  <1>4. /\ th[t].path \in Paths /\ th[t].id \in CustomIds /\ th[t].id < next
        /\ idToPath[th[t].id] = NoPath /\ pathToId[th[t].path] = NoId
        /\ \A b \in acked : b.id # th[t].id /\ b.path # th[t].path
        /\ \A k \in Entries : file[k].id # th[t].id
        /\ th[t].nl = NeedsNewline
    BY <1>1 DEF Parts, WriterInv
  <1>5. hasSource
    BY <1>1 DEF Parts, WriterInv
  <1>6. /\ \A k \in DOMAIN file :
             k \in DOMAIN file' /\ file'[k].id = file[k].id /\ file'[k].path = file[k].path
        /\ \A k \in DOMAIN file' :
             k \in DOMAIN file \/ file'[k].id = th[t].id \/ file'[k].path = Junk
        /\ Persist(t) =>
             /\ OnFile(th[t].id, th[t].path)'
             /\ \A k \in DOMAIN file' : k \in DOMAIN file \/ file'[k].path = th[t].path
    <2> DEFINE f == Terminated(NeedsNewline)
    <2>1. CASE Persist(t)
      <3>0. PICK line \in Line :
              line = [id |-> th[t].id, path |-> th[t].path, nl |-> TRUE]
        BY <1>1, WriterLine DEF Parts
      <3>1. file' = Put(f, line) /\ line.id = th[t].id /\ line.path = th[t].path
        BY <1>4, <2>1, <3>0 DEF Persist
      <3>2. /\ Len(file') = Len(file) + 1 /\ file' \in Seq(Line)
            /\ file'[Len(file) + 1] = line
            /\ \A k \in DOMAIN file : file'[k].id = file[k].id /\ file'[k].path = file[k].path
        BY <3>1, AppendFacts
      <3>3. OnFile(th[t].id, th[t].path)'
        <4>1. /\ Len(file) + 1 \in DOMAIN file'
              /\ file'[Len(file) + 1].id = th[t].id /\ file'[Len(file) + 1].path = th[t].path
          BY <3>1, <3>2 DEF TypeOK
        <4>2. \E k \in DOMAIN file' : file'[k].id = th[t].id /\ file'[k].path = th[t].path
          BY <4>1
        <4>3. th'[t].id = th[t].id /\ th'[t].path = th[t].path
          BY <2>1 DEF Persist, TypeOK, ThreadState
        <4>4. QED
          BY <4>2, <4>3 DEF OnFile
      <3>4. DOMAIN file' = 1..(Len(file) + 1) /\ DOMAIN file = 1..Len(file) /\ Len(file) \in Nat
        BY <3>2 DEF TypeOK
      <3>5. \A k \in DOMAIN file' : k \in DOMAIN file \/ k = Len(file) + 1
        BY <3>4
      <3>6. QED
        BY <3>1, <3>2, <3>3, <3>4, <3>5
    <2>2. CASE PersistFail(t)
      <3>1. ~Persist(t)
        BY <2>2, PathAssumption DEF Persist, PersistFail, IdleThread, TypeOK
      <3>2. CASE file' = file
        BY <3>1, <3>2
      <3>3. CASE file' = f
        <4>1. [id |-> th[t].id, path |-> th[t].path, nl |-> TRUE] \in Line
          BY <1>1, WriterLine DEF Parts
        <4>2. /\ f \in Seq(Line) /\ Len(f) = Len(file)
              /\ \A k \in DOMAIN file : f[k].id = file[k].id /\ f[k].path = file[k].path
          BY <4>1, AppendFacts
        <4>3. DOMAIN f = DOMAIN file
          BY <4>2 DEF TypeOK
        <4>4. QED
          BY <3>1, <3>3, <4>2, <4>3
      <3>4. ASSUME NEW line \in TornLines(t), file' = Put(f, line)
            PROVE  <1>6!1 /\ <1>6!2
        <4>1. line \in Line /\ (line.id = th[t].id \/ line.path = Junk)
          BY <1>1, <1>4, TornType DEF Parts
        <4>2. /\ Len(file') = Len(file) + 1 /\ file' \in Seq(Line)
              /\ file'[Len(file) + 1] = line
              /\ \A k \in DOMAIN file : file'[k].id = file[k].id /\ file'[k].path = file[k].path
          BY <3>4, <4>1, AppendFacts
        <4>3. DOMAIN file' = 1..(Len(file) + 1) /\ DOMAIN file = 1..Len(file) /\ Len(file) \in Nat
          BY <4>2 DEF TypeOK
        <4>4. QED
          BY <4>1, <4>2, <4>3
      <3>5. QED
        BY <1>4, <2>2, <3>1, <3>2, <3>3, <3>4 DEF PersistFail
    <2>3. QED
      BY <2>1, <2>2
  <1>7. \A k \in Entries' : k \in Entries \/ file'[k].id = th[t].id
    BY <1>6, PathAssumption DEF Entries
  <1>8. Savers' = {} /\ Writers' \subseteq {t} /\ Known' = Known
        /\ (Persist(t) => th'[t].pc = "publish" /\ th'[t].id = th[t].id /\ th'[t].path = th[t].path)
        /\ (~Persist(t) => Writers' = {})
    <2>1. CASE Persist(t)
      BY <1>2, <1>3, <2>1 DEF Persist, Writers, Savers, WriterPCs, TypeOK, ThreadState, Known, mem
    <2>2. CASE PersistFail(t)
      <3>1. th'[t].pc = "idle" /\ \A u \in Threads \ {t} : th'[u] = th[u]
        BY <2>2 DEF PersistFail, TypeOK, IdleThread
      <3>2. Savers' = {} /\ Writers' = {}
        BY <1>3, <3>1 DEF Writers, Savers, WriterPCs
      <3>3. ~Persist(t)
        <4>1. Persist(t) => th'[t].pc = "publish"
          BY DEF Persist, TypeOK, ThreadState
        <4>2. QED
          BY <3>1, <4>1
      <3>4. QED
        BY <1>2, <3>2, <3>3 DEF Known, mem
    <2>3. QED
      BY <2>1, <2>2 DEF Persist, PersistFail
  <1>9. LockInv' /\ SaveInv'
    BY <1>2, <1>3, <1>5, <1>8 DEF Parts, LockInv, SaveInv
  <1>10. WriterInv'
    <2>1. CASE Writers' = {}
      BY <2>1 DEF WriterInv
    <2>2. CASE Writers' # {}
      <3>1. Persist(t) /\ Writers' = {t}
        BY <1>8, <2>2
      <3>2. \A k \in Entries' : file'[k].id = th[t].id => file'[k].path = th[t].path
        BY <1>4, <1>6, <3>1 DEF Entries
      <3>3. QED
        BY <1>2, <1>4, <1>5, <1>6, <1>8, <3>1, <3>2 DEF WriterInv, mem
    <2>3. QED
      BY <2>1, <2>2
  <1>11. CursorInv'
    BY <1>2, <1>3, <1>4, <1>6, <1>7, <1>8 DEF Parts, CursorInv, Entries, mem
  <1>12. AckedInv'
    <2>1. AckedOnFile'
      BY <1>2, <1>3, <1>6, <1>8 DEF Parts, AckedInv, AckedOnFile, OnFile, Exposed
    <2>2. ASSUME NEW b \in acked, NEW k \in Entries', file'[k].id = b.id
          PROVE  file'[k].path = b.path
      <3>1. k \in Entries
        BY <1>4, <1>7, <2>2
      <3>2. QED
        BY <1>6, <2>2, <3>1 DEF Parts, AckedInv, Entries
    <2>3. QED
      BY <1>2, <1>3, <2>1, <2>2 DEF Parts, AckedInv, IsRead, mem
  <1>13. QED
    BY <1>9, <1>10, <1>11, <1>12 DEF Parts

\* The insertions and the return of the id keep every part: the line is on file.
LEMMA PublishParts ==
  ASSUME TypeOK, Parts, NEW t \in Threads, Publish(t)
  PROVE  Parts'
  <1> DEFINE i == th[t].id
             p == th[t].path
             new == [path |-> p, id |-> i]
  <1>1. t \in Writers /\ th[t].pc = "publish"
    BY DEF Publish, Writers, WriterPCs
  <1>2. /\ UNCHANGED <<file, hasSource, phase, lineNo, next, hurt>>
        /\ idToPath' = [idToPath EXCEPT ![i] = p]
        /\ pathToId' = [pathToId EXCEPT ![p] = i]
        /\ acked' = acked \cup {new}
    BY DEF Publish
  <1>3. phase = "up" /\ Writers = {t} /\ Savers = {}
    BY <1>1 DEF Parts, LockInv
  <1>4. /\ p \in Paths /\ i \in CustomIds /\ i < next
        /\ idToPath[i] = NoPath /\ pathToId[p] = NoId
        /\ \A b \in acked : b.id # i /\ b.path # p
        /\ \A k \in Entries : file[k].id = i => file[k].path = p
        /\ hasSource => OnFile(i, p)
    BY <1>1 DEF Parts, WriterInv
  <1>5. i \in Ids /\ i \in Nat /\ p \in CanonPaths
    BY <1>4, IdFacts DEF CanonPaths
  <1>6. Writers' = {} /\ Savers' = {}
    <2>1. th'[t].pc = "idle" /\ \A u \in Threads \ {t} : th'[u] = th[u]
      BY DEF Publish, TypeOK, IdleThread
    <2>2. QED
      BY <1>3, <2>1 DEF Writers, Savers, WriterPCs
  <1>7. Entries' = Entries /\ Known' \subseteq Known \cup {i}
    BY <1>2, <1>5 DEF Entries, Known, TypeOK
  <1>8. \A b \in acked : /\ b.id \in Ids /\ b.path \in CanonPaths
                         /\ idToPath[b.id] = b.path /\ pathToId[b.path] # NoId
    BY <1>3, IdFacts DEF TypeOK, CanonPaths, Parts, AckedInv, IsRead
  <1>9. LockInv' /\ WriterInv' /\ SaveInv'
    BY <1>2, <1>3, <1>6 DEF Parts, LockInv, WriterInv, SaveInv
  <1>10. CursorInv'
    BY <1>2, <1>3, <1>4, <1>7 DEF Parts, CursorInv
  <1>11. AckedInv'
    <2>1. \A b \in acked' : b \in acked \/ b = new
      BY <1>2
    <2>2. new.id = i /\ new.path = p
      OBVIOUS
    <2>3. \A b, c \in acked' : b.id = c.id \/ b.path = c.path => b = c
      BY <1>4, <2>1, <2>2 DEF Parts, AckedInv
    <2>4. \A b \in acked' : \A k \in Entries' : file'[k].id = b.id => file'[k].path = b.path
      BY <1>2, <1>4, <1>7, <2>1, <2>2 DEF Parts, AckedInv
    <2>5. AckedOnFile'
      BY <1>2, <1>3, <1>4, <1>6, <2>1, <2>2
      DEF Parts, AckedInv, AckedOnFile, OnFile, Exposed
    <2>6. ASSUME NEW b \in acked'
          PROVE  idToPath'[b.id] = b.path /\ pathToId'[b.path] # NoId
      <3>1. CASE b = new
        BY <1>2, <1>5, <3>1, PathAssumption DEF TypeOK
      <3>2. CASE b \in acked
        BY <1>2, <1>4, <1>5, <1>8, <3>2, PathAssumption DEF TypeOK
      <3>3. QED
        BY <2>1, <3>1, <3>2
    <2>7. QED
      BY <2>3, <2>4, <2>5, <2>6 DEF AckedInv
  <1>12. QED
    BY <1>9, <1>10, <1>11 DEF Parts

(***************************************************************************)
(* save.                                                                   *)
(***************************************************************************)

\* Opening the file for a rewrite keeps every part: from here it is exposed.
LEMMA SaveBeginParts ==
  ASSUME TypeOK, Parts, NEW t \in Threads, SaveBegin(t)
  PROVE  Parts'
  <1>1. /\ phase = "up" /\ hasSource /\ th[t].pc = "idle" /\ Writers = {}
        /\ file' = <<>>
        /\ UNCHANGED <<hasSource, phase, lineNo, mem, acked>>
    BY DEF SaveBegin, CanLockShared
  <1>2. th'[t].pc = "save" /\ th'[t].id = NoId /\ \A u \in Threads \ {t} : th'[u] = th[u]
    BY DEF SaveBegin, TypeOK, IdleThread
  <1>3. Writers' = {} /\ t \in Savers' /\ Entries' = {} /\ Known' = Known
    BY <1>1, <1>2 DEF Writers, Savers, WriterPCs, Entries, Known, mem
  <1>4. LockInv' /\ WriterInv' /\ CursorInv'
    BY <1>1, <1>3 DEF Parts, LockInv, WriterInv, CursorInv, mem
  <1>5. AckedInv'
    BY <1>1, <1>3 DEF Parts, AckedInv, AckedOnFile, Exposed, IsRead, mem
  <1>6. SaveInv'
    <2>1. \A j \in Known' : j \in Unwritten(t)'
      BY <1>2 DEF Unwritten
    <2>2. QED
      BY <1>3, <2>1 DEF SaveInv
  <1>7. QED
    BY <1>4, <1>5, <1>6 DEF Parts

\* Writing a line leaves the others as they are; what fills a gap is no entry.
LEMMA WriteAtFacts ==
  ASSUME NEW f \in Seq(Line), NEW line \in Line, NEW k \in Nat \ {0}
  PROVE  LET g == WriteAt(f, k, line)
         IN  /\ k \in DOMAIN g /\ g[k] = line
             /\ \A j \in DOMAIN f : j \in DOMAIN g /\ (j # k => g[j] = f[j])
             /\ \A j \in DOMAIN g : j = k \/ j \in DOMAIN f \/ g[j].path = Junk
  <1> DEFINE n == IF k > Len(f) THEN k ELSE Len(f)
  <1>1. /\ n \in Nat /\ k \in 1..n /\ DOMAIN f = 1..Len(f) /\ Len(f) \in Nat
        /\ 1..Len(f) \subseteq 1..n
    OBVIOUS
  <1>2. WriteAt(f, k, line) = [j \in 1..n |->
          IF j = k THEN line ELSE IF j <= Len(f) THEN f[j] ELSE Hole]
    BY DEF WriteAt
  <1>3. Hole.path = Junk
    BY DEF Hole
  <1>4. QED
    BY <1>1, <1>2, <1>3

\* Writing one entry keeps every part: it goes to its own place, whatever the
\* other savers have written or truncated.
LEMMA SaveEntryParts ==
  ASSUME TypeOK, Parts, NEW t \in Threads, SaveEntry(t)
  PROVE  Parts'
  <1>1. PICK i \in Unwritten(t) :
          /\ \A j \in Unwritten(t) : i <= j
          /\ file' = WriteAt(file, Rank(i), Entry(i))
          /\ th' = [th EXCEPT ![t].id = i]
    BY DEF SaveEntry
  <1>2. th[t].pc = "save" /\ UNCHANGED <<hasSource, phase, lineNo, mem, acked, hurt>>
    BY DEF SaveEntry, ghosts
  <1>3. /\ phase = "up" /\ hasSource /\ Writers = {} /\ t \in Savers
    BY <1>2 DEF Parts, LockInv, Savers
  <1>4. i \in Known /\ i \in Ids /\ i \in Nat /\ Rank(i) \in Nat \ {0} /\ Entry(i) \in Line
    BY RankFacts, EntryType, IdFacts DEF Unwritten, Known
  <1>5. /\ th'[t].pc = "save" /\ th'[t].id = i
        /\ \A u \in Threads \ {t} : th'[u] = th[u]
    BY <1>1, <1>2 DEF TypeOK, ThreadState
  <1>6. Writers' = {} /\ Savers' = Savers /\ Known' = Known
    BY <1>2, <1>3, <1>5 DEF Writers, Savers, WriterPCs, Known, mem
  <1>7. /\ Rank(i) \in DOMAIN file' /\ file'[Rank(i)] = Entry(i)
        /\ \A j \in DOMAIN file : j \in DOMAIN file' /\ (j # Rank(i) => file'[j] = file[j])
        /\ \A j \in DOMAIN file' : j = Rank(i) \/ j \in DOMAIN file \/ file'[j].path = Junk
    BY <1>1, <1>4, WriteAtFacts DEF TypeOK
  <1>8. \A k \in Entries' : \/ k \in Entries /\ file'[k] = file[k]
                            \/ file'[k].id = i /\ file'[k].path = idToPath[i]
    <2>1. Entry(i).path = Junk \/ (Entry(i).id = i /\ Entry(i).path = idToPath[i])
      <3>1. CASE idToPath[i] = EmptyPath
        BY <3>1 DEF Entry
      <3>2. CASE idToPath[i] # EmptyPath
        BY <3>2 DEF Entry
      <3>3. QED
        BY <3>1, <3>2
    <2>2. QED
      BY <1>7, <2>1, PathAssumption DEF Entries
  <1>9. LockInv' /\ WriterInv'
    BY <1>2, <1>3, <1>6 DEF Parts, LockInv, WriterInv
  <1>10. CursorInv'
    BY <1>2, <1>3, <1>4, <1>6, <1>8 DEF Parts, CursorInv, mem
  <1>11. AckedInv'
    <2>1. Exposed'
      BY <1>3, <1>6 DEF Exposed
    <2>2. \A b \in acked : idToPath[b.id] = b.path /\ pathToId[b.path] # NoId
      BY <1>3 DEF Parts, AckedInv, IsRead
    <2>3. ASSUME NEW b \in acked, NEW k \in Entries', file'[k].id = b.id
          PROVE  file'[k].path = b.path
      BY <1>8, <2>2, <2>3 DEF Parts, AckedInv
    <2>4. QED
      BY <1>2, <2>1, <2>2, <2>3 DEF Parts, AckedInv, AckedOnFile, mem
  <1>12. SaveInv'
    <2>1. ASSUME NEW j \in Known
          PROVE  Rank(j)' = Rank(j) /\ Entry(j)' = Entry(j)
      BY <1>2, <1>6 DEF Rank, Entry, mem
    <2>2. SUFFICES ASSUME Savers # {}, ~hurt, NEW j \in Known
          PROVE  \/ Rank(j) \in DOMAIN file' /\ file'[Rank(j)] = Entry(j)
                 \/ \E u \in Savers : j \in Unwritten(u)'
      BY <1>2, <1>6, <2>1 DEF SaveInv
    <2>3. CASE j = i
      BY <1>7, <2>3
    <2>4. CASE j # i
      <3>1. j \in Nat /\ j \in Ids
        BY IdFacts DEF Known
      <3>2. Rank(j) # Rank(i)
        BY <1>4, <2>4, <3>1, RankFacts
      <3>3. CASE Rank(j) \in DOMAIN file /\ file[Rank(j)] = Entry(j)
        BY <1>7, <3>2, <3>3
      <3>4. CASE \E u \in Savers : j \in Unwritten(u)
        <4>1. PICK u \in Savers : j \in Unwritten(u)
          BY <3>4
        <4>2. CASE u = t
          <5>1. i < j
            BY <1>1, <1>4, <2>4, <3>1, <4>1, <4>2
          <5>2. j \in Unwritten(t)'
            BY <1>5, <1>6, <5>1 DEF Unwritten
          <5>3. QED
            BY <1>3, <5>2
        <4>3. CASE u # t
          <5>1. th'[u] = th[u]
            BY <1>5, <4>3 DEF Savers
          <5>2. j \in Unwritten(u)'
            BY <1>6, <4>1, <5>1 DEF Unwritten
          <5>3. QED
            BY <4>1, <5>2
        <4>4. QED
          BY <4>2, <4>3
      <3>5. QED
        BY <2>2, <3>3, <3>4 DEF Parts, SaveInv
    <2>5. QED
      BY <2>3, <2>4
  <1>13. QED
    BY <1>9, <1>10, <1>11, <1>12 DEF Parts

\* The end of save() keeps every part: the last saver leaves every entry, and
\* with them every acknowledged registration, on file.
LEMMA SaveEndParts ==
  ASSUME TypeOK, Parts, NEW t \in Threads, SaveEnd(t) \/ SaveFail(t)
  PROVE  Parts'
  <1>1. th[t].pc = "save" /\ UNCHANGED <<file, hasSource, phase, lineNo, mem, acked>>
    BY DEF SaveEnd, SaveFail, ghosts
  <1>2. th'[t].pc = "idle" /\ \A u \in Threads \ {t} : th'[u] = th[u]
    BY DEF SaveEnd, SaveFail, TypeOK, IdleThread
  <1>3. /\ phase = "up" /\ hasSource /\ Writers = {} /\ t \in Savers
    BY <1>1 DEF Parts, LockInv, Savers
  <1>4. Writers' = {} /\ Savers' = Savers \ {t}
    BY <1>2, <1>3 DEF Writers, Savers, WriterPCs
  <1>5. Entries' = Entries /\ Known' = Known /\ Exposed /\ (~hurt' => SaveEnd(t) /\ ~hurt)
    <2>1. ~hurt' => SaveEnd(t) /\ ~hurt
      BY DEF SaveEnd, SaveFail, ghosts
    <2>2. QED
      BY <1>1, <1>3, <2>1 DEF Entries, Known, Exposed, mem
  <1>6. LockInv' /\ WriterInv' /\ CursorInv'
    BY <1>1, <1>3, <1>4, <1>5 DEF Parts, LockInv, WriterInv, CursorInv, mem
  <1>7. ASSUME ~hurt', NEW j \in Known
        PROVE  \/ Rank(j) \in DOMAIN file /\ file[Rank(j)] = Entry(j)
               \/ \E u \in Savers' : j \in Unwritten(u)
    <2>1. j \notin Unwritten(t)
      BY <1>5, <1>7 DEF SaveEnd, SaveIsDone
    <2>2. \/ Rank(j) \in DOMAIN file /\ file[Rank(j)] = Entry(j)
          \/ \E u \in Savers : j \in Unwritten(u)
      BY <1>3, <1>5, <1>7 DEF Parts, SaveInv
    <2>3. QED
      BY <1>4, <2>1, <2>2
  <1>8. AckedInv'
    <2>1. ASSUME ~Exposed', NEW b \in acked
          PROVE  OnFile(b.id, b.path)
      <3>1. Savers' = {} /\ ~hurt'
        BY <2>1 DEF Exposed
      <3>2. b.id \in Ids /\ b.path \in Paths
        BY IdFacts DEF TypeOK
      <3>3. idToPath[b.id] = b.path
        BY <1>3 DEF Parts, AckedInv, IsRead
      <3>4. b.id \in Known
        BY <3>2, <3>3, PathAssumption DEF Known, CanonPaths
      <3>5. Rank(b.id) \in DOMAIN file /\ file[Rank(b.id)] = Entry(b.id)
        BY <1>7, <3>1, <3>4
      <3>6. Entry(b.id).id = b.id /\ Entry(b.id).path = b.path
        BY <3>2, <3>3, PathAssumption DEF Entry
      <3>7. QED
        BY <3>5, <3>6 DEF OnFile
    <2>2. AckedOnFile'
      BY <1>1, <2>1 DEF AckedOnFile, OnFile
    <2>3. QED
      BY <1>1, <1>3, <1>5, <2>2 DEF Parts, AckedInv, IsRead, mem
  <1>9. SaveInv'
    <2>1. \A j \in Known : Rank(j)' = Rank(j) /\ Entry(j)' = Entry(j)
      BY <1>1, <1>5 DEF Rank, Entry, mem
    <2>2. \A u \in Savers' : Unwritten(u)' = Unwritten(u)
      BY <1>2, <1>4, <1>5 DEF Unwritten, Savers
    <2>3. QED
      BY <1>1, <1>5, <1>7, <2>1, <2>2 DEF SaveInv
  <1>10. QED
    BY <1>6, <1>8, <1>9 DEF Parts

\* A step that changes nothing keeps everything.
LEMMA StutterParts ==
  ASSUME Parts, UNCHANGED vars
  PROVE  Parts'
  <1> USE DEF vars, mem, ghosts
  <1>1. Writers' = Writers /\ Savers' = Savers /\ Known' = Known /\ Entries' = Entries
        /\ (Exposed' <=> Exposed) /\ NeedsNewline' = NeedsNewline
    BY DEF Writers, Savers, Known, Entries, Exposed, NeedsNewline
  <1>2. LockInv' /\ CursorInv'
    BY <1>1 DEF Parts, LockInv, CursorInv
  <1>3. WriterInv'
    BY <1>1 DEF Parts, WriterInv, OnFile
  <1>4. AckedInv'
    BY <1>1 DEF Parts, AckedInv, AckedOnFile, OnFile, IsRead
  <1>5. SaveInv'
    BY <1>1 DEF Parts, SaveInv, Rank, Entry, Unwritten
  <1>6. QED
    BY <1>2, <1>3, <1>4, <1>5 DEF Parts

(***************************************************************************)
(* The theorems.                                                           *)
(***************************************************************************)

\* The invariant is inductive: every step of the loader, of registerPath and
\* of save, and every crash, keeps it.
THEOREM IInvInductive == IInv /\ [Next]_vars => IInv'
  <1> SUFFICES ASSUME IInv, [Next]_vars PROVE IInv'
    OBVIOUS
  <1>1. TypeOK /\ Parts
    BY DEF IInv, Parts
  <1>2. TypeOK'
    BY <1>1, TypeStep DEF Parts
  <1>3. ASSUME Open \/ LoadFail \/ Crash PROVE Parts'
    BY <1>1, <1>3, ResetParts
  <1>4. ASSUME LoadLine PROVE Parts'
    BY <1>1, <1>4, LoadLineParts
  <1>5. ASSUME LoadDone PROVE Parts'
    BY <1>1, <1>5, LoadDoneParts
  <1>6. ASSUME NEW t \in Threads, Register(t)
        PROVE  Parts'
    BY <1>1, <1>6, RegisterBeginParts, ReadTailParts, PersistParts, PublishParts, StutterParts
    DEF Register, RegisterRefused
  <1>7. ASSUME NEW t \in Threads, Save(t)
        PROVE  Parts'
    BY <1>1, <1>7, SaveBeginParts, SaveEntryParts, SaveEndParts DEF Save
  <1>8. ASSUME UNCHANGED vars PROVE Parts'
    BY <1>1, <1>8, StutterParts
  <1>9. Parts'
    BY <1>3, <1>4, <1>5, <1>6, <1>7, <1>8 DEF Next, Load
  <1>10. QED
    BY <1>2, <1>9 DEF IInv, Parts

\* The invariant of the run MCCsvListfile holds for all threads, paths, files
\* and id widths.
THEOREM InvariantHolds == Spec => []IInv
  <1>1. Init => IInv
    BY InitType, InitParts DEF IInv, Parts
  <1>2. QED
    BY <1>1, IInvInductive, PTL DEF Spec

\* Type correctness; in particular no FileDataID leaves the custom range and
\* the cursor never wraps.
THEOREM TypeCorrect == Spec => []TypeOK
  <1>1. IInv => TypeOK
    BY DEF IInv
  <1>2. QED
    BY <1>1, InvariantHolds, PTL

\* No acknowledged registration ever leaves the working file, whatever appends
\* fail part way, unless a rewrite is in progress or has failed.
THEOREM AckedStayOnFile == Spec => []AckedOnFile
  <1>1. IInv => AckedOnFile
    BY DEF IInv, AckedInv
  <1>2. QED
    BY <1>1, InvariantHolds, PTL

\* Within a session no entry of either map is ever replaced: only the insertion
\* of a registration changes the maps, and its id and its path are new.
THEOREM MapsOnlyGrow == Spec => NeverRebound
  <1> DEFINE Kept ==
        phase = "up" /\ phase' = "up" =>
          /\ \A i \in Known : idToPath'[i] = idToPath[i]
          /\ \A p \in CanonPaths : pathToId[p] # NoId => pathToId'[p] = pathToId[p]
  <1>1. ASSUME IInv, [Next]_vars
        PROVE  Kept
    <2> SUFFICES ASSUME phase = "up", phase' = "up"
                 PROVE  /\ \A i \in Known : idToPath'[i] = idToPath[i]
                        /\ \A p \in CanonPaths :
                             pathToId[p] # NoId => pathToId'[p] = pathToId[p]
      OBVIOUS
    <2>1. ASSUME NEW t \in Threads, Publish(t)
          PROVE  Kept
      <3>1. t \in Writers
        BY <2>1 DEF Publish, Writers, WriterPCs
      <3>2. idToPath[th[t].id] = NoPath /\ pathToId[th[t].path] = NoId
        BY <1>1, <3>1 DEF IInv, WriterInv
      <3>3. /\ idToPath' = [idToPath EXCEPT ![th[t].id] = th[t].path]
            /\ pathToId' = [pathToId EXCEPT ![th[t].path] = th[t].id]
        BY <2>1 DEF Publish
      <3>4. QED
        BY <1>1, <3>2, <3>3 DEF IInv, TypeOK, Known
    <2>2. CASE \A t \in Threads : ~Publish(t)
      <3>1. UNCHANGED <<idToPath, pathToId>>
        BY <1>1, <2>2
        DEF Next, Load, Open, LoadLine, LoadFail, LoadDone, Crash, Register,
            RegisterRefused, RegisterBegin, ReadTail, Persist, PersistFail, Save,
            SaveBegin, SaveEntry, SaveEnd, SaveFail, vars, mem
      <3>2. QED
        BY <3>1
    <2>3. QED
      BY <2>1, <2>2
  <1>2. QED
    BY <1>1, InvariantHolds, PTL DEF Spec, NeverRebound

\* The listfile implements the registry: the insertion of a registration is
\* Register, a crash that costs the only complete copy is Lose, and every other
\* step leaves the acknowledged registrations alone.
THEOREM ImplementsRegistry == Spec => RegistrySpec
  <1>1. Exposed \in BOOLEAN /\ Exposed' \in BOOLEAN
    BY Zenon DEF Exposed
  <1>2. Init => Registry!Init
    BY <1>1, Zenon DEF Init, Registry!Init
  <1>3. ASSUME IInv, [Next]_vars
        PROVE  [Registry!Next]_<<acked, Exposed>>
    <2>1. CASE UNCHANGED acked
      BY <1>1, <2>1, Zenon DEF Registry!Next, Registry!Rewrite
    <2>2. ASSUME NEW t \in Threads, Publish(t)
          PROVE  Registry!Next
      <3>1. t \in Writers
        BY <2>2 DEF Publish, Writers, WriterPCs
      <3>2. /\ th[t].path \in Paths /\ th[t].id \in CustomIds
            /\ \A b \in acked : b.path # th[t].path /\ b.id # th[t].id
        BY <1>3, <3>1 DEF IInv, WriterInv
      <3>3. acked' = acked \cup {[path |-> th[t].path, id |-> th[t].id]}
        BY <2>2 DEF Publish
      <3>4. Savers = {} /\ Savers' = {}
        <4>1. Savers = {}
          BY <1>3, <3>1 DEF IInv, LockInv
        <4>2. th'[t].pc = "idle" /\ \A u \in Threads \ {t} : th'[u] = th[u]
          BY <1>3, <2>2 DEF IInv, TypeOK, Publish, IdleThread
        <4>3. QED
          BY <4>1, <4>2 DEF Savers
      <3>5. Exposed' = Exposed
        BY <2>2, <3>4, Zenon DEF Exposed, Publish
      <3>6. Registry!Register(th[t].path, th[t].id)
        BY <3>2, <3>3, <3>5, Zenon DEF Registry!Register
      <3>7. QED
        BY <3>2, <3>6 DEF Registry!Next
    <2>3. CASE Crash
      <3>1. CASE Exposed
        <4>1. acked' = {}
          BY <2>3, <3>1 DEF Crash
        <4>2. Registry!Lose
          BY <1>1, <3>1, <4>1, Zenon DEF Registry!Lose
        <4>3. QED
          BY <4>2 DEF Registry!Next
      <3>2. CASE ~Exposed
        BY <2>1, <2>3, <3>2 DEF Crash
      <3>3. QED
        BY <3>1, <3>2
    <2>4. CASE Load
      BY <2>1, <2>4 DEF Load, Open, LoadLine, LoadFail, LoadDone, ghosts
    <2>5. ASSUME NEW t \in Threads, Register(t), ~Publish(t)
          PROVE  UNCHANGED acked
      BY <2>5
      DEF Register, RegisterRefused, RegisterBegin, ReadTail, Persist, PersistFail, ghosts, vars
    <2>6. ASSUME NEW t \in Threads, Save(t)
          PROVE  UNCHANGED acked
      BY <2>6 DEF Save, SaveBegin, SaveEntry, SaveEnd, SaveFail, ghosts
    <2>7. CASE UNCHANGED vars
      BY <2>1, <2>7 DEF vars, ghosts
    <2>8. QED
      BY <1>3, <2>1, <2>2, <2>3, <2>4, <2>5, <2>6, <2>7 DEF Next
  <1>4. QED
    BY <1>2, <1>3, InvariantHolds, PTL DEF Spec, RegistrySpec, Registry!Spec

(***************************************************************************)
(* What the database answers of what it acknowledged, in AckedResolves.    *)
(* load() reads line by line, so its loop is in the invariant.             *)
(***************************************************************************)

\* Every entry with the id has the path.
Alone(i, p) == \A m \in Entries : file[m].id = i => file[m].path = p

\* The other ids a registered path has on file are those of torn lines: no line
\* takes such an id to another path, and a lower one is before the registered.
FileInOrder ==
  ~Exposed =>
    \A b \in acked : \A k \in Entries : file[k].path = b.path =>
      /\ Alone(file[k].id, b.path)
      /\ file[k].id < b.id => \E m \in Entries : k < m /\ file[m].id = b.id

\* A path on file that the database does not know is in lines this session tore.
TornInv ==
  phase = "up" /\ ~Exposed =>
    \A k \in Entries : pathToId[file[k].path] = NoId =>
      file[k].id \in CustomIds /\ Alone(file[k].id, file[k].path)

\* The registration in progress has the latest id and, once appended, the last
\* line.
LatestInv ==
  \A t \in Writers :
    /\ next = th[t].id + 1
    /\ th[t].pc = "publish" /\ hasSource =>
         file # <<>> /\ file[Len(file)].id = th[t].id /\ file[Len(file)].path = th[t].path

\* k is the last of the first n - 1 lines that is an entry with the id, or path.
LastWithId(k, i, n) ==
  /\ k \in Entries /\ k < n /\ file[k].id = i
  /\ \A m \in Entries : k < m /\ m < n => file[m].id # i
LastWithPath(k, p, n) ==
  /\ k \in Entries /\ k < n /\ file[k].path = p
  /\ \A m \in Entries : k < m /\ m < n => file[m].path # p

\* The maps say what the last of the lines read says.
LoadInv ==
  phase = "loading" =>
    /\ \A k \in Entries : k < lineNo =>
         idToPath[file[k].id] # NoPath /\ pathToId[file[k].path] # NoId
    /\ \A i \in Known : \E k : LastWithId(k, i, lineNo) /\ file[k].path = idToPath[i]
    /\ \A p \in CanonPaths : pathToId[p] # NoId =>
         \E k : LastWithPath(k, p, lineNo) /\ file[k].id = pathToId[p]

\* Every path of the one map is in the other.
MapsAgree == \A i \in Known : pathToId[idToPath[i]] # NoId

\* A file being rewritten holds nothing but entries of memory at their places.
RewriteInv ==
  Savers # {} =>
    \A k \in Entries :
      /\ file[k].id \in Known /\ file[k].path = idToPath[file[k].id]
      /\ k = Rank(file[k].id)

ResolveInv ==
  /\ FileInOrder /\ TornInv /\ LatestInv /\ LoadInv /\ MapsAgree /\ RewriteInv
  /\ AckedResolves

LEMMA ResolveInit == Init => ResolveInv
  <1> SUFFICES ASSUME Init PROVE ResolveInv
    OBVIOUS
  <1>1. phase = "down" /\ acked = {} /\ Known = {} /\ Writers = {} /\ Savers = {}
    BY DEF Init, Known, NoIdToPath, Writers, Savers, WriterPCs, IdleThread
  <1>2. QED
    BY <1>1
    DEF ResolveInv, FileInOrder, TornInv, LatestInv, LoadInv, MapsAgree, RewriteInv, AckedResolves

\* An entry has an id and a path, and is one of the lines.
LEMMA EntryTypes ==
  ASSUME TypeOK
  PROVE  \A k \in Entries : /\ file[k].id \in Ids /\ file[k].id \in Nat /\ file[k].path \in CanonPaths
                            /\ k \in 1..Len(file) /\ k \in Nat
  <1> SUFFICES ASSUME NEW k \in Entries
      PROVE  /\ file[k].id \in Ids /\ file[k].id \in Nat /\ file[k].path \in CanonPaths
             /\ k \in 1..Len(file) /\ k \in Nat
    OBVIOUS
  <1>1. k \in DOMAIN file /\ file[k].path \in CanonPaths /\ k \in 1..Len(file) /\ k \in Nat
    BY DEF Entries, TypeOK
  <1>2. file[k].path # Junk /\ file[k].path # Blank
    BY <1>1, PathAssumption
  <1>3. QED
    BY <1>1, <1>2, LineKinds, IdFacts

\* An acknowledged registration has a custom id.
LEMMA AckedTypes ==
  ASSUME TypeOK
  PROVE  \A b \in acked : /\ b.id \in Ids /\ b.id \in Nat /\ b.id \in CustomIds
                          /\ b.path \in Paths /\ b.path \in CanonPaths
  BY IdFacts DEF TypeOK, CanonPaths

\* Nothing but the lock and the cursor changes.
LEMMA LockSteps ==
  ASSUME ResolveInv, UNCHANGED <<file, phase, lineNo, pathToId, idToPath, acked>>,
         Exposed => Exposed', Savers' # {} => Savers # {}, LatestInv'
  PROVE  ResolveInv'
  <1>1. Entries' = Entries /\ Known' = Known
    BY DEF Entries, Known
  <1>2. \A i : Rank(i)' = Rank(i)
    BY <1>1 DEF Rank
  <1>3. FileInOrder' /\ TornInv'
    BY <1>1 DEF ResolveInv, FileInOrder, TornInv, Alone
  <1>4. LoadInv' /\ MapsAgree' /\ RewriteInv' /\ AckedResolves'
    BY <1>1, <1>2
    DEF ResolveInv, LoadInv, LastWithId, LastWithPath, MapsAgree, RewriteInv, AckedResolves
  <1>5. QED
    BY <1>3, <1>4 DEF ResolveInv

\* A database that is opened, or lost, knows nothing.
LEMMA ResetResolves ==
  ASSUME IInv, ResolveInv, IInv', Open \/ LoadFail \/ Crash
  PROVE  ResolveInv'
  <1>1. /\ pathToId' = NoPathToId /\ idToPath' = NoIdToPath /\ lineNo' = 1 /\ file' = file
        /\ phase' = "up" => Open /\ ~hasSource
        /\ acked' \subseteq acked /\ (acked' # {} => acked' = acked)
        /\ Crash => (acked' # {} => ~Exposed)
        /\ ~Crash => UNCHANGED <<hasSource, th, hurt>>
    BY DEF Open, LoadFail, Crash, ghosts
  <1>2. Known' = {} /\ Writers' = {} /\ Savers' = {}
    <2>1. Writers' = {} /\ Savers' = {}
      <3>1. CASE Open \/ LoadFail
        BY <1>1, <3>1 DEF Open, LoadFail, IInv, LockInv, Writers, Savers
      <3>2. CASE Crash
        BY <3>2 DEF Crash, Writers, Savers, WriterPCs, IdleThread
      <3>3. QED
        BY <3>1, <3>2
    <2>2. QED
      BY <1>1, <2>1 DEF Known, NoIdToPath
  <1>3. Entries' = Entries /\ \A k \in Entries : ~(k < lineNo')
    <2>1. Entries' = Entries /\ \A k \in Entries : k \in 1..Len(file)
      BY <1>1, EntryTypes DEF Entries, IInv
    <2>2. QED
      BY <1>1, <2>1
  <1>4. acked' # {} => ~Exposed
    BY <1>1, Zenon DEF Exposed, IInv, LockInv, Open, LoadFail
  <1>5. FileInOrder'
    BY <1>1, <1>3, <1>4 DEF ResolveInv, FileInOrder, Alone
  <1>6. TornInv' /\ AckedResolves'
    <2>1. phase' = "up" => Exposed' /\ acked' = {}
      BY <1>1 DEF Open, Exposed, IInv, LockInv, ghosts
    <2>2. QED
      BY <2>1 DEF TornInv, AckedResolves
  <1>7. LoadInv' /\ MapsAgree' /\ RewriteInv' /\ LatestInv'
    BY <1>1, <1>2, <1>3 DEF LoadInv, MapsAgree, RewriteInv, LatestInv, NoPathToId
  <1>8. QED
    BY <1>5, <1>6, <1>7 DEF ResolveInv

\* One iteration of the loop of load(): the line read is the last with its id
\* and with its path, and says nothing of the others.
LEMMA LoadLineResolves ==
  ASSUME IInv, ResolveInv, LoadLine
  PROVE  ResolveInv'
  <1> DEFINE line == file[lineNo]
  <1>1. /\ phase = "loading" /\ lineNo' = lineNo + 1 /\ lineNo \in DOMAIN file /\ lineNo \in Nat
        /\ UNCHANGED <<file, hasSource, phase, th, acked, hurt>>
    BY DEF LoadLine, ghosts, IInv, TypeOK
  <1>2. Writers = {} /\ Savers = {} /\ Writers' = {} /\ Savers' = {}
    BY <1>1 DEF IInv, LockInv, Writers, Savers
  <1>3. /\ Entries' = Entries
        /\ \A k \in Entries : /\ file[k].id \in Ids /\ file[k].path \in CanonPaths
                              /\ k \in Nat /\ (k < lineNo' <=> k < lineNo \/ k = lineNo)
    <2>1. Entries' = Entries
      BY <1>1 DEF Entries
    <2>2. QED
      BY <1>1, <2>1, EntryTypes DEF IInv
  <1>4. FileInOrder' /\ TornInv' /\ LatestInv' /\ RewriteInv' /\ AckedResolves'
    <2>1. Exposed' <=> Exposed
      BY <1>1, <1>2, Zenon DEF Exposed
    <2>2. QED
      BY <1>1, <1>2, <1>3, <2>1
      DEF ResolveInv, FileInOrder, Alone, TornInv, LatestInv, RewriteInv, AckedResolves
  <1>5. CASE line.path = Blank
    <2>1. UNCHANGED <<pathToId, idToPath>> /\ lineNo \notin Entries
      BY <1>1, <1>5, LineKinds DEF LoadLine, mem, IInv
    <2>2. Known' = Known /\ \A k \in Entries : k < lineNo' <=> k < lineNo
      BY <1>3, <2>1 DEF Known
    <2>3. /\ \A k, i : LastWithId(k, i, lineNo)' <=> LastWithId(k, i, lineNo)
          /\ \A k, p : LastWithPath(k, p, lineNo)' <=> LastWithPath(k, p, lineNo)
      BY <1>1, <1>3, <2>2 DEF LastWithId, LastWithPath
    <2>4. LoadInv' /\ MapsAgree'
      BY <1>1, <1>3, <2>1, <2>2, <2>3 DEF ResolveInv, LoadInv, MapsAgree
    <2>5. QED
      BY <1>4, <2>4 DEF ResolveInv
  <1>6. CASE line.path # Blank
    <2>1. lineNo \in Entries /\ line.id \in Ids /\ line.path \in CanonPaths
      BY <1>1, <1>6, LineKinds DEF LoadLine, IInv, Entries
    <2>2. /\ \A i \in Ids : idToPath'[i] = IF i = line.id THEN line.path ELSE idToPath[i]
          /\ \A p \in CanonPaths : pathToId'[p] = IF p = line.path THEN line.id ELSE pathToId[p]
      BY <1>6, <2>1 DEF LoadLine, IInv, TypeOK
    <2>3. line.path # NoPath /\ line.id # NoId
      BY <2>1, PathAssumption
    <2>4. ASSUME NEW k, NEW i, LastWithId(k, i, lineNo), i # line.id
          PROVE  LastWithId(k, i, lineNo)'
      BY <1>1, <1>3, <2>1, <2>4 DEF LastWithId
    <2>5. ASSUME NEW k, NEW p, LastWithPath(k, p, lineNo), p # line.path
          PROVE  LastWithPath(k, p, lineNo)'
      BY <1>1, <1>3, <2>1, <2>5 DEF LastWithPath
    <2>6. ASSUME NEW k, k = lineNo
          PROVE  /\ \A i : i = line.id => LastWithId(k, i, lineNo)'
                 /\ \A p : p = line.path => LastWithPath(k, p, lineNo)'
      BY <1>1, <1>3, <2>1, <2>6 DEF LastWithId, LastWithPath
    <2>7. ASSUME NEW k \in Entries, k < lineNo'
          PROVE  idToPath'[file[k].id] # NoPath /\ pathToId'[file[k].path] # NoId
      BY <1>1, <1>3, <2>2, <2>3, <2>7 DEF ResolveInv, LoadInv
    <2>8. ASSUME NEW i \in Known'
          PROVE  \E k : LastWithId(k, i, lineNo)' /\ file[k].path = idToPath'[i]
      <3>1. i \in Ids /\ (i # line.id => i \in Known)
        BY <2>2 DEF Known
      <3>2. CASE i = line.id
        BY <2>2, <2>6, <3>1, <3>2
      <3>3. CASE i # line.id
        <4>1. PICK k : LastWithId(k, i, lineNo) /\ file[k].path = idToPath[i]
          BY <1>1, <3>1, <3>3 DEF ResolveInv, LoadInv
        <4>2. QED
          BY <2>2, <2>4, <3>1, <3>3, <4>1
      <3>4. QED
        BY <3>2, <3>3
    <2>9. ASSUME NEW p \in CanonPaths, pathToId'[p] # NoId
          PROVE  \E k : LastWithPath(k, p, lineNo)' /\ file[k].id = pathToId'[p]
      <3>1. CASE p = line.path
        BY <2>2, <2>6, <3>1
      <3>2. CASE p # line.path
        <4>1. PICK k : LastWithPath(k, p, lineNo) /\ file[k].id = pathToId[p]
          BY <1>1, <2>2, <2>9, <3>2 DEF ResolveInv, LoadInv
        <4>2. QED
          BY <2>2, <2>5, <3>2, <4>1
      <3>3. QED
        BY <3>1, <3>2
    <2>10. LoadInv'
      BY <1>1, <1>3, <2>7, <2>8, <2>9 DEF LoadInv
    <2>11. MapsAgree'
      <3>1. ASSUME NEW i \in Known'
            PROVE  pathToId'[idToPath'[i]] # NoId
        <4>1. i \in Ids /\ (i # line.id => i \in Known)
          BY <2>2 DEF Known
        <4>2. i \in Known => idToPath[i] \in CanonPaths /\ pathToId[idToPath[i]] # NoId
          BY DEF Known, IInv, TypeOK, ResolveInv, MapsAgree
        <4>3. QED
          BY <2>1, <2>2, <2>3, <4>1, <4>2
      <3>2. QED
        BY <3>1 DEF MapsAgree
    <2>12. QED
      BY <1>4, <2>10, <2>11 DEF ResolveInv
  <1>7. QED
    BY <1>5, <1>6

\* The end of load(): the last line with the path of an acknowledged
\* registration is that registration's, or a later one that was torn.
LEMMA LoadDoneResolves ==
  ASSUME IInv, ResolveInv, IInv', LoadDone
  PROVE  ResolveInv'
  <1>1. /\ phase = "loading" /\ phase' = "up" /\ lineNo > Len(file)
        /\ UNCHANGED <<file, hasSource, lineNo, mem, th, acked, hurt>>
    BY DEF LoadDone, ghosts
  <1>2. hasSource /\ ~hurt /\ Writers = {} /\ Savers = {} /\ Writers' = {} /\ Savers' = {}
    BY <1>1 DEF IInv, LockInv, Writers, Savers
  <1>3. /\ ~Exposed /\ Entries' = Entries /\ Known' = Known
        /\ \A k \in Entries : k < lineNo /\ k \in Nat /\ file[k].id \in Nat /\ file[k].id \in Ids
    <2>1. ~Exposed /\ Entries' = Entries /\ Known' = Known
      BY <1>1, <1>2 DEF Exposed, Entries, Known, mem
    <2>2. \A k \in Entries : k < lineNo /\ k \in Nat /\ file[k].id \in Nat /\ file[k].id \in Ids
      BY <1>1, EntryTypes DEF IInv, TypeOK
    <2>3. QED
      BY <2>1, <2>2
  <1>4. TornInv'
    BY <1>1, <1>3 DEF ResolveInv, LoadInv, TornInv, mem
  <1>5. FileInOrder'
    BY <1>1, <1>3 DEF ResolveInv, FileInOrder, Alone
  <1>6. LatestInv' /\ LoadInv' /\ MapsAgree' /\ RewriteInv'
    BY <1>1, <1>2, <1>3 DEF ResolveInv, LatestInv, LoadInv, MapsAgree, RewriteInv, mem
  <1>7. ASSUME NEW b \in acked, pathToId[b.path] # b.id
        PROVE  /\ idToPath[pathToId[b.path]] = b.path
               /\ pathToId[b.path] > b.id
               /\ \A c \in acked : c.id # pathToId[b.path]
    <2>1. b.id \in Nat /\ b.path \in CanonPaths
      BY AckedTypes DEF IInv
    <2>2. pathToId[b.path] # NoId
      BY <1>1 DEF IInv, AckedInv, IsRead, mem
    <2>3. PICK k : LastWithPath(k, b.path, lineNo) /\ file[k].id = pathToId[b.path]
      BY <1>1, <2>1, <2>2 DEF ResolveInv, LoadInv
    <2>4. /\ k \in Entries /\ file[k].path = b.path
          /\ \A m \in Entries : k < m => file[m].path # b.path
      BY <1>3, <2>3 DEF LastWithPath
    <2>5. Alone(file[k].id, b.path) /\ (file[k].id < b.id => \E m \in Entries : k < m /\ file[m].id = b.id)
      BY <1>3, <2>4 DEF ResolveInv, FileInOrder
    <2>6. file[k].id \in Nat /\ file[k].id # b.id /\ file[k].id \in Ids
      BY <1>3, <1>7, <2>3, <2>4
    <2>7. ~(file[k].id < b.id)
      BY <2>4, <2>5 DEF IInv, AckedInv
    <2>8. idToPath[file[k].id] = b.path
      <3>1. file[k].id \in Known
        BY <1>1, <1>3, <2>4, <2>6 DEF ResolveInv, LoadInv, Known
      <3>2. PICK m : LastWithId(m, file[k].id, lineNo) /\ file[m].path = idToPath[file[k].id]
        BY <1>1, <3>1 DEF ResolveInv, LoadInv
      <3>3. QED
        BY <2>5, <3>2 DEF LastWithId, Alone
    <2>9. ASSUME NEW c \in acked, c.id = file[k].id
          PROVE  FALSE
      <3>1. c.path = b.path
        BY <2>4, <2>9 DEF IInv, AckedInv
      <3>2. c = b
        BY <3>1 DEF IInv, AckedInv
      <3>3. QED
        BY <2>6, <2>9, <3>2
    <2>10. QED
      BY <2>1, <2>3, <2>6, <2>7, <2>8, <2>9
  <1>8. AckedResolves'
    <2>1. \A b \in acked : idToPath[b.id] = b.path /\ pathToId[b.path] # NoId
      BY <1>1 DEF IInv, AckedInv, IsRead, mem
    <2>2. QED
      BY <1>1, <1>7, <2>1 DEF AckedResolves, mem
  <1>9. QED
    BY <1>4, <1>5, <1>6, <1>8 DEF ResolveInv

\* registerPath takes the next id, and looks at the tail of the file.
LEMMA LookResolves ==
  ASSUME IInv, ResolveInv, NEW t \in Threads,
         (\E s \in Spellings : RegisterBegin(t, s)) \/ ReadTail(t)
  PROVE  ResolveInv'
  <1>1. CASE \E s \in Spellings : RegisterBegin(t, s)
    <2>1. PICK s \in Spellings : RegisterBegin(t, s)
      BY <1>1
    <2>2. /\ UNCHANGED <<file, hasSource, phase, lineNo, pathToId, idToPath, acked, hurt>>
          /\ next' = next + 1 /\ Writers = {} /\ Savers = {}
      BY <2>1 DEF RegisterBegin, CanLockExclusive, ghosts
    <2>3. /\ th'[t].pc = IF hasSource THEN "tail" ELSE "publish"
          /\ th'[t].id = next /\ \A u \in Threads \ {t} : th'[u] = th[u]
      BY <2>1 DEF RegisterBegin, IInv, TypeOK
    <2>4. Writers' = {t} /\ Savers' = {}
      BY <2>2, <2>3 DEF Writers, Savers, WriterPCs
    <2>5. LatestInv'
      BY <2>2, <2>3, <2>4 DEF LatestInv
    <2>6. Exposed => Exposed'
      BY <2>2, <2>4, Zenon DEF Exposed
    <2>7. QED
      BY <2>2, <2>4, <2>5, <2>6, LockSteps
  <1>2. CASE ReadTail(t)
    <2>1. /\ UNCHANGED <<file, hasSource, phase, lineNo, pathToId, idToPath, acked, hurt, next>>
          /\ th[t].pc = "tail"
      BY <1>2 DEF ReadTail, ghosts, mem
    <2>2. /\ th'[t].pc = "append" /\ th'[t].id = th[t].id
          /\ \A u \in Threads \ {t} : th'[u] = th[u]
      BY <1>2 DEF ReadTail, IInv, TypeOK, ThreadState
    <2>3. Writers' = Writers /\ Savers' = Savers
      BY <2>1, <2>2 DEF Writers, Savers, WriterPCs
    <2>4. LatestInv'
      BY <2>1, <2>2, <2>3 DEF ResolveInv, LatestInv, Writers
    <2>5. Exposed => Exposed'
      BY <2>1, <2>3, Zenon DEF Exposed
    <2>6. QED
      BY <2>1, <2>3, <2>4, <2>5, LockSteps
  <1>3. QED
    BY <1>1, <1>2

\* What registerPath appends, whole or torn, is at most one line, the last, and
\* an entry only with its own id.
LEMMA AppendedIs ==
  ASSUME IInv, NEW t \in Threads, Persist(t) \/ PersistFail(t)
  PROVE  /\ t \in Writers
         /\ \A k \in DOMAIN file :
              k \in DOMAIN file' /\ file'[k].id = file[k].id /\ file'[k].path = file[k].path
         /\ \A k \in DOMAIN file' :
              \/ k \in DOMAIN file
              \/ k = Len(file) + 1 /\ (file'[k].id = th[t].id \/ file'[k].path = Junk)
         /\ Persist(t) => /\ Len(file') = Len(file) + 1
                          /\ file'[Len(file')].id = th[t].id /\ file'[Len(file')].path = th[t].path
  <1>1. t \in Writers /\ th[t].pc = "append" /\ th[t].nl = NeedsNewline
    BY DEF Persist, PersistFail, Writers, WriterPCs, IInv, WriterInv
  <1>2. TypeOK /\ WriterInv
    BY DEF IInv
  <1> DEFINE f == Terminated(NeedsNewline)
             Appends(line) == line \in Line /\ file' = Put(f, line)
  <1>3. ASSUME NEW line \in Line, file' = Put(f, line)
        PROVE  /\ Len(file') = Len(file) + 1 /\ file'[Len(file')] = line
               /\ \A k \in DOMAIN file :
                    k \in DOMAIN file' /\ file'[k].id = file[k].id /\ file'[k].path = file[k].path
               /\ \A k \in DOMAIN file' : k \in DOMAIN file \/ (k = Len(file) + 1 /\ file'[k] = line)
    <2>1. /\ Len(file') = Len(file) + 1 /\ file' \in Seq(Line)
          /\ file'[Len(file) + 1] = line
          /\ \A k \in DOMAIN file : file'[k].id = file[k].id /\ file'[k].path = file[k].path
      BY <1>2, <1>3, AppendFacts
    <2>2. DOMAIN file' = 1..(Len(file) + 1) /\ DOMAIN file = 1..Len(file) /\ Len(file) \in Nat
      BY <1>2, <2>1 DEF TypeOK
    <2>3. QED
      BY <2>1, <2>2
  <1>4. CASE Persist(t)
    <2>1. PICK line \in Line : line = [id |-> th[t].id, path |-> th[t].path, nl |-> TRUE]
      BY <1>1, <1>2, WriterLine
    <2>2. file' = Put(f, line) /\ line.id = th[t].id /\ line.path = th[t].path
      BY <1>1, <1>4, <2>1 DEF Persist
    <2>3. QED
      BY <1>1, <1>3, <2>2
  <1>5. CASE PersistFail(t)
    <2>1. ~Persist(t)
      BY <1>2, <1>5, PathAssumption DEF Persist, PersistFail, IdleThread, TypeOK
    <2>2. CASE file' = file
      BY <1>1, <2>1, <2>2
    <2>3. CASE file' = f
      <3>1. [id |-> th[t].id, path |-> th[t].path, nl |-> TRUE] \in Line
        BY <1>1, <1>2, WriterLine
      <3>2. /\ f \in Seq(Line) /\ Len(f) = Len(file)
            /\ \A k \in DOMAIN file : f[k].id = file[k].id /\ f[k].path = file[k].path
        BY <1>2, <3>1, AppendFacts
      <3>3. DOMAIN f = DOMAIN file
        BY <1>2, <3>2 DEF TypeOK
      <3>4. QED
        BY <1>1, <2>1, <2>3, <3>2, <3>3
    <2>4. ASSUME NEW line \in TornLines(t), file' = Put(f, line)
          PROVE  /\ \A k \in DOMAIN file :
                      k \in DOMAIN file' /\ file'[k].id = file[k].id /\ file'[k].path = file[k].path
                 /\ \A k \in DOMAIN file' :
                      \/ k \in DOMAIN file
                      \/ k = Len(file) + 1 /\ (file'[k].id = th[t].id \/ file'[k].path = Junk)
      <3>1. line \in Line /\ (line.id = th[t].id \/ line.path = Junk)
        BY <1>1, <1>2, TornType
      <3>2. QED
        BY <1>3, <2>4, <3>1
    <2>5. QED
      BY <1>1, <1>5, <2>1, <2>2, <2>3, <2>4 DEF PersistFail
  <1>6. QED
    BY <1>4, <1>5

\* The line appended has an id nothing on file has: nothing known loses its
\* place, and a path the database does not know is left alone with the id.
LEMMA PersistResolves ==
  ASSUME IInv, ResolveInv, NEW t \in Threads, Persist(t) \/ PersistFail(t)
  PROVE  ResolveInv'
  <1> DEFINE j == th[t].id
  <1>1. /\ UNCHANGED <<hasSource, phase, lineNo, pathToId, idToPath, next, acked, hurt>>
        /\ th[t].pc = "append" /\ t \in Writers
    BY AppendedIs DEF Persist, PersistFail, ghosts, mem
  <1>2. /\ phase = "up" /\ Writers = {t} /\ Savers = {}
        /\ j \in CustomIds /\ j \in Nat /\ next = j + 1
        /\ \A k \in Entries : file[k].id # j
        /\ \A b \in acked : b.id # j
    BY <1>1, IdFacts DEF IInv, LockInv, WriterInv, ResolveInv, LatestInv
  <1>3. /\ \A k \in Entries : k \in Entries' /\ file'[k].id = file[k].id /\ file'[k].path = file[k].path
        /\ \A k \in Entries' : k \in Entries \/ (k = Len(file) + 1 /\ file'[k].id = j)
    <2>1. ASSUME NEW k \in Entries'
          PROVE  k \in Entries \/ (k = Len(file) + 1 /\ file'[k].id = j)
      BY <2>1, AppendedIs, PathAssumption DEF Entries
    <2>2. QED
      BY <2>1, AppendedIs DEF Entries
  <1>4. \A k \in Entries : k \in Nat /\ k < Len(file) + 1
    BY EntryTypes DEF IInv, TypeOK
  <1>5. Savers' = {} /\ Writers' \subseteq {t}
        /\ (t \in Writers' => Persist(t) /\ th'[t].id = j)
    <2>1. CASE Persist(t)
      <3>1. th'[t].pc = "publish" /\ th'[t].id = j /\ \A u \in Threads \ {t} : th'[u] = th[u]
        BY <2>1 DEF Persist, IInv, TypeOK, ThreadState
      <3>2. QED
        BY <1>2, <2>1, <3>1 DEF Writers, Savers, WriterPCs
    <2>2. CASE PersistFail(t)
      <3>1. th'[t].pc = "idle" /\ \A u \in Threads \ {t} : th'[u] = th[u]
        BY <2>2 DEF PersistFail, IInv, TypeOK, IdleThread
      <3>2. QED
        BY <1>2, <3>1 DEF Writers, Savers, WriterPCs
    <2>3. QED
      BY <2>1, <2>2
  <1>6. ~Exposed' => ~Exposed
    BY <1>1, <1>2, Zenon DEF Exposed
  <1>7. FileInOrder'
    <2>1. SUFFICES ASSUME ~Exposed', NEW b \in acked, NEW k \in Entries', file'[k].path = b.path
          PROVE  /\ Alone(file[k].id, b.path)'
                 /\ file'[k].id < b.id => \E m \in Entries' : k < m /\ file'[m].id = b.id
      BY <1>1 DEF FileInOrder
    <2>2. b.id \in Nat /\ b.id < j
      <3>1. b.id \in CustomIds /\ b.id \in Ids /\ b.id \in Nat
        BY AckedTypes DEF IInv
      <3>2. b.id \in Known
        BY <1>2, <3>1, PathAssumption, AckedTypes DEF IInv, AckedInv, IsRead, Known
      <3>3. b.id < j + 1 /\ b.id # j
        BY <1>2, <3>1, <3>2 DEF IInv, CursorInv
      <3>4. QED
        BY <1>2, <3>1, <3>3
    <2>3. CASE k \in Entries
      <3>1. /\ Alone(file[k].id, b.path)
            /\ file[k].id < b.id => \E m \in Entries : k < m /\ file[m].id = b.id
        BY <1>3, <1>6, <2>1, <2>3 DEF ResolveInv, FileInOrder
      <3>2. Alone(file[k].id, b.path)'
        BY <1>2, <1>3, <2>3, <3>1 DEF Alone
      <3>3. QED
        BY <1>3, <2>3, <3>1, <3>2
    <2>4. CASE k \notin Entries
      <3>1. file'[k].id = j /\ k = Len(file) + 1
        BY <1>3, <2>4
      <3>2. Alone(file[k].id, b.path)'
        BY <1>2, <1>3, <2>1, <3>1 DEF Alone
      <3>3. QED
        BY <1>2, <2>2, <3>1, <3>2
    <2>5. QED
      BY <2>3, <2>4
  <1>8. TornInv'
    <2>1. SUFFICES ASSUME ~Exposed', NEW k \in Entries', pathToId[file'[k].path] = NoId
          PROVE  file'[k].id \in CustomIds /\ Alone(file[k].id, file[k].path)'
      BY <1>1 DEF TornInv
    <2>2. CASE k \in Entries
      <3>1. file[k].id \in CustomIds /\ Alone(file[k].id, file[k].path)
        BY <1>2, <1>3, <1>6, <2>1, <2>2 DEF ResolveInv, TornInv
      <3>2. QED
        BY <1>2, <1>3, <2>2, <3>1 DEF Alone
    <2>3. CASE k \notin Entries
      <3>1. file'[k].id = j /\ k = Len(file) + 1
        BY <1>3, <2>3
      <3>2. QED
        BY <1>2, <1>3, <3>1 DEF Alone
    <2>4. QED
      BY <2>2, <2>3
  <1>9. LatestInv'
    <2>1. SUFFICES ASSUME t \in Writers', Persist(t)
          PROVE  /\ next' = th'[t].id + 1
                 /\ file' # <<>> /\ file'[Len(file')].id = th'[t].id
                 /\ file'[Len(file')].path = th'[t].path
      BY <1>5 DEF LatestInv
    <2>2. th'[t].id = j /\ th'[t].path = th[t].path
      BY <2>1 DEF Persist, IInv, TypeOK, ThreadState
    <2>3. Len(file') = Len(file) + 1 /\ Len(file) \in Nat
      BY <2>1, AppendedIs DEF IInv, TypeOK
    <2>4. file' # <<>>
      BY <2>3
    <2>5. QED
      BY <1>1, <1>2, <2>1, <2>2, <2>4, AppendedIs
  <1>10. LoadInv' /\ MapsAgree' /\ RewriteInv' /\ AckedResolves'
    BY <1>1, <1>2, <1>5 DEF ResolveInv, LoadInv, MapsAgree, RewriteInv, AckedResolves, Known
  <1>11. QED
    BY <1>7, <1>8, <1>9, <1>10 DEF ResolveInv

\* The registration is acknowledged: its line is the last, and every other line
\* with its path was torn by this session, with a lower id.
LEMMA PublishResolves ==
  ASSUME IInv, ResolveInv, IInv', NEW t \in Threads, Publish(t)
  PROVE  ResolveInv'
  <1> DEFINE i == th[t].id
             p == th[t].path
             new == [path |-> p, id |-> i]
  <1>1. t \in Writers /\ th[t].pc = "publish"
    BY DEF Publish, Writers, WriterPCs
  <1>2. /\ UNCHANGED <<file, hasSource, phase, lineNo, next, hurt>>
        /\ idToPath' = [idToPath EXCEPT ![i] = p]
        /\ pathToId' = [pathToId EXCEPT ![p] = i]
        /\ acked' = acked \cup {new} /\ new.id = i /\ new.path = p
    BY DEF Publish
  <1>3. /\ phase = "up" /\ Writers = {t} /\ Savers = {}
        /\ p \in CanonPaths /\ i \in CustomIds /\ i \in Ids /\ i \in Nat /\ next = i + 1
        /\ idToPath[i] = NoPath /\ pathToId[p] = NoId
        /\ \A b \in acked : b.id # i /\ b.path # p
        /\ \A k \in Entries : file[k].id = i => file[k].path = p
    BY <1>1, IdFacts DEF IInv, LockInv, WriterInv, ResolveInv, LatestInv, CanonPaths
  <1>4. Writers' = {} /\ Savers' = {}
    <2>1. th'[t].pc = "idle" /\ \A u \in Threads \ {t} : th'[u] = th[u]
      BY DEF Publish, IInv, TypeOK, IdleThread
    <2>2. QED
      BY <1>3, <2>1 DEF Writers, Savers, WriterPCs
  <1>5. /\ \A x \in Ids : idToPath'[x] = IF x = i THEN p ELSE idToPath[x]
        /\ \A q \in CanonPaths : pathToId'[q] = IF q = p THEN i ELSE pathToId[q]
        /\ i # NoId /\ p # NoPath
    BY <1>2, <1>3, PathAssumption DEF IInv, TypeOK
  <1>6. /\ Entries' = Entries
        /\ \A k \in Entries : /\ file[k].id \in Nat /\ k \in 1..Len(file)
                              /\ file[k].path \in CanonPaths
    BY <1>2, EntryTypes DEF Entries, IInv
  <1>7. (Exposed' <=> Exposed) /\ (~Exposed => hasSource)
    BY <1>2, <1>3, <1>4, Zenon DEF Exposed
  <1>8. ASSUME ~Exposed, NEW k \in Entries, file[k].path = p
        PROVE  /\ Alone(file[k].id, p)
               /\ file[k].id < i => \E m \in Entries : k < m /\ file[m].id = i
    <2>1. file[k].id \in CustomIds /\ Alone(file[k].id, p)
      BY <1>3, <1>8 DEF ResolveInv, TornInv
    <2>2. file # <<>> /\ file[Len(file)].id = i /\ file[Len(file)].path = p
      BY <1>1, <1>7, <1>8 DEF ResolveInv, LatestInv
    <2>3. Len(file) \in Entries /\ k <= Len(file) /\ k \in Nat /\ Len(file) \in Nat
      BY <1>3, <1>6, <2>2 DEF Entries, IInv, TypeOK
    <2>4. file[k].id < i => k < Len(file)
      BY <1>3, <1>6, <2>2, <2>3
    <2>5. QED
      BY <2>1, <2>2, <2>3, <2>4
  <1>9. FileInOrder'
    <2>1. SUFFICES ASSUME ~Exposed, NEW b \in acked', NEW k \in Entries, file[k].path = b.path
          PROVE  /\ Alone(file[k].id, b.path)
                 /\ file[k].id < b.id => \E m \in Entries : k < m /\ file[m].id = b.id
      BY <1>2, <1>6, <1>7 DEF FileInOrder, Alone
    <2>2. CASE b = new
      BY <1>2, <1>8, <2>1, <2>2
    <2>3. CASE b \in acked
      BY <2>1, <2>3 DEF ResolveInv, FileInOrder
    <2>4. QED
      BY <1>2, <2>2, <2>3
  <1>10. TornInv'
    <2>1. SUFFICES ASSUME ~Exposed, NEW k \in Entries, pathToId'[file[k].path] = NoId
          PROVE  file[k].id \in CustomIds /\ Alone(file[k].id, file[k].path)
      BY <1>2, <1>6, <1>7 DEF TornInv, Alone
    <2>2. pathToId[file[k].path] = NoId
      BY <1>3, <1>5, <1>6, <2>1
    <2>3. QED
      BY <1>3, <2>1, <2>2 DEF ResolveInv, TornInv
  <1>11. MapsAgree'
    <2>1. ASSUME NEW x \in Known'
          PROVE  pathToId'[idToPath'[x]] # NoId
      <3>1. x \in Ids /\ (x # i => x \in Known)
        BY <1>5, <2>1 DEF Known
      <3>2. x \in Known => idToPath[x] \in CanonPaths /\ pathToId[idToPath[x]] # NoId
        BY DEF Known, IInv, TypeOK, ResolveInv, MapsAgree
      <3>3. QED
        BY <1>3, <1>5, <3>1, <3>2
    <2>2. QED
      BY <2>1 DEF MapsAgree
  <1>12. AckedResolves'
    <2>1. SUFFICES ASSUME NEW b \in acked'
          PROVE  /\ idToPath'[b.id] = b.path /\ pathToId'[b.path] # NoId
                 /\ \/ pathToId'[b.path] = b.id
                    \/ /\ idToPath'[pathToId'[b.path]] = b.path
                       /\ pathToId'[b.path] > b.id
                       /\ \A c \in acked' : c.id # pathToId'[b.path]
      BY DEF AckedResolves
    <2>2. CASE b = new
      BY <1>2, <1>3, <1>5, <2>2
    <2>3. CASE b \in acked
      <3>1. b.path \in CanonPaths /\ b.id \in Ids /\ b.path # p /\ b.id # i
        BY <1>3, <2>3, AckedTypes DEF IInv
      <3>2. /\ idToPath[b.id] = b.path /\ pathToId[b.path] # NoId
            /\ \/ pathToId[b.path] = b.id
               \/ /\ idToPath[pathToId[b.path]] = b.path
                  /\ pathToId[b.path] > b.id
                  /\ \A c \in acked : c.id # pathToId[b.path]
        BY <1>3, <2>3 DEF ResolveInv, AckedResolves
      <3>3. pathToId[b.path] \in Ids
        BY <3>1, <3>2 DEF IInv, TypeOK
      <3>4. pathToId'[b.path] = pathToId[b.path] /\ idToPath'[b.id] = b.path
        BY <1>5, <3>1, <3>2
      <3>5. CASE pathToId[b.path] = b.id
        BY <3>2, <3>4, <3>5
      <3>6. CASE /\ idToPath[pathToId[b.path]] = b.path
                 /\ pathToId[b.path] > b.id
                 /\ \A c \in acked : c.id # pathToId[b.path]
        <4>1. pathToId[b.path] # i
          BY <1>3, <3>1, <3>6, PathAssumption
        <4>2. idToPath'[pathToId[b.path]] = b.path
          BY <1>5, <3>3, <3>6, <4>1
        <4>3. \A c \in acked' : c.id # pathToId[b.path]
          BY <1>2, <3>6, <4>1
        <4>4. QED
          BY <3>2, <3>4, <3>6, <4>2, <4>3
      <3>7. QED
        BY <3>2, <3>5, <3>6
    <2>4. QED
      BY <1>2, <2>2, <2>3
  <1>13. LatestInv' /\ LoadInv' /\ RewriteInv'
    BY <1>2, <1>3, <1>4 DEF LatestInv, LoadInv, RewriteInv
  <1>14. QED
    BY <1>9, <1>10, <1>11, <1>12, <1>13 DEF ResolveInv

\* While the file is rewritten it holds lines of memory only; when the last
\* rewrite has ended, all of them, in the order of their ids.
LEMMA SaveResolves ==
  ASSUME IInv, ResolveInv, IInv', NEW t \in Threads, Save(t)
  PROVE  ResolveInv'
  <1>1. /\ phase = "up" /\ hasSource /\ Writers = {}
        /\ UNCHANGED <<hasSource, phase, lineNo, pathToId, idToPath, acked>>
    <2>1. CASE SaveBegin(t)
      BY <2>1 DEF SaveBegin, CanLockShared, mem
    <2>2. CASE ~SaveBegin(t)
      <3>1. t \in Savers /\ UNCHANGED <<hasSource, phase, lineNo, pathToId, idToPath, acked>>
        BY <2>2 DEF Save, SaveEntry, SaveEnd, SaveFail, Savers, mem, ghosts
      <3>2. QED
        BY <3>1 DEF IInv, LockInv
    <2>3. QED
      BY <2>1, <2>2
  <1>2. Writers' = {} /\ Known' = Known
    <2>1. th'[t].pc \in {"save", "idle"} /\ \A u \in Threads \ {t} : th'[u] = th[u]
      BY DEF Save, SaveBegin, SaveEntry, SaveEnd, SaveFail, IInv, TypeOK, IdleThread, ThreadState
    <2>2. QED
      BY <1>1, <2>1 DEF Writers, WriterPCs, Known
  <1>3. \A i : Rank(i)' = Rank(i)
    BY <1>2 DEF Rank
  <1>4. LatestInv' /\ LoadInv' /\ MapsAgree' /\ AckedResolves'
    BY <1>1, <1>2 DEF ResolveInv, LatestInv, LoadInv, MapsAgree, AckedResolves
  <1>5. CASE SaveBegin(t)
    <2>1. Entries' = {} /\ Exposed'
      <3>1. th'[t].pc = "save"
        BY <1>5 DEF SaveBegin, IInv, TypeOK, IdleThread
      <3>2. QED
        BY <1>5, <3>1 DEF SaveBegin, Entries, Exposed, Savers
    <2>2. QED
      BY <1>4, <2>1 DEF ResolveInv, FileInOrder, TornInv, RewriteInv
  <1>6. CASE SaveEntry(t)
    <2>1. PICK i \in Unwritten(t) : file' = WriteAt(file, Rank(i), Entry(i)) /\ th' = [th EXCEPT ![t].id = i]
      BY <1>6 DEF SaveEntry
    <2>2. t \in Savers /\ Exposed'
      <3>1. th[t].pc = "save" /\ th'[t].pc = "save"
        BY <1>6, <2>1 DEF SaveEntry, IInv, TypeOK, ThreadState
      <3>2. QED
        BY <3>1 DEF Savers, Exposed
    <2>3. i \in Known /\ Rank(i) \in Nat \ {0} /\ Entry(i) \in Line
      BY RankFacts, EntryType DEF Unwritten, IInv
    <2>4. /\ Rank(i) \in DOMAIN file' /\ file'[Rank(i)] = Entry(i)
          /\ \A j \in DOMAIN file' : j = Rank(i) \/ (j \in DOMAIN file /\ file'[j] = file[j]) \/ file'[j].path = Junk
      BY <2>1, <2>3, WriteAtFacts DEF IInv, TypeOK
    <2>5. ASSUME NEW k \in Entries'
          PROVE  /\ file'[k].id \in Known /\ file'[k].path = idToPath[file'[k].id]
                 /\ k = Rank(file'[k].id)
      <3>1. k \in DOMAIN file' /\ file'[k].path # Junk
        BY <2>5, PathAssumption DEF Entries
      <3>2. CASE k = Rank(i)
        <4>1. file'[k].id = i /\ file'[k].path = idToPath[i]
          BY <2>4, <3>1, <3>2 DEF Entry
        <4>2. QED
          BY <2>3, <3>2, <4>1
      <3>3. CASE k \in DOMAIN file /\ file'[k] = file[k]
        <4>1. k \in Entries
          BY <2>5, <3>3 DEF Entries
        <4>2. QED
          BY <2>2, <3>3, <4>1 DEF ResolveInv, RewriteInv
      <3>4. QED
        BY <2>4, <3>1, <3>2, <3>3
    <2>6. RewriteInv'
      BY <1>1, <1>2, <1>3, <2>5 DEF RewriteInv
    <2>7. QED
      BY <1>4, <2>2, <2>6 DEF ResolveInv, FileInOrder, TornInv
  <1>7. CASE SaveEnd(t) \/ SaveFail(t)
    <2>1. t \in Savers /\ Exposed /\ file' = file /\ Entries' = Entries
      BY <1>7 DEF SaveEnd, SaveFail, Savers, Exposed, Entries
    <2>2. \A k \in Entries : /\ file[k].id \in Known /\ file[k].path = idToPath[file[k].id]
                             /\ k = Rank(file[k].id)
      BY <2>1 DEF ResolveInv, RewriteInv
    <2>3. RewriteInv'
      BY <1>1, <1>2, <1>3, <2>1, <2>2 DEF RewriteInv
    <2>4. TornInv'
      BY <1>1, <2>1, <2>2 DEF TornInv, ResolveInv, MapsAgree
    <2>5. ASSUME ~Exposed', NEW b \in acked, NEW k \in Entries, file[k].path = b.path
          PROVE  /\ Alone(file[k].id, b.path)
                 /\ file[k].id < b.id => \E m \in Entries : k < m /\ file[m].id = b.id
      <3>1. Alone(file[k].id, b.path)
        BY <2>2, <2>5 DEF Alone
      <3>2. PICK m \in DOMAIN file : file[m].id = b.id /\ file[m].path = b.path
        BY <1>1, <2>1, <2>5 DEF IInv, AckedInv, AckedOnFile, OnFile
      <3>3. m \in Entries
        BY <2>5, <3>2 DEF Entries
      <3>4. k = Rank(file[k].id) /\ m = Rank(b.id) /\ file[k].id \in Known /\ b.id \in Known
        BY <2>2, <3>2, <3>3
      <3>5. file[k].id < b.id => k < m
        BY <3>4, RankFacts DEF IInv
      <3>6. QED
        BY <3>1, <3>2, <3>3, <3>5
    <2>6. FileInOrder'
      BY <1>1, <2>1, <2>5 DEF FileInOrder, Alone
    <2>7. QED
      BY <1>4, <2>3, <2>4, <2>6 DEF ResolveInv
  <1>8. QED
    BY <1>5, <1>6, <1>7 DEF Save

LEMMA ResolveStep ==
  ASSUME IInv, ResolveInv, [Next]_vars
  PROVE  ResolveInv'
  <1>1. IInv'
    BY IInvInductive
  <1>2. CASE Load \/ Crash
    BY <1>1, <1>2, ResetResolves, LoadLineResolves, LoadDoneResolves DEF Load
  <1>3. CASE UNCHANGED vars
    <2>1. UNCHANGED <<file, hasSource, phase, lineNo, pathToId, idToPath, next, th, acked, hurt>>
      BY <1>3 DEF vars, mem, ghosts
    <2>2. Writers' = Writers /\ Savers' = Savers /\ (Exposed => Exposed')
      BY <2>1 DEF Writers, Savers, Exposed
    <2>3. LatestInv'
      BY <2>1, <2>2 DEF ResolveInv, LatestInv
    <2>4. QED
      BY <2>1, <2>2, <2>3, LockSteps
  <1>4. ASSUME NEW t \in Threads, Register(t)
        PROVE  ResolveInv'
    BY <1>1, <1>3, <1>4, LookResolves, PersistResolves, PublishResolves DEF Register, RegisterRefused
  <1>5. ASSUME NEW t \in Threads, Save(t)
        PROVE  ResolveInv'
    BY <1>1, <1>5, SaveResolves
  <1>6. QED
    BY <1>2, <1>3, <1>4, <1>5 DEF Next

LEMMA ResolveInvariant == Spec => []ResolveInv
  <1>1. Init => ResolveInv
    BY ResolveInit
  <1>2. IInv /\ ResolveInv /\ [Next]_vars => ResolveInv'
    BY ResolveStep
  <1>3. QED
    BY <1>1, <1>2, InvariantHolds, PTL DEF Spec

\* A database in use answers every registration that was ever acknowledged, in
\* both directions, also those of sessions before a crash and with the remains
\* of failed appends between them; a path may only be under the later id of such
\* a remain, which nobody was told.
THEOREM AckedAreResolved == Spec => []AckedResolves
  <1>1. ResolveInv => AckedResolves
    BY DEF ResolveInv
  <1>2. QED
    BY <1>1, ResolveInvariant, PTL

(***************************************************************************)
(* The working file and the memory, in FileIsMemory.                       *)
(***************************************************************************)

\* The ranks of n entries are the numbers from 1 to n.
LEMMA RanksFill ==
  ASSUME TypeOK
  PROVE  /\ Cardinality(Known) \in Nat
         /\ \A i \in Known : Rank(i) \in 1..Cardinality(Known)
         /\ \A k \in 1..Cardinality(Known) : \E i \in Known : Rank(i) = k
         /\ \A i, j \in Known : Rank(i) = Rank(j) => i = j
  <1> DEFINE n == Cardinality(Known)
             rank == [i \in Known |-> Rank(i)]
  <1>1. IsFiniteSet(Known) /\ Known \subseteq Nat
    <2>1. IsFiniteSet(Ids)
      BY FS_Interval, U32Assumption DEF Ids
    <2>2. Known \subseteq Ids
      BY DEF Known
    <2>3. QED
      BY <2>1, <2>2, FS_Subset, IdFacts
  <1>2. n \in Nat
    BY <1>1, FS_CardinalityType
  <1>3. ASSUME NEW i \in Known
        PROVE  Rank(i) \in 1..n
    <2>1. {j \in Known : j <= i} \in SUBSET Known
      OBVIOUS
    <2>2. Rank(i) <= n
      BY <1>1, <2>1, FS_Subset DEF Rank
    <2>3. QED
      BY <1>2, <2>2, RankFacts
  <1>4. \A i, j \in Known : Rank(i) = Rank(j) => i = j
    <2>1. ASSUME NEW i \in Known, NEW j \in Known, i # j
          PROVE  Rank(i) # Rank(j)
      <3>1. i < j \/ j < i
        BY <1>1, <2>1
      <3>2. Rank(i) \in Nat /\ Rank(j) \in Nat
        BY RankFacts
      <3>3. QED
        BY <3>1, <3>2, RankFacts
    <2>2. QED
      BY <2>1
  <1>5. rank \in Injection(Known, 1..n)
    BY <1>3, <1>4 DEF Injection, IsInjective
  <1>6. IsFiniteSet(1..n) /\ Cardinality(1..n) = n
    BY <1>2, FS_Interval
  <1>7. rank \in Surjection(Known, 1..n)
    BY <1>5, <1>6, FS_Injection
  <1>8. \A k \in 1..n : \E i \in Known : rank[i] = k
    BY <1>7 DEF Surjection
  <1>9. QED
    BY <1>2, <1>3, <1>4, <1>8

\* The loop of load() has met no line it refuses, and the cursor is where it
\* started or behind an id it has read.
ScanInv ==
  phase = "loading" =>
    /\ \A k \in DOMAIN file : k < lineNo => file[k].path # Junk
    /\ next = CustomFdidStart \/ next - 1 \in Known

LEMMA ScanStep ==
  ASSUME IInv, ScanInv, [Next]_vars
  PROVE  ScanInv'
  <1> SUFFICES ASSUME phase' = "loading" PROVE ScanInv'
    BY DEF ScanInv
  <1>1. CASE Open
    <2>1. file' = file /\ lineNo' = 1 /\ next' = CustomFdidStart
      BY <1>1 DEF Open
    <2>2. \A k \in DOMAIN file : ~(k < 1)
      BY DEF IInv, TypeOK
    <2>3. QED
      BY <2>1, <2>2 DEF ScanInv
  <1>2. CASE LoadLine
    <2> DEFINE line == file[lineNo]
    <2>1. /\ phase = "loading" /\ lineNo' = lineNo + 1 /\ file' = file /\ line.path # Junk
          /\ lineNo \in DOMAIN file /\ lineNo \in Nat
      BY <1>2 DEF LoadLine, IInv, TypeOK
    <2>2. \A k \in DOMAIN file' : k < lineNo' => file'[k].path # Junk
      <3>1. \A k \in DOMAIN file : k < lineNo' => k < lineNo \/ k = lineNo
        BY <2>1 DEF IInv, TypeOK
      <3>2. QED
        BY <2>1, <3>1 DEF ScanInv
    <2>3. next' = CustomFdidStart \/ next' - 1 \in Known'
      <3>1. CASE line.path = Blank
        BY <1>2, <2>1, <3>1 DEF LoadLine, mem, Known, ScanInv
      <3>2. CASE line.path # Blank
        <4>1. line.id \in Ids /\ line.path \in CanonPaths /\ line.id \in Nat
          BY <2>1, <3>2, LineKinds, IdFacts DEF IInv, Entries
        <4>2. /\ idToPath' = [idToPath EXCEPT ![line.id] = line.path]
              /\ next' = NoteLine(next, line.id)
          BY <1>2, <3>2 DEF LoadLine
        <4>3. Known' = Known \cup {line.id}
          BY <4>1, <4>2, PathAssumption DEF Known, IInv, TypeOK
        <4>4. next' = next \/ next' = line.id + 1
          <5>1. line.id <= MaxId => (line.id + 1) % U32 = line.id + 1
            BY <4>1, ModSmall, U32Assumption DEF MaxId
          <5>2. QED
            BY <4>2, <5>1 DEF NoteLine, NoteExisting
        <4>5. QED
          BY <2>1, <4>1, <4>3, <4>4 DEF ScanInv
      <3>3. QED
        BY <3>1, <3>2
    <2>4. QED
      BY <2>2, <2>3 DEF ScanInv
  <1>3. CASE UNCHANGED vars
    BY <1>3 DEF vars, mem, ScanInv, Known
  <1>4. CASE LoadFail \/ LoadDone \/ Crash
    BY <1>4 DEF LoadFail, LoadDone, Crash
  <1>5. ASSUME NEW t \in Threads, Register(t) \/ Save(t)
        PROVE  phase' = "up"
    <2>1. phase = "up"
      BY <1>5
      DEF Register, RegisterRefused, RegisterBegin, ReadTail, Persist, PersistFail, Publish, Save,
          SaveBegin, SaveEntry, SaveEnd, SaveFail, IInv, LockInv, Writers, WriterPCs, Savers
    <2>2. phase' = phase
      BY <1>5
      DEF Register, RegisterRefused, RegisterBegin, ReadTail, Persist, PersistFail, Publish, Save,
          SaveBegin, SaveEntry, SaveEnd, SaveFail, vars
    <2>3. QED
      BY <2>1, <2>2
  <1>6. QED
    BY <1>1, <1>2, <1>3, <1>4, <1>5 DEF Next, Load

\* A file being rewritten has no more lines than the memory has entries.
FitsInv == Savers # {} => Len(file) <= Cardinality(Known)

LEMMA FitsStep ==
  ASSUME IInv, FitsInv, IInv', [Next]_vars
  PROVE  FitsInv'
  <1> SUFFICES ASSUME Savers' # {} PROVE Len(file') <= Cardinality(Known')
    BY DEF FitsInv
  <1>0. Cardinality(Known) \in Nat /\ Len(file) \in Nat
    BY RanksFill DEF IInv, TypeOK
  <1>1. ASSUME NEW t \in Threads, SaveBegin(t)
        PROVE  Len(file') <= Cardinality(Known')
    <2>1. file' = <<>> /\ Known' = Known
      BY <1>1 DEF SaveBegin, mem, Known
    <2>2. QED
      BY <1>0, <2>1
  <1>2. ASSUME NEW t \in Threads, SaveEntry(t)
        PROVE  Len(file') <= Cardinality(Known')
    <2>1. PICK i \in Unwritten(t) : file' = WriteAt(file, Rank(i), Entry(i))
      BY <1>2 DEF SaveEntry
    <2>2. Known' = Known /\ t \in Savers /\ i \in Known
      BY <1>2 DEF SaveEntry, mem, Known, Savers, Unwritten
    <2>3. Rank(i) \in 1..Cardinality(Known) /\ Len(file) <= Cardinality(Known)
      BY <2>2, RanksFill DEF IInv, FitsInv
    <2>4. Len(file') = IF Rank(i) > Len(file) THEN Rank(i) ELSE Len(file)
      BY <1>0, <2>1, <2>3 DEF WriteAt
    <2>5. QED
      BY <1>0, <2>2, <2>3, <2>4
  <1>3. ASSUME NEW t \in Threads, SaveEnd(t) \/ SaveFail(t)
        PROVE  Len(file') <= Cardinality(Known')
    BY <1>3 DEF SaveEnd, SaveFail, mem, Known, FitsInv, Savers
  <1>4. CASE UNCHANGED vars
    BY <1>4 DEF vars, mem, Known, FitsInv, Savers
  <1>5. CASE Load \/ Crash
    <2>1. Savers' = {}
      <3>1. CASE Load
        <4>1. th' = th /\ phase # "up"
          BY <3>1 DEF Load, Open, LoadLine, LoadFail, LoadDone
        <4>2. QED
          BY <4>1 DEF IInv, LockInv, Savers
      <3>2. CASE Crash
        BY <3>2 DEF Crash, Savers, IdleThread
      <3>3. QED
        BY <1>5, <3>1, <3>2
    <2>2. QED
      BY <2>1
  <1>6. ASSUME NEW t \in Threads, Register(t)
        PROVE  Savers' = {} \/ UNCHANGED vars
    <2>1. CASE \E s \in Spellings : RegisterBegin(t, s)
      <3>1. Savers = {} /\ th'[t].pc # "save" /\ \A u \in Threads \ {t} : th'[u] = th[u]
        BY <2>1 DEF RegisterBegin, CanLockExclusive, IInv, TypeOK
      <3>2. QED
        BY <3>1 DEF Savers
    <2>2. CASE ReadTail(t) \/ Persist(t) \/ PersistFail(t) \/ Publish(t)
      <3>1. t \in Writers
        BY <2>2 DEF ReadTail, Persist, PersistFail, Publish, Writers, WriterPCs
      <3>2. Savers = {}
        BY <3>1 DEF IInv, LockInv
      <3>3. th'[t].pc # "save" /\ \A u \in Threads \ {t} : th'[u] = th[u]
        BY <2>2 DEF ReadTail, Persist, PersistFail, Publish, IInv, TypeOK, ThreadState, IdleThread
      <3>4. QED
        BY <3>2, <3>3 DEF Savers
    <2>3. QED
      BY <1>6, <2>1, <2>2 DEF Register, RegisterRefused
  <1>7. QED
    BY <1>1, <1>2, <1>3, <1>4, <1>5, <1>6 DEF Next, Save

LEMMA ScansAndFits == Spec => [](ScanInv /\ FitsInv)
  <1>1. Init => ScanInv /\ FitsInv
    BY DEF Init, ScanInv, FitsInv, Savers, IdleThread
  <1>2. IInv /\ ScanInv /\ FitsInv /\ [Next]_vars => ScanInv' /\ FitsInv'
    BY ScanStep, FitsStep, IInvInductive
  <1>3. QED
    BY <1>1, <1>2, InvariantHolds, PTL DEF Spec

\* When every line is read, the maps are what the last lines say.
LEMMA LastLinesWin == IInv /\ ResolveInv /\ ScanInv => LoadIsLastLineWins
  <1> SUFFICES ASSUME IInv, ResolveInv, ScanInv, phase = "loading", lineNo > Len(file)
      PROVE  /\ Parses /\ idToPath = FileIdToPath /\ pathToId = FilePathToId
             /\ \A i \in Known \cap CustomIds : i < next
             /\ next = CustomFdidStart \/ next - 1 \in Known
    BY DEF LoadIsLastLineWins
  <1>1. /\ \A k \in DOMAIN file : k < lineNo
        /\ \A k \in Entries : k \in Nat /\ k < lineNo /\ file[k].id \in Ids /\ file[k].path \in CanonPaths
    BY EntryTypes DEF IInv, TypeOK
  <1>2. Parses
    BY <1>1 DEF Parses, ScanInv
  <1>3. ASSUME NEW i \in Ids
        PROVE  idToPath[i] = FileIdToPath[i]
    <2> DEFINE Has(k) == file[k].id = i
    <2>1. FileIdToPath[i] = IF \E k \in Entries : Has(k)
                            THEN file[CHOOSE k \in Entries :
                                        Has(k) /\ \A j \in Entries : Has(j) => j <= k].path
                            ELSE NoPath
      BY DEF FileIdToPath, LastWith
    <2>2. CASE i \in Known
      <3>1. PICK k : LastWithId(k, i, lineNo) /\ file[k].path = idToPath[i]
        BY <2>2 DEF ResolveInv, LoadInv
      <3>2. k \in Entries /\ Has(k) /\ \A j \in Entries : Has(j) => j <= k
        BY <1>1, <3>1 DEF LastWithId
      <3>3. \A m \in Entries : Has(m) /\ (\A j \in Entries : Has(j) => j <= m) => m = k
        BY <1>1, <3>2
      <3> HIDE DEF Has
      <3>4. (CHOOSE m \in Entries : Has(m) /\ \A j \in Entries : Has(j) => j <= m) = k
        BY <3>2, <3>3
      <3>5. QED
        BY <2>1, <3>1, <3>2, <3>4
    <2>3. CASE i \notin Known
      <3>1. idToPath[i] = NoPath /\ \A k \in Entries : ~Has(k)
        BY <1>1, <2>3 DEF Known, ResolveInv, LoadInv
      <3>2. QED
        BY <2>1, <3>1
    <2>4. QED
      BY <2>2, <2>3
  <1>4. ASSUME NEW p \in CanonPaths
        PROVE  pathToId[p] = FilePathToId[p]
    <2> DEFINE Has(k) == file[k].path = p
    <2>1. FilePathToId[p] = IF \E k \in Entries : Has(k)
                            THEN file[CHOOSE k \in Entries :
                                        Has(k) /\ \A j \in Entries : Has(j) => j <= k].id
                            ELSE NoId
      BY DEF FilePathToId, LastWith
    <2>2. CASE pathToId[p] # NoId
      <3>1. PICK k : LastWithPath(k, p, lineNo) /\ file[k].id = pathToId[p]
        BY <2>2 DEF ResolveInv, LoadInv
      <3>2. k \in Entries /\ Has(k) /\ \A j \in Entries : Has(j) => j <= k
        BY <1>1, <3>1 DEF LastWithPath
      <3>3. \A m \in Entries : Has(m) /\ (\A j \in Entries : Has(j) => j <= m) => m = k
        BY <1>1, <3>2
      <3> HIDE DEF Has
      <3>4. (CHOOSE m \in Entries : Has(m) /\ \A j \in Entries : Has(j) => j <= m) = k
        BY <3>2, <3>3
      <3>5. QED
        BY <2>1, <3>1, <3>2, <3>4
    <2>3. CASE pathToId[p] = NoId
      <3>1. \A k \in Entries : ~Has(k)
        BY <1>1, <2>3 DEF ResolveInv, LoadInv
      <3>2. QED
        BY <2>1, <2>3, <3>1
    <2>4. QED
      BY <2>2, <2>3
  <1>5. idToPath = FileIdToPath /\ pathToId = FilePathToId
    <2>1. /\ FileIdToPath = [i \in Ids |-> FileIdToPath[i]]
          /\ FilePathToId = [p \in CanonPaths |-> FilePathToId[p]]
      BY DEF FileIdToPath, FilePathToId
    <2>2. idToPath = [i \in Ids |-> idToPath[i]] /\ pathToId = [p \in CanonPaths |-> pathToId[p]]
      BY DEF IInv, TypeOK
    <2>3. QED
      BY <1>3, <1>4, <2>1, <2>2
  <1>6. QED
    BY <1>2, <1>5 DEF IInv, CursorInv, ScanInv

\* A save that ends alone, after no failed one, leaves every entry at its place
\* and nothing else.
LEMMA EndsComplete ==
  ASSUME IInv, FitsInv, NEW t \in Threads, SaveEnd(t), Savers = {t}, ~hurt
  PROVE  /\ Len(file) = Cardinality(Known)
         /\ \A i \in Known : file[Rank(i)] = Entry(i)
  <1>1. \A i \in Known : Rank(i) \in DOMAIN file /\ file[Rank(i)] = Entry(i)
    BY DEF SaveEnd, SaveIsDone, IInv, SaveInv
  <1>2. /\ Cardinality(Known) \in Nat /\ Len(file) \in Nat /\ DOMAIN file = 1..Len(file)
        /\ Len(file) <= Cardinality(Known)
    BY RanksFill DEF IInv, TypeOK, FitsInv
  <1>3. Cardinality(Known) > 0 => Cardinality(Known) \in 1..Len(file)
    <2>1. SUFFICES ASSUME Cardinality(Known) > 0 PROVE Cardinality(Known) \in 1..Len(file)
      OBVIOUS
    <2>2. PICK i \in Known : Rank(i) = Cardinality(Known)
      BY <1>2, <2>1, RanksFill DEF IInv
    <2>3. QED
      BY <1>1, <1>2, <2>2
  <1>4. QED
    BY <1>1, <1>2, <1>3

\* What the loop of load() builds is what the file says of each id and of each
\* path in the last line that names it.
THEOREM LoadsAreLastLineWins == Spec => []LoadIsLastLineWins
  <1>1. QED
    BY LastLinesWin, InvariantHolds, ResolveInvariant, ScansAndFits, PTL

\* A finished save has left exactly the entries of the memory, in the order of
\* their ids, whatever other threads were saving at the same time.
THEOREM SavesAreComplete == Spec => SaveIsComplete
  <1> DEFINE Complete ==
        \A t \in Threads :
          SaveEnd(t) /\ Savers = {t} /\ ~hurt =>
            /\ Len(file) = Cardinality(Known)
            /\ \A i \in Known : file[Rank(i)] = Entry(i)
  <1>1. IInv /\ FitsInv /\ [Next]_vars => [Complete]_vars
    BY EndsComplete
  <1>2. Spec => [][Complete]_vars
    <2> HIDE DEF Complete
    <2>1. QED
      BY <1>1, InvariantHolds, ScansAndFits, PTL DEF Spec
  <1>3. QED
    BY <1>2 DEF SaveIsComplete

(***************************************************************************)
(* Rewriting keeps the look-ups, if no line of the user's file has an      *)
(* empty path: save() would write a line that does not parse.              *)
(***************************************************************************)
SourcesHavePaths ==
  \A f \in SourceFiles : \A k \in DOMAIN f : f[k].path # EmptyPath

PathsInv ==
  /\ \A k \in Entries : file[k].path # EmptyPath
  /\ \A i \in Known : idToPath[i] # EmptyPath

LEMMA PathsInit == Init /\ SourcesHavePaths => PathsInv
  <1> SUFFICES ASSUME Init, SourcesHavePaths PROVE PathsInv
    OBVIOUS
  <1>1. Known = {}
    BY DEF Init, Known, NoIdToPath
  <1>2. \A k \in Entries : file[k].path # EmptyPath
    BY DEF Init, SourcesHavePaths, Entries
  <1>3. QED
    BY <1>1, <1>2 DEF PathsInv

LEMMA LoadHasPaths ==
  ASSUME IInv, PathsInv, Load \/ Crash
  PROVE  PathsInv'
  <1>1. UNCHANGED file
    BY DEF Load, Open, LoadLine, LoadFail, LoadDone, Crash
  <1>2. (\A k \in Entries : file[k].path # EmptyPath)'
    BY <1>1 DEF PathsInv, Entries
  <1>3. CASE Open \/ LoadFail \/ Crash
    <2>1. Known' = {}
      BY <1>3 DEF Open, LoadFail, Crash, Known, NoIdToPath
    <2>2. QED
      BY <1>2, <2>1 DEF PathsInv
  <1>4. CASE LoadDone \/ (LoadLine /\ file[lineNo].path = Blank)
    <2>1. idToPath' = idToPath
      BY <1>4 DEF LoadDone, LoadLine, mem
    <2>2. QED
      BY <1>2, <2>1 DEF PathsInv, Known
  <1>5. CASE LoadLine /\ file[lineNo].path # Blank
    <2> DEFINE line == file[lineNo]
    <2>1. lineNo \in DOMAIN file /\ line.path # Junk
      BY <1>5 DEF LoadLine, IInv, TypeOK
    <2>2. lineNo \in Entries /\ line.id \in Ids /\ line.path \in CanonPaths
      BY <1>5, <2>1, LineKinds DEF IInv, Entries
    <2>3. \A i \in Ids : idToPath'[i] = IF i = line.id THEN line.path ELSE idToPath[i]
      BY <1>5, <2>2 DEF LoadLine, IInv, TypeOK
    <2>4. line.path # EmptyPath
      BY <2>2 DEF PathsInv
    <2>5. \A i \in Known' : i \in Ids /\ (i = line.id \/ i \in Known)
      BY <2>3 DEF Known
    <2>6. QED
      BY <1>2, <2>3, <2>4, <2>5 DEF PathsInv
  <1>6. QED
    BY <1>3, <1>4, <1>5 DEF Load

\* A registration, torn or whole, appends and publishes a path that is not empty.
LEMMA RegisterHasPaths ==
  ASSUME IInv, PathsInv, NEW t \in Threads, Register(t)
  PROVE  PathsInv'
  <1>1. CASE (\E s \in Spellings : RegisterRefused(t, s) \/ RegisterBegin(t, s)) \/ ReadTail(t)
    <2>1. UNCHANGED <<file, idToPath>>
      BY <1>1 DEF RegisterRefused, RegisterBegin, ReadTail, vars, mem
    <2>2. QED
      BY <2>1 DEF PathsInv, Entries, Known
  <1> DEFINE j == th[t].id
             p == th[t].path
  <1>2. ASSUME t \in Writers
        PROVE  j \in Ids /\ p \in Paths /\ p \in CanonPaths /\ p # EmptyPath
    <2>1. j \in Ids /\ p \in Paths
      BY <1>2, IdFacts DEF IInv, LockInv, WriterInv
    <2>2. QED
      BY <2>1, PathAssumption DEF CanonPaths
  <1>3. CASE Persist(t) \/ PersistFail(t)
    <2>1. t \in Writers /\ th[t].pc = "append" /\ UNCHANGED idToPath
      BY <1>3, AppendedIs DEF Persist, PersistFail, mem
    <2>2. /\ \A k \in Entries : k \in Entries' /\ file'[k].id = file[k].id /\ file'[k].path = file[k].path
          /\ \A k \in Entries' : k \in Entries \/ (k = Len(file) + 1 /\ file'[k].id = j)
      <3>1. ASSUME NEW k \in Entries'
            PROVE  k \in Entries \/ (k = Len(file) + 1 /\ file'[k].id = j)
        BY <1>3, <3>1, AppendedIs, PathAssumption DEF Entries
      <3>2. QED
        BY <1>3, <3>1, AppendedIs DEF Entries
    <2>4. \A k \in Entries' : file'[k].path # EmptyPath
      <3>1. ASSUME NEW k \in Entries', k \notin Entries
            PROVE  file'[k].path # EmptyPath
        <4>1. CASE Persist(t)
          BY <1>2, <2>1, <2>2, <3>1, <4>1, AppendedIs
        <4>2. CASE PersistFail(t) /\ ~Persist(t)
          <5>1. \A line \in TornLines(t) : line \in Line /\ line.path # EmptyPath
            <6>1. Cut[p] \cup {p} \subseteq Paths /\ \A q \in Paths : q # EmptyPath
              BY <1>2, <2>1, PathAssumption
            <6>2. Junk # EmptyPath
              BY PathAssumption DEF CanonPaths
            <6>3. \A line \in TornLines(t) : line.path # EmptyPath
              BY <6>1, <6>2 DEF TornLines
            <6>4. QED
              BY <2>1, <6>3, TornType DEF IInv
          <5>2. PICK line \in TornLines(t) : file' = Put(Terminated(NeedsNewline), line)
            <6>1. k \in DOMAIN file' /\ file'[k].path \in CanonPaths /\ k = Len(file) + 1
              BY <2>2, <3>1 DEF Entries
            <6>2. file' # file
              BY <3>1 DEF Entries
            <6>3. file' # Terminated(NeedsNewline)
              <7>1. [id |-> th[t].id, path |-> th[t].path, nl |-> TRUE] \in Line
                BY <2>1, WriterLine DEF IInv
              <7>2. Len(Terminated(NeedsNewline)) = Len(file) /\ Terminated(NeedsNewline) \in Seq(Line)
                BY <7>1, AppendFacts DEF IInv
              <7>3. Len(file) \in Nat
                BY DEF IInv, TypeOK
              <7>4. QED
                BY <6>1, <7>2, <7>3
            <6>4. th[t].nl = NeedsNewline
              BY <2>1 DEF IInv, WriterInv
            <6>5. QED
              BY <4>2, <6>2, <6>3, <6>4 DEF PersistFail
          <5>3. Len(file) \in Nat /\ file'[Len(file) + 1] = line
            BY <5>1, <5>2, AppendFacts DEF IInv, TypeOK
          <5>4. QED
            BY <2>2, <3>1, <5>1, <5>3
        <4>3. QED
          BY <1>3, <4>1, <4>2
      <3>2. QED
        BY <2>2, <3>1 DEF PathsInv
    <2>5. QED
      BY <2>1, <2>4 DEF PathsInv, Known
  <1>4. CASE Publish(t)
    <2>1. t \in Writers /\ file' = file /\ idToPath' = [idToPath EXCEPT ![j] = p]
      BY <1>4 DEF Publish, Writers, WriterPCs
    <2>2. \A i \in Ids : idToPath'[i] = IF i = j THEN p ELSE idToPath[i]
      BY <1>2, <2>1 DEF IInv, TypeOK
    <2>3. \A i \in Known' : i \in Ids /\ (i = j \/ i \in Known)
      BY <2>2 DEF Known
    <2>4. QED
      BY <1>2, <2>1, <2>2, <2>3 DEF PathsInv, Entries
  <1>5. QED
    BY <1>1, <1>3, <1>4 DEF Register

\* A rewrite puts nothing but entries of the memory on file.
LEMMA SaveHasPaths ==
  ASSUME IInv, IInv', ResolveInv, PathsInv, NEW t \in Threads, Save(t)
  PROVE  PathsInv'
  <1>1. UNCHANGED idToPath
    BY DEF Save, SaveBegin, SaveEntry, SaveEnd, SaveFail, mem
  <1>2. Known' = Known
    BY <1>1 DEF Known
  <1>3. CASE SaveBegin(t)
    <2>1. Entries' = {}
      BY <1>3 DEF SaveBegin, Entries
    <2>2. QED
      BY <1>1, <1>2, <2>1 DEF PathsInv
  <1>4. CASE SaveEntry(t)
    <2>1. t \in Savers'
      BY <1>4 DEF SaveEntry, Savers, IInv, TypeOK, ThreadState
    <2>2. RewriteInv'
      BY SaveResolves DEF ResolveInv
    <2>3. \A k \in Entries' : file'[k].id \in Known /\ file'[k].path = idToPath[file'[k].id]
      BY <1>1, <1>2, <2>1, <2>2 DEF RewriteInv
    <2>4. QED
      BY <1>1, <1>2, <2>3 DEF PathsInv
  <1>5. CASE SaveEnd(t) \/ SaveFail(t)
    <2>1. UNCHANGED file
      BY <1>5 DEF SaveEnd, SaveFail
    <2>2. QED
      BY <1>1, <1>2, <2>1 DEF PathsInv, Entries
  <1>6. QED
    BY <1>3, <1>4, <1>5 DEF Save

LEMMA PathsInvariant ==
  ASSUME SourcesHavePaths
  PROVE  Spec => []PathsInv
  <1>1. Init => PathsInv
    BY PathsInit
  <1>2. IInv /\ ResolveInv /\ PathsInv /\ [Next]_vars => PathsInv'
    <2> SUFFICES ASSUME IInv, ResolveInv, PathsInv, [Next]_vars PROVE PathsInv'
      OBVIOUS
    <2>1. IInv'
      BY IInvInductive
    <2>2. CASE UNCHANGED vars
      BY <2>2 DEF PathsInv, Entries, Known, vars, mem
    <2>3. CASE Load \/ Crash
      BY <2>3, LoadHasPaths
    <2>4. ASSUME NEW t \in Threads, Register(t) \/ Save(t)
          PROVE  PathsInv'
      BY <2>1, <2>4, RegisterHasPaths, SaveHasPaths
    <2>5. QED
      BY <2>2, <2>3, <2>4 DEF Next
  <1>3. QED
    BY <1>1, <1>2, InvariantHolds, ResolveInvariant, PTL DEF Spec

\* A file that is the image of the memory says of each id, and of each path,
\* what the memory says.
LEMMA ImageAnswers == IInv /\ ResolveInv /\ PathsInv => SaveKeepsLookups
  <1> SUFFICES ASSUME IInv, ResolveInv, PathsInv, Len(file) = Cardinality(Known),
                      \A i \in Known : file[Rank(i)] = Entry(i)
      PROVE  /\ Parses /\ FileIdToPath = idToPath
             /\ \A p \in CanonPaths : IsSettled(p) => FilePathToId[p] = pathToId[p]
    BY DEF SaveKeepsLookups
  <1>1. /\ Known \subseteq Ids /\ Ids \subseteq Nat
        /\ \A i \in Known : idToPath[i] \in CanonPaths /\ idToPath[i] # EmptyPath
    BY IdFacts DEF Known, IInv, TypeOK, PathsInv
  <1>2. DOMAIN file = 1..Cardinality(Known)
    BY DEF IInv, TypeOK
  <1>3. ASSUME NEW i \in Known
        PROVE  /\ Rank(i) \in Entries
               /\ file[Rank(i)].id = i /\ file[Rank(i)].path = idToPath[i]
    <2>1. Rank(i) \in DOMAIN file
      BY <1>2, RanksFill DEF IInv
    <2>2. file[Rank(i)] = [id |-> i, path |-> idToPath[i], nl |-> TRUE]
      BY <1>1 DEF Entry
    <2>3. QED
      BY <1>1, <2>1, <2>2 DEF Entries
  <1>4. \A k \in DOMAIN file : \E i \in Known : k = Rank(i)
    BY <1>2, RanksFill DEF IInv
  <1>5. Parses
    <2>1. ASSUME NEW k \in DOMAIN file
          PROVE  file[k].path # Junk
      <3>1. PICK i \in Known : k = Rank(i)
        BY <1>4
      <3>2. file[k].path \in CanonPaths
        BY <1>1, <1>3, <3>1
      <3>3. QED
        BY <3>2, PathAssumption
    <2>2. QED
      BY <2>1 DEF Parses
  <1>6. \A k \in Entries : \E i \in Known : k = Rank(i) /\ file[k].id = i /\ file[k].path = idToPath[i]
    BY <1>3, <1>4 DEF Entries
  <1>7. ASSUME NEW i \in Ids
        PROVE  FileIdToPath[i] = idToPath[i]
    <2> DEFINE Has(k) == file[k].id = i
    <2>1. FileIdToPath[i] = IF \E k \in Entries : Has(k)
                            THEN file[CHOOSE k \in Entries :
                                        Has(k) /\ \A j \in Entries : Has(j) => j <= k].path
                            ELSE NoPath
      BY DEF FileIdToPath, LastWith
    <2>2. CASE i \in Known
      <3>1. Rank(i) \in Entries /\ Has(Rank(i)) /\ \A m \in Entries : Has(m) => m = Rank(i)
        BY <1>3, <1>6, <2>2
      <3>2. Rank(i) \in Nat
        BY <2>2, RankFacts DEF IInv
      <3>3. \A j \in Entries : Has(j) => j <= Rank(i)
        <4>1. Rank(i) <= Rank(i)
          BY <3>2
        <4>2. QED
          BY <3>1, <4>1
      <3> HIDE DEF Has
      <3>4. (CHOOSE m \in Entries : Has(m) /\ \A j \in Entries : Has(j) => j <= m) = Rank(i)
        BY <3>1, <3>3
      <3>5. QED
        BY <1>3, <2>1, <2>2, <3>1, <3>4
    <2>3. CASE i \notin Known
      <3>1. idToPath[i] = NoPath /\ \A k \in Entries : ~Has(k)
        BY <1>6, <2>3 DEF Known
      <3>2. QED
        BY <2>1, <3>1
    <2>4. QED
      BY <2>2, <2>3
  <1>8. ASSUME NEW p \in CanonPaths, IsSettled(p)
        PROVE  FilePathToId[p] = pathToId[p]
    <2> DEFINE Has(k) == file[k].path = p
    <2>1. FilePathToId[p] = IF \E k \in Entries : Has(k)
                            THEN file[CHOOSE k \in Entries :
                                        Has(k) /\ \A j \in Entries : Has(j) => j <= k].id
                            ELSE NoId
      BY DEF FilePathToId, LastWith
    <2>2. CASE pathToId[p] # NoId
      <3> DEFINE g == pathToId[p]
      <3>1. idToPath[g] = p /\ g \in Ids
        BY <1>8, <2>2 DEF IsSettled, IInv, TypeOK
      <3>2. g \in Known /\ g \in Nat
        BY <1>1, <3>1, PathAssumption DEF Known
      <3>3. Rank(g) \in Entries /\ file[Rank(g)].id = g /\ Has(Rank(g))
        BY <1>3, <3>1, <3>2
      <3>4. ASSUME NEW m \in Entries, Has(m)
            PROVE  m \in Nat /\ m <= Rank(g)
        <4>1. PICK i \in Known : m = Rank(i) /\ idToPath[i] = p
          BY <1>6, <3>4
        <4>2. i <= g /\ i \in Nat
          BY <1>1, <1>8, <2>2, <4>1 DEF IsSettled
        <4>3. i < g \/ i = g
          BY <3>2, <4>2
        <4>4. Rank(i) \in Nat /\ Rank(g) \in Nat /\ (i < g => Rank(i) < Rank(g))
          BY <3>2, RankFacts DEF IInv
        <4>5. QED
          BY <4>1, <4>3, <4>4
      <3>5. \A m \in Entries : Has(m) /\ (\A j \in Entries : Has(j) => j <= m) => m = Rank(g)
        <4>1. ASSUME NEW m \in Entries, Has(m), \A j \in Entries : Has(j) => j <= m
              PROVE  m = Rank(g)
          <5>1. Rank(g) <= m /\ m <= Rank(g) /\ m \in Nat /\ Rank(g) \in Nat
            BY <3>3, <3>4, <4>1
          <5>2. QED
            BY <5>1
        <4>2. QED
          BY <4>1
      <3>6. \A j \in Entries : Has(j) => j <= Rank(g)
        BY <3>4
      <3> HIDE DEF Has, g
      <3>7. (CHOOSE m \in Entries : Has(m) /\ \A j \in Entries : Has(j) => j <= m) = Rank(g)
        BY <3>3, <3>5, <3>6
      <3>8. FilePathToId[p] = g
        BY <2>1, <3>3, <3>7
      <3>9. QED
        BY <3>8 DEF g
    <2>3. CASE pathToId[p] = NoId
      <3>1. \A k \in Entries : ~Has(k)
        BY <1>6, <2>3 DEF ResolveInv, MapsAgree
      <3>2. QED
        BY <2>1, <2>3, <3>1
    <2>4. QED
      BY <2>2, <2>3
  <1>9. FileIdToPath = idToPath
    <2>1. FileIdToPath = [i \in Ids |-> FileIdToPath[i]]
      BY DEF FileIdToPath
    <2>2. idToPath = [i \in Ids |-> idToPath[i]]
      BY DEF IInv, TypeOK
    <2>3. QED
      BY <1>7, <2>1, <2>2
  <1>10. QED
    BY <1>5, <1>8, <1>9

\* Of a user's file whose lines have paths, the file and the memory say the
\* same: a load reads what the last lines say, a rewrite leaves every entry, and
\* what it leaves loads back to the answers the database gave before, for every
\* path the lines of the user's file settle.
THEOREM FileStaysMemory ==
  ASSUME SourcesHavePaths
  PROVE  Spec => FileIsMemory
  <1>1. Spec => []SaveKeepsLookups
    BY ImageAnswers, InvariantHolds, ResolveInvariant, PathsInvariant, PTL
  <1>2. QED
    BY <1>1, LoadsAreLastLineWins, SavesAreComplete, PTL DEF FileIsMemory

(***************************************************************************)
(* Every path is settled when the ids of the user's file ascend.  With a   *)
(* lower id after a higher one for the same path the order in which save() *)
(* writes would decide otherwise than the file.                            *)
(***************************************************************************)
SourcesAscend ==
  \A f \in SourceFiles :
    /\ \A k \in DOMAIN f : f[k].path \in CanonPaths => f[k].id <= MaxId
    /\ \A k, m \in DOMAIN f :
         f[k].path \in CanonPaths /\ f[m].path \in CanonPaths /\ k < m => f[k].id < f[m].id

\* The ids of the file ascend, and of several ids with one path the memory
\* answers with the greatest.
FileAscends ==
  /\ \A k \in Entries : file[k].id <= MaxId
  /\ \A k, m \in Entries : k < m => file[k].id < file[m].id
MapsAscend ==
  /\ \A i \in Known : pathToId[idToPath[i]] >= i
  /\ \A p \in CanonPaths : pathToId[p] # NoId => idToPath[pathToId[p]] = p
\* In a database in use every id is of the range that moves the cursor, or less.
AscendInv == FileAscends /\ MapsAscend /\ \A i \in Known : i <= MaxId

LEMMA AscendInit == Init /\ SourcesAscend => AscendInv
  <1> SUFFICES ASSUME Init, SourcesAscend PROVE AscendInv
    OBVIOUS
  <1>1. Known = {} /\ \A p \in CanonPaths : pathToId[p] = NoId
    BY DEF Init, Known, NoIdToPath, NoPathToId
  <1>2. CASE hasSource
    BY <1>1, <1>2 DEF Init, SourcesAscend, AscendInv, FileAscends, MapsAscend, Entries
  <1>3. CASE ~hasSource
    <2>1. Entries = {}
      BY <1>3 DEF Init, Entries
    <2>2. QED
      BY <1>1, <2>1 DEF AscendInv, FileAscends, MapsAscend
  <1>4. QED
    BY <1>2, <1>3

\* Of what a step changes, the file and the maps.
LEMMA SameMaps ==
  ASSUME AscendInv, UNCHANGED <<pathToId, idToPath>>, FileAscends'
  PROVE  AscendInv'
  BY DEF AscendInv, MapsAscend, Known

LEMMA SameFile ==
  ASSUME AscendInv, UNCHANGED file
  PROVE  FileAscends'
  BY DEF AscendInv, FileAscends, Entries

LEMMA LoadAscends ==
  ASSUME IInv, ResolveInv, AscendInv, Load \/ Crash
  PROVE  AscendInv'
  <1>1. UNCHANGED file
    BY DEF Load, Open, LoadLine, LoadFail, LoadDone, Crash
  <1>2. FileAscends'
    BY <1>1, SameFile
  <1>3. CASE Open \/ LoadFail \/ Crash
    <2>1. Known' = {} /\ \A p \in CanonPaths : pathToId'[p] = NoId
      BY <1>3 DEF Open, LoadFail, Crash, Known, NoIdToPath, NoPathToId
    <2>2. QED
      BY <1>2, <2>1 DEF AscendInv, MapsAscend
  <1>4. CASE LoadDone
    BY <1>2, <1>4, SameMaps DEF LoadDone, mem
  <1>5. CASE LoadLine
    <2> DEFINE line == file[lineNo]
    <2>1. phase = "loading" /\ line.path # Junk /\ lineNo \in DOMAIN file
      BY <1>5 DEF LoadLine, IInv, TypeOK
    <2>2. CASE line.path = Blank
      BY <1>2, <1>5, <2>2, SameMaps DEF LoadLine, mem
    <2>3. CASE line.path # Blank
      <3>1. lineNo \in Entries /\ line.id \in Ids /\ line.id \in Nat /\ line.path \in CanonPaths
        BY <2>1, <2>3, LineKinds, IdFacts DEF IInv, Entries
      <3>2. /\ \A i \in Ids : idToPath'[i] = IF i = line.id THEN line.path ELSE idToPath[i]
            /\ \A p \in CanonPaths : pathToId'[p] = IF p = line.path THEN line.id ELSE pathToId[p]
        BY <1>5, <2>3, <3>1 DEF LoadLine, IInv, TypeOK
      <3>3. line.id <= MaxId /\ line.path # NoPath /\ line.id # NoId
        BY <3>1, PathAssumption DEF AscendInv, FileAscends
      <3>4. \A i \in Known : i < line.id /\ i \in Ids /\ idToPath[i] \in CanonPaths
        <4>1. ASSUME NEW i \in Known
              PROVE  i < line.id /\ i \in Ids /\ idToPath[i] \in CanonPaths
          <5>1. PICK k : LastWithId(k, i, lineNo)
            BY <2>1 DEF ResolveInv, LoadInv
          <5>2. k \in Entries /\ k < lineNo /\ file[k].id = i
            BY <5>1 DEF LastWithId
          <5>3. QED
            BY <3>1, <5>2 DEF AscendInv, FileAscends, Known, IInv, TypeOK
        <4>2. QED
          BY <4>1
      <3>5. Known' = Known \cup {line.id}
        BY <3>1, <3>2, <3>3 DEF Known
      <3>6. ASSUME NEW i \in Known'
            PROVE  pathToId'[idToPath'[i]] >= i /\ i <= MaxId
        <4>1. CASE i = line.id
          BY <3>1, <3>2, <3>3, <4>1
        <4>2. CASE i # line.id
          <5>1. i \in Known /\ idToPath'[i] = idToPath[i] /\ i < line.id /\ i \in Nat
            BY <3>2, <3>4, <3>5, <4>2, IdFacts
          <5>2. pathToId[idToPath[i]] >= i /\ i <= MaxId
            BY <5>1 DEF AscendInv, MapsAscend
          <5>3. QED
            BY <3>1, <3>2, <3>4, <5>1, <5>2
        <4>3. QED
          BY <4>1, <4>2
      <3>7. ASSUME NEW p \in CanonPaths, pathToId'[p] # NoId
            PROVE  idToPath'[pathToId'[p]] = p
        <4>1. CASE p = line.path
          BY <3>1, <3>2, <4>1
        <4>2. CASE p # line.path
          <5>1. /\ pathToId'[p] = pathToId[p] /\ pathToId[p] \in Ids
                /\ idToPath[pathToId[p]] = p
            BY <3>2, <3>7, <4>2 DEF IInv, TypeOK, AscendInv, MapsAscend
          <5>2. pathToId[p] \in Known
            BY <5>1, PathAssumption DEF Known
          <5>3. pathToId[p] # line.id
            BY <3>1, <3>4, <5>2
          <5>4. QED
            BY <3>2, <5>1, <5>3
        <4>3. QED
          BY <4>1, <4>2
      <3>8. QED
        BY <1>2, <3>6, <3>7 DEF AscendInv, MapsAscend
    <2>4. QED
      BY <2>2, <2>3
  <1>6. QED
    BY <1>3, <1>4, <1>5 DEF Load

\* An id that is appended or published is greater than any before it.
LEMMA RegisterAscends ==
  ASSUME IInv, ResolveInv, AscendInv, NEW t \in Threads, Register(t)
  PROVE  AscendInv'
  <1>1. CASE (\E s \in Spellings : RegisterRefused(t, s) \/ RegisterBegin(t, s)) \/ ReadTail(t)
    <2>1. UNCHANGED <<file, pathToId, idToPath>>
      BY <1>1 DEF RegisterRefused, RegisterBegin, ReadTail, vars, mem
    <2>2. QED
      BY <2>1, SameFile, SameMaps
  <1> DEFINE j == th[t].id
             p == th[t].path
  <1>2. ASSUME t \in Writers
        PROVE  /\ phase = "up" /\ j \in CustomIds /\ j \in Ids /\ j \in Nat /\ j <= MaxId /\ next = j + 1
               /\ p \in Paths /\ p \in CanonPaths /\ p # EmptyPath /\ p # NoPath
               /\ idToPath[j] = NoPath /\ pathToId[p] = NoId
    <2>1. /\ phase = "up" /\ j \in CustomIds /\ j \in Ids /\ j \in Nat /\ next = j + 1
          /\ p \in Paths /\ idToPath[j] = NoPath /\ pathToId[p] = NoId
      BY <1>2, IdFacts DEF IInv, LockInv, WriterInv, ResolveInv, LatestInv
    <2>2. QED
      BY <2>1, PathAssumption DEF CanonPaths, CustomIds
  <1>3. CASE Persist(t) \/ PersistFail(t)
    <2>1. t \in Writers /\ th[t].pc = "append" /\ UNCHANGED <<pathToId, idToPath>>
      BY <1>3, AppendedIs DEF Persist, PersistFail, mem
    <2>2. /\ \A k \in Entries : k \in Entries' /\ file'[k].id = file[k].id /\ file'[k].path = file[k].path
          /\ \A k \in Entries' : k \in Entries \/ (k = Len(file) + 1 /\ file'[k].id = j)
      <3>1. ASSUME NEW k \in Entries'
            PROVE  k \in Entries \/ (k = Len(file) + 1 /\ file'[k].id = j)
        BY <1>3, <3>1, AppendedIs, PathAssumption DEF Entries
      <3>2. QED
        BY <1>3, <3>1, AppendedIs DEF Entries
    <2>3. \A k \in Entries : k \in Nat /\ k < Len(file) + 1 /\ file[k].id < j /\ file[k].id \in Nat
      <3>1. ASSUME NEW k \in Entries
            PROVE  k \in Nat /\ k < Len(file) + 1 /\ file[k].id < j /\ file[k].id \in Nat
        <4>1. k \in Nat /\ k < Len(file) + 1 /\ file[k].id \in Nat /\ file[k].id \in Ids
          BY EntryTypes DEF IInv, TypeOK
        <4>2. file[k].id <= MaxId /\ file[k].id # j
          BY <2>1 DEF AscendInv, FileAscends, IInv, WriterInv
        <4>3. CASE file[k].id \in CustomIds
          <5>1. file[k].id < j + 1
            BY <1>2, <2>1, <4>3 DEF IInv, CursorInv
          <5>2. QED
            BY <1>2, <2>1, <4>1, <4>2, <5>1
        <4>4. CASE file[k].id \notin CustomIds
          <5>1. file[k].id < CustomFdidStart /\ CustomFdidStart <= j
            BY <1>2, <2>1, <4>1, <4>2, <4>4, StartAssumption DEF CustomIds
          <5>2. QED
            BY <1>2, <2>1, <4>1, <5>1, StartAssumption
        <4>5. QED
          BY <4>1, <4>3, <4>4
      <3>2. QED
        BY <3>1
    <2>5. FileAscends'
      <3>1. \A k \in Entries' : file'[k].id <= MaxId
        BY <1>2, <2>1, <2>2 DEF AscendInv, FileAscends
      <3>2. ASSUME NEW k \in Entries', NEW m \in Entries', k < m
            PROVE  file'[k].id < file'[m].id
        <4>1. Len(file) \in Nat
          BY DEF IInv, TypeOK
        <4>2. k \in Entries
          BY <2>2, <2>3, <3>2, <4>1
        <4>3. CASE m \in Entries
          BY <2>2, <3>2, <4>2, <4>3 DEF AscendInv, FileAscends
        <4>4. CASE m \notin Entries
          BY <2>2, <2>3, <4>2, <4>4
        <4>5. QED
          BY <4>3, <4>4
      <3>3. QED
        BY <3>1, <3>2 DEF FileAscends
    <2>6. QED
      BY <2>1, <2>5, SameMaps
  <1>4. CASE Publish(t)
    <2>1. /\ t \in Writers /\ file' = file
          /\ idToPath' = [idToPath EXCEPT ![j] = p] /\ pathToId' = [pathToId EXCEPT ![p] = j]
      BY <1>4 DEF Publish, Writers, WriterPCs
    <2>2. /\ \A i \in Ids : idToPath'[i] = IF i = j THEN p ELSE idToPath[i]
          /\ \A q \in CanonPaths : pathToId'[q] = IF q = p THEN j ELSE pathToId[q]
      BY <1>2, <2>1 DEF IInv, TypeOK
    <2>3. FileAscends'
      BY <2>1, SameFile
    <2>4. ASSUME NEW i \in Known'
          PROVE  pathToId'[idToPath'[i]] >= i /\ i <= MaxId
      <3>1. CASE i = j
        BY <1>2, <2>1, <2>2, <3>1
      <3>2. CASE i # j
        <4>1. i \in Known /\ idToPath'[i] = idToPath[i] /\ idToPath[i] \in CanonPaths
          BY <2>2, <3>2 DEF Known, IInv, TypeOK
        <4>2. /\ pathToId[idToPath[i]] >= i /\ i <= MaxId
              /\ pathToId[idToPath[i]] # NoId
          BY <4>1 DEF AscendInv, MapsAscend, ResolveInv, MapsAgree
        <4>3. QED
          BY <1>2, <2>1, <2>2, <4>1, <4>2
      <3>3. QED
        BY <3>1, <3>2
    <2>5. ASSUME NEW q \in CanonPaths, pathToId'[q] # NoId
          PROVE  idToPath'[pathToId'[q]] = q
      <3>1. CASE q = p
        BY <1>2, <2>1, <2>2, <3>1
      <3>2. CASE q # p
        <4>1. pathToId'[q] = pathToId[q] /\ pathToId[q] \in Ids /\ idToPath[pathToId[q]] = q
          BY <2>2, <2>5, <3>2 DEF IInv, TypeOK, AscendInv, MapsAscend
        <4>2. pathToId[q] # j
          BY <1>2, <2>1, <4>1, PathAssumption
        <4>3. QED
          BY <2>2, <4>1, <4>2
      <3>3. QED
        BY <3>1, <3>2
    <2>6. QED
      BY <2>3, <2>4, <2>5 DEF AscendInv, MapsAscend
  <1>5. QED
    BY <1>1, <1>3, <1>4 DEF Register

\* A rewrite puts the entries of the memory at their ranks, so their ids ascend.
LEMMA SaveAscends ==
  ASSUME IInv, IInv', ResolveInv, AscendInv, NEW t \in Threads, Save(t)
  PROVE  AscendInv'
  <1>1. UNCHANGED <<pathToId, idToPath>>
    BY DEF Save, SaveBegin, SaveEntry, SaveEnd, SaveFail, mem
  <1>2. CASE SaveBegin(t)
    <2>1. Entries' = {}
      BY <1>2 DEF SaveBegin, Entries
    <2>2. FileAscends'
      BY <2>1 DEF FileAscends
    <2>3. QED
      BY <1>1, <2>2, SameMaps
  <1>3. CASE SaveEntry(t)
    <2>1. Known' = Known /\ \A i : Rank(i)' = Rank(i)
      BY <1>1 DEF Known, Rank
    <2>2. t \in Savers'
      BY <1>3 DEF SaveEntry, Savers, IInv, TypeOK, ThreadState
    <2>3. RewriteInv'
      BY SaveResolves DEF ResolveInv
    <2>4. \A k \in Entries' : /\ file'[k].id \in Known /\ file'[k].path = idToPath[file'[k].id]
                              /\ k = Rank(file'[k].id)
      BY <1>1, <2>1, <2>2, <2>3 DEF RewriteInv
    <2>5. \A i, j \in Known : Rank(i) < Rank(j) => i < j
      <3>1. ASSUME NEW i \in Known, NEW j \in Known, Rank(i) < Rank(j)
            PROVE  i < j
        <4>1. i \in Nat /\ j \in Nat /\ Rank(i) \in Nat /\ Rank(j) \in Nat
          BY RankFacts, IdFacts DEF IInv, Known
        <4>2. j < i => Rank(j) < Rank(i)
          BY RankFacts DEF IInv
        <4>3. i # j
          BY <3>1, <4>1
        <4>4. QED
          BY <3>1, <4>1, <4>2, <4>3
      <3>2. QED
        BY <3>1
    <2>6. \A k, m \in Entries' : k < m => file'[k].id < file'[m].id
      <3>1. ASSUME NEW k \in Entries', NEW m \in Entries', k < m
            PROVE  file'[k].id < file'[m].id
        <4>1. /\ file'[k].id \in Known /\ k = Rank(file'[k].id)
              /\ file'[m].id \in Known /\ m = Rank(file'[m].id)
          BY <2>4
        <4>2. QED
          BY <2>5, <3>1, <4>1
      <3>2. QED
        BY <3>1
    <2>7. \A k \in Entries' : file'[k].id <= MaxId
      BY <2>4 DEF AscendInv, MapsAscend
    <2>8. FileAscends'
      BY <2>6, <2>7 DEF FileAscends
    <2>9. QED
      BY <1>1, <2>8, SameMaps
  <1>4. CASE SaveEnd(t) \/ SaveFail(t)
    <2>1. UNCHANGED file
      BY <1>4 DEF SaveEnd, SaveFail
    <2>2. QED
      BY <1>1, <2>1, SameFile, SameMaps
  <1>5. QED
    BY <1>2, <1>3, <1>4 DEF Save

LEMMA AscendStep ==
  ASSUME IInv, ResolveInv, AscendInv, [Next]_vars
  PROVE  AscendInv'
  <1>1. IInv'
    BY IInvInductive
  <1>2. CASE UNCHANGED vars
    BY <1>2, SameFile, SameMaps DEF vars, mem
  <1>3. CASE Load \/ Crash
    BY <1>3, LoadAscends
  <1>4. ASSUME NEW t \in Threads, Register(t) \/ Save(t)
        PROVE  AscendInv'
    BY <1>1, <1>4, RegisterAscends, SaveAscends
  <1>5. QED
    BY <1>2, <1>3, <1>4 DEF Next

LEMMA AscendInvariant ==
  ASSUME SourcesAscend
  PROVE  Spec => []AscendInv
  <1>1. Init => AscendInv
    BY AscendInit
  <1>2. IInv /\ ResolveInv /\ AscendInv /\ [Next]_vars => AscendInv'
    BY AscendStep
  <1>3. QED
    BY <1>1, <1>2, InvariantHolds, ResolveInvariant, PTL DEF Spec

\* Of a user's file with ascending ids every path stays settled, whatever is
\* registered, torn or rewritten: with FileStaysMemory, rewriting it changes no
\* answer at all.
THEOREM AscendingIdsSettle ==
  ASSUME SourcesAscend
  PROVE  Spec => []\A p \in CanonPaths : IsSettled(p)
  <1>1. IInv /\ AscendInv => \A p \in CanonPaths : IsSettled(p)
    BY DEF AscendInv, MapsAscend, IsSettled
  <1>2. QED
    BY <1>1, InvariantHolds, AscendInvariant, PTL
=============================================================================
