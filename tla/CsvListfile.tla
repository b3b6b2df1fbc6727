---------------------------- MODULE CsvListfile ----------------------------
(***************************************************************************)
(* fs::CsvListfile, the path <-> FileDataID database of a CASC client, as  *)
(* used by several threads of one process, and the working file it loads,  *)
(* appends to and rewrites.  A step is what another thread, or a crash,    *)
(* can fall between: the code's critical sections are split at their file  *)
(* operations.  The lock (core/shared_mutex.hpp) is external: any number   *)
(* of shared holders, or one exclusive holder.                             *)
(***************************************************************************)
EXTENDS FdidAllocator, Sequences, FiniteSets

CONSTANTS
  Threads,
  Paths,         \* the canonical, non-empty paths
  EmptyPath,     \* what normalizePath makes of "" or "/"
  Spellings,     \* the ways callers spell paths
  Norm,          \* normalizePath, from Spellings to canonical paths
  Cut,           \* Cut[p]: the paths that truncations of p's text parse to
  Blank, Junk,   \* the path of an empty line, and of one parseLine refuses
  NoPath, NoId,  \* no entry in a map
  SourceFiles,   \* the working files a user may supply
  MaxLines,      \* bound: longest file a session starts an append on
  MaxCrashes     \* bound: how often the process dies

CanonPaths == Paths \cup {EmptyPath}

ASSUME PathAssumption ==
  /\ EmptyPath \notin Paths
  /\ NoPath \notin CanonPaths /\ Blank \notin CanonPaths
  /\ Junk \notin CanonPaths /\ Junk # Blank
  /\ NoId \notin Ids
  /\ Norm \in [Spellings -> CanonPaths]
  /\ Cut \in [Paths -> SUBSET Paths]
  /\ MaxLines \in Nat /\ MaxCrashes \in Nat

(***************************************************************************)
(* One line of the file.  nl says whether it ends in a newline: only the   *)
(* last line may lack it.                                                  *)
(***************************************************************************)
Line ==
  [id : Ids, path : CanonPaths, nl : BOOLEAN]
  \cup [id : Ids \cup {NoId}, path : {Blank, Junk}, nl : BOOLEAN]

ASSUME SourceAssumption == SourceFiles \subseteq Seq(Line)

VARIABLES
  file,      \* the working file, a sequence of lines
  hasSource, \* FALSE: the default-constructed, in-memory database
  phase,     \* "down", "loading" or "up"
  lineNo,    \* the next line load() reads
  pathToId, idToPath, next,   \* _pathToId, _idToPath, _allocator._next
  th,        \* per thread: where it is in registerPath or save, and its locals
  acked,     \* history: the registrations callers were told succeeded
  hurt,      \* history: a save() failed and none has replaced the file since
  crashes

mem    == <<pathToId, idToPath, next>>
ghosts == <<acked, hurt, crashes>>
vars   == <<file, hasSource, phase, lineNo, mem, th, ghosts>>

IdleThread == [pc |-> "idle", path |-> NoPath, id |-> NoId, nl |-> FALSE]

NoPathToId == [p \in CanonPaths |-> NoId]
NoIdToPath == [i \in Ids |-> NoPath]

WriterPCs == {"tail", "append", "publish"}

\* The holders of the lock, exclusive and shared.
Writers == {t \in Threads : th[t].pc \in WriterPCs}
Savers  == {t \in Threads : th[t].pc = "save"}

Known == {i \in Ids : idToPath[i] # NoPath}

Init ==
  /\ hasSource \in BOOLEAN
  /\ IF hasSource THEN file \in SourceFiles ELSE file = <<>>
  /\ phase = "down" /\ lineNo = 1
  /\ pathToId = NoPathToId /\ idToPath = NoIdToPath /\ next = CustomFdidStart
  /\ th = [t \in Threads |-> IdleThread]
  /\ acked = {} /\ hurt = FALSE /\ crashes = 0

(***************************************************************************)
(* CsvListfile::load, one iteration of its loop per step.                  *)
(***************************************************************************)

\* The constructor: an empty database; an in-memory one is ready for use.
Open ==
  /\ phase = "down"
  /\ pathToId' = NoPathToId /\ idToPath' = NoIdToPath
  /\ next' = CustomFdidStart
  /\ lineNo' = 1
  /\ phase' = IF hasSource THEN "loading" ELSE "up"
  /\ UNCHANGED <<file, hasSource, th, ghosts>>

Mut_NoteLine(cursor, id) == cursor
NoteLine(cursor, id) == NoteExisting(cursor, id)

\* One line that parses: later lines override earlier ones, in each map.
LoadLine ==
  /\ phase = "loading" /\ lineNo <= Len(file)
  /\ LET line == file[lineNo] IN
       /\ line.path # Junk
       /\ IF line.path = Blank
            THEN UNCHANGED mem
            ELSE /\ idToPath' = [idToPath EXCEPT ![line.id] = line.path]
                 /\ pathToId' = [pathToId EXCEPT ![line.path] = line.id]
                 /\ next' = NoteLine(next, line.id)
  /\ lineNo' = lineNo + 1
  /\ UNCHANGED <<file, hasSource, phase, th, ghosts>>

\* ListfileParseError or ListfileIoError: load returns no database.
LoadFail ==
  /\ phase = "loading"
  /\ phase' = "down"
  /\ pathToId' = NoPathToId /\ idToPath' = NoIdToPath
  /\ next' = CustomFdidStart
  /\ lineNo' = 1
  /\ UNCHANGED <<file, hasSource, th, ghosts>>

LoadDone ==
  /\ phase = "loading" /\ lineNo > Len(file)
  /\ phase' = "up"
  /\ UNCHANGED <<file, hasSource, lineNo, mem, th, ghosts>>

(***************************************************************************)
(* CsvListfile::registerPath, under the exclusive lock from its first step *)
(* to its last.                                                            *)
(***************************************************************************)

Mut_CanLockExclusive == Savers = {}
CanLockExclusive == Savers = {} /\ Writers = {}

\* InvalidPath, DuplicatePath, FdidSpaceExhausted: nothing changes.
RegisterRefused(t, s) ==
  /\ phase = "up" /\ th[t].pc = "idle" /\ CanLockExclusive
  /\ Norm[s] = EmptyPath \/ pathToId[Norm[s]] # NoId \/ Exhausted(next)
  /\ UNCHANGED vars

\* A new path gets the next id.
RegisterBegin(t, s) ==
  /\ phase = "up" /\ th[t].pc = "idle" /\ CanLockExclusive
  /\ Norm[s] # EmptyPath
  /\ pathToId[Norm[s]] = NoId
  /\ ~Exhausted(next)
  /\ Len(file) < MaxLines
  /\ next' = next + 1
  /\ th' = [th EXCEPT ![t] = [pc |-> IF hasSource THEN "tail" ELSE "publish",
                              path |-> Norm[s], id |-> next, nl |-> FALSE]]
  /\ UNCHANGED <<file, hasSource, phase, lineNo, pathToId, idToPath, ghosts>>

\* Is the last byte of the file something else than a newline?
Mut_NeedsNewline == FALSE
NeedsNewline == file # <<>> /\ ~file[Len(file)].nl

ReadTail(t) ==
  /\ th[t].pc = "tail"
  /\ th' = [th EXCEPT ![t].pc = "append", ![t].nl = NeedsNewline]
  /\ UNCHANGED <<file, hasSource, phase, lineNo, mem, ghosts>>

\* The file after the newline the tail called for.
Terminated(newline) ==
  IF newline /\ file # <<>> THEN [file EXCEPT ![Len(file)].nl = TRUE] ELSE file

\* Text after an unterminated line becomes part of that line.
Put(f, line) ==
  IF f # <<>> /\ ~f[Len(f)].nl
    THEN [f EXCEPT ![Len(f)] = [@ EXCEPT !.path = Junk, !.nl = line.nl]]
    ELSE Append(f, line)

Persist(t) ==
  /\ th[t].pc = "append"
  /\ file' = Put(Terminated(th[t].nl),
                 [id |-> th[t].id, path |-> th[t].path, nl |-> TRUE])
  /\ th' = [th EXCEPT ![t].pc = "publish"]
  /\ UNCHANGED <<hasSource, phase, lineNo, mem, ghosts>>

\* What a failed write may leave of the line "id;path": nothing, a prefix that
\* does not parse, one that names another path, or all but the newline.
TornLines(t) ==
  {[id |-> th[t].id, path |-> p, nl |-> FALSE] :
     p \in Cut[th[t].path] \cup {th[t].path}}
  \cup {[id |-> NoId, path |-> Junk, nl |-> FALSE]}

\* ListfileIoError: the id is skipped and the maps are left alone, but the
\* file keeps what was written of the line.
PersistFail(t) ==
  /\ th[t].pc = "append"
  /\ \/ file' = file
     \/ file' = Terminated(th[t].nl)
     \/ \E line \in TornLines(t) : file' = Put(Terminated(th[t].nl), line)
  /\ th' = [th EXCEPT ![t] = IdleThread]
  /\ UNCHANGED <<hasSource, phase, lineNo, mem, ghosts>>

\* The insertions into both maps, the unlock and the return of the id.
Publish(t) ==
  /\ th[t].pc = "publish"
  /\ idToPath' = [idToPath EXCEPT ![th[t].id] = th[t].path]
  /\ pathToId' = [pathToId EXCEPT ![th[t].path] = th[t].id]
  /\ acked' = acked \cup {[path |-> th[t].path, id |-> th[t].id]}
  /\ th' = [th EXCEPT ![t] = IdleThread]
  /\ UNCHANGED <<file, hasSource, phase, lineNo, next, hurt, crashes>>

(***************************************************************************)
(* CsvListfile::save, under the shared lock: several threads may rewrite   *)
(* the file at once, each through a stream with an offset of its own.  The *)
(* entries go out in ascending order of their ids, so an entry's offset is *)
(* its rank.  th[t].id is the last id written.                             *)
(***************************************************************************)

Mut_CanLockShared == TRUE
CanLockShared == Writers = {}

\* The file is opened for truncation.  (An in-memory database and a file that
\* cannot be opened give ListfileIoError and change nothing.)  A rewrite that
\* starts alone replaces whatever an earlier one left.
SaveBegin(t) ==
  /\ phase = "up" /\ hasSource /\ th[t].pc = "idle" /\ CanLockShared
  /\ file' = <<>>
  /\ hurt' = (hurt /\ Savers # {})
  /\ th' = [th EXCEPT ![t] = [IdleThread EXCEPT !.pc = "save"]]
  /\ UNCHANGED <<hasSource, phase, lineNo, mem, acked, crashes>>

Rank(i) == Cardinality({j \in Known : j <= i})

\* The line save() writes for an entry; an empty path leaves "id;", which
\* parseLine refuses.
Entry(i) ==
  IF idToPath[i] = EmptyPath THEN [id |-> NoId, path |-> Junk, nl |-> TRUE]
                             ELSE [id |-> i, path |-> idToPath[i], nl |-> TRUE]

Hole == [id |-> NoId, path |-> Junk, nl |-> TRUE]

\* Writing past the end, which another thread's truncation makes possible,
\* leaves a hole of zero bytes.
WriteAt(f, k, line) ==
  [j \in 1..(IF k > Len(f) THEN k ELSE Len(f)) |->
     IF j = k THEN line ELSE IF j <= Len(f) THEN f[j] ELSE Hole]

Unwritten(t) == {i \in Known : th[t].id = NoId \/ i > th[t].id}

SaveEntry(t) ==
  /\ th[t].pc = "save"
  /\ \E i \in Unwritten(t) :
       /\ \A j \in Unwritten(t) : i <= j
       /\ file' = WriteAt(file, Rank(i), Entry(i))
       /\ th' = [th EXCEPT ![t].id = i]
  /\ UNCHANGED <<hasSource, phase, lineNo, mem, ghosts>>

Mut_SaveIsDone(t) == th[t].id # NoId
SaveIsDone(t) == Unwritten(t) = {}

SaveEnd(t) ==
  /\ th[t].pc = "save" /\ SaveIsDone(t)
  /\ th' = [th EXCEPT ![t] = IdleThread]
  /\ UNCHANGED <<file, hasSource, phase, lineNo, mem, ghosts>>

\* ListfileIoError part way: the entries not yet written are missing.
SaveFail(t) ==
  /\ th[t].pc = "save"
  /\ hurt' = TRUE
  /\ th' = [th EXCEPT ![t] = IdleThread]
  /\ UNCHANGED <<file, hasSource, phase, lineNo, mem, acked, crashes>>

(***************************************************************************)
(* The process dies: the memory is gone, the file is as it was.  What the  *)
(* file does not hold by design (an in-memory database, an incomplete      *)
(* rewrite) is forgotten.  A crash inside Persist is PersistFail followed  *)
(* by Crash.                                                               *)
(***************************************************************************)
Exposed == ~hasSource \/ hurt \/ Savers # {}

Crash ==
  /\ phase = "up" /\ crashes < MaxCrashes
  /\ phase' = "down" /\ lineNo' = 1
  /\ pathToId' = NoPathToId /\ idToPath' = NoIdToPath
  /\ next' = CustomFdidStart
  /\ th' = [t \in Threads |-> IdleThread]
  /\ acked' = IF Exposed THEN {} ELSE acked
  /\ hurt' = FALSE
  /\ crashes' = crashes + 1
  /\ UNCHANGED <<file, hasSource>>

Register(t) ==
  \/ \E s \in Spellings : RegisterRefused(t, s) \/ RegisterBegin(t, s)
  \/ ReadTail(t) \/ Persist(t) \/ PersistFail(t) \/ Publish(t)

Save(t) == SaveBegin(t) \/ SaveEntry(t) \/ SaveEnd(t) \/ SaveFail(t)

Load == Open \/ LoadLine \/ LoadFail \/ LoadDone

Next == Load \/ Crash \/ \E t \in Threads : Register(t) \/ Save(t)

Spec == Init /\ [][Next]_vars

(***************************************************************************)
(* Properties.                                                             *)
(***************************************************************************)

ThreadState ==
  [pc : {"idle", "save"} \cup WriterPCs, path : Paths \cup {NoPath},
   id : Ids \cup {NoId}, nl : BOOLEAN]

\* The types of the variables; in particular the cursor never passes the id
\* after the last one, so no id is ever outside the custom range.
TypeOK ==
  /\ file \in Seq(Line)
  /\ hasSource \in BOOLEAN
  /\ phase \in {"down", "loading", "up"}
  /\ lineNo \in Nat \ {0}
  /\ pathToId \in [CanonPaths -> Ids \cup {NoId}]
  /\ idToPath \in [Ids -> CanonPaths \cup {NoPath}]
  /\ next \in Cursors
  /\ th \in [Threads -> ThreadState]
  /\ acked \subseteq [path : Paths, id : CustomIds]
  /\ hurt \in BOOLEAN
  /\ crashes \in Nat

OnFile(i, p) == \E k \in DOMAIN file : file[k].id = i /\ file[k].path = p

\* registerPath persists before it publishes and never glues its line to an
\* unterminated one: every registration a caller was told of is an intact line
\* of the working file, however many appends failed part way before and after
\* it, unless a rewrite is in progress or has failed.
AckedOnFile ==
  ~Exposed =>
    \A b \in acked : OnFile(b.id, b.path)

\* The database in use answers every acknowledged registration of this and of
\* earlier sessions, in both directions; only the remains of an append that
\* failed (an id nobody was told of) can stand in the way of a path.
AckedResolves ==
  phase = "up" =>
    \A b \in acked :
      /\ idToPath[b.id] = b.path
      /\ pathToId[b.path] # NoId
      /\ \/ pathToId[b.path] = b.id
         \/ /\ idToPath[pathToId[b.path]] = b.path
            /\ pathToId[b.path] > b.id
            /\ \A c \in acked : c.id # pathToId[b.path]

\* Within a session no entry of either map ever changes: a registration gets an
\* id no line of the file and no other thread has, and a path nobody else
\* registers.
NeverRebound ==
  [][phase = "up" /\ phase' = "up" =>
       /\ \A i \in Known : idToPath'[i] = idToPath[i]
       /\ \A p \in CanonPaths : pathToId[p] # NoId => pathToId'[p] = pathToId[p]]_vars

\* The listfile implements the registry it promises, across failed appends,
\* concurrent rewrites, crashes and reloads.
Registry == INSTANCE FdidRegistry WITH bound <- acked, exposed <- Exposed
RegistrySpec == Registry!Spec

(***************************************************************************)
(* The inductive invariant behind AckedOnFile, NeverRebound and            *)
(* RegistrySpec.                                                           *)
(***************************************************************************)
Entries == {k \in DOMAIN file : file[k].path \in CanonPaths}
\* One writer or any number of savers, and neither without a database.
LockInv ==
  /\ \A t, u \in Writers : t = u
  /\ Writers # {} => Savers = {}
  /\ phase # "up" => Writers = {} /\ Savers = {} /\ ~hurt
  /\ ~hasSource => file = <<>> /\ phase # "loading" /\ Savers = {}
  /\ ~hasSource /\ phase # "up" => acked = {}

\* The registration in progress has an id and a path of its own, in memory, on
\* file and among the acknowledged ones.
WriterInv ==
  \A t \in Writers :
    /\ th[t].path \in Paths /\ th[t].id \in CustomIds /\ th[t].id < next
    /\ idToPath[th[t].id] = NoPath /\ pathToId[th[t].path] = NoId
    /\ \A b \in acked : b.id # th[t].id /\ b.path # th[t].path
    /\ \A k \in Entries : file[k].id = th[t].id =>
         th[t].pc = "publish" /\ file[k].path = th[t].path
    /\ hasSource \/ th[t].pc = "publish"
    /\ th[t].pc = "append" => th[t].nl = NeedsNewline
    /\ th[t].pc = "publish" /\ hasSource => OnFile(th[t].id, th[t].path)

\* The cursor is past every custom id in the map and in the lines read.
CursorInv ==
  /\ \A i \in Known \cap CustomIds : i < next
  /\ phase # "down" =>
       \A k \in Entries :
         file[k].id \in CustomIds /\ (phase = "up" \/ k < lineNo) => file[k].id < next

\* Has the database in use seen b?
IsRead(b) ==
  \/ phase = "up"
  \/ /\ phase = "loading"
     /\ \E k \in Entries : k < lineNo /\ file[k].id = b.id /\ file[k].path = b.path

\* Acknowledged registrations: distinct, alone with their id on file, on file
\* unless exposed, and in the maps once read.
AckedInv ==
  /\ \A b, c \in acked : b.id = c.id \/ b.path = c.path => b = c
  /\ \A b \in acked : \A k \in Entries : file[k].id = b.id => file[k].path = b.path
  /\ AckedOnFile
  /\ \A b \in acked : IsRead(b) => idToPath[b.id] = b.path /\ pathToId[b.path] # NoId

\* Each entry is at its place in the file being rewritten, or some saver has
\* yet to write it.
SaveInv ==
  Savers # {} /\ ~hurt =>
    \A i \in Known :
      \/ Rank(i) \in DOMAIN file /\ file[Rank(i)] = Entry(i)
      \/ \E t \in Savers : i \in Unwritten(t)

IInv == TypeOK /\ LockInv /\ WriterInv /\ CursorInv /\ AckedInv /\ SaveInv

(***************************************************************************)
(* What load() would make of the file, stated without its loop.            *)
(***************************************************************************)
LastWith(P(_)) ==
  CHOOSE k \in Entries : P(k) /\ \A j \in Entries : P(j) => j <= k

FileIdToPath ==
  [i \in Ids |->
     LET Has(k) == file[k].id = i
     IN  IF \E k \in Entries : Has(k) THEN file[LastWith(Has)].path ELSE NoPath]

FilePathToId ==
  [p \in CanonPaths |->
     LET Has(k) == file[k].path = p
     IN  IF \E k \in Entries : Has(k) THEN file[LastWith(Has)].id ELSE NoId]

Parses == \A k \in DOMAIN file : file[k].path # Junk

Quiet == phase = "up" /\ Writers = {} /\ ~Exposed

\* A completed save() leaves exactly the entries of the id map, in ascending
\* order, even when several threads rewrite the file at the same time and each
\* truncates what the others wrote.  (th[t].id is the last id t wrote.)
SaveIsComplete ==
  [][\A t \in Threads :
       SaveEnd(t) /\ Savers = {t} /\ ~hurt =>
         /\ Len(file) = Cardinality(Known)
         /\ \A i \in Known : file[Rank(i)] = Entry(i)]_vars

\* The id the database answers for a path is still that path's, and no greater
\* id has the path: no later line of the user's file took the id to another
\* path, and none gave the path a lower id.
IsSettled(p) ==
  pathToId[p] # NoId =>
    /\ idToPath[pathToId[p]] = p
    /\ \A i \in Known : idToPath[i] = p => i <= pathToId[p]

\* Rewriting the working file keeps what the database answers: a file that is
\* the canonical image of the memory loads back to the same paths of ids, and
\* the same ids of paths, but for a path that the lines of the user's file left
\* unsettled: save() writes the ids in ascending order and each of them once.
SaveKeepsLookups ==
  Quiet /\ Len(file) = Cardinality(Known) /\ (\A i \in Known : file[Rank(i)] = Entry(i))
    => /\ Parses /\ FileIdToPath = idToPath
       /\ \A p \in CanonPaths : IsSettled(p) => FilePathToId[p] = pathToId[p]

\* The loop of load() builds what the last line for each id and for each path
\* says, and leaves the cursor past every id of the custom range.
LoadIsLastLineWins ==
  phase = "loading" /\ lineNo > Len(file) =>
    /\ Parses /\ idToPath = FileIdToPath /\ pathToId = FilePathToId
    /\ \A i \in Known \cap CustomIds : i < next
    /\ next = CustomFdidStart \/ next - 1 \in Known

\* The working file and the memory say the same: after a load, after a rewrite,
\* and after the load of a rewritten file.
FileIsMemory == SaveIsComplete /\ [](LoadIsLastLineWins /\ SaveKeepsLookups)
=============================================================================
