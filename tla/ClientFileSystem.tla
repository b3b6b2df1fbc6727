-------------------------- MODULE ClientFileSystem --------------------------
(***************************************************************************)
(* fs::ClientFileSystem: storage backend, listfile and project directory   *)
(* put together, used by several threads.  Every call it makes on a        *)
(* component is a step; nothing holds a lock between two of them.  The     *)
(* components are what their own modules show of them: the overlay's index *)
(* and the listfile's maps each change in one step (ProjectDirectory,      *)
(* CsvListfile), and the storage never changes.                            *)
(***************************************************************************)
EXTENDS FdidAllocator, FiniteSets

CONSTANTS
  Threads, Paths,
  Kinds,        \* the storages considered: "Mpq", "Casc"
  Persistent,   \* does the listfile have a working file it may fail to write?
  Listed,       \* the bindings the listfile starts with
  StoredIds,    \* the ids the CASC storage can open
  StoredPaths,  \* the paths the storage can open by name
  NoPath, NoId

Binding == [path : Paths, id : Ids]

ASSUME ClientAssumption ==
  /\ Kinds \subseteq {"Mpq", "Casc"} /\ Persistent \in BOOLEAN
  /\ Listed \subseteq Binding
  /\ StoredIds \subseteq Ids /\ StoredPaths \subseteq Paths
  /\ NoPath \notin Paths /\ NoId \notin Ids

VARIABLES
  kind,       \* Backend::kind(); nothing changes it
  onDisk,     \* the canonical paths with a file under the project directory
  index,      \* ProjectDirectory::_index
  pathToId, idToPath, next,   \* the listfile
  call,       \* per thread: the call in progress, and the result of the last
  returned,   \* history: the paths addFile was given and the ids it returned
  lost        \* history: paths an outside change or a partial walk took away

overlay   == <<onDisk, index>>
listfile  == <<pathToId, idToPath, next>>
histories == <<returned, lost>>
cfsVars   == <<kind, overlay, listfile, call, histories>>

Key   == [path : Paths \cup {NoPath}, id : Ids \cup {NoId}]
NoKey == [path |-> NoPath, id |-> NoId]

\* expects: the file addFile returned that this call has to get, if any.
Returned(r) ==
  [op |-> "idle", ask |-> "none", key |-> NoKey, expects |-> NoPath, res |-> r]

Free(t) == call[t].op = "idle"
\* An MPQ client has the NullListfile, which binds nothing.
Bound == IF kind = "Mpq" THEN {} ELSE Listed

CfsInit ==
  /\ kind \in Kinds
  /\ index \in SUBSET Paths /\ onDisk = index
  /\ pathToId \in [Paths -> Ids \cup {NoId}]
  /\ idToPath \in [Ids -> Paths \cup {NoPath}]
  /\ \A p \in Paths :
       LET Of == {b \in Bound : b.path = p}
       IN  IF Of = {} THEN pathToId[p] = NoId ELSE [path |-> p, id |-> pathToId[p]] \in Of
  /\ \A i \in Ids :
       LET Of == {b \in Bound : b.id = i}
       IN  IF Of = {} THEN idToPath[i] = NoPath ELSE [path |-> idToPath[i], id |-> i] \in Of
  /\ next \in Cursors
  /\ \A b \in Bound : b.id \in CustomIds => b.id < next
  /\ next = CustomFdidStart \/ \E b \in Bound : b.id = next - 1
  /\ call = [t \in Threads |-> Returned("none")]
  /\ returned = {} /\ lost = {}

(***************************************************************************)
(* addFile: write to the overlay, then look the path up, then register it. *)
(* Without a project directory addFile changes nothing (NotSupported).     *)
(***************************************************************************)
Mut_AddBegin(t, p) ==
  /\ Free(t)
  /\ call' = [call EXCEPT ![t] = [Returned("none") EXCEPT
                                   !.op = "lookup", !.key.path = p]]
  /\ UNCHANGED <<kind, overlay, listfile, returned, lost>>

AddBegin(t, p) ==
  /\ Free(t)
  /\ call' = [call EXCEPT ![t] = [Returned("none") EXCEPT
                                   !.op = "write", !.key.path = p]]
  /\ UNCHANGED <<kind, overlay, listfile, returned, lost>>

WithIndexed(p) == index \cup {p}

Return(t, p, i) ==
  /\ returned' = returned \cup {[path |-> p, id |-> i]}
  /\ call' = [call EXCEPT ![t] = Returned("ok")]

\* On an MPQ client the call ends here, with id 0.
AddWrite(t) ==
  /\ call[t].op = "write"
  /\ LET p == call[t].key.path IN
       /\ onDisk' = onDisk \cup {p} /\ index' = WithIndexed(p) /\ lost' = lost \ {p}
  /\ IF kind = "Mpq"
       THEN Return(t, call[t].key.path, 0)
       ELSE call' = [call EXCEPT ![t].op = "lookup"] /\ UNCHANGED returned
  /\ UNCHANGED <<kind, listfile>>

\* The error is passed on; a file may have been created all the same.
AddWriteFail(t) ==
  /\ call[t].op = "write"
  /\ onDisk' \in {onDisk, onDisk \cup {call[t].key.path}}
  /\ call' = [call EXCEPT ![t] = Returned("IoError")]
  /\ UNCHANGED <<kind, index, listfile, histories>>

\* A path the listfile knows keeps its id.
AddLookup(t) ==
  /\ call[t].op = "lookup"
  /\ LET p == call[t].key.path IN
       IF pathToId[p] # NoId
         THEN Return(t, p, pathToId[p])
         ELSE call' = [call EXCEPT ![t].op = "register"] /\ UNCHANGED returned
  /\ UNCHANGED <<kind, overlay, listfile, lost>>

Mut_IsDuplicate(p) == FALSE
IsDuplicate(p) == pathToId[p] # NoId

AddRegister(t) ==
  /\ call[t].op = "register"
  /\ LET p == call[t].key.path IN
       /\ ~IsDuplicate(p) /\ ~Exhausted(next)
       /\ pathToId' = [pathToId EXCEPT ![p] = next]
       /\ idToPath' = [idToPath EXCEPT ![next] = p]
       /\ next' = next + 1
       /\ Return(t, p, next)
  /\ UNCHANGED <<kind, overlay, lost>>

\* DuplicatePath: another thread registered it since the look-up.
\* FdidSpaceExhausted; ListfileIoError, which skips an id.
AddRegisterFail(t) ==
  /\ call[t].op = "register"
  /\ \/ /\ IsDuplicate(call[t].key.path)
        /\ call' = [call EXCEPT ![t] = Returned("DuplicatePath")]
        /\ UNCHANGED next
     \/ /\ ~IsDuplicate(call[t].key.path) /\ Exhausted(next)
        /\ call' = [call EXCEPT ![t] = Returned("FdidSpaceExhausted")]
        /\ UNCHANGED next
     \/ /\ ~IsDuplicate(call[t].key.path) /\ ~Exhausted(next) /\ Persistent
        /\ call' = [call EXCEPT ![t] = Returned("ListfileIoError")]
        /\ next' = next + 1
  /\ UNCHANGED <<kind, overlay, pathToId, idToPath, histories>>

(***************************************************************************)
(* readFile and exists: resolve the key, ask the overlay, then either the  *)
(* overlay again (readFile only) or the storage.                           *)
(***************************************************************************)

\* The listfile fills the half a key lacks.  An MPQ client has none.
Mut_Resolve(key) ==
  IF kind # "Mpq" /\ key.id = NoId THEN [key EXCEPT !.id = pathToId[key.path]] ELSE key
Resolve(key) ==
  IF kind = "Mpq" THEN key
  ELSE IF key.id = NoId THEN [key EXCEPT !.id = pathToId[key.path]]
  ELSE IF key.path = NoPath THEN [key EXCEPT !.path = idToPath[key.id]]
  ELSE key

\* The file addFile returned for this key and that is still there, if any.
Added(key) ==
  LET Of == {b \in returned : /\ key.path = b.path \/ (key.path = NoPath /\ kind = "Casc")
                              /\ key.id \in {NoId, b.id} /\ b.path \notin lost}
  IN  IF Of = {} THEN NoPath ELSE (CHOOSE b \in Of : TRUE).path

Ask(t, ask, key) ==
  /\ Free(t) /\ key # NoKey
  /\ call' = [call EXCEPT ![t] = [op |-> "overlay", ask |-> ask, key |-> Resolve(key),
                                  expects |-> Added(key), res |-> "none"]]
  /\ UNCHANGED <<kind, overlay, listfile, returned, lost>>

AskOverlay(t) ==
  /\ call[t].op = "overlay"
  /\ call' = [call EXCEPT ![t] =
       IF call[t].key.path \notin index THEN [@ EXCEPT !.op = "storage"]
       ELSE IF call[t].ask = "exists" THEN Returned("found")
       ELSE [@ EXCEPT !.op = "open"]]
  /\ UNCHANGED <<kind, overlay, listfile, histories>>

\* ProjectDirectory::read looks the path up again.
OpenOverlay(t) ==
  /\ call[t].op = "open"
  /\ LET p == call[t].key.path IN
       call' = [call EXCEPT ![t] = Returned(
         IF p \notin index THEN "FileNotFound"
         ELSE IF p \notin onDisk THEN "IoError" ELSE "found")]
  /\ UNCHANGED <<kind, overlay, listfile, histories>>

\* The CASC storage goes by the id alone when the key has one.
Stored(key) ==
  IF kind = "Casc" /\ key.id # NoId THEN key.id \in StoredIds
                                    ELSE key.path \in StoredPaths

AskStorage(t) ==
  /\ call[t].op = "storage"
  /\ call' = [call EXCEPT ![t] =
       Returned(IF Stored(call[t].key) THEN "found" ELSE "FileNotFound")]
  /\ UNCHANGED <<kind, overlay, listfile, histories>>

(***************************************************************************)
(* The overlay's surroundings: a rescan (its walk may stop at an error and *)
(* miss files), and other tools.                                           *)
(***************************************************************************)
Lose(P) ==
  /\ lost' = lost \cup P
  /\ call' = [t \in Threads |->
       IF call[t].expects \in P THEN [call[t] EXCEPT !.expects = NoPath] ELSE call[t]]

Rescan(t) ==
  /\ Free(t)
  /\ \E found \in SUBSET onDisk : index' = found /\ Lose(onDisk \ found)
  /\ UNCHANGED <<kind, onDisk, listfile, returned>>

Foreign(p) ==
  /\ \/ onDisk' = onDisk \cup {p} /\ UNCHANGED <<lost, call>>
     \/ onDisk' = onDisk \ {p} /\ Lose({p})
  /\ UNCHANGED <<kind, index, listfile, returned>>

AddFile(t) ==
  \/ \E p \in Paths : AddBegin(t, p)
  \/ AddWrite(t) \/ AddWriteFail(t) \/ AddLookup(t)
  \/ AddRegister(t) \/ AddRegisterFail(t)

Lookup(t) ==
  \/ \E ask \in {"read", "exists"}, key \in Key : Ask(t, ask, key)
  \/ AskOverlay(t) \/ OpenOverlay(t) \/ AskStorage(t)

CfsNext ==
  \/ \E t \in Threads : AddFile(t) \/ Lookup(t) \/ Rescan(t)
  \/ \E p \in Paths : Foreign(p)

CfsSpec == CfsInit /\ [][CfsNext]_cfsVars

(***************************************************************************)
(* Properties.                                                             *)
(***************************************************************************)

\* The types of the variables.
CfsTypeOK ==
  /\ kind \in {"Mpq", "Casc"}
  /\ onDisk \subseteq Paths /\ index \subseteq Paths /\ lost \subseteq Paths
  /\ pathToId \in [Paths -> Ids \cup {NoId}]
  /\ idToPath \in [Ids -> Paths \cup {NoPath}]
  /\ next \in Cursors
  /\ call \in [Threads ->
       [op : {"idle", "write", "lookup", "register", "overlay", "open", "storage"},
        ask : {"none", "read", "exists"}, key : Key, expects : Paths \cup {NoPath},
        res : {"none", "ok", "found", "IoError", "FileNotFound", "DuplicatePath",
               "FdidSpaceExhausted", "ListfileIoError"}]]
  /\ returned \subseteq Binding

\* An id addFile has returned for a path is the one every later addFile of that
\* path returns, and no other path ever gets it, however concurrent calls
\* interleave between the look-up and the registration.  (An MPQ client has no
\* ids and returns 0 for all.)
IdIsStable ==
  kind = "Casc" => \A b, c \in returned : b.path = c.path <=> b.id = c.id

\* addFile writes before it registers: no registered path is without a file,
\* even when steps of a call fail, unless the file was taken away.
NoDanglingId ==
  \A p \in Paths :
    \/ pathToId[p] = NoId \/ [path |-> p, id |-> pathToId[p]] \in Listed
    \/ p \in onDisk \cup lost

\* What addFile has returned can be read back, by path, by id or by both: no
\* such call ends up in the storage, which has another file or none at all, and
\* the overlay does not fail it, though it looks the path up a second time.
AddedIsServed ==
  [][\A t \in Threads : call[t].expects # NoPath =>
       ~AskStorage(t) /\ (OpenOverlay(t) => call'[t].res = "found")]_cfsVars

\* The types of the variables, and a file behind every registered path.
CfsInv == CfsTypeOK /\ NoDanglingId
=============================================================================
