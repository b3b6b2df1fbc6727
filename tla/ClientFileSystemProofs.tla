----------------------- MODULE ClientFileSystemProofs -----------------------
(***************************************************************************)
(* Proofs about ClientFileSystem for every value of its constants.         *)
(***************************************************************************)
EXTENDS ClientFileSystem, TLAPS

USE U32Assumption, StartAssumption, ClientAssumption DEF U32Assumption, StartAssumption, ClientAssumption

\* The calls of addFile are about a path, and it has been written before the
\* path is looked up or registered.
CallsInv ==
  \A t \in Threads :
    /\ call[t].op \in {"write", "lookup", "register"} => call[t].key.path \in Paths
    /\ call[t].op \in {"lookup", "register"} => call[t].key.path \in onDisk \cup lost

FilesInv == CfsTypeOK /\ CallsInv /\ NoDanglingId

\* No two bindings of the listing have the same id.
OneIdOnePath == \A b, c \in Listed : b.id = c.id => b.path = c.path

\* The maps of a CASC client's listfile are each other's inverse on the paths
\* that have an id, the cursor is above every id given, and what was returned
\* is what the maps say.
IdsInv ==
  kind = "Casc" =>
    /\ \A p \in Paths : pathToId[p] # NoId => idToPath[pathToId[p]] = p
    /\ \A i \in CustomIds : idToPath[i] # NoPath => i < next
    /\ \A b \in returned : pathToId[b.path] = b.id

\* What was written and not taken away is indexed and on disk; a call that has
\* to get such a file asks the overlay for it.
ServedInv ==
  /\ \A b \in returned : b.path \notin lost => b.path \in index \cap onDisk
  /\ \A t \in Threads :
       /\ call[t].op \in {"lookup", "register"} /\ call[t].key.path \notin lost =>
            call[t].key.path \in index \cap onDisk
       /\ call[t].expects # NoPath =>
            /\ call[t].op \in {"overlay", "open"}
            /\ call[t].key.path = call[t].expects
            /\ call[t].expects \in index \cap onDisk


(***************************************************************************)
(* Types.                                                                  *)
(***************************************************************************)

Results == {"none", "ok", "found", "IoError", "FileNotFound", "DuplicatePath",
            "FdidSpaceExhausted", "ListfileIoError"}

Call == [op : {"idle", "write", "lookup", "register", "overlay", "open", "storage"},
         ask : {"none", "read", "exists"}, key : Key, expects : Paths \cup {NoPath},
         res : Results]

\* A call that has returned.
LEMMA ReturnedIsCall ==
    ASSUME NEW r \in Results
    PROVE  /\ Returned(r) \in Call
           /\ Returned(r).op = "idle" /\ Returned(r).expects = NoPath
           /\ Returned(r).key = NoKey /\ Returned(r).res = r
BY DEF Returned, Call, Key, NoKey, Results

\* Resolving a key that names something leaves a key, and keeps what it has.
LEMMA ResolveKeeps ==
    ASSUME CfsTypeOK, NEW key \in Key, key # NoKey
    PROVE  /\ Resolve(key) \in Key
           /\ key.path # NoPath => Resolve(key).path = key.path
           /\ key.path = NoPath /\ kind = "Casc" => Resolve(key).path = idToPath[key.id]
<1>1. key.path \in Paths \/ (key.path = NoPath /\ key.id \in Ids)
  BY DEF Key, NoKey
<1> QED BY <1>1 DEF Resolve, Key, CfsTypeOK

\* What Added answers has been returned, is still there, and the key names it.
LEMMA AddedWasReturned ==
    ASSUME CfsTypeOK, NEW key \in Key, Added(key) # NoPath
    PROVE  \E b \in returned :
             /\ b.path = Added(key) /\ b.path \notin lost
             /\ key.path = b.path \/ (key.path = NoPath /\ kind = "Casc" /\ key.id \in {NoId, b.id})
<1> DEFINE Of == {b \in returned : /\ key.path = b.path \/ (key.path = NoPath /\ kind = "Casc")
                                   /\ key.id \in {NoId, b.id} /\ b.path \notin lost}
<1>1. Added(key) = IF Of = {} THEN NoPath ELSE (CHOOSE b \in Of : TRUE).path
  BY DEF Added
<1>2. PICK b \in Of : b.path = Added(key)
  BY <1>1
<1> QED BY <1>2

LEMMA AddedType == ASSUME CfsTypeOK, NEW key \in Key PROVE Added(key) \in Paths \cup {NoPath}
BY AddedWasReturned DEF CfsTypeOK, Binding

(***************************************************************************)
(* A file behind every registered path.                                    *)
(***************************************************************************)

LEMMA FilesInvInit == CfsInit => FilesInv
<1> SUFFICES ASSUME CfsInit PROVE FilesInv
  OBVIOUS
<1>1. \A t \in Threads : call[t] = Returned("none")
  BY DEF CfsInit
<1>2. call \in [Threads -> Call]
  BY <1>1, ReturnedIsCall DEF CfsInit, Results
<1>3. CfsTypeOK
  BY <1>2 DEF CfsInit, CfsTypeOK, Call, Results
<1>4. CallsInv
  BY <1>1, ReturnedIsCall DEF CallsInv, Results
<1>5. NoDanglingId
  <2> SUFFICES ASSUME NEW p \in Paths, pathToId[p] # NoId
               PROVE  [path |-> p, id |-> pathToId[p]] \in Listed
    BY DEF NoDanglingId
  <2> QED BY DEF CfsInit, Bound
<1> QED BY <1>3, <1>4, <1>5 DEF FilesInv

\* Taking paths away leaves the calls as they are but for what they expect.
LEMMA LoseKeeps ==
    ASSUME CfsTypeOK, NEW P \in SUBSET Paths, Lose(P)
    PROVE  /\ call' \in [Threads -> Call] /\ lost' = lost \cup P
           /\ \A t \in Threads :
                /\ call'[t].op = call[t].op /\ call'[t].key = call[t].key
                /\ call'[t].expects = IF call[t].expects \in P THEN NoPath ELSE call[t].expects
BY DEF Lose, CfsTypeOK, Call, Results

\* Every step keeps the types, and no addFile is without its file.
LEMMA FilesInvStep == FilesInv /\ [CfsNext]_cfsVars => FilesInv'
<1> SUFFICES ASSUME FilesInv, [CfsNext]_cfsVars PROVE FilesInv'
  OBVIOUS
<1> USE DEF FilesInv
<1>0. call \in [Threads -> Call]
  BY DEF CfsTypeOK, Call, Results
<1>1. ASSUME NEW t \in Threads, NEW p \in Paths, AddBegin(t, p)
      PROVE  FilesInv'
  <2> DEFINE c == [Returned("none") EXCEPT !.op = "write", !.key.path = p]
  <2>1. c \in Call /\ c.op = "write" /\ c.key.path = p
    BY DEF Returned, Call, Key, NoKey, Results
  <2>2. call' = [call EXCEPT ![t] = c]
    BY <1>1 DEF AddBegin
  <2>3. UNCHANGED <<kind, onDisk, index, pathToId, idToPath, next, returned, lost>>
    BY <1>1 DEF AddBegin, overlay, listfile
  <2> HIDE DEF c
  <2>4. call' \in [Threads -> Call]
    BY <1>0, <2>1, <2>2
  <2>5. CfsTypeOK'
    BY <2>3, <2>4 DEF CfsTypeOK, Call, Results
  <2>6. CallsInv' /\ NoDanglingId'
    BY <1>0, <2>1, <2>2, <2>3 DEF CallsInv, NoDanglingId
  <2> QED BY <2>5, <2>6
<1>2. ASSUME NEW t \in Threads, AddWrite(t)
      PROVE  FilesInv'
  <2>1. call[t].key.path \in Paths
    BY <1>2 DEF AddWrite, CallsInv
  <2>2. /\ onDisk' = onDisk \cup {call[t].key.path} /\ index' = index \cup {call[t].key.path}
        /\ lost' = lost \ {call[t].key.path} /\ UNCHANGED <<kind, pathToId, idToPath, next>>
    BY <1>2 DEF AddWrite, WithIndexed, listfile
  <2>3. \/ call' = [call EXCEPT ![t] = Returned("ok")] /\ returned' = returned \cup {[path |-> call[t].key.path, id |-> 0]}
        \/ call' = [call EXCEPT ![t].op = "lookup"] /\ UNCHANGED returned
    BY <1>2 DEF AddWrite, Return
  <2>4. CfsTypeOK'
    <3>1. call' \in [Threads -> Call]
      BY <1>0, <2>3, ReturnedIsCall DEF Call, Results
    <3>2. returned' \subseteq Binding
      BY <2>1, <2>3 DEF CfsTypeOK, Binding, Ids
    <3> QED BY <2>1, <2>2, <3>1, <3>2 DEF CfsTypeOK, Call, Results
  <2>5. CallsInv'
    BY <1>0, <2>1, <2>2, <2>3, ReturnedIsCall DEF CallsInv, Call, Results
  <2>6. NoDanglingId'
    BY <2>2 DEF NoDanglingId
  <2> QED BY <2>4, <2>5, <2>6
<1>3. ASSUME NEW t \in Threads, AddWriteFail(t)
      PROVE  FilesInv'
  BY <1>0, <1>3, ReturnedIsCall
     DEF AddWriteFail, CfsTypeOK, CallsInv, NoDanglingId, listfile, histories, Call, Results
<1>4. ASSUME NEW t \in Threads, AddLookup(t)
      PROVE  FilesInv'
  <2>1. call[t].key.path \in Paths
    BY <1>4 DEF AddLookup, CallsInv
  <2>2. \/ call' = [call EXCEPT ![t] = Returned("ok")]
           /\ pathToId[call[t].key.path] # NoId
           /\ returned' = returned \cup {[path |-> call[t].key.path, id |-> pathToId[call[t].key.path]]}
        \/ call' = [call EXCEPT ![t].op = "register"] /\ call[t].op = "lookup" /\ UNCHANGED returned
    BY <1>4 DEF AddLookup, Return
  <2>3. UNCHANGED <<kind, onDisk, index, pathToId, idToPath, next, lost>>
    BY <1>4 DEF AddLookup, overlay, listfile
  <2> QED BY <1>0, <2>1, <2>2, <2>3, ReturnedIsCall
             DEF CfsTypeOK, CallsInv, NoDanglingId, Call, Results, Binding
<1>5. ASSUME NEW t \in Threads, AddRegister(t)
      PROVE  FilesInv'
  <2> DEFINE p == call[t].key.path
  <2>1. p \in Paths /\ p \in onDisk \cup lost
    BY <1>5 DEF AddRegister, CallsInv
  <2>2. /\ pathToId' = [pathToId EXCEPT ![p] = next]
        /\ idToPath' = [idToPath EXCEPT ![next] = p] /\ next' = next + 1
        /\ returned' = returned \cup {[path |-> p, id |-> next]}
        /\ call' = [call EXCEPT ![t] = Returned("ok")]
        /\ UNCHANGED <<kind, onDisk, index, lost>>
    BY <1>5 DEF AddRegister, Return, overlay
  <2>3. next \in Ids /\ next + 1 \in Cursors
    BY <1>5 DEF AddRegister, Exhausted, CfsTypeOK, Cursors, Ids, MaxId
  <2> HIDE DEF p
  <2> QED BY <1>0, <2>1, <2>2, <2>3, ReturnedIsCall
             DEF CfsTypeOK, CallsInv, NoDanglingId, Call, Results, Binding
<1>6. ASSUME NEW t \in Threads, AddRegisterFail(t)
      PROVE  FilesInv'
  <2>1. next' \in Cursors
    BY <1>6 DEF AddRegisterFail, Exhausted, CfsTypeOK, Cursors, Ids, MaxId
  <2>2. \E r \in Results : call' = [call EXCEPT ![t] = Returned(r)]
    BY <1>6 DEF AddRegisterFail, Results
  <2>3. UNCHANGED <<kind, onDisk, index, pathToId, idToPath, returned, lost>>
    BY <1>6 DEF AddRegisterFail, overlay, histories
  <2> QED BY <1>0, <2>1, <2>2, <2>3, ReturnedIsCall
             DEF CfsTypeOK, CallsInv, NoDanglingId, Call, Results
<1>7. ASSUME NEW t \in Threads, NEW ask \in {"read", "exists"}, NEW key \in Key, Ask(t, ask, key)
      PROVE  FilesInv'
  <2> DEFINE c == [op |-> "overlay", ask |-> ask, key |-> Resolve(key),
                   expects |-> Added(key), res |-> "none"]
  <2>1. c \in Call /\ c.op = "overlay"
    BY <1>7, ResolveKeeps, AddedType DEF Ask, Call, Results
  <2>2. call' = [call EXCEPT ![t] = c]
    BY <1>7 DEF Ask
  <2> HIDE DEF c
  <2> QED BY <1>0, <1>7, <2>1, <2>2
             DEF Ask, CfsTypeOK, CallsInv, NoDanglingId, overlay, listfile, Call, Results
<1>8. ASSUME NEW t \in Threads, AskOverlay(t) \/ OpenOverlay(t) \/ AskStorage(t)
      PROVE  FilesInv'
  <2>1. \/ \E r \in Results : call' = [call EXCEPT ![t] = Returned(r)]
        \/ call' = [call EXCEPT ![t].op = "storage"]
        \/ call' = [call EXCEPT ![t].op = "open"]
    BY <1>8 DEF AskOverlay, OpenOverlay, AskStorage, Results
  <2>2. UNCHANGED <<kind, onDisk, index, pathToId, idToPath, next, returned, lost>>
    BY <1>8 DEF AskOverlay, OpenOverlay, AskStorage, overlay, listfile, histories
  <2> QED BY <1>0, <2>1, <2>2, ReturnedIsCall
             DEF CfsTypeOK, CallsInv, NoDanglingId, Call, Results
<1>9. ASSUME NEW t \in Threads, Rescan(t)
      PROVE  FilesInv'
  <2>1. PICK found \in SUBSET onDisk : index' = found /\ Lose(onDisk \ found)
    BY <1>9 DEF Rescan
  <2>2. UNCHANGED <<kind, onDisk, pathToId, idToPath, next, returned>>
    BY <1>9 DEF Rescan, listfile
  <2>3. onDisk \ found \in SUBSET Paths /\ found \in SUBSET Paths
    BY DEF CfsTypeOK
  <2> QED BY <1>0, <2>1, <2>2, <2>3, LoseKeeps
             DEF CfsTypeOK, CallsInv, NoDanglingId, Call, Results
<1>10. ASSUME NEW p \in Paths, Foreign(p)
       PROVE  FilesInv'
  <2>1. UNCHANGED <<kind, index, pathToId, idToPath, next, returned>>
    BY <1>10 DEF Foreign, listfile
  <2>2. CASE onDisk' = onDisk \cup {p} /\ UNCHANGED <<lost, call>>
    BY <2>1, <2>2 DEF CfsTypeOK, CallsInv, NoDanglingId
  <2>3. CASE onDisk' = onDisk \ {p} /\ Lose({p})
    BY <1>0, <2>1, <2>3, LoseKeeps DEF CfsTypeOK, CallsInv, NoDanglingId, Call, Results
  <2> QED BY <1>10, <2>2, <2>3 DEF Foreign
<1>11. CASE UNCHANGED cfsVars
  BY <1>11 DEF cfsVars, overlay, listfile, histories, CfsTypeOK, CallsInv, NoDanglingId
<1> QED BY <1>1, <1>2, <1>3, <1>4, <1>5, <1>6, <1>7, <1>8, <1>9, <1>10, <1>11
           DEF CfsNext, AddFile, Lookup

\* The types of the variables and a file behind every registered path, for any
\* listing, any storage and any number of threads (ClientFileSystem::addFile).
THEOREM EveryIdHasItsFile == CfsSpec => []CfsInv
<1>1. FilesInv => CfsInv
  BY DEF FilesInv, CfsInv
<1> QED BY <1>1, FilesInvInit, FilesInvStep, PTL DEF CfsSpec

(***************************************************************************)
(* Stable ids.                                                             *)
(***************************************************************************)

\* The listing of a client with one id to a path makes maps that agree.
LEMMA IdsInvInit == ASSUME OneIdOnePath PROVE CfsInit => IdsInv
<1> SUFFICES ASSUME CfsInit, kind = "Casc" PROVE IdsInv
  BY DEF IdsInv
<1>1. Bound = Listed
  BY DEF Bound
<1>2. \A i \in Ids : idToPath[i] # NoPath => [path |-> idToPath[i], id |-> i] \in Listed
  BY <1>1 DEF CfsInit
<1>3. ASSUME NEW p \in Paths, pathToId[p] # NoId
      PROVE  idToPath[pathToId[p]] = p
  <2>1. [path |-> p, id |-> pathToId[p]] \in Listed /\ pathToId[p] \in Ids
    BY <1>1, <1>3 DEF CfsInit
  <2>2. {b \in Bound : b.id = pathToId[p]} # {}
    BY <1>1, <2>1
  <2>3. [path |-> idToPath[pathToId[p]], id |-> pathToId[p]] \in Listed
    BY <1>1, <2>1, <2>2 DEF CfsInit
  <2> QED BY <2>1, <2>3 DEF OneIdOnePath
<1>4. ASSUME NEW i \in CustomIds, idToPath[i] # NoPath
      PROVE  i < next
  BY <1>1, <1>2, <1>4 DEF CfsInit, CustomIds
<1> QED BY <1>3, <1>4 DEF IdsInv, CfsInit

\* A step that is not a look-up that answers or a registration returns nothing
\* on a CASC client, and leaves the maps alone.
LEMMA IdsInvStep == FilesInv /\ IdsInv /\ [CfsNext]_cfsVars => IdsInv'
<1> SUFFICES ASSUME FilesInv, IdsInv, [CfsNext]_cfsVars, kind = "Casc", kind' = kind PROVE IdsInv'
  BY DEF IdsInv, CfsNext, AddFile, Lookup, cfsVars, AddBegin, AddWrite, AddWriteFail, AddLookup,
         AddRegister, AddRegisterFail, Ask, AskOverlay, OpenOverlay, AskStorage, Rescan, Foreign
<1>1. ASSUME NEW t \in Threads, AddLookup(t)
      PROVE  IdsInv'
  <2>1. call[t].key.path \in Paths
    BY <1>1 DEF AddLookup, FilesInv, CallsInv
  <2>2. \/ returned' = returned \cup {[path |-> call[t].key.path, id |-> pathToId[call[t].key.path]]}
        \/ UNCHANGED returned
    BY <1>1 DEF AddLookup, Return
  <2> QED BY <1>1, <2>1, <2>2 DEF IdsInv, AddLookup, listfile
<1>2. ASSUME NEW t \in Threads, AddRegister(t)
      PROVE  IdsInv'
  <2> DEFINE p == call[t].key.path
  <2>1. p \in Paths /\ pathToId[p] = NoId /\ next \in CustomIds /\ next \in Nat
    BY <1>2 DEF AddRegister, FilesInv, CallsInv, IsDuplicate, Exhausted, CfsTypeOK, Cursors, CustomIds, Ids, MaxId
  <2>2. /\ pathToId' = [pathToId EXCEPT ![p] = next]
        /\ idToPath' = [idToPath EXCEPT ![next] = p] /\ next' = next + 1
        /\ returned' = returned \cup {[path |-> p, id |-> next]}
    BY <1>2 DEF AddRegister, Return
  <2> HIDE DEF p
  <2>3. CustomIds \subseteq Ids /\ \A i \in CustomIds : i \in Nat
    BY DEF CustomIds, Ids
  <2>4. /\ pathToId \in [Paths -> Ids \cup {NoId}] /\ idToPath \in [Ids -> Paths \cup {NoPath}]
        /\ returned \subseteq Binding
    BY DEF FilesInv, CfsTypeOK
  <2>5. /\ \A q \in Paths : pathToId[q] # NoId => idToPath[pathToId[q]] = q
        /\ \A i \in CustomIds : idToPath[i] # NoPath => i < next
        /\ \A b \in returned : pathToId[b.path] = b.id
    BY DEF IdsInv
  <2>6. idToPath[next] = NoPath
    BY <2>1, <2>5
  <2>7. \A q \in Paths : pathToId[q] # next
    BY <2>1, <2>3, <2>5, <2>6
  <2>8. \A q \in Paths : pathToId'[q] # NoId => idToPath'[pathToId'[q]] = q
    BY <2>1, <2>2, <2>3, <2>4, <2>5, <2>7
  <2>9. \A i \in CustomIds : idToPath'[i] # NoPath => i < next'
    BY <2>1, <2>2, <2>3, <2>4, <2>5
  <2>10. \A b \in returned' : pathToId'[b.path] = b.id
    <3> SUFFICES ASSUME NEW b \in returned' PROVE pathToId'[b.path] = b.id
      OBVIOUS
    <3>1. CASE b \in returned
      <4>1. b.path \in Paths /\ b.id \in Ids /\ pathToId[b.path] = b.id
        BY <2>4, <2>5, <3>1 DEF Binding
      <4>2. b.path # p
        BY <2>1, <4>1
      <4> QED BY <2>2, <2>4, <4>1, <4>2
    <3>2. CASE b = [path |-> p, id |-> next]
      BY <2>1, <2>2, <2>4, <3>2
    <3> QED BY <2>2, <3>1, <3>2
  <2> QED BY <2>8, <2>9, <2>10 DEF IdsInv
<1>3. ASSUME NEW t \in Threads, AddRegisterFail(t)
      PROVE  IdsInv'
  <2>1. next' \in {next, next + 1} /\ next \in Nat /\ UNCHANGED <<pathToId, idToPath, returned>>
    BY <1>3 DEF AddRegisterFail, histories, FilesInv, CfsTypeOK, Cursors, MaxId
  <2> QED BY <2>1 DEF IdsInv, CustomIds, Ids
<1>4. CASE UNCHANGED <<pathToId, idToPath, next, returned>>
  BY <1>4 DEF IdsInv
<1>5. ASSUME NEW t \in Threads, (\E p \in Paths : AddBegin(t, p)) \/ AddWrite(t)
                 \/ AddWriteFail(t) \/ Lookup(t) \/ Rescan(t)
      PROVE  UNCHANGED <<pathToId, idToPath, next, returned>>
  BY <1>5 DEF AddBegin, AddWrite, AddWriteFail, Lookup, Ask, AskOverlay, OpenOverlay, AskStorage, Rescan, listfile, histories
<1>6. ASSUME NEW p \in Paths, Foreign(p)
      PROVE  UNCHANGED <<pathToId, idToPath, next, returned>>
  BY <1>6 DEF Foreign, listfile
<1>7. UNCHANGED cfsVars => UNCHANGED <<pathToId, idToPath, next, returned>>
  BY DEF cfsVars, listfile, histories
<1> QED BY <1>1, <1>2, <1>3, <1>4, <1>5, <1>6, <1>7 DEF CfsNext, AddFile

\* However concurrent calls interleave between the look-up and the
\* registration, an id once returned is the path's and no other's, if no two
\* paths of the listing share one (ClientFileSystem::addFile).
THEOREM IdsAreStable == ASSUME OneIdOnePath PROVE CfsSpec => []IdIsStable
<1>1. FilesInv /\ IdsInv => IdIsStable
  BY DEF FilesInv, CfsTypeOK, Binding, IdsInv, IdIsStable
<1>2. CfsInit => IdsInv
  BY IdsInvInit
<1> QED BY <1>1, <1>2, FilesInvInit, FilesInvStep, IdsInvStep, PTL DEF CfsSpec

(***************************************************************************)
(* What was added is served.                                               *)
(***************************************************************************)

LEMMA ServedInvInit == CfsInit => ServedInv
BY ReturnedIsCall DEF CfsInit, ServedInv, Results

\* Every step keeps an added file indexed and on disk, or counts it as lost.
LEMMA ServedInvStep == FilesInv /\ IdsInv /\ ServedInv /\ [CfsNext]_cfsVars => ServedInv'
<1> SUFFICES ASSUME FilesInv, IdsInv, ServedInv, [CfsNext]_cfsVars PROVE ServedInv'
  OBVIOUS
<1>0. call \in [Threads -> Call] /\ CfsTypeOK
  BY DEF FilesInv, CfsTypeOK, Call, Results
<1>1. ASSUME NEW t \in Threads, NEW p \in Paths, AddBegin(t, p)
      PROVE  ServedInv'
  <2> DEFINE c == [Returned("none") EXCEPT !.op = "write", !.key.path = p]
  <2>1. c.op = "write" /\ c.expects = NoPath
    BY DEF Returned
  <2>2. call' = [call EXCEPT ![t] = c] /\ UNCHANGED <<onDisk, index, returned, lost>>
    BY <1>1 DEF AddBegin, overlay
  <2> HIDE DEF c
  <2> QED BY <1>0, <2>1, <2>2 DEF ServedInv
<1>2. ASSUME NEW t \in Threads, AddWrite(t)
      PROVE  ServedInv'
  <2> DEFINE p == call[t].key.path
  <2>1. /\ onDisk' = onDisk \cup {p} /\ index' = index \cup {p} /\ lost' = lost \ {p}
        /\ call[t].op = "write"
    BY <1>2 DEF AddWrite, WithIndexed
  <2>2. \/ call' = [call EXCEPT ![t] = Returned("ok")] /\ returned' = returned \cup {[path |-> p, id |-> 0]}
        \/ call' = [call EXCEPT ![t].op = "lookup"] /\ UNCHANGED returned
    BY <1>2 DEF AddWrite, Return
  <2>3. call[t].expects = NoPath
    BY <2>1 DEF ServedInv
  <2> HIDE DEF p
  <2>4. \A b \in returned' : b.path \notin lost' => b.path \in index' \cap onDisk'
    BY <2>1, <2>2 DEF ServedInv
  <2>5. ASSUME NEW u \in Threads
        PROVE  /\ call'[u].op \in {"lookup", "register"} /\ call'[u].key.path \notin lost' =>
                    call'[u].key.path \in index' \cap onDisk'
               /\ call'[u].expects # NoPath =>
                    /\ call'[u].op \in {"overlay", "open"}
                    /\ call'[u].key.path = call'[u].expects
                    /\ call'[u].expects \in index' \cap onDisk'
    <3>1. CASE u # t
      BY <1>0, <2>1, <2>2, <3>1 DEF ServedInv
    <3>2. CASE u = t
      BY <1>0, <2>1, <2>2, <2>3, <3>2, ReturnedIsCall DEF Call, Results, p
    <3> QED BY <3>1, <3>2
  <2> QED BY <2>4, <2>5 DEF ServedInv
<1>3. ASSUME NEW t \in Threads, AddWriteFail(t)
      PROVE  ServedInv'
  BY <1>0, <1>3, ReturnedIsCall DEF AddWriteFail, ServedInv, histories, Results
<1>4. ASSUME NEW t \in Threads, AddLookup(t) \/ AddRegister(t) \/ AddRegisterFail(t)
      PROVE  ServedInv'
  <2> DEFINE p == call[t].key.path
  <2>1. /\ \/ \E r \in Results : call' = [call EXCEPT ![t] = Returned(r)]
           \/ call' = [call EXCEPT ![t].op = "register"]
        /\ call[t].op \in {"lookup", "register"}
    BY <1>4 DEF AddLookup, AddRegister, AddRegisterFail, Return, Results
  <2>2. \/ UNCHANGED returned
        \/ \E i : returned' = returned \cup {[path |-> p, id |-> i]}
    BY <1>4 DEF AddLookup, AddRegister, AddRegisterFail, Return, histories
  <2>3. UNCHANGED <<onDisk, index, lost>>
    BY <1>4 DEF AddLookup, AddRegister, AddRegisterFail, overlay, histories
  <2>4. call[t].expects = NoPath /\ (p \notin lost => p \in index \cap onDisk)
    BY <2>1 DEF ServedInv
  <2>5. \A b \in returned' : b.path \notin lost => b.path \in index \cap onDisk
    BY <2>2, <2>4 DEF ServedInv
  <2>6. ASSUME NEW u \in Threads
        PROVE  /\ call'[u].op \in {"lookup", "register"} => call'[u].key.path = call[u].key.path /\ call[u].op \in {"lookup", "register"}
               /\ call'[u].expects # NoPath => call'[u] = call[u]
    BY <1>0, <2>1, <2>4, ReturnedIsCall DEF Call
  <2> QED BY <2>3, <2>5, <2>6 DEF ServedInv
<1>5. ASSUME NEW t \in Threads, NEW ask \in {"read", "exists"}, NEW key \in Key, Ask(t, ask, key)
      PROVE  ServedInv'
  <2> DEFINE c == [op |-> "overlay", ask |-> ask, key |-> Resolve(key),
                   expects |-> Added(key), res |-> "none"]
  <2>1. ASSUME c.expects # NoPath
        PROVE  c.key.path = c.expects /\ c.expects \in index \cap onDisk
    <3>1. PICK b \in returned :
             /\ b.path = Added(key) /\ b.path \notin lost
             /\ key.path = b.path \/ (key.path = NoPath /\ kind = "Casc" /\ key.id \in {NoId, b.id})
      BY <1>0, <2>1, AddedWasReturned
    <3>2. b.path \in Paths /\ b.id \in Ids
      BY <1>0 DEF CfsTypeOK, Binding
    <3>3. CASE key.path = b.path
      BY <1>0, <1>5, <3>1, <3>2, <3>3, ResolveKeeps DEF Ask, ServedInv
    <3>4. CASE key.path = NoPath /\ kind = "Casc" /\ key.id \in {NoId, b.id}
      <4>1. key.id = b.id
        BY <1>5, <3>4 DEF Ask, Key, NoKey
      <4>2. idToPath[b.id] = b.path
        BY <3>2, <3>4 DEF IdsInv
      <4> QED BY <1>0, <1>5, <3>1, <3>4, <4>1, <4>2, ResolveKeeps DEF Ask, ServedInv
    <3> QED BY <3>1, <3>3, <3>4
  <2>2. call' = [call EXCEPT ![t] = c] /\ UNCHANGED <<onDisk, index, returned, lost>> /\ c.op = "overlay"
    BY <1>5 DEF Ask, overlay
  <2> HIDE DEF c
  <2> QED BY <1>0, <2>1, <2>2 DEF ServedInv
<1>6. ASSUME NEW t \in Threads, AskOverlay(t) \/ OpenOverlay(t) \/ AskStorage(t)
      PROVE  ServedInv'
  <2>1. \/ \E r \in Results : call' = [call EXCEPT ![t] = Returned(r)]
        \/ call' = [call EXCEPT ![t].op = "storage"] /\ call[t].key.path \notin index
        \/ call' = [call EXCEPT ![t].op = "open"] /\ call[t].op = "overlay"
    BY <1>6 DEF AskOverlay, OpenOverlay, AskStorage, Results
  <2>2. UNCHANGED <<onDisk, index, returned, lost>>
    BY <1>6 DEF AskOverlay, OpenOverlay, AskStorage, overlay, histories
  <2> QED BY <1>0, <2>1, <2>2, ReturnedIsCall DEF ServedInv, Call, Results
<1>7. ASSUME NEW t \in Threads, Rescan(t)
      PROVE  ServedInv'
  <2>1. PICK found \in SUBSET onDisk : index' = found /\ Lose(onDisk \ found)
    BY <1>7 DEF Rescan
  <2>2. onDisk \ found \in SUBSET Paths /\ UNCHANGED <<onDisk, returned>>
    BY <1>0, <1>7 DEF CfsTypeOK, Rescan
  <2> QED BY <1>0, <2>1, <2>2, LoseKeeps DEF ServedInv
<1>8. ASSUME NEW p \in Paths, Foreign(p)
      PROVE  ServedInv'
  <2>1. UNCHANGED <<index, returned>>
    BY <1>8 DEF Foreign
  <2>2. CASE onDisk' = onDisk \cup {p} /\ UNCHANGED <<lost, call>>
    BY <2>1, <2>2 DEF ServedInv
  <2>3. CASE onDisk' = onDisk \ {p} /\ Lose({p})
    BY <1>0, <2>1, <2>3, LoseKeeps DEF ServedInv
  <2> QED BY <1>8, <2>2, <2>3 DEF Foreign
<1>9. CASE UNCHANGED cfsVars
  BY <1>9 DEF cfsVars, overlay, histories, ServedInv
<1> QED BY <1>1, <1>2, <1>3, <1>4, <1>5, <1>6, <1>7, <1>8, <1>9 DEF CfsNext, AddFile, Lookup

\* A call that has to get an added file does not reach the storage, and the
\* overlay has the file when it looks it up again.
LEMMA ServedStep ==
    FilesInv /\ ServedInv =>
      \A t \in Threads : call[t].expects # NoPath =>
        ~AskStorage(t) /\ (OpenOverlay(t) => call'[t].res = "found")
<1> SUFFICES ASSUME FilesInv, ServedInv, NEW t \in Threads, call[t].expects # NoPath
             PROVE  ~AskStorage(t) /\ (OpenOverlay(t) => call'[t].res = "found")
  OBVIOUS
<1>1. /\ call[t].op \in {"overlay", "open"} /\ call[t].key.path \in index \cap onDisk
  BY DEF ServedInv
<1>2. call \in [Threads -> Call]
  BY DEF FilesInv, CfsTypeOK, Call, Results
<1> QED BY <1>1, <1>2, ReturnedIsCall DEF AskStorage, OpenOverlay, Results

\* What addFile returned is read back by path, by id or by both, whatever other
\* calls, rescans and other tools do meanwhile (ClientFileSystem::readFile).
THEOREM WhatWasAddedIsServed == ASSUME OneIdOnePath PROVE CfsSpec => AddedIsServed
<1>1. CfsInit => FilesInv /\ IdsInv /\ ServedInv
  BY FilesInvInit, IdsInvInit, ServedInvInit
<1>2. FilesInv /\ IdsInv /\ ServedInv /\ [CfsNext]_cfsVars => FilesInv' /\ IdsInv' /\ ServedInv'
  BY FilesInvStep, IdsInvStep, ServedInvStep
<1>3. FilesInv /\ ServedInv =>
        [\A t \in Threads : call[t].expects # NoPath =>
           ~AskStorage(t) /\ (OpenOverlay(t) => call'[t].res = "found")]_cfsVars
  BY ServedStep
<1> QED BY <1>1, <1>2, <1>3, PTL DEF CfsSpec, AddedIsServed
=============================================================================
