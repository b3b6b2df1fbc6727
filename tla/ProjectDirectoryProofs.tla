----------------------- MODULE ProjectDirectoryProofs -----------------------
(***************************************************************************)
(* Proofs about ProjectDirectory for every value of its constants.         *)
(***************************************************************************)
EXTENDS ProjectDirectory, TLAPS

USE ProjectAssumption DEF ProjectAssumption

Io == [op : {"idle", "write", "open", "read"}, path : Paths \cup {Absent},
       name : Names \cup {Absent}, data : Seq(Block), pos : Nat, size : Nat,
       clean : BOOLEAN, res : {"none", "ok", "IoError", "FileNotFound"}]

\* A write in progress has made its file, and nobody claims to know what the
\* file holds.  One that was alone with it so far has left there what it has
\* written, and no other write of that file is in progress.
WriteHolds(t) ==
  io[t].op = "write" =>
    LET n == io[t].name IN
      /\ io[t].path \in Paths /\ n = Native[io[t].path]
      /\ io[t].pos <= Len(io[t].data)
      /\ disk[n] # Absent /\ whole[n] = Absent
      /\ io[t].clean =>
           /\ \A u \in Threads : io[u].op = "write" /\ io[u].name = n => u = t
           /\ Len(disk[n]) = io[t].pos
           /\ \A j \in 1..io[t].pos : disk[n][j] = io[t].data[j]

WritesInv == \A t \in Threads : WriteHolds(t)

\* A read that no write disturbed has the size and the first blocks of the
\* content the file is known to hold.
ReadHolds(t) ==
  /\ io[t].op \in {"open", "read"} => io[t].name \in Names
  /\ io[t].op = "open" => Len(io[t].data) = 0
  /\ io[t].op = "read" =>
       /\ disk[io[t].name] # Absent
       /\ Len(io[t].data) <= io[t].size
       /\ io[t].clean =>
            /\ whole[io[t].name] # Absent
            /\ io[t].size = Len(whole[io[t].name])
            /\ \A j \in 1..Len(io[t].data) : io[t].data[j] = whole[io[t].name][j]

ReadsInv == \A t \in Threads : ReadHolds(t)

\* The index has files under their own paths only.
IndexInv == \A p \in Paths : index[p] # Absent => Canon[index[p]] = p

\* A file written and not changed by another tool since is on disk, and in the
\* index, or the walk in progress has still to come to it.
LatestInv ==
  \A p \in Paths : latest[p] # Absent =>
    /\ latest[p] = Native[p] /\ disk[Native[p]] # Absent
    /\ Unlocked /\ ~partial => index[p] # Absent
    /\ ~Unlocked => Native[p] \in scan.todo \/ index[p] # Absent

\* The inductive invariant.
DirectoryInv == PDInv /\ WritesInv /\ ReadsInv /\ IndexInv /\ LatestInv

(***************************************************************************)
(* Lemmas about the operators.                                             *)
(***************************************************************************)

\* Two sequences with the same length and the same elements are the same.
LEMMA SameSequence ==
    ASSUME NEW S, NEW a \in Seq(S), NEW b \in Seq(S),
           Len(a) = Len(b), \A j \in 1..Len(a) : a[j] = b[j]
    PROVE  a = b
<1>1. a = [j \in 1..Len(a) |-> a[j]] /\ b = [j \in 1..Len(b) |-> b[j]]
  OBVIOUS
<1> QED BY <1>1

\* A call that has returned.
LEMMA ReturnIsIo ==
    ASSUME NEW t, NEW r \in {"none", "ok", "IoError", "FileNotFound"}
    PROVE  /\ Return(t, r) \in Io /\ Idle \in Io
           /\ Return(t, r).op = "idle" /\ Return(t, r).name = Absent
           /\ Idle.op = "idle" /\ Idle.name = Absent
<1>1. <<>> \in Seq(Block)
  OBVIOUS
<1>2. Idle \in Io /\ Idle.op = "idle" /\ Idle.name = Absent
  BY <1>1 DEF Idle, Io
<1>3. Return(t, r) = [Idle EXCEPT !.res = r]
  BY DEF Return
<1> QED BY <1>2, <1>3 DEF Io

LEMMA EmptyIsFile == <<>> \in Seq(Block) /\ <<>> # Absent /\ Len(<<>>) = 0 /\ 0 \in Block
<1>1. <<>> \in Seq(Block) /\ Len(<<>>) = 0
  OBVIOUS
<1>2. 0 \in Block
  <2> DEFINE Written == UNION {{c[k] : k \in DOMAIN c} : c \in Contents}
  <2>1. Block = Written \cup {0}
    BY DEF Block
  <2> HIDE DEF Written
  <2> QED BY <2>1
<1> QED BY <1>1, <1>2

\* Disturbing a file changes what its readers and writers know, and no more.
LEMMA DisturbKeeps ==
    ASSUME io \in [Threads -> Io], NEW n
    PROVE  /\ Disturb(n) \in [Threads -> Io]
           /\ \A u \in Threads :
                /\ Disturb(n)[u].op = io[u].op /\ Disturb(n)[u].name = io[u].name
                /\ Disturb(n)[u].path = io[u].path /\ Disturb(n)[u].data = io[u].data
                /\ Disturb(n)[u].pos = io[u].pos /\ Disturb(n)[u].size = io[u].size
                /\ Disturb(n)[u].clean => io[u].clean /\ io[u].name # n
                /\ io[u].name # n => Disturb(n)[u] = io[u]
<1>1. ASSUME NEW u \in Threads
      PROVE  /\ Disturb(n)[u] = IF io[u].name = n THEN [io[u] EXCEPT !.clean = FALSE] ELSE io[u]
             /\ Disturb(n)[u] \in Io
  BY DEF Disturb, Io
<1>2. DOMAIN Disturb(n) = Threads /\ Disturb(n) = [u \in Threads |-> Disturb(n)[u]]
  BY DEF Disturb
<1>3. Disturb(n) \in [Threads -> Io]
  BY <1>1, <1>2
<1>4. ASSUME NEW u \in Threads
      PROVE  /\ Disturb(n)[u].op = io[u].op /\ Disturb(n)[u].name = io[u].name
             /\ Disturb(n)[u].path = io[u].path /\ Disturb(n)[u].data = io[u].data
             /\ Disturb(n)[u].pos = io[u].pos /\ Disturb(n)[u].size = io[u].size
             /\ Disturb(n)[u].clean => io[u].clean /\ io[u].name # n
             /\ io[u].name # n => Disturb(n)[u] = io[u]
  <2>1. io[u] \in Io
    OBVIOUS
  <2>2. CASE io[u].name = n
    <3>1. Disturb(n)[u] = [io[u] EXCEPT !.clean = FALSE]
      BY <1>1, <2>2
    <3> QED BY <2>1, <2>2, <3>1 DEF Io
  <2>3. CASE io[u].name # n
    BY <1>1, <2>3
  <2> QED BY <2>2, <2>3
<1> QED BY <1>3, <1>4

LEMMA ContentIsFile == \A c \in Contents \cup {Absent} : c \in File
BY DEF File

(***************************************************************************)
(* Initially.                                                              *)
(***************************************************************************)
LEMMA DirectoryInvInit == PDInit => DirectoryInv
<1> SUFFICES ASSUME PDInit PROVE DirectoryInv
  OBVIOUS
<1>1. PICK N \in SUBSET Names, c \in Contents :
        disk = [n \in Names |-> IF n \in N THEN c ELSE Absent]
  BY DEF PDInit
<1>2. \A p \in Paths : index[p] # Absent => index[p] \in Names /\ Canon[index[p]] = p
  BY DEF PDInit
<1>3. index \in [Paths -> Names \cup {Absent}] /\ IndexInv
  BY <1>2 DEF PDInit, IndexInv
<1>4. disk \in [Names -> File]
  BY <1>1, ContentIsFile DEF File
<1>5. /\ io \in [Threads -> Io] /\ \A t \in Threads : io[t].op = "idle"
      /\ latest = [p \in Paths |-> Absent] /\ whole = disk
  BY ReturnIsIo DEF PDInit
<1>6. PDInv
  <2>1. scan \in [by : Threads \cup {Absent}, todo : SUBSET Names] /\ partial \in BOOLEAN /\ ops \in 0..MaxOps
    <3>1. partial = FALSE /\ ops = 0 /\ scan = [by |-> Absent, todo |-> {}]
      BY DEF PDInit, NoScan
    <3>2. ops \in 0..MaxOps
      BY <3>1
    <3>4. partial \in BOOLEAN
      BY <3>1, Zenon
    <3>3. scan \in [by : Threads \cup {Absent}, todo : SUBSET Names]
      BY <3>1
    <3> QED BY <3>2, <3>3, <3>4
  <2>2. latest \in [Paths -> Names \cup {Absent}] /\ whole \in [Names -> File]
    BY <1>4, <1>5
  <2> QED BY <1>3, <1>4, <1>5, <2>1, <2>2 DEF PDInv, PDTypeOK, Io, WholeIsOnDisk
<1>7. WritesInv /\ ReadsInv /\ LatestInv
  BY <1>5 DEF WritesInv, WriteHolds, ReadsInv, ReadHolds, LatestInv
<1> QED BY <1>3, <1>6, <1>7 DEF DirectoryInv

(***************************************************************************)
(* The steps of a write.                                                   *)
(***************************************************************************)

\* Opening a file for writing empties it: whoever had it, and whatever was
\* known of it, is disturbed.
LEMMA WriteOpenKeeps ==
    ASSUME DirectoryInv, NEW t \in Threads, NEW p \in Paths, NEW c \in Contents, WriteOpen(t, p, c)
    PROVE  DirectoryInv'
<1> USE DEF DirectoryInv
<1> DEFINE n == Native[p]
           w == [Idle EXCEPT !.op = "write", !.path = p, !.name = n, !.data = c, !.clean = (Writing(n) = {})]
<1>1. /\ n \in Names /\ Canon[n] = p
      /\ disk' = [disk EXCEPT ![n] = <<>>]
      /\ io' = [Disturb(n) EXCEPT ![t] = w]
      /\ whole' = [whole EXCEPT ![n] = Absent]
      /\ UNCHANGED <<index, scan, latest, partial>> /\ ops < MaxOps /\ ops' = ops + 1
  BY DEF WriteOpen, OnDisk, Truncated, Count
<1>2. /\ w \in Io /\ w.op = "write" /\ w.path = p /\ w.name = n /\ w.data = c
      /\ w.pos = 0 /\ w.clean = (Writing(n) = {})
  BY <1>1 DEF Idle, Io
<1>3. /\ disk \in [Names -> File] /\ whole \in [Names -> File] /\ io \in [Threads -> Io]
      /\ <<>> \in Seq(Block) /\ <<>> # Absent /\ Len(<<>>) = 0
  BY EmptyIsFile DEF PDInv, PDTypeOK, Io
<1> HIDE DEF n, w
<1>4. /\ io' \in [Threads -> Io] /\ io'[t] = w
      /\ \A u \in Threads : u # t => io'[u] = Disturb(n)[u]
  BY <1>1, <1>2, <1>3, DisturbKeeps
<1>5. PDInv'
  <2>1. PDTypeOK'
    BY <1>1, <1>3, <1>4 DEF PDInv, PDTypeOK, Io, File
  <2>2. WholeIsOnDisk'
    BY <1>1, <1>3 DEF PDInv, WholeIsOnDisk
  <2> QED BY <2>1, <2>2 DEF PDInv
<1>6. WritesInv'
  <2> SUFFICES ASSUME NEW u \in Threads, io'[u].op = "write" PROVE WriteHolds(u)'
    BY DEF WritesInv, WriteHolds
  <2>1. CASE u = t
    <3>1. \A v \in Threads : v # t /\ io'[v].op = "write" /\ io'[v].name = n => v \in Writing(n)
      BY <1>3, <1>4, DisturbKeeps DEF Writing
    <3>2. Len(c) \in Nat
      OBVIOUS
    <3>3. disk'[n] = <<>> /\ whole'[n] = Absent
      BY <1>1, <1>3
    <3>4. w.clean => \A v \in Threads : io'[v].op = "write" /\ io'[v].name = n => v = t
      BY <1>2, <3>1
    <3>5. \A j \in 1..0 : FALSE
      OBVIOUS
    <3>6. n = Native[p]
      BY DEF n
    <3> QED BY <1>2, <1>3, <1>4, <2>1, <3>2, <3>3, <3>4, <3>5, <3>6 DEF WriteHolds
  <2>2. CASE u # t
    <3>1. /\ io[u].op = "write" /\ io'[u].path = io[u].path /\ io'[u].name = io[u].name
          /\ io'[u].pos = io[u].pos /\ io'[u].data = io[u].data
          /\ io'[u].clean => io[u].clean /\ io[u].name # n
      BY <1>3, <1>4, <2>2, DisturbKeeps
    <3>2. /\ io[u].path \in Paths /\ io[u].name = Native[io[u].path] /\ io[u].name \in Names
          /\ io[u].pos <= Len(io[u].data)
          /\ disk[io[u].name] # Absent /\ whole[io[u].name] = Absent
      BY <3>1 DEF WritesInv, WriteHolds
    <3>3. disk'[io[u].name] # Absent /\ whole'[io[u].name] = Absent
      BY <1>1, <1>3, <3>2
    <3>4. ASSUME io'[u].clean
          PROVE  /\ \A v \in Threads : io'[v].op = "write" /\ io'[v].name = io[u].name => v = u
                 /\ disk'[io[u].name] = disk[io[u].name]
      <4>1. io[u].clean /\ io[u].name # n
        BY <3>1, <3>4
      <4>2. \A v \in Threads : io[v].op = "write" /\ io[v].name = io[u].name => v = u
        BY <3>1, <4>1 DEF WritesInv, WriteHolds
      <4> QED BY <1>1, <1>2, <1>3, <1>4, <3>2, <4>1, <4>2, DisturbKeeps
    <3>5. io[u].clean => /\ Len(disk[io[u].name]) = io[u].pos
                         /\ \A j \in 1..io[u].pos : disk[io[u].name][j] = io[u].data[j]
      BY <3>1 DEF WritesInv, WriteHolds
    <3> QED BY <3>1, <3>2, <3>3, <3>4, <3>5 DEF WriteHolds
  <2> QED BY <2>1, <2>2
<1>7. ReadsInv'
  <2> SUFFICES ASSUME NEW u \in Threads, io'[u].op \in {"open", "read"} PROVE ReadHolds(u)'
    BY DEF ReadsInv, ReadHolds
  <2>1. u # t /\ io[u].op = io'[u].op /\ io'[u].name = io[u].name
        /\ io'[u].data = io[u].data /\ io'[u].size = io[u].size
        /\ (io'[u].clean => io[u].clean /\ io[u].name # n)
    BY <1>2, <1>3, <1>4, DisturbKeeps
  <2>2. io[u].name # n => whole'[io[u].name] = whole[io[u].name]
    BY <1>1, <1>3
  <2>3. disk[io[u].name] # Absent => disk'[io[u].name] # Absent
    BY <1>1, <1>3
  <2> QED BY <2>1, <2>2, <2>3 DEF ReadsInv, ReadHolds
<1>8. IndexInv' /\ LatestInv'
  BY <1>1, <1>3 DEF IndexInv, LatestInv, Unlocked
<1> QED BY <1>5, <1>6, <1>7, <1>8

\* A block lands in a file nothing is claimed of.
LEMMA WriteBlockKeeps ==
    ASSUME DirectoryInv, NEW t \in Threads, WriteBlock(t)
    PROVE  DirectoryInv'
<1> USE DEF DirectoryInv
<1> DEFINE n == io[t].name
           k == io[t].pos + 1
           f == disk[n]
           g == [j \in 1..(IF k > Len(f) THEN k ELSE Len(f)) |->
                   IF j = k THEN io[t].data[k] ELSE IF j <= Len(f) THEN f[j] ELSE 0]
           w == [io[t] EXCEPT !.pos = k]
<1>1. /\ io[t].op = "write" /\ io[t].pos < Len(io[t].data)
      /\ disk' = [disk EXCEPT ![n] = g] /\ io' = [Disturb(n) EXCEPT ![t] = w]
      /\ UNCHANGED <<index, scan, whole, latest, partial, ops>>
  BY DEF WriteBlock, histories
<1>2. /\ disk \in [Names -> File] /\ whole \in [Names -> File] /\ io \in [Threads -> Io]
  BY DEF PDInv, PDTypeOK, Io
<1>3. /\ io[t].path \in Paths /\ n = Native[io[t].path] /\ n \in Names
      /\ disk[n] # Absent /\ whole[n] = Absent
  BY <1>1 DEF WritesInv, WriteHolds
<1>4. io[t].data \in Seq(Block) /\ io[t].pos \in Nat /\ f \in Seq(Block)
  BY <1>2, <1>3 DEF Io, File
<1>5. /\ w \in Io /\ w.op = "write" /\ w.path = io[t].path /\ w.name = n /\ w.data = io[t].data
      /\ w.pos = k /\ w.clean = io[t].clean /\ w.size = io[t].size
  <2>1. io[t] \in Io /\ k \in Nat
    BY <1>2, <1>4
  <2> HIDE DEF k
  <2> QED BY <1>1, <2>1 DEF Io
<1>6. /\ g \in Seq(Block) /\ g # Absent
      /\ Len(f) = io[t].pos => /\ Len(g) = k /\ g[k] = io[t].data[k]
                               /\ \A j \in 1..io[t].pos : g[j] = f[j]
  <2> DEFINE m == IF k > Len(f) THEN k ELSE Len(f)
  <2>1. m \in Nat /\ k \in 1..m /\ k \in 1..Len(io[t].data) /\ Len(f) <= m /\ Len(f) \in Nat
    BY <1>1, <1>4
  <2>2. ASSUME NEW j \in 1..m
        PROVE  (IF j = k THEN io[t].data[k] ELSE IF j <= Len(f) THEN f[j] ELSE 0) \in Block
    <3>1. CASE j = k
      BY <1>4, <2>1, <3>1
    <3>2. CASE j # k /\ j <= Len(f)
      BY <1>4, <2>1, <3>2
    <3>3. CASE j # k /\ ~(j <= Len(f))
      BY <3>3, EmptyIsFile
    <3> QED BY <3>1, <3>2, <3>3
  <2>3. g \in [1..m -> Block]
    BY <2>2
  <2>4. g \in Seq(Block) /\ Len(g) = m
    BY <2>1, <2>3
  <2>5. \A j \in 1..m : g[j] = IF j = k THEN io[t].data[k] ELSE IF j <= Len(f) THEN f[j] ELSE 0
    OBVIOUS
  <2>6. ASSUME Len(f) = io[t].pos
        PROVE  /\ m = k /\ g[k] = io[t].data[k]
               /\ \A j \in 1..io[t].pos : g[j] = f[j]
    BY <1>4, <2>1, <2>5, <2>6
  <2> QED BY <2>4, <2>6
<1>0. k = io[t].pos + 1
  OBVIOUS
<1> HIDE DEF n, k, f, g, w
<1>7. /\ io' \in [Threads -> Io] /\ io'[t] = w
      /\ \A u \in Threads : u # t => io'[u] = Disturb(n)[u]
  BY <1>1, <1>2, <1>5, DisturbKeeps
<1>8. PDInv'
  <2>1. PDTypeOK'
    BY <1>1, <1>2, <1>6, <1>7 DEF PDInv, PDTypeOK, Io, File
  <2>2. WholeIsOnDisk'
    BY <1>1, <1>2, <1>3 DEF PDInv, WholeIsOnDisk
  <2> QED BY <2>1, <2>2 DEF PDInv
<1>9. WritesInv'
  <2> SUFFICES ASSUME NEW u \in Threads, io'[u].op = "write" PROVE WriteHolds(u)'
    BY DEF WritesInv, WriteHolds
  <2>1. \A v \in Threads : io'[v].op = io[v].op /\ io'[v].name = io[v].name
    BY <1>1, <1>2, <1>5, <1>7, DisturbKeeps DEF n
  <2>2. CASE u = t
    <3>1. io[t].clean =>
            /\ \A v \in Threads : io[v].op = "write" /\ io[v].name = n => v = t
            /\ Len(f) = io[t].pos
            /\ \A j \in 1..io[t].pos : f[j] = io[t].data[j]
      BY <1>1 DEF WritesInv, WriteHolds, n, f
    <3>2. disk'[n] = g /\ whole'[n] = Absent
      BY <1>1, <1>2, <1>3
    <3>3. ASSUME io[t].clean
          PROVE  Len(g) = k /\ \A j \in 1..k : g[j] = io[t].data[j]
      <4>1. \A j \in 1..k : j = k \/ j \in 1..io[t].pos
        BY <1>0, <1>4
      <4> QED BY <1>6, <3>1, <3>3, <4>1
    <3>4. k <= Len(io[t].data)
      BY <1>0, <1>1, <1>4
    <3> QED BY <1>3, <1>5, <1>6, <1>7, <2>1, <2>2, <3>1, <3>2, <3>3, <3>4 DEF WriteHolds
  <2>3. CASE u # t
    <3>1. /\ io[u].op = "write" /\ io'[u].path = io[u].path /\ io'[u].name = io[u].name
          /\ io'[u].pos = io[u].pos /\ io'[u].data = io[u].data
          /\ io'[u].clean => io[u].clean /\ io[u].name # n
      BY <1>2, <1>7, <2>3, DisturbKeeps
    <3>2. /\ io[u].path \in Paths /\ io[u].name = Native[io[u].path] /\ io[u].name \in Names
          /\ io[u].pos <= Len(io[u].data)
          /\ disk[io[u].name] # Absent /\ whole[io[u].name] = Absent
      BY <3>1 DEF WritesInv, WriteHolds
    <3>3. disk'[io[u].name] # Absent /\ whole'[io[u].name] = Absent
          /\ (io[u].name # n => disk'[io[u].name] = disk[io[u].name])
      BY <1>1, <1>2, <1>6, <3>2
    <3>4. io[u].clean =>
            /\ \A v \in Threads : io[v].op = "write" /\ io[v].name = io[u].name => v = u
            /\ Len(disk[io[u].name]) = io[u].pos
            /\ \A j \in 1..io[u].pos : disk[io[u].name][j] = io[u].data[j]
      BY <3>1 DEF WritesInv, WriteHolds
    <3> QED BY <2>1, <3>1, <3>2, <3>3, <3>4 DEF WriteHolds
  <2> QED BY <2>2, <2>3
<1>10. ReadsInv'
  <2> SUFFICES ASSUME NEW u \in Threads, io'[u].op \in {"open", "read"} PROVE ReadHolds(u)'
    BY DEF ReadsInv, ReadHolds
  <2>1. /\ io[u].op = io'[u].op /\ io'[u].name = io[u].name /\ io'[u].data = io[u].data
        /\ io'[u].size = io[u].size /\ (io'[u].clean => io[u].clean)
    BY <1>1, <1>2, <1>5, <1>7, DisturbKeeps DEF n
  <2>2. disk[io[u].name] # Absent => disk'[io[u].name] # Absent
    BY <1>1, <1>2, <1>3, <1>6
  <2> QED BY <1>1, <2>1, <2>2 DEF ReadsInv, ReadHolds
<1>11. IndexInv' /\ LatestInv'
  BY <1>1, <1>2, <1>3, <1>6 DEF IndexInv, LatestInv, Unlocked
<1> QED BY <1>8, <1>9, <1>10, <1>11

\* A step that changes neither a file nor the index nor another thread keeps
\* the invariant if its thread is then idle, or is a reader of its own state.
LEMMA OwnStepKeeps ==
    ASSUME DirectoryInv, NEW t \in Threads, NEW r \in Io, io' = [io EXCEPT ![t] = r],
           UNCHANGED <<disk, index, scan, histories, ops>>,
           r.op # "write", r.op \in {"open", "read"} => r.name \in Names,
           r.op = "open" => Len(r.data) = 0,
           r.op = "read" =>
             /\ disk[r.name] # Absent
             /\ Len(r.data) <= r.size
             /\ r.clean => /\ whole[r.name] # Absent /\ r.size = Len(whole[r.name])
                           /\ \A j \in 1..Len(r.data) : r.data[j] = whole[r.name][j]
    PROVE  DirectoryInv'
<1> USE DEF DirectoryInv
<1>1. io \in [Threads -> Io] /\ io' \in [Threads -> Io] /\ io'[t] = r
      /\ \A u \in Threads : u # t => io'[u] = io[u]
  BY DEF PDInv, PDTypeOK, Io
<1>2. UNCHANGED <<disk, index, scan, whole, latest, partial, ops>>
  BY DEF histories
<1>3. PDInv'
  <2>1. PDTypeOK'
    BY <1>1, <1>2 DEF PDInv, PDTypeOK, Io
  <2> QED BY <1>2, <2>1 DEF PDInv, WholeIsOnDisk
<1>4. WritesInv'
  <2> SUFFICES ASSUME NEW u \in Threads, io'[u].op = "write" PROVE WriteHolds(u)'
    BY DEF WritesInv, WriteHolds
  <2>1. u # t /\ io'[u] = io[u]
    BY <1>1
  <2>2. \A v \in Threads : io'[v].op = "write" => io'[v] = io[v]
    BY <1>1
  <2> QED BY <1>2, <2>1, <2>2 DEF WritesInv, WriteHolds
<1>5. ReadsInv'
  BY <1>1, <1>2 DEF ReadsInv, ReadHolds
<1>6. IndexInv' /\ LatestInv'
  BY <1>2 DEF IndexInv, LatestInv, Unlocked
<1> QED BY <1>3, <1>4, <1>5, <1>6

\* A write that fails leaves a file nothing is claimed of.
LEMMA FailKeeps ==
    ASSUME DirectoryInv, NEW t \in Threads, NEW p, WriteFail(t) \/ WriteRefused(t, p)
    PROVE  DirectoryInv'
<1>1. io' = [io EXCEPT ![t] = Return(t, "IoError")] /\ UNCHANGED <<disk, index, scan, histories, ops>>
  BY DEF WriteFail, WriteRefused
<1> QED BY <1>1, OwnStepKeeps, ReturnIsIo

\* A write that comes to its end was the only one, or claims nothing.
LEMMA WriteIndexKeeps ==
    ASSUME DirectoryInv, NEW t \in Threads, WriteIndex(t)
    PROVE  DirectoryInv'
<1> USE DEF DirectoryInv
<1> DEFINE n == io[t].name
           p == io[t].path
           r == Return(t, "ok")
<1>1. /\ io[t].op = "write" /\ io[t].pos = Len(io[t].data) /\ Unlocked
      /\ index' = [index EXCEPT ![p] = n]
      /\ whole' = IF io[t].clean THEN [whole EXCEPT ![n] = io[t].data] ELSE whole
      /\ latest' = [latest EXCEPT ![p] = n]
      /\ io' = [io EXCEPT ![t] = r]
      /\ UNCHANGED <<disk, scan, partial, ops>>
  BY DEF WriteIndex, Flushed
<1>2. /\ disk \in [Names -> File] /\ whole \in [Names -> File] /\ io \in [Threads -> Io]
      /\ index \in [Paths -> Names \cup {Absent}] /\ latest \in [Paths -> Names \cup {Absent}]
  BY DEF PDInv, PDTypeOK, Io
<1>3. /\ p \in Paths /\ n = Native[p] /\ n \in Names /\ Canon[n] = p
      /\ disk[n] # Absent /\ disk[n] \in Seq(Block) /\ whole[n] = Absent
      /\ io[t].data \in Seq(Block)
      /\ io[t].clean =>
           /\ \A u \in Threads : io[u].op = "write" /\ io[u].name = n => u = t
           /\ Len(disk[n]) = io[t].pos
           /\ \A j \in 1..io[t].pos : disk[n][j] = io[t].data[j]
  BY <1>1, <1>2 DEF WritesInv, WriteHolds, File, Io
<1>4. io[t].clean => disk[n] = io[t].data
  BY <1>1, <1>3, SameSequence
<1>5. r \in Io /\ r.op = "idle" /\ r.name = Absent
  BY ReturnIsIo
<1> HIDE DEF n, p, r
<1>6. /\ io' \in [Threads -> Io] /\ io'[t] = r /\ \A u \in Threads : u # t => io'[u] = io[u]
  BY <1>1, <1>2, <1>5
<1>7. \A m \in Names : m # n => whole'[m] = whole[m]
  BY <1>1, <1>2
<1>8. whole'[n] = IF io[t].clean THEN disk[n] ELSE whole[n]
  BY <1>1, <1>2, <1>3, <1>4
<1>9. PDInv'
  <2>1. whole' \in [Names -> File]
    BY <1>1, <1>2, <1>3 DEF File
  <2>2. PDTypeOK'
    BY <1>1, <1>2, <1>3, <1>6, <2>1 DEF PDInv, PDTypeOK, Io
  <2>3. WholeIsOnDisk'
    BY <1>1, <1>3, <1>7, <1>8 DEF PDInv, WholeIsOnDisk
  <2> QED BY <2>2, <2>3 DEF PDInv
<1>10. WritesInv'
  <2> SUFFICES ASSUME NEW u \in Threads, io'[u].op = "write" PROVE WriteHolds(u)'
    BY DEF WritesInv, WriteHolds
  <2>1. u # t /\ io'[u] = io[u] /\ io[u].op = "write"
    BY <1>5, <1>6
  <2>2. \A v \in Threads : io'[v].op = "write" => io'[v] = io[v]
    BY <1>5, <1>6
  <2>3. io[u].name \in Names /\ whole[io[u].name] = Absent
    BY <1>2, <2>1 DEF WritesInv, WriteHolds, Io
  <2>4. whole'[io[u].name] = Absent
    BY <1>3, <1>7, <1>8, <2>1, <2>3
  <2> QED BY <1>1, <2>1, <2>2, <2>4 DEF WritesInv, WriteHolds
<1>11. ReadsInv'
  <2> SUFFICES ASSUME NEW u \in Threads, io'[u].op \in {"open", "read"} PROVE ReadHolds(u)'
    BY DEF ReadsInv, ReadHolds
  <2>1. u # t /\ io'[u] = io[u]
    BY <1>5, <1>6
  <2>2. io[u].name \in Names /\ (whole[io[u].name] # Absent => whole'[io[u].name] = whole[io[u].name])
    BY <1>3, <1>7, <2>1 DEF ReadsInv, ReadHolds
  <2> QED BY <1>1, <2>1, <2>2 DEF ReadsInv, ReadHolds
<1>12. IndexInv'
  BY <1>1, <1>2, <1>3 DEF IndexInv
<1>13. LatestInv'
  BY <1>1, <1>2, <1>3 DEF LatestInv, Unlocked
<1> QED BY <1>9, <1>10, <1>11, <1>12, <1>13

(***************************************************************************)
(* The steps of a read.                                                    *)
(***************************************************************************)
LEMMA ReadKeeps ==
    ASSUME DirectoryInv, NEW t \in Threads,
           (\E p \in Paths : ReadResolve(t, p)) \/ ReadOpen(t) \/ ReadBlock(t) \/ ReadDone(t)
    PROVE  DirectoryInv'
<1> USE DEF DirectoryInv
<1>0. /\ disk \in [Names -> File] /\ whole \in [Names -> File] /\ io \in [Threads -> Io]
      /\ index \in [Paths -> Names \cup {Absent}] /\ io[t] \in Io
      /\ \A n \in Names : whole[n] # Absent => disk[n] = whole[n]
  BY DEF PDInv, PDTypeOK, Io, WholeIsOnDisk
<1>1. ASSUME NEW p \in Paths, ReadResolve(t, p)
      PROVE  DirectoryInv'
  <2> DEFINE o == [Idle EXCEPT !.op = "open", !.path = p, !.name = index[p]]
  <2>1. UNCHANGED <<disk, index, scan, histories, ops>>
    BY <1>1 DEF ReadResolve
  <2>2. CASE index[p] # Absent
    <3>1. o \in Io /\ o.op = "open" /\ o.name \in Names /\ o.data = <<>>
      BY <1>0, <2>2, ReturnIsIo DEF Io, Idle
    <3>2. io' = [io EXCEPT ![t] = o]
      BY <1>1, <2>2 DEF ReadResolve, Exists
    <3> HIDE DEF o
    <3> QED BY <2>1, <3>1, <3>2, OwnStepKeeps, EmptyIsFile
  <2>3. CASE index[p] = Absent
    <3>1. io' = [io EXCEPT ![t] = Return(t, "FileNotFound")]
      BY <1>1, <2>3 DEF ReadResolve, Exists
    <3> QED BY <2>1, <3>1, OwnStepKeeps, ReturnIsIo
  <2> QED BY <2>2, <2>3
<1>2. CASE ReadOpen(t)
  <2> DEFINE n == io[t].name
             o == [io[t] EXCEPT !.op = "read", !.size = Len(disk[n]), !.clean = (whole[n] # Absent)]
  <2>1. /\ io[t].op = "open" /\ UNCHANGED <<disk, index, scan, histories, ops>>
        /\ n \in Names /\ Len(io[t].data) = 0
    BY <1>2 DEF ReadOpen, ReadsInv, ReadHolds
  <2>2. CASE disk[n] = Absent
    <3>1. io' = [io EXCEPT ![t] = Return(t, "IoError")]
      BY <1>2, <2>2 DEF ReadOpen
    <3> QED BY <2>1, <3>1, OwnStepKeeps, ReturnIsIo
  <2>3. CASE disk[n] # Absent
    <3>1. io' = [io EXCEPT ![t] = o]
      BY <1>0, <1>2, <2>3 DEF ReadOpen
    <3>2. Len(disk[n]) \in Nat
      BY <1>0, <2>1, <2>3 DEF File
    <3>3. /\ o \in Io /\ o.op = "read" /\ o.name = n /\ o.data = io[t].data
          /\ o.size = Len(disk[n]) /\ o.clean = (whole[n] # Absent)
      BY <1>0, <3>2 DEF Io
    <3>4. o.clean => whole[n] # Absent /\ disk[n] = whole[n]
      BY <1>0, <2>1, <3>3
    <3>5. \A j \in 1..0 : FALSE
      OBVIOUS
    <3> HIDE DEF o
    <3>6. /\ Len(o.data) <= o.size
          /\ o.clean => /\ whole[o.name] # Absent /\ o.size = Len(whole[o.name])
                        /\ \A j \in 1..Len(o.data) : o.data[j] = whole[o.name][j]
      BY <2>1, <3>2, <3>3, <3>4, <3>5
    <3> QED BY <2>1, <2>3, <3>1, <3>3, <3>6, OwnStepKeeps
  <2> QED BY <2>2, <2>3
<1>3. CASE ReadBlock(t)
  <2> DEFINE f == disk[io[t].name]
             k == Len(io[t].data) + 1
             o == [io[t] EXCEPT !.data = Append(io[t].data, f[k])]
  <2>1. /\ io[t].op = "read" /\ Len(io[t].data) < io[t].size
        /\ UNCHANGED <<disk, index, scan, histories, ops>>
        /\ io' = [io EXCEPT ![t] = IF k <= Len(f) THEN o ELSE Return(t, "IoError")]
    BY <1>0, <1>3 DEF ReadBlock
  <2>2. io[t].name \in Names /\ io[t].data \in Seq(Block) /\ io[t].size \in Nat
    BY <1>0, <2>1 DEF ReadsInv, ReadHolds, Io
  <2>5. f # Absent
    BY <2>1 DEF ReadsInv, ReadHolds
  <2>3. CASE k <= Len(f) /\ f # Absent
    <3>1. f \in Seq(Block) /\ k \in 1..Len(f)
      BY <1>0, <2>2, <2>3 DEF File
    <3>2. Append(io[t].data, f[k]) \in Seq(Block) /\ Len(Append(io[t].data, f[k])) = k
          /\ k <= io[t].size /\ Append(io[t].data, f[k])[k] = f[k]
          /\ \A j \in 1..Len(io[t].data) : Append(io[t].data, f[k])[j] = io[t].data[j]
      BY <2>1, <2>2, <3>1
    <3>3. /\ o \in Io /\ o.op = "read" /\ o.name = io[t].name /\ o.data = Append(io[t].data, f[k])
          /\ o.size = io[t].size /\ o.clean = io[t].clean
      BY <1>0, <2>1, <3>2 DEF Io
    <3>4. io[t].clean =>
            /\ whole[io[t].name] # Absent /\ f = whole[io[t].name]
            /\ io[t].size = Len(whole[io[t].name])
            /\ \A j \in 1..Len(io[t].data) : io[t].data[j] = whole[io[t].name][j]
      BY <1>0, <2>1, <2>2 DEF ReadsInv, ReadHolds
    <3>5. io' = [io EXCEPT ![t] = o]
      BY <2>1, <2>3
    <3>6. \A j \in 1..k : j = k \/ j \in 1..Len(io[t].data)
      BY <2>2
    <3> HIDE DEF o, k, f
    <3>7. /\ Len(o.data) <= o.size
          /\ o.clean => /\ whole[o.name] # Absent /\ o.size = Len(whole[o.name])
                        /\ \A j \in 1..Len(o.data) : o.data[j] = whole[o.name][j]
      BY <3>2, <3>3, <3>4, <3>6
    <3> QED BY <2>1, <2>2, <2>5, <3>3, <3>5, <3>7, OwnStepKeeps DEF f
  <2>4. CASE ~(k <= Len(f))
    BY <2>1, <2>4, OwnStepKeeps, ReturnIsIo
  <2> QED BY <2>3, <2>4, <2>5
<1>4. CASE ReadDone(t)
  BY <1>4, OwnStepKeeps, ReturnIsIo DEF ReadDone
<1> QED BY <1>1, <1>2, <1>3, <1>4

(***************************************************************************)
(* The walk of the tree, and other tools.                                  *)
(***************************************************************************)

\* A walk changes the index only: it finds each file under its own path, and
\* what is not indexed yet it has still to come to.
LEMMA ScanKeeps ==
    ASSUME DirectoryInv, NEW t \in Threads, ScanBegin(t) \/ ScanEntry(t) \/ ScanEnd(t)
    PROVE  DirectoryInv'
<1> USE DEF DirectoryInv
<1>0. /\ index \in [Paths -> Names \cup {Absent}] /\ scan \in [by : Threads \cup {Absent}, todo : SUBSET Names]
      /\ ops \in 0..MaxOps /\ latest \in [Paths -> Names \cup {Absent}]
  BY DEF PDInv, PDTypeOK
<1>1. UNCHANGED <<disk, io, whole, latest>>
  BY DEF ScanBegin, ScanEntry, ScanEnd, histories
<1>2. WritesInv' /\ ReadsInv' /\ WholeIsOnDisk'
  BY <1>1 DEF PDInv, WholeIsOnDisk, WritesInv, WriteHolds, ReadsInv, ReadHolds
<1>3. ASSUME ScanBegin(t)
      PROVE  DirectoryInv'
  <2>1. /\ index' = [p \in Paths |-> Absent] /\ scan' = [by |-> t, todo |-> Names]
        /\ ops < MaxOps /\ ops' = ops + 1 /\ partial' = partial
    BY <1>3 DEF ScanBegin, Count, histories
  <2>2. PDTypeOK'
    BY <1>0, <1>1, <2>1 DEF PDInv, PDTypeOK
  <2>3. IndexInv'
    BY <2>1 DEF IndexInv
  <2>4. LatestInv'
    BY <1>1, <2>1 DEF LatestInv, Unlocked
  <2> QED BY <1>2, <2>2, <2>3, <2>4 DEF PDInv
<1>4. ASSUME ScanEntry(t)
      PROVE  DirectoryInv'
  <2>1. PICK n \in scan.todo :
          /\ scan' = [scan EXCEPT !.todo = scan.todo \ {n}]
          /\ index' = IF disk[n] # Absent THEN [index EXCEPT ![Canon[n]] = n] ELSE index
    BY <1>4 DEF ScanEntry, IsFile
  <2>2. scan.by = t /\ UNCHANGED <<partial, ops>>
    BY <1>4 DEF ScanEntry, histories
  <2>3. n \in Names /\ Canon[n] \in Paths /\ n # Absent
    BY <1>0
  <2>4. scan'.by = scan.by /\ scan'.todo = scan.todo \ {n} /\ scan' \in [by : Threads \cup {Absent}, todo : SUBSET Names]
    BY <1>0, <2>1
  <2>5. \A p \in Paths : index'[p] = IF disk[n] # Absent /\ p = Canon[n] THEN n ELSE index[p]
    BY <1>0, <2>1, <2>3
  <2>6. PDTypeOK'
    BY <1>0, <1>1, <2>1, <2>2, <2>3, <2>4 DEF PDInv, PDTypeOK
  <2>7. IndexInv'
    BY <2>5 DEF IndexInv
  <2>8. LatestInv'
    <3> SUFFICES ASSUME NEW p \in Paths, latest[p] # Absent
                 PROVE  /\ latest[p] = Native[p] /\ disk[Native[p]] # Absent
                        /\ Native[p] \in scan'.todo \/ index'[p] # Absent
      BY <1>1, <2>2, <2>4 DEF LatestInv, Unlocked
    <3>1. /\ latest[p] = Native[p] /\ disk[Native[p]] # Absent
          /\ Native[p] \in scan.todo \/ index[p] # Absent
      BY <2>2 DEF LatestInv, Unlocked
    <3>2. CASE n = Native[p]
      BY <2>3, <2>5, <3>1, <3>2
    <3>3. CASE n # Native[p]
      BY <2>3, <2>4, <2>5, <3>1, <3>3
    <3> QED BY <3>2, <3>3
  <2> QED BY <1>2, <2>6, <2>7, <2>8 DEF PDInv
<1>5. ASSUME ScanEnd(t)
      PROVE  DirectoryInv'
  <2>1. /\ scan.by = t /\ scan' = [by |-> Absent, todo |-> {}] /\ partial' = (scan.todo # {})
        /\ UNCHANGED <<index, ops>>
    BY <1>5 DEF ScanEnd, NoScan
  <2>2. scan' \in [by : Threads \cup {Absent}, todo : SUBSET Names] /\ partial' \in BOOLEAN
    BY <2>1
  <2>3. PDTypeOK'
    BY <1>1, <2>1, <2>2 DEF PDInv, PDTypeOK
  <2>4. LatestInv'
    BY <1>1, <2>1 DEF LatestInv, Unlocked
  <2>5. IndexInv'
    BY <2>1 DEF IndexInv
  <2> QED BY <1>2, <2>3, <2>4, <2>5 DEF PDInv
<1> QED BY <1>3, <1>4, <1>5

\* Other tools change files no call has open.
LEMMA ForeignKeeps ==
    ASSUME DirectoryInv, NEW n \in Names, NEW f \in Contents \cup {Absent}, Foreign(n, f)
    PROVE  DirectoryInv'
<1> USE DEF DirectoryInv
<1>1. /\ \A t \in Threads : io[t].name # n
      /\ disk' = [disk EXCEPT ![n] = f] /\ whole' = [whole EXCEPT ![n] = f]
      /\ latest' = [latest EXCEPT ![Canon[n]] = Absent]
      /\ UNCHANGED <<index, scan, io, partial>> /\ ops < MaxOps /\ ops' = ops + 1
  BY DEF Foreign, InUse, Count
<1>2. /\ disk \in [Names -> File] /\ whole \in [Names -> File] /\ io \in [Threads -> Io]
      /\ latest \in [Paths -> Names \cup {Absent}] /\ f \in File
  BY ContentIsFile DEF PDInv, PDTypeOK, Io
<1>3. PDInv'
  <2>1. PDTypeOK'
    BY <1>1, <1>2 DEF PDInv, PDTypeOK
  <2>2. WholeIsOnDisk'
    BY <1>1, <1>2 DEF PDInv, WholeIsOnDisk
  <2> QED BY <2>1, <2>2 DEF PDInv
<1>4. \A m \in Names : m # n => disk'[m] = disk[m] /\ whole'[m] = whole[m]
  BY <1>1, <1>2
<1>5. WritesInv'
  <2> SUFFICES ASSUME NEW u \in Threads, io'[u].op = "write" PROVE WriteHolds(u)'
    BY DEF WritesInv, WriteHolds
  <2>1. io[u].name \in Names /\ io[u].name # n
    BY <1>1 DEF WritesInv, WriteHolds
  <2> QED BY <1>1, <1>4, <2>1 DEF WritesInv, WriteHolds
<1>6. ReadsInv'
  BY <1>1, <1>4 DEF ReadsInv, ReadHolds
<1>7. IndexInv'
  BY <1>1 DEF IndexInv
<1>8. LatestInv'
  <2> SUFFICES ASSUME NEW p \in Paths, latest'[p] # Absent
               PROVE  /\ latest'[p] = Native[p] /\ disk'[Native[p]] # Absent
                      /\ Unlocked /\ ~partial => index[p] # Absent
                      /\ ~Unlocked => Native[p] \in scan.todo \/ index[p] # Absent
    BY <1>1 DEF LatestInv, Unlocked
  <2>1. p # Canon[n] /\ latest'[p] = latest[p]
    BY <1>1, <1>2
  <2>2. Native[p] \in Names /\ Native[p] # n
    BY <2>1
  <2> QED BY <1>4, <2>1, <2>2 DEF LatestInv
<1> QED BY <1>3, <1>5, <1>6, <1>7, <1>8

LEMMA DirectoryInvStep == DirectoryInv /\ [PDNext]_pdVars => DirectoryInv'
<1> SUFFICES ASSUME DirectoryInv, [PDNext]_pdVars PROVE DirectoryInv'
  OBVIOUS
<1>1. ASSUME NEW t \in Threads, Overlay(t)
      PROVE  DirectoryInv'
  <2>1. CASE \E p \in Paths : WriteRefused(t, p) \/ ReadResolve(t, p) \/ \E c \in Contents : WriteOpen(t, p, c)
    BY <2>1, FailKeeps, ReadKeeps, WriteOpenKeeps
  <2>2. CASE WriteBlock(t) \/ WriteFail(t) \/ WriteIndex(t)
    BY <2>2, FailKeeps, WriteBlockKeeps, WriteIndexKeeps
  <2>3. CASE ReadOpen(t) \/ ReadBlock(t) \/ ReadDone(t)
    BY <2>3, ReadKeeps
  <2>4. CASE ScanBegin(t) \/ ScanEntry(t) \/ ScanEnd(t)
    BY <2>4, ScanKeeps
  <2> QED BY <1>1, <2>1, <2>2, <2>3, <2>4 DEF Overlay
<1>2. CASE UNCHANGED pdVars
  BY <1>2 DEF pdVars, histories, DirectoryInv, PDInv, PDTypeOK, WholeIsOnDisk, WritesInv, WriteHolds,
              ReadsInv, ReadHolds, IndexInv, LatestInv, Unlocked
<1> QED BY <1>1, <1>2, ForeignKeeps DEF PDNext

(***************************************************************************)
(* The theorems.                                                           *)
(***************************************************************************)

\* A write() that succeeded and was not disturbed by another of the same file
\* left exactly its content on disk, however the blocks of other writes, the
\* walks and other tools interleave with it (ProjectDirectory::write).
THEOREM WrittenIsOnDisk == PDSpec => []PDInv
<1>1. DirectoryInv => PDInv
  BY DEF DirectoryInv
<1> QED BY <1>1, DirectoryInvInit, DirectoryInvStep, PTL DEF PDSpec

LEMMA CleanReadStep ==
    DirectoryInv => \A t \in Threads : ReadDone(t) /\ io[t].clean => io[t].data = whole[io[t].name]
<1> SUFFICES ASSUME DirectoryInv, NEW t \in Threads, ReadDone(t), io[t].clean
             PROVE  io[t].data = whole[io[t].name]
  OBVIOUS
<1>1. io[t].op = "read" /\ Len(io[t].data) = io[t].size
  BY DEF ReadDone
<1>2. /\ io[t].name \in Names /\ whole[io[t].name] # Absent
      /\ io[t].size = Len(whole[io[t].name])
      /\ \A j \in 1..Len(io[t].data) : io[t].data[j] = whole[io[t].name][j]
  BY <1>1 DEF DirectoryInv, ReadsInv, ReadHolds
<1>3. io[t].data \in Seq(Block) /\ whole[io[t].name] \in Seq(Block)
  BY <1>2 DEF DirectoryInv, PDInv, PDTypeOK, File
<1> DEFINE a == io[t].data
           b == whole[io[t].name]
<1>4. a \in Seq(Block) /\ b \in Seq(Block) /\ Len(a) = Len(b) /\ \A j \in 1..Len(a) : a[j] = b[j]
  BY <1>1, <1>2, <1>3
<1> HIDE DEF a, b
<1>5. a = b
  BY <1>4, SameSequence
<1> QED BY <1>5 DEF a, b

\* A read no write of its file overlapped returns a whole written content,
\* though it takes the size first, the blocks one by one, and no lock
\* (ProjectDirectory::read).
THEOREM CleanReadsAreExact == PDSpec => CleanReadExact
<1>1. DirectoryInv => [\A t \in Threads : ReadDone(t) /\ io[t].clean => io[t].data = whole[io[t].name]]_pdVars
  BY CleanReadStep
<1> QED BY <1>1, DirectoryInvInit, DirectoryInvStep, PTL DEF PDSpec, CleanReadExact

\* No lookup of a path that was written is answered FileNotFound while rescans
\* clear and rebuild the index (ProjectDirectory::rescan, resolve).
THEOREM NothingWrittenIsMissed == PDSpec => NeverMissed
<1>1. DirectoryInv =>
        [\A t \in Threads, p \in Paths :
           ReadResolve(t, p) /\ latest[p] # Absent /\ ~partial => index[p] # Absent]_pdVars
  BY DEF DirectoryInv, LatestInv, ReadResolve, CanLookUp
<1> QED BY <1>1, DirectoryInvInit, DirectoryInvStep, PTL DEF PDSpec, NeverMissed
=============================================================================
