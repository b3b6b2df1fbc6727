-------------------------- MODULE ProjectDirectory --------------------------
(***************************************************************************)
(* fs::ProjectDirectory, the overlay of loose files: an index from         *)
(* canonical paths to files on disk, guarded by a shared mutex, and the    *)
(* files themselves, which are read and written without it.  A file is a   *)
(* sequence of blocks; a stream moves them one at a time, at an offset of  *)
(* its own.  Other tools change files no call has open.                    *)
(***************************************************************************)
EXTENDS Naturals, Sequences

CONSTANTS
  Threads,
  Paths,      \* canonical, non-empty paths
  Names,      \* names of files on disk, spelled as the disk has them
  Canon,      \* Canon[n]: normalizePath of a name relative to the root
  Native,     \* Native[p]: toNativeRelative of p, the name write() uses
  Contents,   \* what is written: sequences of blocks
  Absent,     \* no such file, no index entry, no thread
  MaxOps      \* bound: writes, scans and foreign changes per behaviour

\* A block of zeros stands for a hole in a file.
Block == (UNION {{c[k] : k \in DOMAIN c} : c \in Contents}) \cup {0}
File  == Seq(Block) \cup {Absent}

ASSUME ProjectAssumption ==
  /\ Canon \in [Names -> Paths]
  /\ Native \in [Paths -> Names] /\ \A p \in Paths : Canon[Native[p]] = p
  /\ Absent \notin Names /\ Absent \notin Paths /\ Absent \notin Threads
  /\ Contents # {} /\ Contents \subseteq Seq(Block) /\ Absent \notin Seq(Block)
  /\ MaxOps \in Nat

VARIABLES
  disk,     \* [Names -> files]
  index,    \* _index
  scan,     \* the rescan in progress: its thread and the names still to visit
  io,       \* per thread: the read or write in progress, with its locals
  whole,    \* history: the content a name is known to hold, if it is known
  latest,   \* history: the file write() last made for a path, with success
  partial,  \* history: the last walk of the tree stopped at an error
  ops

histories == <<whole, latest, partial>>
pdVars    == <<disk, index, scan, io, histories, ops>>

Idle   == [op |-> "idle", path |-> Absent, name |-> Absent, data |-> <<>>,
           pos |-> 0, size |-> 0, clean |-> FALSE, res |-> "none"]
NoScan == [by |-> Absent, todo |-> {}]

Return(t, r) == [Idle EXCEPT !.res = r]

\* The index may be used unless a walk holds the lock; io holds no lock.
Unlocked == scan.by = Absent

Free(t) == io[t].op = "idle" /\ scan.by # t

Writing(n) == {t \in Threads : io[t].op = "write" /\ io[t].name = n}
InUse(n)   == \E t \in Threads : io[t].name = n

Count == ops < MaxOps /\ ops' = ops + 1

\* open() has walked the tree: of the names of one path the index has the one
\* the walk came to last.
PDInit ==
  /\ \E N \in SUBSET Names, c \in Contents :
       disk = [n \in Names |-> IF n \in N THEN c ELSE Absent]
  /\ index \in [Paths -> Names \cup {Absent}]
  /\ \A p \in Paths :
       LET spelled == {n \in Names : disk[n] # Absent /\ Canon[n] = p}
       IN  index[p] \in (IF spelled = {} THEN {Absent} ELSE spelled)
  /\ scan = NoScan
  /\ io = [t \in Threads |-> Idle]
  /\ whole = disk
  /\ latest = [p \in Paths |-> Absent]
  /\ partial = FALSE /\ ops = 0

(***************************************************************************)
(* write: truncate, write and flush without the lock, then index.          *)
(***************************************************************************)

\* Whoever reads or writes the file n meanwhile no longer has it to himself.
Disturb(n) ==
  [u \in Threads |-> IF io[u].name = n THEN [io[u] EXCEPT !.clean = FALSE] ELSE io[u]]

Mut_Truncated(f) == IF f = Absent THEN <<>> ELSE f
Truncated(f) == <<>>

OnDisk(p) == Native[p]

\* InvalidPath, or no directory or no file can be made.
WriteRefused(t, p) ==
  /\ Free(t)
  /\ io' = [io EXCEPT ![t] = Return(t, "IoError")]
  /\ UNCHANGED <<disk, index, scan, histories, ops>>

WriteOpen(t, p, c) ==
  /\ Free(t) /\ Count
  /\ LET n == OnDisk(p) IN
       /\ disk' = [disk EXCEPT ![n] = Truncated(@)]
       /\ io' = [Disturb(n) EXCEPT
                   ![t] = [Idle EXCEPT !.op = "write", !.path = p, !.name = n,
                                       !.data = c, !.clean = (Writing(n) = {})]]
       /\ whole' = [whole EXCEPT ![n] = Absent]
  /\ UNCHANGED <<index, scan, latest, partial>>

\* The block lands at the stream's offset, past the end if another thread has
\* truncated the file since.
WriteBlock(t) ==
  /\ io[t].op = "write" /\ io[t].pos < Len(io[t].data)
  /\ LET n == io[t].name
         k == io[t].pos + 1
     IN  /\ disk' = [disk EXCEPT ![n] =
              [j \in 1..(IF k > Len(@) THEN k ELSE Len(@)) |->
                 IF j = k THEN io[t].data[k] ELSE IF j <= Len(@) THEN @[j] ELSE 0]]
         /\ io' = [Disturb(n) EXCEPT ![t] = [io[t] EXCEPT !.pos = k]]
  /\ UNCHANGED <<index, scan, histories, ops>>

\* IoError: what was written stays, and so does an older index entry.
WriteFail(t) ==
  /\ io[t].op = "write"
  /\ io' = [io EXCEPT ![t] = Return(t, "IoError")]
  /\ UNCHANGED <<disk, index, scan, histories, ops>>

Mut_Flushed(t) == io[t].pos + 1 >= Len(io[t].data)
Flushed(t) == io[t].pos = Len(io[t].data)

WriteIndex(t) ==
  /\ io[t].op = "write" /\ Flushed(t) /\ Unlocked
  /\ index' = [index EXCEPT ![io[t].path] = io[t].name]
  /\ whole' = IF io[t].clean THEN [whole EXCEPT ![io[t].name] = io[t].data] ELSE whole
  /\ latest' = [latest EXCEPT ![io[t].path] = io[t].name]
  /\ io' = [io EXCEPT ![t] = Return(t, "ok")]
  /\ UNCHANGED <<disk, scan, partial, ops>>

(***************************************************************************)
(* resolve, exists and read: the index under the shared lock, the file     *)
(* without it.                                                             *)
(***************************************************************************)

Mut_CanLookUp == TRUE
CanLookUp == Unlocked

Exists(p) == index[p] # Absent

ReadResolve(t, p) ==
  /\ Free(t) /\ CanLookUp
  /\ io' = [io EXCEPT ![t] =
       IF Exists(p)
         THEN [Idle EXCEPT !.op = "open", !.path = p, !.name = index[p]]
         ELSE Return(t, "FileNotFound")]
  /\ UNCHANGED <<disk, index, scan, histories, ops>>

ReadOpen(t) ==
  /\ io[t].op = "open"
  /\ LET n == io[t].name IN
       io' = [io EXCEPT ![t] =
         IF disk[n] = Absent
           THEN Return(t, "IoError")
           ELSE [@ EXCEPT !.op = "read", !.size = Len(disk[n]),
                          !.clean = (whole[n] # Absent)]]
  /\ UNCHANGED <<disk, index, scan, histories, ops>>

\* A file that has become shorter than its size was is an IoError.
ReadBlock(t) ==
  /\ io[t].op = "read" /\ Len(io[t].data) < io[t].size
  /\ LET f == disk[io[t].name]
         k == Len(io[t].data) + 1
     IN  io' = [io EXCEPT ![t] =
           IF k <= Len(f) THEN [@ EXCEPT !.data = Append(io[t].data, f[k])]
                          ELSE Return(t, "IoError")]
  /\ UNCHANGED <<disk, index, scan, histories, ops>>

ReadDone(t) ==
  /\ io[t].op = "read" /\ Len(io[t].data) = io[t].size
  /\ io' = [io EXCEPT ![t] = Return(t, "ok")]
  /\ UNCHANGED <<disk, index, scan, histories, ops>>

(***************************************************************************)
(* rescan: clear the index and walk the tree under the exclusive lock, in  *)
(* the order the directory iterator happens to have.  A name is indexed if *)
(* the file is there when its turn comes.  An error in the iterator ends   *)
(* the walk; rescan reports nothing.                                       *)
(***************************************************************************)
ScanBegin(t) ==
  /\ Free(t) /\ Unlocked /\ Count
  /\ index' = [p \in Paths |-> Absent]
  /\ scan' = [by |-> t, todo |-> Names]
  /\ UNCHANGED <<disk, io, histories>>

IsFile(n) == disk[n] # Absent

ScanEntry(t) ==
  /\ scan.by = t
  /\ \E n \in scan.todo :
       /\ scan' = [scan EXCEPT !.todo = @ \ {n}]
       /\ index' = IF IsFile(n) THEN [index EXCEPT ![Canon[n]] = n] ELSE index
  /\ UNCHANGED <<disk, io, histories, ops>>

ScanEnd(t) ==
  /\ scan.by = t
  /\ scan' = NoScan
  /\ partial' = (scan.todo # {})
  /\ UNCHANGED <<disk, index, io, whole, latest, ops>>

\* Another tool creates, replaces or removes a file.
Foreign(n, f) ==
  /\ ~InUse(n) /\ Count
  /\ disk' = [disk EXCEPT ![n] = f]
  /\ whole' = [whole EXCEPT ![n] = f]
  /\ latest' = [latest EXCEPT ![Canon[n]] = Absent]
  /\ UNCHANGED <<index, scan, io, partial>>

Overlay(t) ==
  \/ \E p \in Paths :
       \/ WriteRefused(t, p) \/ ReadResolve(t, p)
       \/ \E c \in Contents : WriteOpen(t, p, c)
  \/ WriteBlock(t) \/ WriteFail(t) \/ WriteIndex(t)
  \/ ReadOpen(t) \/ ReadBlock(t) \/ ReadDone(t)
  \/ ScanBegin(t) \/ ScanEntry(t) \/ ScanEnd(t)

PDNext ==
  \/ \E t \in Threads : Overlay(t)
  \/ \E n \in Names, f \in Contents \cup {Absent} : Foreign(n, f)

PDSpec == PDInit /\ [][PDNext]_pdVars

(***************************************************************************)
(* Properties.                                                             *)
(***************************************************************************)

\* The types of the variables.
PDTypeOK ==
  /\ disk \in [Names -> File] /\ whole \in [Names -> File]
  /\ index \in [Paths -> Names \cup {Absent}]
  /\ latest \in [Paths -> Names \cup {Absent}]
  /\ scan \in [by : Threads \cup {Absent}, todo : SUBSET Names]
  /\ io \in [Threads ->
       [op : {"idle", "write", "open", "read"}, path : Paths \cup {Absent},
        name : Names \cup {Absent}, data : Seq(Block), pos : Nat, size : Nat,
        clean : BOOLEAN, res : {"none", "ok", "IoError", "FileNotFound"}]]
  /\ partial \in BOOLEAN /\ ops \in 0..MaxOps

\* A write() that returned success and that no other writer of the same file
\* disturbed left exactly its content on disk, whatever was there before.
WholeIsOnDisk == \A n \in Names : whole[n] # Absent => disk[n] = whole[n]

\* read() takes the size before the bytes and holds no lock: a read no writer
\* of that file overlapped still returns a whole written content, never a mix
\* or a prefix, even when the index entry was renewed meanwhile.
CleanReadExact ==
  [][\A t \in Threads :
       ReadDone(t) /\ io[t].clean => io[t].data = whole[io[t].name]]_pdVars

\* A path that write() has made a file for is never answered FileNotFound, however many
\* rescans clear and rebuild the index meanwhile, unless the last walk of the
\* tree stopped at an error.
NeverMissed ==
  [][\A t \in Threads, p \in Paths :
       ReadResolve(t, p) /\ latest[p] # Absent /\ ~partial => index[p] # Absent]_pdVars

\* The types of the variables, and what every write that succeeded left on disk.
PDInv == PDTypeOK /\ WholeIsOnDisk
=============================================================================
