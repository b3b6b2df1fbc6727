---------------------------- MODULE FileSystem ----------------------------
(***************************************************************************)
(* The gateway to a client (fs/filesystem.cpp, fs/client_install.cpp): what *)
(* an installation says of itself, the storage that is opened for it, and  *)
(* what goes through the gateway to whichever storage it has.  The calls   *)
(* that add and find files are in ClientFileSystem.                        *)
(***************************************************************************)
EXTENDS MpqStorage, CascStorage

CONSTANTS Settings,    \* for an open: a product, which may be to "detect", and a build
          Listfiles    \* lines, pairs of an id and a path

ASSUME FileSystemAssumption ==
    /\ Clients # {}
    /\ \A l \in Listfiles : l \in Seq(ToSet(l))

VARIABLES kind,     \* the storage technology of the client's version
          gate,     \* of an MPQ client: "shut", "open" or the error open() returned
          lines     \* the listfile the settings name; nothing writes it meanwhile

fsVars == <<kind, gate, lines, mvars, cascVars>>

---------------------------------------------------------------------------
(* What the installation says (ClientInstall::detect).                      *)

\* Rows of a table that lack a column are left out; what is not "0" is active.
ActiveRows(table) == SelectSeq(table, LAMBDA row : row.complete /\ row.active)

\* The table is beside Data, or one directory up; flavours share the latter.
TableOf(d) == IF d.beside # <<>> THEN d.beside[1] ELSE d.above[1]
NoTable(d) == d.beside = <<>> /\ d.above = <<>>

RowsOfFlavor(d, rows) ==
    IF d.flavor = "none" THEN rows
    ELSE LET own == SelectSeq(rows, LAMBDA row : row.product = d.flavor) IN SubSeq(own, 1, Min({1, Len(own)}))

NotDetected == [product |-> "none", build |-> NoBuild]
Detect(d) ==
    LET rows == IF NoTable(d) THEN <<>> ELSE RowsOfFlavor(d, ActiveRows(TableOf(d)))
    IN  IF Len(rows) = 1 /\ rows[1].build \in Builds THEN [product |-> rows[1].product, build |-> rows[1].build]
        ELSE NotDetected

---------------------------------------------------------------------------
(* Opening (FileSystem::open).                                              *)

\* Of the client that is not there nothing is said.
AnyInstall == CHOOSE i \in Installs : TRUE
AnyClient  == CHOOSE d \in Clients : TRUE

FsInit ==
    /\ gate = "shut"
    /\ \/ kind = "Mpq" /\ MqInit /\ disk = AnyClient /\ lines = <<>>
       \/ kind = "Casc" /\ disk \in Clients /\ lines \in Listfiles /\ install = AnyInstall /\ MqInit
    /\ CascInit

\* The project directory is walked first.
ProjectRefused(o) ==
    /\ IF kind = "Mpq" THEN gate = "shut" /\ gate' = "IoError" /\ UNCHANGED casc
       ELSE At(o, "idle") /\ casc' = [casc EXCEPT ![o] = [NotOpen EXCEPT !.err = "IoError"]] /\ UNCHANGED gate
    /\ UNCHANGED <<kind, lines, mvars, disk, shim, opens>>

\* The directory of the archives in its own spelling, or in any other.  Without
\* one the storage has nothing to open.
OpenMpq ==
    /\ kind = "Mpq" /\ gate \in {"shut", "IoError"}
    /\ gate' \in {"open", "StorageOpenFailed"}
    /\ UNCHANGED <<kind, lines, mvars, cascVars>>

\* The listfile is loaded before the storage is opened; a path's last line and
\* an id's last line count.
OpenCasc(o) ==
    /\ kind = "Casc"
    /\ \E s \in Settings :
       \E asked \in {IF s.product = "detect" THEN Detect(disk) ELSE s} :
          /\ asked # NotDetected
          /\ CascBegin(o, asked.product, asked.build)
    /\ UNCHANGED <<kind, gate, lines, mvars>>

\* Nothing is detected, or the listfile cannot be read.
OpenRefused(o) ==
    /\ kind = "Casc" /\ At(o, "idle")
    /\ casc' = [casc EXCEPT ![o] = [NotOpen EXCEPT !.err = IF Detect(disk) = NotDetected THEN "NotSupported" ELSE "ListfileIoError"]]
    /\ UNCHANGED <<kind, gate, lines, mvars, disk, shim, opens>>

\* close(), which leaves nothing to ask.
FsClose(o) == kind = "Casc" /\ CascClose(o) /\ UNCHANGED <<kind, gate, lines, mvars>>

FsImportKeys(o) == kind = "Casc" /\ ImportKeys(o) /\ UNCHANGED <<kind, gate, lines, mvars>>

StepMpq == kind = "Mpq" /\ gate = "open" /\ MqNext /\ UNCHANGED <<kind, gate, lines, cascVars>>
StepCasc(o) == kind = "Casc" /\ CascOpening(o) /\ UNCHANGED <<kind, gate, lines, mvars>>

FsNext ==
    \/ OpenMpq \/ StepMpq
    \/ \E o \in Openers : ProjectRefused(o) \/ OpenCasc(o) \/ OpenRefused(o) \/ FsClose(o) \/ FsImportKeys(o) \/ StepCasc(o)

FsSpec == FsInit /\ [][FsNext]_fsVars

---------------------------------------------------------------------------
(* Calls through the gateway.                                               *)

LastOf(l, P(_)) == LET at == {i \in DOMAIN l : P(l[i])} IN IF at = {} THEN <<>> ELSE <<l[Max(at)]>>
PathOf(l, i) == LastOf(l, LAMBDA line : line[1] = i)
IdOf(l, p)   == LastOf(l, LAMBDA line : line[2] = p)

\* Every id of the storage the listfile can name.
EnumeratePaths(l) == {PathOf(l, i)[1][2] : i \in {i \in EnumerateIds : PathOf(l, i) # <<>>}}

ReadFile(c, l, p) == IF IdOf(l, p) = <<>> THEN "PathNotResolvable" ELSE ReadId(c, IdOf(l, p)[1][1])

\* A listfile with two ids for a path has one that is never read.
OneToOne(l) == \A i, j \in DOMAIN l : l[i][2] = l[j][2] => l[i][1] = l[j][1]

\* What the gateway lists it can read: a path that is listed is found, or waits
\* for its key (FileSystem::enumeratePaths, resolve, readFile).
ListedIsReadable ==
    \A o \in Openers : At(o, "open") /\ OneToOne(lines) =>
        \A p \in EnumeratePaths(lines) : ReadFile(casc[o], lines, p) \in {"found", "EncryptedContent"}

\* Every open gets the storage it asked for, and what is listed can be read.
GatewayOpensItsClient == (kind = "Casc" => OpensTheBest) /\ ListedIsReadable
=============================================================================
