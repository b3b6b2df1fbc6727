--------------------------- MODULE CascStorage ---------------------------
(***************************************************************************)
(* The storage of a CASC client (fs/casc/casc_storage.cpp).  A client that *)
(* says what it is, in a .build.info, opens at once.  For one that does    *)
(* not, a repack, open() tries the build configurations it finds: each is  *)
(* named in a .build.info of a directory of its own below the temporary    *)
(* directory, whose link leads back to the client.  That directory is the  *)
(* same for every open of the client, in every process, and it stays when  *)
(* an open ends or is killed.                                              *)
(*                                                                         *)
(* CascLib is external: a directory opens when its .build.info names the   *)
(* product asked for and a build configuration the local data matches.     *)
(* The calls on an open storage hold its mutex from end to end.            *)
(***************************************************************************)
EXTENDS Integers, Sequences, FiniteSets, SequencesExt

CONSTANTS Openers,     \* threads and processes that open the client
          Clients,       \* the clients: the products a .build.info of theirs lists, the
                       \* build configurations below Data/config with their builds,
                       \* and which of those the data matches
          Products,
          Builds,      \* the builds an open may ask for
          NoBuild,     \* no build is asked for
          Ids,         \* FileDataIDs
          Tact,        \* the keys of encrypted files
          Held,        \* what a storage has of an id: "here", "remote", or the key it needs
          MaxOpens     \* a bound: opens begun

ASSUME CascAssumption ==
    /\ NoBuild \notin Builds /\ MaxOpens \in Nat
    /\ \A d \in Clients : /\ IsFiniteSet(DOMAIN d.builds) /\ d.matches \subseteq DOMAIN d.builds
                          /\ \A k \in DOMAIN d.builds : d.builds[k] \in Int

VARIABLES disk,    \* the client; nothing changes it
          shim,    \* per build configuration, its directory: the link and the .build.info
          casc,    \* per opener, the call to open and the storage it returned
          opens    \* the opens begun

cascVars == <<disk, shim, casc, opens>>

Own    == "own"                         \* opened by the client's own .build.info
NoShim == [link |-> FALSE, info |-> "absent"]
NotOpen == [pc |-> "idle", product |-> "none", build |-> NoBuild, todo |-> <<>>, key |-> "none",
            err |-> "none", clean |-> FALSE, tact |-> {}]

CascInit ==
    /\ disk \in Clients
    /\ shim = [k \in DOMAIN disk.builds |-> NoShim]
    /\ casc = [o \in Openers |-> NotOpen]
    /\ opens = 0

Midway(o) == casc[o].pc \notin {"idle", "open"}
At(o, pc) == casc[o].pc = pc
Failed(c, err) == [NotOpen EXCEPT !.product = c.product, !.build = c.build, !.err = err, !.clean = c.clean]

\* clean: no other open runs meanwhile, and no call of the system fails.
CascBegin(o, product, build) ==
    /\ At(o, "idle") /\ opens < MaxOpens
    /\ opens' = opens + 1
    /\ casc' = [q \in Openers |->
           IF q = o THEN [NotOpen EXCEPT !.pc = "plain", !.product = product, !.build = build,
                                         !.clean = \A r \in Openers : ~Midway(r)]
           ELSE IF Midway(q) THEN [casc[q] EXCEPT !.clean = FALSE] ELSE casc[q]]
    /\ UNCHANGED <<disk, shim>>

\* The client itself, then its Data directory.
TryPlain(o) ==
    /\ At(o, "plain")
    /\ casc' = [casc EXCEPT ![o] = IF @.product \in disk.plain THEN [@ EXCEPT !.pc = "open", !.key = Own]
                                   ELSE [@ EXCEPT !.pc = "scan"]]
    /\ UNCHANGED <<disk, shim, opens>>

\* The build that is asked for first, then the newest.
Ranks(k, other, build) ==
    \/ disk.builds[k] = build /\ disk.builds[other] # build
    \/ (disk.builds[k] = build <=> disk.builds[other] = build) /\ disk.builds[k] > disk.builds[other]

\* An error of the iterator ends the walk over the configurations quietly.
Scan(o) ==
    /\ At(o, "scan")
    /\ \E found \in SUBSET DOMAIN disk.builds :
       \E todo \in SetToSeqs(found) :
          /\ \A i, j \in DOMAIN todo : i < j => ~Ranks(todo[j], todo[i], casc[o].build)
          /\ LET c == [casc[o] EXCEPT !.clean = @ /\ found = DOMAIN disk.builds] IN
             casc' = [casc EXCEPT ![o] = IF todo = <<>> THEN Failed(c, "StorageOpenFailed")
                                         ELSE [c EXCEPT !.pc = "unlink", !.todo = todo]]
    /\ UNCHANGED <<disk, shim, opens>>

Goes(o, pc) == casc' = [casc EXCEPT ![o].pc = pc]

Mut_Unlinked(link) == link
Unlinked(link) == FALSE

\* The directory is made if it is not there; its old link is removed.
Unlink(o) ==
    /\ At(o, "unlink")
    /\ shim' = [shim EXCEPT ![Head(casc[o].todo)].link = Unlinked(@)]
    /\ Goes(o, "link")
    /\ UNCHANGED <<disk, opens>>

\* A link that has come to be there meanwhile is an error, and the open ends.
Link(o) ==
    /\ At(o, "link")
    /\ IF shim[Head(casc[o].todo)].link
       THEN casc' = [casc EXCEPT ![o] = Failed(@, "IoError")] /\ UNCHANGED shim
       ELSE shim' = [shim EXCEPT ![Head(casc[o].todo)].link = TRUE] /\ Goes(o, "truncate")
    /\ UNCHANGED <<disk, opens>>

Truncate(o) ==
    /\ At(o, "truncate")
    /\ shim' = [shim EXCEPT ![Head(casc[o].todo)].info = "empty"]
    /\ Goes(o, "fill")
    /\ UNCHANGED <<disk, opens>>

\* Over what another has written since, which may show through at the end.
Fill(o) ==
    /\ At(o, "fill")
    /\ \E info \in {casc[o].product} \cup (IF shim[Head(casc[o].todo)].info = "empty" THEN {} ELSE {"mixed"}) :
          shim' = [shim EXCEPT ![Head(casc[o].todo)].info = info]
    /\ Goes(o, "try")
    /\ UNCHANGED <<disk, opens>>

\* CascOpenStorageEx of a shim.  What it makes of a mixed file is not known.
Opens(c) ==
    LET k == Head(c.todo)
        may == shim[k].link /\ k \in disk.matches
    IN  {may /\ shim[k].info = c.product} \cup (IF may /\ shim[k].info = "mixed" THEN {TRUE} ELSE {})

Try(o) ==
    /\ At(o, "try")
    /\ LET c == casc[o] IN
       \E opened \in Opens(c) :
          casc' = [casc EXCEPT ![o] =
              IF opened THEN [c EXCEPT !.pc = "open", !.key = Head(c.todo), !.todo = <<>>]
              ELSE IF Len(c.todo) = 1 THEN Failed(c, "StorageOpenFailed")
              ELSE [c EXCEPT !.pc = "unlink", !.todo = Tail(c.todo)]]
    /\ UNCHANGED <<disk, shim, opens>>

\* The temporary directory does not take a directory, a link or a file.
DiskFails(o) ==
    /\ casc[o].pc \in {"unlink", "link", "truncate", "fill"}
    /\ casc' = [casc EXCEPT ![o] = Failed([@ EXCEPT !.clean = FALSE], "IoError")]
    /\ UNCHANGED <<disk, shim, opens>>

\* The process is killed; what it made stays.
Killed(o) ==
    /\ Midway(o)
    /\ casc' = [casc EXCEPT ![o] = NotOpen]
    /\ UNCHANGED <<disk, shim, opens>>

CascClose(o) ==
    /\ At(o, "open")
    /\ casc' = [casc EXCEPT ![o] = NotOpen]
    /\ UNCHANGED <<disk, shim, opens>>

---------------------------------------------------------------------------
(* The calls on an open storage.                                            *)

\* Keys are of the storage they were given to; text without a key is skipped.
ImportKeys(o) ==
    /\ At(o, "open")
    /\ \E keys \in SUBSET Tact : casc' = [casc EXCEPT ![o].tact = @ \cup keys]
    /\ UNCHANGED <<disk, shim, opens>>

Openable(i) == i \in DOMAIN Held
ReadId(c, i) ==
    CASE ~Openable(i) -> "FileNotFound"
      [] Openable(i) /\ Held[i] \in Tact \ c.tact -> "EncryptedContent"
      [] Openable(i) /\ Held[i] = "remote" -> "BackendError"
      [] OTHER -> "found"
EnumerateIds == {i \in DOMAIN Held : Held[i] # "remote"}

CascOpening(o) ==
    \/ TryPlain(o) \/ Scan(o) \/ Unlink(o) \/ Link(o) \/ Truncate(o) \/ Fill(o) \/ Try(o)
    \/ DiskFails(o) \/ Killed(o)

---------------------------------------------------------------------------
(* What open() promises.                                                    *)

\* Whatever another open of the client does meanwhile, in this process or in
\* another, a storage is the client's own of the product that was asked for, or
\* one of a build configuration the data matches; and an open that runs alone,
\* whatever opens before it were killed and where, gets the build it asked for
\* if the data matches that one and the newest if not, and fails only when
\* there is none (CascStorage::open and its shim directory).
OpensTheBest ==
    \A o \in Openers : LET c == casc[o] IN
        /\ c.pc = "open" => \/ c.key = Own /\ c.product \in disk.plain
                            \/ c.key \in disk.matches
        /\ c.pc = "open" /\ c.clean /\ c.key # Own =>
              LET asked == {k \in disk.matches : disk.builds[k] = c.build} IN
              /\ c.product \notin disk.plain
              /\ asked # {} => c.key \in asked
              /\ asked = {} => \A k \in disk.matches : disk.builds[k] <= disk.builds[c.key]
        /\ c.err # "none" /\ c.clean =>
              c.err = "StorageOpenFailed" /\ disk.matches = {} /\ c.product \notin disk.plain
=============================================================================
