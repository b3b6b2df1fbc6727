# wowlib in TLA+

This directory holds TLA+ models of wowlib, the TLC configurations that check
them on small instances, and proofs for TLAPS of the theorems that matter most.
wowlib is a C++ library that reads and writes the files of World of Warcraft
clients; paths below are relative to `src/wowlib/` unless they say otherwise.

Every definition is translated from the code; `PROJECT.json` names, for each
one, the lines it stands for (`map`), lists the runs, the plausible bugs each
property is tried against (`mutants`; their definitions are the operators named
`Mut_...` in the modules, which nothing else uses), the places where the code
and its documentation disagree (`findings`), and what is hard to test
(`hazards`).

## The system

| part | state | operations | talks to |
|---|---|---|---|
| `fs/filesystem` (gateway) | which composition is open | open, close, and the calls of the composition | `ClientFileSystem`, `ClientInstall` |
| `fs/client_filesystem` | none of its own | readFile, exists, resolve, addFile | overlay, listfile, storage, each by one call at a time |
| `fs/csv_listfile` | two maps, the cursor of custom ids, the working file | load, registerPath, save, look-ups | the file; `FdidAllocator` |
| `fs/fdid_allocator` | the cursor | next, noteExisting | - |
| `fs/project_directory` | an index from canonical paths to files, the files | open, write, read, resolve, rescan | the disk, which other tools change too |
| `fs/mpq` | the chain of open archives and loose directories, one lock per archive | open (expand the chain, attach updates), readFile, exists, enumeratePaths | StormLib |
| `fs/casc` | one storage handle under one lock | open (a ladder of candidates), readFile, exists, keys | CascLib, a shim directory |
| `fs/client_install` | none | detect | `.build.info`, the executable |
| `db` | a table: rows, and what is kept of the file they came from | open, read, write, validate, row operations | codecs WDBC, WDB2, WDC1-5; schemas |
| `db` schemas | a catalog: the tables of the definitions, each with its layouts, and the eras of the builds | from a blob or a directory of definitions, look-up by name and version | tables |
| `formats/common` | entities made of chunks, and a journal of how they were read | read, write, validate | every chunked format |
| `formats/wmo`, `wdt`, `wdl`, `adt`, `m2` | assets of one or many files | read, write, validate, edits | the gateway, the chunk framework, the offset serializer |
| `formats/blp` | a texture: header, palette, levels, where they were | read, write, encode, decode, setMip, validate | a vendored block compressor |
| `audit`, bindings, tools | none | drivers and glue | everything |

What is hard, and where:

- *Concurrency.* The listfile and the overlay document concurrent use. Their
  critical sections contain file operations, `save()` rewrites the file under a
  **shared** lock, the overlay moves bytes under **no** lock, and
  `ClientFileSystem` composes several critical sections into one call. All opens
  of one CASC repack, in all processes, go through one directory on disk.
- *Failure part way.* An append or a rewrite that fails leaves a prefix on disk;
  a registration may fail after the file was written; an asset of twenty files
  is stored one call at a time; a table is decoded section by section.
- *Restart.* The working listfile is the only persistent state of the library:
  what callers were told has to be in it.
- *Order.* Later lines override earlier ones, in two maps that are updated
  separately; the archive chain is a precedence; directory iterators have no
  order; chunks keep the order of the file, and which tile a chunk belongs to is
  told by that order alone.
- *Stale derived data.* Offsets, counts, sizes and flags are stored beside the
  data they are derived from, and the data is what callers edit. A journal of
  the file (chunk order, string offsets, where texture levels lay) is replayed
  on write and describes what was read, not what is held.
- *Boundaries.* Custom ids live in a range of a 32-bit space; packed columns
  take the least width; chains of alias sequences are walked with a bound.

What makes each part correct:

- listfile: an id is handed out once, a path keeps its id, both for good and
  across crashes; loading a rewritten file gives the same answers;
- overlay: an undisturbed write or read is exact, a written file is found;
- client filesystem: what `addFile` returned can be read back under every kind of
  key, ids do not dangle, the overlay comes first and the storage after it;
- storages: the client's own precedence, whatever the disk's order; an open
  storage is one of the client that was asked for; handles are released;
- tables and formats: an unchanged file is written byte for byte, a changed one
  reads back as what was written, what nobody touched survives in its place,
  and every derived offset, count and flag is right;
- assets: reading shows what is there and nothing of what was there before,
  storing leaves no reference to what was not stored.

## Modules

```
FdidAllocator <- CsvListfile ---- refines ---> FdidRegistry
     ^               ^-- CsvListfileProofs
     '- ClientFileSystem <- ClientFileSystemProofs
ProjectDirectory <- ProjectDirectoryProofs
MpqStorage <- MpqStorageProofs <-.
     ^                           |
CascStorage <- FileSystem <- FileSystemProofs

ClientEras <- ChunkedFile <- ChunkEntities <- ChunkEntitiesProofs
AssetCalls <- AssetCallsProofs
TableRows <- FixedTables <- WdcImages <- Tables <- TablesProofs
     ^--------- SchemaCatalog <------------'
OffsetBlocks, ClientEras <- ModelLayouts <- ModelFiles
ClientEras <- TerrainChunks <- TerrainTiles
TexturePixels <- Textures
```

An arrow goes from a module to the one that extends it. `MC...` modules give the
constants of each specification its small values. The modules on the left of a
row are operators over data, the last one is the state machine.

### `FdidAllocator`, `CsvListfile`: the listfile and its working file

`file` is the working file, a sequence of lines: an id, a canonical path (or
`Blank`, or `Junk` for what `parseLine` refuses), and whether the line ends in a
newline. `pathToId`, `idToPath` and `next` are the three members of the class.
`th[t]` is where thread `t` is inside `registerPath` or `save`; threads in
`WriterPCs` hold the lock exclusively, threads in `save` hold it shared.
`acked`, `hurt` and `crashes` are history.

| action | code |
|---|---|
| `Open`, `LoadLine`, `LoadFail`, `LoadDone` | `load`, one iteration of its loop per step |
| `RegisterRefused`, `RegisterBegin` | `registerPath` up to the new id |
| `ReadTail`, `Persist`, `PersistFail` | the look at the last byte, the append, an append that fails after any prefix |
| `Publish` | the two insertions and the return |
| `SaveBegin`, `SaveEntry`, `SaveEnd`, `SaveFail` | the rewrite: truncate, one entry at a time at the thread's own offset, flush, or an error anywhere |
| `Crash` | the process dies: memory is gone, the file stays |

Text is abstracted to what the properties tell apart. `Norm` is `normalizePath`
as a table; `Cut[p]` says which other paths a truncation of `p`'s text parses
to, which is all a torn line can do. A cut inside the id's digits, or right
after the separator, is `Junk` or an id below the custom range; the former is
modelled, the latter differs from a cut path only in the number.

`FdidRegistry` is what the listfile promises: bindings are made once and kept,
and can be lost only while `exposed` (an in-memory database, or a rewrite in
progress or failed). `CsvListfile` implements it with `bound <- acked`.

### `ProjectDirectory`: the overlay

`disk` maps names, spelled as the disk has them, to sequences of blocks; `index`
is `_index`; `scan` is a walk of the tree under the exclusive lock, one entry per
step in any order; `io[t]` is a read or write with its local variables. Reads
and writes touch `disk` without the lock, block by block, so they interleave
with everything. `Foreign` is another tool; it does not touch a file that a call
has open. `Canon` and `Native` are `normalizePath` and `toNativeRelative`.

### `ClientFileSystem`: the composition

Every call on a component is a step and nothing is locked between two. The
overlay's index and the listfile's maps each change in one step, which is what
the two modules above show of them; the storage is a constant. `kind` selects
the MPQ composition (`NullListfile`: no ids) or the CASC one. `returned` is what
`addFile` told its callers; `expects`, in a call, is the added file that call has
to get. `Rescan` may lose files (a walk that stops early) and `Foreign` creates
or removes files; a file lost that way is in `lost` until it is written again.

### `MpqStorage`: the archives of an MPQ client

Its first part holds `expandChain` and its helpers as operators. A directory entry is
its directory, what its name is (a name of the base table, a patch, an update),
a key, and whether it is a file or a directory of loose files. The key of a patch
is its name split at the dashes, each part replaced by its rank; the order of the
directory iterator is a parameter. `IsClientOrder` says what the result has to be
without a sort: exactly the members, and none before one it takes precedence over.

Its second part opens the chain member by member: an archive, a directory of loose
files (indexed then and not again), or an update, which is attached to each
archive beside it. Any archive may refuse to open, which closes them all. `call`
is the walk in progress, of `readFile`, `exists` or `enumeratePaths`, one member
per step; `said` remembers the last answers. StormLib is external: an archive
holds of a file nothing, a complete file, a delta, or something that does not
open, and the deltas apply to the newest complete file below them. `handles` is
what StormLib has open.

### `CascStorage`, `FileSystem`: CASC clients and the gateway

`CascStorage` is `open`'s ladder for several openers, threads or processes:
`TryPlain` opens a client with a `.build.info`; otherwise `Scan` ranks the build
configurations below `Data/config`, and for each of them the opener walks
`Unlink`, `Link`, `Truncate`, `Fill`, `Try`: it replaces the link in the
configuration's own shim directory, writes a `.build.info` beside it and opens.
`shim` is those directories, shared by all openers, and each of their file
operations is a step; `DiskFails` and `Killed` may come at any of them.
CascLib is external: a directory opens when its `.build.info` names the product
and a configuration that the data it links to matches.

`FileSystem` puts it beside `MpqStorage` behind the gateway. `Detect` is
`ClientInstall::detect`: which row of which `.build.info`, the one beside `Data`
or the one above it shared by flavours, is the installation. `lines` is the
listfile the settings name; `EnumeratePaths` and `ReadFile` go through it.
The state is a disjoint sum by `kind`.

### `ChunkedFile`, `ChunkEntities`: chunked entities

`ChunkedFile` is `readEntity` and `writeEntity` for any schema: which chunks an
entity has, in canonical order, which are one struct, slots of a fixed capacity,
repeating members, nested streams, required, and since and until which client
they exist. A payload is its structs, its chunks, and what follows the last
whole one (stray bytes, or the head of a chunk that overruns). `ReadStream` goes
chunk by chunk and keeps a journal; what does not fit its member is preserved.
`WriteStream` replays the journal, skips what is no longer there and adds what
the journal does not know in canonical order. `ClientEras` numbers the releases.

`ChunkEntities` begins with the schemas of the entities, and what a WDL does on
write: `resequencedJournal` when the number of tiles changed, and `patchFile`, which
sets the tile table to the offsets of the heightmaps. `OceanMaskTiles` is what a
WDL tells of its masks. The rest is the state machine: an entity is loaded
from a file, assigned to, filled, emptied slot by slot, saved, and loaded again.
`source` is the file it was loaded from and `touched` the chunks changed since, so
`UntouchedSurvive` can compare the file a save gives with the one that was read:
position by position (`Stays`), the container of a WMO group and its body apart.

### `AssetCalls`: assets of several files

Its first part says which files make up a map object, a map, a terrain tile or a
model, how each is found (by the id in the main file, by name, or by name when
the id does not resolve), which failures are quiet, and in which order the files
are stored. `Wanted` is the part a read asks for next, which depends on the parts
it already has. In its second part every call of the filesystem is a step
of its own; between two of them a read may fail, another program may store a
file, and the program may die.

### `TableRows`, `SchemaCatalog`, `FixedTables`, `WdcImages`, `Tables`: tables

`TableRows` is the schema, the column store, the checks `DynTable` makes, the
blob of zero-terminated strings, by offset, and the pool the writers resolve
texts with. `SchemaCatalog` is how a schema is found: a text of
definitions, line by line, with its columns and the layouts of builds
(`Definition`); what a layout makes of them (`MembersFor`); the ranges of builds
that share a layout (`Collapse`); the catalog of all tables, from a blob or a
directory; and the look-up of a table's columns for a version (`ColumnsFor`).
Names are values in an order, a line is a record of what the parser takes from
it.

`FixedTables` reads and writes WDBC and WDB2. `WdcImages` reads WDC1 and WDC3 to
WDC5, as sections of raw words whose columns are stored plain, packed, as palette
indices or as common values; its second part is `write.cpp`: it plans the
columns, folds equal rows into copies, derives palettes, common values, the id
list and relations, and lays out the string references. `Tables` is the state
machine of one table in a caller's hands: `Open` asks a catalog for a name and a
version, and nothing is done to a table before. `OpensAsDefined`, a part of
`TblInv`, says against the definitions themselves what a table opens with.
`source` is the history of the file it came from.

### `OffsetBlocks`, `ModelLayouts`, `ModelFiles`: models

`OffsetBlocks` is the serializer of `offset_block.hpp`: an image of fixed size,
blocks behind it that the image refers to by count and offset, and arrays whose
elements go to another buffer per sequence. A buffer is a set of cells by offset,
so a reference that misses its block reads as garbage rather than as the value.
`ModelLayouts` has the records of every release. `ModelFiles` saves a model to
its body, views, `.anim` files and skeleton, and reads it back whole or alone,
after `.anim` files were lost or cut short. Its last part is `validate()`, and what
the client's walks over a model need: bones that pose (`Posed`), alias sequences
that end at data (`Resolved`), views and timelines to draw from (`Usable`).

### `TerrainChunks`, `TerrainTiles`: terrain

`TerrainChunks` has the codecs of MH2O and of the older MCLQ, those of alpha maps (4-bit, 8-bit, run-length) and shadow maps, and
`map_chunk.hpp`: a chunk's sub-chunks in each of the files it is split over, the
sizes that cannot be trusted and what the reader puts in their place, and the
header with its offsets. `TerrainTiles` is `adt.hpp`: the tile's tables, the
chunks, the offsets of MHDR and MCIN. The library saves and reads a tile, and
`ToolSaves` writes it as the client's own tools do, with the wrong sizes. Bytes
are sequences: what takes several of them is held by the first, so an offset
that is off by some bytes reads something else.

### `TexturePixels`, `Textures`: textures

`TexturePixels` has the codecs: colour blocks, explicit and interpolated alpha,
palettes with their alpha planes and the median cut that builds them, raw
pixels, halving. `Textures` is the file: a sequence of bytes, the fields of the
header first, one byte to each, and the levels anywhere, apart, shared, over one
another or over the header; the layout that is kept and replayed; and the calls
`read`, `write`, `encode`, `setMip` and assignments to the members. `file` is
what the client serves under the texture's key. What an image is encoded to is
not determined: the ends the compressor gives a block, and the order in which a
hash table hands the colours to the palette, are a choice (`Leeways`).

## Runs

| run | instance | shows |
|---|---|---|
| `listfile` | 2 threads, 2 paths in 3 spellings and `/`, ids 0-5 with custom ids 2-4, files of up to 3 lines, 1 crash, eight initial files, four of them with an id or a path on two lines | the invariant and all safety properties of the listfile, and that it implements `FdidRegistry` |
| `overlay` | 2 threads, 2 paths, one of them in two spellings, contents of 0, 1 and 2 blocks, 3 counted operations | exact undisturbed reads and writes, no written file missed |
| `client` | 2 threads, 2 paths, custom ids 2-3, one official file, CASC or MPQ; no bound on calls | stable ids, no dangling id, added files are served |
| `storages` | MPQ: up to 5 entries of an early client (10 to choose from: base archives, patches of both directories, two spellings of one name, loose directories, names that do not count) or a later one (8: base archives, a loose directory, updates of both directories, two of one build), and installs with a file that does not open. CASC: 10 clients (repacks with 0 to 2 configurations that match or not, one and two flavours, a torn row), 2 openers, 3 opens that ask for a build or detect it, 2 listfiles | the client's precedence for every order of the iterators, reads served by it, updates applied to the archives beside them and in order; no handle leaks; the three walks agree; whatever other openers, failures and kills leave in the shim, what opens is this client, and the best of its builds when nobody else opens; what is listed can be read |
| `chunks` | eleven entities, each with every body of up to 2 or 3 chunks over a small alphabet, damaged and short files; 2 calls that change it | an unchanged file is written byte for byte; what nobody touched survives in its place; what was saved reads back; tile table and holes of a WDL stay with their heightmaps, and masks with theirs as long as none of either is taken away |
| `assets` | nine kinds of asset, each with up to 8 parts there or not, ids that resolve or not; 1 save, 1 edit, 1 failing call, crash or store by another program | a read shows what is there, a save reads back, storing what was read changes nothing, no reference to a file not stored |
| `tables` | catalogs of up to six tables from a blob or a directory, sound and broken definitions; a WDBC, a WDB2 and three WDC tables of 2 to 4 columns, one of them without ids, up to 3 rows, 2 or 3 edits, sound, encrypted, sparse and damaged files | unchanged files byte for byte, edited ones read back, strings do not move, encrypted sections pass through, a failing call changes nothing; a table opens with the columns its definition gives the version |
| `models` | models of three releases, sound and broken, with chains of aliases up to the longest; `.anim` files lost or cut | every block is where its reference says, a lost file costs the tracks of its own sequences, the checks of the body refuse the bones and alias chains that lead nowhere and no others, a model that passes `validate()` can be drawn |
| `terrain` | tiles of four releases, 1 or 2 chunks of 4 x 4 texels, layers plain and packed, shadow, holes, sounds, both liquids; 2 edits | a tile reads back from what the library and the client's tools wrote; every offset and size in a header leads where it says |
| `textures` | 12 files: levels in every kind of place, headers that are refused; 14 encodings of images of up to 15 pixels, 3 of them refused; palettes of 4 colours, 3 levels, files of up to `MaxOffset` bytes; 2 edits | an unchanged file byte for byte, a changed one holds what was written; an encoded image decodes to its size, its alpha and its colours |
| `models_skeleton`, `terrain_unfixed` | small | each refutes one statement of the documentation, see below and `findings` |

The properties that gather several statements are conjunctions of named parts:
`IInv`, `PDInv`, `CfsInv`, `AssetInv` and `TblInv` are the type invariant with
the invariants of the module; `FileIsMemory` says that a finished save is
complete, that a load is last-line-wins and that a save keeps the look-ups;
`SavesAndReadsBack` that a save reads back and that it fails only where slots or
elements were taken away; `TilesStayTogether`, `ResaveIsHarmless`,
`PackedReadsBackInOrder`, `WalksAgree` and `GatewayOpensItsClient` likewise. The
comment above each part says what it is about.

### Bounds

Two threads give every pair of interleaved critical sections; a third would only
repeat one of them. Two paths, one a truncation of the other, are what a torn
line needs to rebind a path. Three custom ids let the cursor reach its end after
a skipped id. `MaxLines` lets an append follow a torn one that followed a good
one. One crash suffices for a session to read what an earlier one left; two were
tried as well, with longer files. Two blocks are what a torn read needs. In
`ClientFileSystem` nothing is bounded but the constants. Installations have at
most five entries and one file: files do not depend on each other, and what can
go wrong between members shows in pairs of them, with a base archive and an
update or two. Build numbers stay below `BuildLimit` (2^32 in the code). Two
openers and three opens of a CASC client let one opener reuse the directory that
another left half written.

Chunk streams of three chunks are the shortest in which a chunk lies between two
others of its kind; two tile slots, since a tile is mistaken for a neighbour or
not at all. Assets have at most one mishap: after one the read or write is over,
or its result stands beside one changed file; a second mishap concerns another
part. Tables have three rows so that a copy, its source and another row fit;
`CopyEntryBytes` is the code's 8. Columns are at most 16 bits wide, so that an
extreme value and the one beyond it are within TLC's integers. The tables of a
catalog that are opened have two or three columns; `EarlyLocales` and
`LateLocales`, 8 and 16 in the code, are 2 and 3. `MaxBlock` keeps a table whose strings would grow with
every round of saving and reading finite. Model arrays have one to three
elements: an alignment, a block behind another and an element between two. The
side of a terrain map, 64 in the code, is 4, on which every length of a run
occurs that tells a fill from a copy, but not the 127-texel limit, which a row
of 64 cannot reach either. Textures have images of one and of two blocks, with
more colours than the palette and with fewer, and three levels.

`storages`, `chunks` and `assets` do not check deadlock: an installation without
a chain cannot be opened, a behaviour ends when its edits and saves are used up.
In the other runs a call can always be made.

Each run takes from a few seconds to about two minutes with two workers. A run
with `acked` empty throughout, a save that never completes or a read that never
overlaps a write would show nothing; each property has a mutant of the code that
TLC refutes under the same configuration.

### Liveness and fairness

No liveness is stated, and no specification assumes fairness. Every call of the
library is a bounded loop over what it was given and waits for nobody but the lock,
so that a call returns holds by its shape. The lock is external and neither
`std::shared_mutex` nor SRWLOCK promises fairness between readers and writers, so
"a registration ends" would rest on an assumption the code does not make.

`SaveKeepsLookups` speaks, of ids by path, of paths that are settled (`IsSettled`).
A later line may take the id of a path to another, or give a path a lower id than
an earlier line did: `save()` writes every id once, in ascending order, so in the
rewritten file the one path is gone and the other has the greater id.

## Proofs

`CsvListfileProofs` proves for every value of the constants, from the assumptions
named in `FdidAllocator` and `CsvListfile` (`Threads` needs none):

- `InvariantHolds`: `Spec => []IInv`, the inductive invariant;
- `TypeCorrect`, `AckedStayOnFile`, `MapsOnlyGrow`: `TypeOK`, `AckedOnFile`,
  `NeverRebound`;
- `ImplementsRegistry`: `Spec => RegistrySpec`;
- `AckedAreResolved`: `Spec => []AckedResolves`;
- `LoadsAreLastLineWins`, `SavesAreComplete`: `Spec => []LoadIsLastLineWins` and
  `Spec => SaveIsComplete`, two of the three parts of `FileIsMemory`;
- `FileStaysMemory`: all of `FileIsMemory`, when no line of a file a user may supply
  has an empty path (`SourcesHavePaths`);
- `AscendingIdsSettle`: every path is settled, when the ids of such a file ascend and
  are of the range that moves the cursor or below it (`SourcesAscend`).

`AckedOnFile` alone is not inductive. A rewrite replaces the file while it is
exposed, and exposure ends at the last `SaveEnd`; that the file is complete then
needs `SaveInv`: each entry is at its place or some saver has yet to write it
(a saver that truncates starts from its first entry). That entries in memory
cover what was acknowledged is in `AckedInv`, which during a load speaks of the
lines read so far. That no line on file contradicts an acknowledged one needs
the new id to be fresh, which is `CursorInv` (the cursor is past every custom id
in memory and on file) and `WriterInv` (the registration in progress is alone
with its id and path). Mutual exclusion is `LockInv`. Each lemma `...Parts` takes
one action; `IInvInductive` puts them together.

That the database answers what was acknowledged is `ResolveInv`, on top of `IInv`.
The maps are what the last of the lines read says (`LoadInv`), so the question is
what else may be on file with the path of a registration. `FileInOrder` answers
it: only lines whose id no line takes to another path, and those with a lower id
come before the registered one. They are the torn lines of appends that
failed; within the session that tore them the path is unknown to the memory
(`TornInv`) and may be registered after all, under the later id. A rewrite leaves
entries of memory at their ranks and nothing else (`RewriteInv`), which keeps
that order. `load()` and `save()` are loops over lines, and what a loop computes is
an induction the provers do not have; but each iteration is a step here, so the
induction is that of the behaviour: `ScanInv` and `LoadInv` say what the loop of
`load()` has done so far, `SaveInv`, `RewriteInv` and `FitsInv` what several
savers have. `RanksFill`, that the ranks of n entries are the numbers up to n,
makes the rewritten file no longer than its entries.

The hypothesis of `FileStaysMemory` is needed: an entry with an empty path is saved
as a line that does not parse. Registrations, torn or not, append no such line
(`PathsInv`). A path that a later line left unsettled is left out of the statement;
in a file that is sorted by id there is none, and `AscendingIdsSettle` says that none
comes about: what `save()` writes and `registerPath` appends ascends again
(`AscendInv`). Ids above the cursor's range come into this because a registration
gets a lower one.

`ProjectDirectoryProofs` proves, from `ProjectAssumption`:

- `WrittenIsOnDisk`: `PDSpec => []PDInv`; `CleanReadsAreExact` and
  `NothingWrittenIsMissed`: the action properties `CleanReadExact` and `NeverMissed`.

They hold whatever spellings the disk has. That an overwritten file survives a
rescan is not among them: with two spellings it need not, see below.

The inductive invariant is `DirectoryInv`. `PDInv` says what finished writes left;
that a write leaves it needs what an undisturbed write has put on disk so far
(`WritesInv`), and that a clean read returns it needs what such a read has in hand
(`ReadsInv`). `LatestInv` carries a written file through a walk: once the index is
cleared, either the walk has yet to come to the file or the index has it again.

`ClientFileSystemProofs` proves, from `ClientAssumption`:

- `EveryIdHasItsFile`: `CfsSpec => []CfsInv`, no id without a file. The program
  counters make it inductive (`CallsInv`): a call that looks a path up, or
  registers it, has written the file;
- `IdsAreStable` and `WhatWasAddedIsServed`: `[]IdIsStable` and `AddedIsServed`,
  when the listing has no two paths for one id (`OneIdOnePath`). Without that the
  later line takes the id from the earlier path, which keeps its own mapping, so a
  file returned under an id is served as another. `IdsInv` is that the two maps
  are inverse and the cursor is above every id given; `ServedInv`, that what was
  returned is indexed and on disk, also while a call is between two steps.

`MpqStorageProofs` proves:

- `HandlesAreHeld`: `MqSpec => []NoHandleLeaks`. Wherever an open fails, the
  archives StormLib has open are the ones the storage holds and will close.
  `HandlesInv` adds only that `archives` is a sequence of records with an entry;
- `TheWalksAgree` and `ReadsTheStrongest`: `[]WalksAgree` and
  `[]ServesStrongest`, for behaviours of `MqSpec` in which every `Expand` yields
  the client's order (`ExpandsInClientOrder`). That property is what TLC checks
  in `storages` for every order of the directory; it is about a stable sort and
  folds over the table of names, an induction over data, and so it is a hypothesis
  here. The rest of the open, and every walk, is proved.

`MqInv` is the invariant. `ChainInv` follows an open: members that are not yet
opened come after all that are, updates are a suffix, each is attached to every
archive beside it, in order. `CallInv` says what a walk has passed, `SaidInv` what
finished walks have claimed, of which `WalksAgree` is the consequence. A file
removed from a loose directory takes the claims about it along (`StillStrongest`).
`ReadAtIs` gives a read of an archive with updates without its fold, by the last
complete file and the deltas above it; `LastPosition` finds that one.

`FileSystemProofs` proves:

- `OpensItsClient`: `FsSpec => []GatewayOpensItsClient`, from `CascAssumption` and
  `FileSystemAssumption`. `CascInv` says of every opener that what it has is sound
  (`Sound`), that in its own shim directory the configuration is one of the
  client's it was made for (`ShimIsOwn`), and, when nobody disturbed it (`IsAlone`),
  which configurations are behind it: all of them older or refused (`FirstIsBest`).
  Others may rewrite the directory at any step, but only with links to the same
  configuration; that is why `Sound` survives and only the promise of the best is
  limited to those alone;
- `GatewayServesTheChain`: the two theorems of the storage above, behind the gateway.

The assumptions on constants say what an installation is: finitely many build
configurations with numbers (`CascAssumption`), a client to be opened and listfiles
that are sequences (`FileSystemAssumption`), contents for the entries of a
directory, with deltas in updates only and nothing damaged in a loose directory
(`InstallAssumption`; the code reads a loose file as it is, and StormLib applies
deltas only of attached updates). TLC evaluates them in the runs.

`AssetCallsProofs` proves `PartsKeepTheirOrder`: `Spec => []AssetInv`. However a
save of several files ends, and whatever other programs store meanwhile, the files
a chunked model on disk refers to are there and no older than it, and no part of
any other asset is newer than its root. `AssetIInv` adds to `StoredInOrder` what
makes it inductive, `TodoInOrder`: of what a write has yet to store, the root is
the first, or was stored by this save (`StoresRootFirst`); in a chunked model it is
behind everything it refers to (`ChunkedStoresMainLast`), so that each of its
references is stored already or comes before it (`RefersBack`). `TypesInv` says
what slots, names and contents are; `SortedExists` that the parts of a kind can be
put in order, for any finite number of them, by taking away the least;
`PartsAre`, of what each kind of asset asks for, that a skeleton which was asked
for was read. It assumes that names of files have three parts and that a file
carries finitely many ids (`DisksAssumption`). The statement leaves out one kind
of reference: a model with a skeleton that also carries ids of poses keeps those
as they were (`formats/m2/m2.hpp:703`), and no reader follows them.

It also proves `ResavesAreHarmless`: `Spec => ResaveIsHarmless`, for the six kinds
that find their parts by name. A program that stores what it read, unchanged and
where it read it from, changes no file that is there, and of a map adds no
satellite, whether the save ends, fails or is cut off. The two action properties
say it of each step; what carries them from the read to the store is `ResaveInv`,
of an asset that nothing but a read touched: while a read goes on, `AsStored`, the
main file and every part tried so far are what the disk holds under their names,
and a part that is missing was looked for and not found; after the read, of every
part the kind has; while a write goes on, every store still to come is `Harmless`,
and no two of them give one file different contents. `NamedParts` says that these
kinds look for their parts under the name of the asset, `StoresAre` and
`PathsDiffer` that they are stored where they were looked for, and `ViewsAreCounted`
that a model read whole is written with the count of views it has, as writing sets
the count anew. Kinds that find parts by id are not in the statement: there the
listfile decides where a part lies.

`TablesProofs` proves, of the calls of a table, with any catalog, files and edits
that `TablesAssumption` admits, the three properties of the formats of fixed stride,
WDBC and WDB2:

- `SavedComesBack`: `SavedReadsBack`. What a table writes can be read, and gives the
  rows it was written from;
- `UnmodifiedStaysVerbatim`: `UnmodifiedIsVerbatim`. A table read from a file and
  not edited is written as that file;
- `OffsetsStayValid`: `OffsetsNeverMove`. Every offset into the string block a table
  was read with reads the same text in the block it writes;

and two of every format, which need no such assumption:

- `KeepsTheFileItWasReadFrom`, the parts `EncryptedPassesThrough` and `HeaderIsKept`
  of `TblInv`: what a table keeps to write again is the very file it was last read
  from, exactly when a section of that file stayed encrypted, and never what an
  earlier read left; a WDB2 writer finds a header;
- `FailuresAreClean`: a call that fails leaves rows and state as they were, unless
  it was a read of a WDC file whose sections do not decode
  (`db/wdc/read.cpp:390`).

The last two rest on `ReadInv`: the two parts, and that state and source keep their
members. It is inductive because a read has three ends. Refused before the table is
touched, it leaves everything; failed inside a WDC file, it has put aside what an
earlier read kept (`FixedReads` and `WdcReads` say this of each codec, `ResetIs` of
the reset before them) while the source is that of a read that gave nothing; and
a read that succeeds sets file and state together. Every other call leaves the
state alone (`Remembers`).

The first three rest on `ContentInv` as well:

- the table is one a catalog gave (`IsTable`);
- while its memory is not that of a WDC file, its rows are rows of its columns
  (`IsRows`), and string block, header and journal are those of *some* readable file,
  or fresh (`Remembered`);
- rows nobody edited are what the source file decodes to (`SourceIs`);
- a file kept whole is a WDC file;
- what the last call returned is what the table would write now (`ReturnedInv`).

The properties speak of the file last returned, hence the last part; an edit returns
none. `Remembered` names no source, because the journal outlives edits: after rows
are erased or added it is stale, and the rows no longer say which file it came from.

The argument goes up from the bytes. A block of strings is a list of entries by
offset (`IsBlock`: entries inside it, each behind the one before), and of it, with
every text and journal,

- `AddMovesNothing`: adding a text keeps it a block, every offset into it reads
  as before, and the text reads back at its offset;
- `ResolveIsFaithful`: whatever the journal of old offsets says, stale or wrong,
  the offset a text is resolved to reads as that text in the pool it leaves, and
  nothing that was in the pool moves. An offset of the journal is taken only when
  it still reads as the text; this is what makes a stale journal harmless.

An offset reads as the entry at or before it; `LeastPosition` and
`GreatestPosition` get that entry from the well-foundedness of `<` on the naturals.
Then:

1. *Blocks and bytes.* `ReadBlock` cuts a run of bytes at its zeros (`RunsUpTo`),
   `WriteBlock` lays a block out. `ReadAt` says what an offset reads as in terms of
   the bytes, `WriteGivesRead` that a block that was read is laid out as the bytes it
   was read from. `WrittenOffsetsStay`: in a pool that extends the block
   (`Extends`), the old offsets read the same from the bytes. Whether the *new* texts
   do depends on there being a zero between them (`Separated`, `SeparatedReads`): hence
   the premise `Terminated`, a block that ends with a zero, and the one on texts with
   a zero inside.
2. *All texts of a table.* `AllResolved` is `ResolveIsFaithful` for the whole fold;
   `ResolvesVerbatim` says that a text which still reads as before under its journaled
   offset keeps that offset and adds nothing.
3. *Which text is whose.* The fold runs over the flattened texts of all rows;
   `IsLaidOut` and `Place` say at which place the text of a row, column and locale is.
4. *Cells and rows.* `DecodeEncoded` and `EncodeDecoded` are the two directions for one
   cell of each kind and width; `RowsReadBack` and `RecordsAreVerbatim` for all.
5. *Files.* `Readable` is what a reader accepts, `ReadFrom` that a memory is that
   of a file. `WhatIsWritten` says that a writer's file is readable and lays out
   records and strings as 1 to 4 say; `RoundTrip`, `OffsetsStay` and the theorems
   follow.

Loops of the codecs are recursive functions (`RunsUpTo`, `Resolutions`, `TextsUpTo`).
As for chunks, below, `CountUp` shows that the function a definition chooses exists
and satisfies its recurrence, and carries the invariant of each loop.

`TablesAssumption` says of the instance, where an open succeeds: the schema's columns
have whole bytes; callers set numbers and texts; and a given WDBC or WDB2 file whose
header is accepted is not damaged (`IsFixedFile`): its words have their columns'
widths, string offsets lie inside the string block, the index is as long as the
header says. It does not say the reader checks this. An offset behind
the string block reads as an empty text, and once strings were added may read as
part of one of them, so a damaged file need not come back. TLC evaluates the
assumption in `tables`.

`ChunkEntitiesProofs` proves, of every schema the library could declare
(`IsSchema`), client, file and payload, and after any sequence of loads, changes
and saves:

- `ReadIsWrittenBack`: what `readEntity` takes from a file that can be read,
  `writeEntity` gives back, the same chunks in the same order, duplicates,
  chunks nobody knows, occurrences past a capacity, stray bytes and overruns
  included. It is a fact about the two functions, of any schema;
- `UnmodifiedStaysVerbatim`: `UnmodifiedIsVerbatim` in every state;
- `SavedComesBack`: `SavesAndReadsBack`. A save succeeds while the journaled
  occurrences are all there, and what it writes can be read, has the same members
  and is written as the same file again;
- `UntouchedStay`: `UntouchedSurvive`. What nobody changed is where it was;
- `TypeIsOK`: the journal always points at what is there.

`readEntity` and `writeEntity` are loops, recursive functions here (`Readings` is
what has been read after each chunk). The library's induction theorems are of no use to the
provers, but the least number that lacks a property is: `CountUp` is induction over a
set of numbers, with it `ReadingsExist` shows that the function the definition
chooses exists, and `ReadingsAre` that its recurrence holds. The rest are invariants
of the loops. Of a reading: it is sound (`IsSoundReading`), the journal's entries and
the occurrences they count agree, and it is a copy of the chunks so far (`IsCopy`):
replaying the journal, whose `k`-th entry names where the `k`-th chunk went, gives each
chunk its content and its place, and leaves nothing to add. Of a writing: reading what is
out so far gives the members so far back (`IsMirror`), whatever the journal was read from.

The inductive invariant is `IInv`. `InvBase` says that schema and client are of
the instance; `InvWhole` that the entity is whole (`IsWhole`: its members are those
of the client, its journal names members and preserved chunks that exist) and, unless a slot or
element was taken away (`gone`), that it has all its journal names; `InvUnmodified` that an
untouched entity is the reading of its source. `UntouchedStay` has a second
invariant on top, `InvEdited`: an entity is the reading of its source but for the
touched members (`IsEdited`), journal, preserved chunks and stray bytes included.
`BodyIsCopy`, `OuterStays` and `InnerStays` carry it through a write, outside of a
container and in it.

The assumptions say what the library's declarations and readable files are like:
`SchemasAssumption` (a required chunk is no repeated one, containers come once
and are not nested in one another, the fields a WMO root or a WDL derives are
there), `FilesAssumption` (a file is a stream, and the counts and offsets it derives
from its content say what it holds: `Genuine`), `PayloadsAssumption`. The code
overwrites derived fields on write, so a file in which they are wrong is not
written byte for byte. TLC evaluates all three in `chunks`.

The statements leave out a WDL, but for `UnmodifiedStaysVerbatim`, which includes
its given files. What a WDL does on write, `ResequencedJournal` and `PatchFile`, selects and flattens
and sorts sequences with operators of the community modules that the provers cannot
take apart.
TLC checks the same properties of a WDL, and `TilesStayTogether`, which is about
nothing else.

What only TLC checks:

- `SaveKeepsLookups`, of the listfile, from files that `SourcesHavePaths` leaves out;
- `ExpandsInClientOrder`, the hypothesis above;
- `ReadIsCurrent` and `SavedReadsBack` of the assets, which compare a read, spread
  over many steps, with a fold that reads all parts at once;
- the four properties of chunks for a WDL, and `TilesStayTogether`;
- of tables, the types of their parts and what a table opens with (`TblTypeOK` and
  `OpensAsDefined`, parts of `TblInv`), and `PackedReadsBackInOrder`: the planning of
  WDC columns and the fold of definitions are nested folds over sets and sequences;
- models, terrain and textures. Their modules compute what a call does with
  recursive operators and folds over blocks and pixels, and their properties say
  what those compute for every input.

Out of the provers' reach altogether: liveness under fairness, `ENABLED`, and what
a `RECURSIVE` operator or a fold of the community modules computes for every input.
A recursive function over numbers is within it, by `CountUp`; the modules of chunks and tables are written with those.

## Where code and documentation part

Two runs refute a statement of the documentation (`findings`):

- `models_skeleton` (`formats/m2/skeleton.hpp:438`): a skeleton saved on its own
  writes `.anim` files that its own reader takes for unchunked ones, and every
  external track comes back empty.
- `terrain_unfixed` (`formats/adt/map_chunk.hpp:848`): a tile built in memory is
  written with the flag clear that says its maps are full.

The following were met while modelling. Each is in the model as the code has it;
the properties leave it out by a precondition, or do not speak of it, so none has a
run of its own.

- Listfile: an append that fails leaves a torn line which the next load reads as
  an entry of its own (`fs/csv_listfile.cpp:131`); a line `5;/` is saved as `5;`,
  which does not parse; of two lines for one path the later wins in `load()`, and
  after a `save()` the one with the higher id (`:155`); after a later line renames an
  id the old path keeps its mapping (`:77`), until a `save()` drops it; `save()` truncates the only copy before it writes (`:157`); two
  databases over one file hand out the same ids (`:121`).
- Overlay: on a case-sensitive disk `write()` makes a second spelling of a file that
  is there under another (`fs/project_directory.cpp:100`), and the next rescan may
  index the old one (`:57`): the overwritten content is served again, against
  `project_directory.hpp:50`. An error of the iterator ends a walk without a word
  (`:51`).
- Client filesystem: concurrent `addFile` of one path answers `DuplicatePath`;
  `exists` and the read after it ask the overlay twice
  (`fs/client_filesystem.hpp:44`).
- MPQ: a chain of updates only opens nothing and counts as open
  (`fs/mpq/mpq_storage.cpp:78`); `exists` takes any open failure for a miss; an
  error while a loose directory is indexed leaves files out (`:124`), and a loose
  file may be gone after it was indexed (`:176`).
- CASC: concurrent opens of one repack may fail with an I/O error or get an older
  build; a wrong product falls through to the shim and opens a configuration
  whatever its flavour; an error while configurations are scanned ends the scan
  quietly; `enumeratePaths` may list a path whose other id is the one read.
- Chunks: `read()` into a used entity adds to what it holds
  (`formats/common/chunked_file.hpp:457` against `:94`); clearing a slot or
  erasing a repeating element of a read entity makes the next write fail
  (`:583`); a resequenced WDL drops empty optional chunks; after a heightmap was erased,
  `oceanMaskTiles` names ordinals by the journal of the file that was read
  (`formats/wdl/wdl.hpp:471`), the write clips them to what is left (`:569`), and a
  mask comes out behind a neighbour; `canonicalVersion`
  falls back to the first version of the grid.
- Assets: a pose after an empty reference is stored under another number
  (`formats/m2/m2.hpp:566`); a map object saved elsewhere keeps the ids of its
  groups; a satellite of a WDT or ADT that was cleared stays on disk and is read
  again; the header ids of a WDT since 8.1 are not updated; an ADT tile with both
  names and ids of textures loses the names.
- Tables: equal rows of a WDC table without ids are folded into copies of the id 0
  (`db/wdc/write.cpp:226`), and what the reader makes of those are other rows or none;
  copies come back after the other rows; an empty
  string block is written one byte longer (`db/codec_common.cpp:44`); a WDC
  section that fails leaves the table partly filled (`db/wdc/read.cpp:390`); the
  index of a WDB2 file is kept when ids change but their number does not
  (`db/wdb2.cpp:75`); a table whose id or relation is outside the record, written
  fresh to a `.dbc`, loses it (`db/table_core.cpp:128`); a string added behind a
  block that lacks its last NUL runs into the string before it.
- Models: `validateExtra` looks at no track, though its comment names the
  global-sequence references tracks carry (`formats/m2/root/root.hpp:347`); reading into a used root keeps gated fields of
  the old one; an alias sequence's own data is written and never read; a missing `.anim` file is read
  quietly and then stored empty; `validate()` does not look at a skeleton's bones
  and sequences; the version written is the one held, not the client's
  (`formats/m2/boundaries.hpp:71`).
- Terrain: a split root is written with the counts of the other files zeroed
  although its comment says they are preserved; a liquid without instances is
  dropped; a layer that claims a map it does not have reads back the next one's
  bytes, and `validate()` misses it; a map whose layer lacks the flag is dropped;
  raw sound bytes hide added emitters; more than 256 chunks are cut on write; an
  `_obj1` or `_lod` that was cleared stays on disk and is read again.
- Schemas: an error in one layout of a table drops the table, "like dbdgen"
  (`db/dbd_loader.cpp:638`), but `tools/dbdgen` warns and keeps the table's other
  layouts; of two columns with one name the loader keeps the first and the tool
  the last.
- Textures: levels that share bytes in the file are written back shared, so an
  edit of one is lost under the next, and one whose place is in the header is
  written over it (`formats/blp/blp.cpp:700`); more levels than the header has
  places for are dropped without a word while the old layout is replayed;
  `validate()` rounds the size of a palettized level down where encoding rounds up; a failing read leaves a partial entity; a
  palette with fewer colours than places is filled with black, which small
  levels may then be mapped to.

## Not modelled

- *Path normalization* (`core/path.cpp`): `CsvListfile` takes its result from a
  table. *Typed records*: a view of the same rows through generated structs.
  *Audit, bindings, tools*: drivers, glue and generators without state. The tables
  of client versions and archive names are data, and so are the characters of a
  line of definitions and the bytes of a schema blob.
- StormLib, CascLib, the block compressor and the platform's lock are external,
  modelled by what the code uses of them (the compressor by two ends inside a
  block's colours, and the nearest of the four for every texel).
- `close()` against calls in flight, which is undefined in C++; the move
  operations, used only while a filesystem is being opened.
- Numbers of more than 16 bits in tables, and with them 64-bit ids, truncation of
  64-bit palette values and sums of header fields that wrap; the content of plain
  records in chunks, terrain and models, where a record is one value.
- The readings of a WDL's heightmaps; a WMO group's
  `validate` and liquid; a
  terrain file that ends within a chunk.

## Plan

1. The refinement of an overlay that is a map from paths to contents, see below.
2. WDC images with the fold of copies and palettes as recursive functions, so that
   `PackedReadsBackInOrder` can follow `SavedComesBack`; the precedence lemmas of
   `MpqStorage` (`ClientBefore` is a strict order).
3. Path normalization as functions over short sequences, so that `Norm` can be
   it; the typed records of `db`.

Abstract specifications worth stating: an overlay that is a map from paths to
contents, implemented by `ProjectDirectory` where nobody disturbs it; a
filesystem that is one map, implemented by `ClientFileSystem`.
