--------------------------- MODULE FdidAllocator ---------------------------
(***************************************************************************)
(* detail::FdidAllocator: the monotonic cursor behind custom FileDataIDs.  *)
(* The cursor is a u64 in the code and never wraps; an id is a u32, so the *)
(* increment in noteExisting is done modulo U32 (2^32 in the code).        *)
(***************************************************************************)
EXTENDS Naturals

CONSTANTS
  U32,             \* number of values of a u32; a small number for TLC
  CustomFdidStart  \* CsvListfileOptions::customFdidStart

ASSUME U32Assumption   == U32 \in Nat /\ U32 > 1
ASSUME StartAssumption == CustomFdidStart \in 0..(U32 - 1)

Ids == 0..(U32 - 1)

\* The last id the allocator hands out (0xFFFFFFFE).
MaxId == U32 - 2

CustomIds == {i \in Ids : CustomFdidStart <= i /\ i <= MaxId}

\* The values of the cursor; one past MaxId means the space is exhausted.
Cursors == CustomFdidStart..(MaxId + 1)

Exhausted(next) == next > MaxId

Mut_NoteExisting(next, id) ==
  IF id > next /\ id <= MaxId THEN (id + 1) % U32 ELSE next

\* The cursor after noteExisting(id): only ids of the custom range move it.
NoteExisting(next, id) ==
  IF id >= next /\ id <= MaxId THEN (id + 1) % U32 ELSE next
=============================================================================
