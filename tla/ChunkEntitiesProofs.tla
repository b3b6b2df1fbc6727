---------------------- MODULE ChunkEntitiesProofs ----------------------
(***************************************************************************)
(* Proofs about ChunkedFile and ChunkEntities for every schema, client and *)
(* file: what a reading takes from a stream, that writing it gives the     *)
(* stream back, and what follows for an entity in the hands of a program.  *)
(***************************************************************************)
EXTENDS ChunkEntities, FiniteSetTheorems, WellFoundedInduction, TLAPS

---------------------------------------------------------------------------
(* Sequences, and counting up.                                              *)

IsSeq(s) == s \in Seq(Range(s))

LEMMA SeqIs ==
    ASSUME NEW s, IsSeq(s)
    PROVE  Len(s) \in Nat /\ DOMAIN s = 1 .. Len(s)
BY DEF IsSeq

LEMMA EmptyIs == IsSeq(<<>>) /\ Len(<<>>) = 0
BY DEF IsSeq, Range

LEMMA AppendIs ==
    ASSUME NEW s, IsSeq(s), NEW x
    PROVE  /\ IsSeq(Append(s, x)) /\ Len(Append(s, x)) = Len(s) + 1
           /\ \A i \in 1 .. Len(s) : Append(s, x)[i] = s[i]
           /\ Append(s, x)[Len(s) + 1] = x
<1> DEFINE T == Range(s) \cup {x}
           t == Append(s, x)
<1>1. s \in Seq(T) /\ x \in T
  BY DEF IsSeq
<1>2. t \in Seq(T) /\ Len(t) = Len(s) + 1 /\ DOMAIN t = 1 .. Len(t) /\ Len(s) \in Nat
  BY <1>1
<1>3. (\A i \in 1 .. Len(s) : t[i] = s[i]) /\ t[Len(s) + 1] = x
  BY <1>1
<1>4. t = [i \in 1 .. Len(t) |-> t[i]] /\ \A i \in 1 .. Len(t) : t[i] \in Range(t)
  <2> HIDE DEF t
  <2> QED BY <1>2 DEF Range
<1>5. t \in Seq(Range(t))
  <2> HIDE DEF t
  <2>1. t \in [1 .. Len(t) -> Range(t)] /\ Len(t) \in Nat
    BY <1>2, <1>4
  <2> QED BY <2>1
<1> QED BY <1>2, <1>3, <1>5 DEF IsSeq

LEMMA SeqsAreEqual ==
    ASSUME NEW s, NEW t, IsSeq(s), IsSeq(t), Len(s) = Len(t),
           \A i \in 1 .. Len(s) : s[i] = t[i]
    PROVE  s = t
<1>1. s = [i \in 1 .. Len(s) |-> s[i]] /\ t = [i \in 1 .. Len(t) |-> t[i]]
  BY DEF IsSeq
<1> QED BY <1>1

\* What holds at first and is passed on holds of all.
LEMMA CountUp ==
    ASSUME NEW n \in Nat, NEW T, 0 \in T, \A i \in 0 .. n - 1 : i \in T => i + 1 \in T
    PROVE  \A i \in 0 .. n : i \in T
<1> DEFINE Out == {i \in 0 .. n : i \notin T}
<1> SUFFICES ASSUME Out # {} PROVE FALSE
  OBVIOUS
<1>1. Out \subseteq Nat
  OBVIOUS
<1>2. PICK i \in Out : \A j \in Out : ~(<<j, i>> \in OpToRel(<, Nat))
  BY <1>1, NatLessThanWellFounded, WFMin
<1>3. i # 0 /\ i \in 1 .. n /\ i - 1 \in 0 .. n - 1
  OBVIOUS
<1>4. i - 1 \notin Out
  <2> SUFFICES ASSUME i - 1 \in Out PROVE FALSE
    OBVIOUS
  <2>1. i - 1 \in Nat /\ i \in Nat /\ i - 1 < i
    BY <1>3
  <2> HIDE DEF Out
  <2> QED BY <1>2, <2>1 DEF OpToRel
<1>5. i - 1 \in T
  BY <1>3, <1>4
<1>6. (i - 1) + 1 \in T
  BY <1>3, <1>5
<1> QED BY <1>3, <1>6

---------------------------------------------------------------------------
(* The recursive definitions are what they say.                             *)

IsReadings(f, S, v, start, chunks, nested, n) ==
    f = [i \in 0 .. n |-> IF i = 0 THEN start ELSE ReadChunk(S, v, f[i - 1], chunks[i], nested)]

LEMMA ReadingsExist ==
    ASSUME NEW S, NEW v, NEW start, NEW chunks, NEW nested, NEW n \in Nat
    PROVE  \E f : IsReadings(f, S, v, start, chunks, nested, n)
<1> DEFINE T == {i \in 0 .. n : \E f : IsReadings(f, S, v, start, chunks, nested, i)}
<1>1. 0 \in T
  <2>1. IsReadings([i \in 0 .. 0 |-> start], S, v, start, chunks, nested, 0)
    BY DEF IsReadings
  <2> QED BY <2>1
<1>2. ASSUME NEW i \in 0 .. n - 1, i \in T PROVE i + 1 \in T
  <2>1. PICK f : IsReadings(f, S, v, start, chunks, nested, i)
    BY <1>2
  <2> DEFINE g == [j \in 0 .. i + 1 |-> IF j = i + 1 THEN ReadChunk(S, v, f[i], chunks[i + 1], nested)
                                                   ELSE f[j]]
  <2>2. \A j \in 0 .. i : g[j] = f[j]
    OBVIOUS
  <2>3. \A j \in 0 .. i : f[j] = IF j = 0 THEN start ELSE ReadChunk(S, v, f[j - 1], chunks[j], nested)
    BY <2>1 DEF IsReadings
  <2>4. ASSUME NEW j \in 0 .. i + 1
        PROVE  g[j] = IF j = 0 THEN start ELSE ReadChunk(S, v, g[j - 1], chunks[j], nested)
    <3>1. CASE j \in 0 .. i
      <4>1. j # 0 => j - 1 \in 0 .. i
        BY <3>1
      <4> HIDE DEF g
      <4> QED BY <2>2, <2>3, <3>1, <4>1
    <3>2. CASE j = i + 1
      <4>1. g[j] = ReadChunk(S, v, f[i], chunks[i + 1], nested) /\ g[i] = f[i] /\ j - 1 = i /\ j # 0
        BY <2>2, <3>2
      <4> HIDE DEF g
      <4> QED BY <3>2, <4>1
    <3> QED BY <3>1, <3>2
  <2>5. g = [j \in 0 .. i + 1 |-> g[j]]
    OBVIOUS
  <2>6. IsReadings(g, S, v, start, chunks, nested, i + 1)
    <3> HIDE DEF g
    <3> QED BY <2>4, <2>5 DEF IsReadings
  <2> QED BY <2>6
<1>3. \A i \in 0 .. n : i \in T
  <2> HIDE DEF T
  <2> QED BY <1>1, <1>2, CountUp
<1> QED BY <1>3

LEMMA ReadingsAre ==
    ASSUME NEW S, NEW v, NEW start, NEW chunks, NEW nested, Len(chunks) \in Nat
    PROVE  LET r == Readings(S, v, start, chunks, nested)
           IN  /\ r[0] = start
               /\ \A i \in 1 .. Len(chunks) : r[i] = ReadChunk(S, v, r[i - 1], chunks[i], nested)
<1> DEFINE r == Readings(S, v, start, chunks, nested)
<1>1. \E f : IsReadings(f, S, v, start, chunks, nested, Len(chunks))
  BY ReadingsExist
<1>2. r = CHOOSE f : IsReadings(f, S, v, start, chunks, nested, Len(chunks))
  BY DEF Readings, IsReadings
<1>3. IsReadings(r, S, v, start, chunks, nested, Len(chunks))
  <2> HIDE DEF r
  <2> QED BY <1>1, <1>2
<1> HIDE DEF r
<1>4. /\ r[0] = start
      /\ \A i \in 1 .. Len(chunks) : r[i] = ReadChunk(S, v, r[i - 1], chunks[i], nested)
  BY <1>3 DEF IsReadings
<1> QED BY <1>4 DEF r

---------------------------------------------------------------------------
(* How many of the first n entries of a journal brought the member cc.      *)

Bringing(journal, n, cc) == {i \in 1 .. n : journal[i].known /\ journal[i].cc = cc}
Brought(journal, n, cc)  == Cardinality(Bringing(journal, n, cc))

LEMMA BringingIsFinite ==
    ASSUME NEW journal, NEW n \in Nat, NEW cc
    PROVE  IsFiniteSet(Bringing(journal, n, cc)) /\ Brought(journal, n, cc) \in Nat
<1>1. IsFiniteSet(1 .. n)
  BY FS_Interval
<1>2. Bringing(journal, n, cc) \subseteq 1 .. n
  BY DEF Bringing
<1>3. IsFiniteSet(Bringing(journal, n, cc))
  BY <1>1, <1>2, FS_Subset
<1> QED BY <1>3, FS_CardinalityType DEF Brought

LEMMA NothingBrought ==
    ASSUME NEW journal, NEW cc
    PROVE  Brought(journal, 0, cc) = 0
<1>1. Bringing(journal, 0, cc) = {}
  BY DEF Bringing
<1> QED BY <1>1, FS_EmptySet DEF Brought

LEMMA OneMoreBrought ==
    ASSUME NEW journal, NEW n \in Nat, NEW cc
    PROVE  Brought(journal, n + 1, cc) =
               IF journal[n + 1].known /\ journal[n + 1].cc = cc THEN Brought(journal, n, cc) + 1
                                                                ELSE Brought(journal, n, cc)
<1>1. IsFiniteSet(Bringing(journal, n, cc)) /\ n + 1 \notin Bringing(journal, n, cc)
  <2>1. n + 1 \notin Bringing(journal, n, cc)
    BY DEF Bringing
  <2> QED BY <2>1, BringingIsFinite
<1>2. CASE journal[n + 1].known /\ journal[n + 1].cc = cc
  <2>1. Bringing(journal, n + 1, cc) = Bringing(journal, n, cc) \cup {n + 1}
    BY <1>2 DEF Bringing
  <2> QED BY <1>1, <1>2, <2>1, FS_AddElement DEF Brought
<1>3. CASE ~(journal[n + 1].known /\ journal[n + 1].cc = cc)
  <2>1. Bringing(journal, n + 1, cc) = Bringing(journal, n, cc)
    BY <1>3 DEF Bringing
  <2> QED BY <1>3, <2>1 DEF Brought
<1> QED BY <1>2, <1>3

LEMMA SameBrought ==
    ASSUME NEW journal, NEW other, NEW n \in Nat, NEW cc, \A i \in 1 .. n : journal[i] = other[i]
    PROVE  Brought(journal, n, cc) = Brought(other, n, cc)
<1>1. Bringing(journal, n, cc) = Bringing(other, n, cc)
  BY DEF Bringing
<1> QED BY <1>1 DEF Brought

\* What an entry at the end of the journal brings.
LEMMA BroughtByOne ==
    ASSUME NEW journal, IsSeq(journal), NEW entry
    PROVE  LET longer == Append(journal, entry)
               n      == Len(journal)
           IN  /\ \A i \in 0 .. n : \A cc : Brought(longer, i, cc) = Brought(journal, i, cc)
               /\ \A cc : Brought(longer, n + 1, cc) = IF entry.known /\ entry.cc = cc
                                                       THEN Brought(journal, n, cc) + 1
                                                       ELSE Brought(journal, n, cc)
<1> DEFINE longer == Append(journal, entry)
           n == Len(journal)
<1>1. n \in Nat /\ (\A i \in 1 .. n : longer[i] = journal[i]) /\ longer[n + 1] = entry
  BY AppendIs, SeqIs
<1> HIDE DEF longer, n
<1>2. \A i \in 0 .. n : \A cc : Brought(longer, i, cc) = Brought(journal, i, cc)
  <2> TAKE i \in 0 .. n
  <2> TAKE cc
  <2>1. i \in Nat /\ \A k \in 1 .. i : longer[k] = journal[k]
    BY <1>1
  <2> QED BY <2>1, SameBrought
<1>3. ASSUME NEW cc
      PROVE  Brought(longer, n + 1, cc) = IF entry.known /\ entry.cc = cc
                                          THEN Brought(journal, n, cc) + 1
                                          ELSE Brought(journal, n, cc)
  <2>1. Brought(longer, n + 1, cc) = IF longer[n + 1].known /\ longer[n + 1].cc = cc
                                     THEN Brought(longer, n, cc) + 1
                                     ELSE Brought(longer, n, cc)
    BY <1>1, OneMoreBrought
  <2> QED BY <1>1, <1>2, <2>1
<1> QED BY <1>2, <1>3 DEF longer, n

---------------------------------------------------------------------------
(* What an entity is, whatever was read and changed: its journal tells how  *)
(* often each member came, and its members fit their chunks.                *)

ChunkOf(S, c) == /\ c = [cc |-> c.cc, pay |-> c.pay]
                 /\ c.cc \in DOMAIN S.nested => IsStream(c.pay)

IsFlat(S, v, e) ==
    /\ e = [head |-> e.head, val |-> e.val, journal |-> e.journal, unknown |-> e.unknown, rest |-> e.rest]
    /\ e.val = [cc \in Members(S, v) |-> e.val[cc]]
    /\ IsSeq(e.journal) /\ IsSeq(e.unknown)
    /\ e.rest \in {"none", "stray"}
    /\ \A i \in 1 .. Len(e.unknown) : ChunkOf(S, e.unknown[i])

\* A chunk has no room once its slots are full, or its one place is taken.
NoRoom(S, v, cc, before) == \/ cc \notin Members(S, v)
                            \/ IsSlots(S, cc) /\ before = S.slots[cc]
                            \/ ~IsSeveral(S, cc) /\ before > 0

\* before counts how often the chunk came to its member so far.
KnownEntry(S, v, entry, before) ==
    /\ entry = [cc |-> entry.cc, known |-> TRUE, at |-> before]
    /\ entry.cc \in Members(S, v)
    /\ ~IsSeveral(S, entry.cc) => before = 0

UnknownEntry(S, v, e, entry, before) ==
    /\ entry = [cc |-> entry.cc, known |-> FALSE, at |-> entry.at]
    /\ entry.at \in Nat /\ entry.at < Len(e.unknown)
    /\ e.unknown[entry.at + 1].cc = entry.cc
    /\ NoRoom(S, v, entry.cc, before)

IsEntry(S, v, e, i) ==
    \/ KnownEntry(S, v, e.journal[i], Brought(e.journal, i - 1, e.journal[i].cc))
    \/ UnknownEntry(S, v, e, e.journal[i], Brought(e.journal, i - 1, e.journal[i].cc))

IsValues(S, cc, values) ==
    /\ IsSeq(values)
    /\ \A i \in 1 .. Len(values) : PayloadFits(S, cc, values[i])
    /\ IsSlots(S, cc) => Len(values) <= S.slots[cc]

\* A member that never came holds what the program put there.
IsOwn(S, cc, val) == IsSized(S, cc) \/ val = Bytes(val.els)

IsMember(S, e, cc) ==
    /\ IsSeveral(S, cc) => IsValues(S, cc, e.val[cc])
    /\ ~IsSeveral(S, cc) /\ ~IsNested(S, cc) =>
         /\ PayloadFits(S, cc, e.val[cc])
         /\ Brought(e.journal, Len(e.journal), cc) = 0 => IsOwn(S, cc, e.val[cc])

IsSound(S, v, e) ==
    /\ IsFlat(S, v, e)
    /\ \A i \in 1 .. Len(e.journal) : IsEntry(S, v, e, i)
    /\ \A cc \in Members(S, v) : IsMember(S, e, cc)

\* Every occurrence the journal tells of is still there.
HasAll(S, v, e) ==
    \A cc \in Members(S, v) :
        IsSeveral(S, cc) => Brought(e.journal, Len(e.journal), cc) <= Len(e.val[cc])

IsSoundReading(S, v, r) ==
    /\ r = [err |-> r.err, e |-> r.e, seen |-> r.seen]
    /\ r.err \in {"none", "ChunkSizeMismatch", "ChunkTruncated", "ChunkMissing"}
    /\ r.seen \in [Members(S, v) -> Nat]
    /\ IsSound(S, v, r.e)
    /\ \A cc \in Members(S, v) :
         /\ r.seen[cc] = Brought(r.e.journal, Len(r.e.journal), cc)
         /\ IsSeveral(S, cc) => r.seen[cc] <= Len(r.e.val[cc])
         /\ IsSeveral(S, cc) /\ r.err = "none" => r.seen[cc] = Len(r.e.val[cc])

\* What preserving c makes of r.
IsPreserved(r, c, s) ==
    /\ s = [err |-> r.err, e |-> s.e, seen |-> r.seen]
    /\ s.e = [head |-> r.e.head, val |-> r.e.val,
              journal |-> Append(r.e.journal, [cc |-> c.cc, known |-> FALSE, at |-> Len(r.e.unknown)]),
              unknown |-> Append(r.e.unknown, c), rest |-> r.e.rest]

LEMMA PreserveIs ==
    ASSUME NEW S, NEW v, NEW r, NEW c, IsSoundReading(S, v, r)
    PROVE  IsPreserved(r, c, Preserve(r, c))
<1> DEFINE e == r.e
<1>1. r = [err |-> r.err, e |-> e, seen |-> r.seen]
  BY DEF IsSoundReading
<1>2. e = [head |-> e.head, val |-> e.val, journal |-> e.journal, unknown |-> e.unknown, rest |-> e.rest]
  BY DEF IsSoundReading, IsSound, IsFlat
<1> QED BY <1>1, <1>2 DEF Preserve, IsPreserved

\* What keeping got makes of r.
IsKept(S, r, cc, got, s) ==
    /\ s = [err |-> got.err, e |-> s.e, seen |-> s.seen]
    /\ s.e = [head |-> r.e.head, val |-> s.e.val, journal |-> s.e.journal,
              unknown |-> r.e.unknown, rest |-> r.e.rest]
    /\ s.e.val = [r.e.val EXCEPT ![cc] = IF IsSeveral(S, cc) THEN Append(r.e.val[cc], got.e) ELSE got.e]
    /\ s.e.journal = IF got.err # "none" THEN r.e.journal
                     ELSE Append(r.e.journal, [cc |-> cc, known |-> TRUE, at |-> r.seen[cc]])
    /\ s.seen = IF got.err # "none" THEN r.seen ELSE [r.seen EXCEPT ![cc] = r.seen[cc] + 1]

LEMMA KeepIs ==
    ASSUME NEW S, NEW v, NEW r, NEW cc \in Members(S, v), NEW got, IsSoundReading(S, v, r)
    PROVE  IsKept(S, r, cc, got, Keep(S, r, cc, got))
<1> DEFINE e == r.e
<1>1. r = [err |-> r.err, e |-> e, seen |-> r.seen]
  BY DEF IsSoundReading
<1>2. e = [head |-> e.head, val |-> e.val, journal |-> e.journal, unknown |-> e.unknown, rest |-> e.rest]
  BY DEF IsSoundReading, IsSound, IsFlat
<1>3. cc \in DOMAIN e.val /\ cc \in DOMAIN r.seen
  BY DEF IsSoundReading, IsSound, IsFlat
<1> QED BY <1>1, <1>2, <1>3 DEF Keep, IsKept

\* What a later journal says of an entry, when more came after it.
LEMMA EntryStays ==
    ASSUME NEW S, NEW v, NEW e, NEW f, NEW i \in Nat \ {0}, IsEntry(S, v, e, i),
           Len(e.unknown) \in Nat, Len(f.unknown) \in Nat, Len(e.unknown) <= Len(f.unknown),
           \A k \in 1 .. i : f.journal[k] = e.journal[k],
           \A k \in 1 .. Len(e.unknown) : f.unknown[k] = e.unknown[k]
    PROVE  IsEntry(S, v, f, i)
<1> DEFINE entry == e.journal[i]
           before == Brought(e.journal, i - 1, entry.cc)
<1>1. f.journal[i] = entry /\ i - 1 \in Nat /\ \A k \in 1 .. i - 1 : e.journal[k] = f.journal[k]
  OBVIOUS
<1>2. Brought(f.journal, i - 1, entry.cc) = before
  BY <1>1, SameBrought
<1> HIDE DEF before, entry
<1>3. KnownEntry(S, v, entry, before) \/ UnknownEntry(S, v, e, entry, before)
  BY DEF IsEntry, before, entry
<1>4. UnknownEntry(S, v, e, entry, before) => UnknownEntry(S, v, f, entry, before)
  <2> SUFFICES ASSUME UnknownEntry(S, v, e, entry, before) PROVE UnknownEntry(S, v, f, entry, before)
    OBVIOUS
  <2>1. entry.at \in Nat /\ entry.at < Len(e.unknown) /\ entry.at + 1 \in 1 .. Len(e.unknown)
    BY DEF UnknownEntry
  <2>2. f.unknown[entry.at + 1] = e.unknown[entry.at + 1]
    BY <2>1
  <2> QED BY <2>1, <2>2 DEF UnknownEntry
<1> QED BY <1>1, <1>2, <1>3, <1>4 DEF IsEntry

LEMMA PreserveIsSound ==
    ASSUME NEW S, NEW v, NEW r, NEW c, IsSoundReading(S, v, r), ChunkOf(S, c),
           NoRoom(S, v, c.cc, Brought(r.e.journal, Len(r.e.journal), c.cc))
    PROVE  IsSoundReading(S, v, Preserve(r, c))
<1> DEFINE s == Preserve(r, c)
           entry == [cc |-> c.cc, known |-> FALSE, at |-> Len(r.e.unknown)]
           n == Len(r.e.journal)
           m == Len(r.e.unknown)
<1>1. IsPreserved(r, c, s)
  BY PreserveIs
<1> HIDE DEF s
<1>2. /\ s.err = r.err /\ s.seen = r.seen /\ s = [err |-> s.err, e |-> s.e, seen |-> s.seen]
      /\ s.e = [head |-> s.e.head, val |-> s.e.val, journal |-> s.e.journal, unknown |-> s.e.unknown,
                rest |-> s.e.rest]
      /\ s.e.val = r.e.val /\ s.e.rest = r.e.rest
      /\ s.e.journal = Append(r.e.journal, entry) /\ s.e.unknown = Append(r.e.unknown, c)
  BY <1>1 DEF IsPreserved
<1>3. IsSeq(r.e.journal) /\ IsSeq(r.e.unknown) /\ n \in Nat /\ m \in Nat
  BY SeqIs DEF IsSoundReading, IsSound, IsFlat
<1>4. /\ IsSeq(s.e.journal) /\ Len(s.e.journal) = n + 1
      /\ (\A k \in 1 .. n : s.e.journal[k] = r.e.journal[k]) /\ s.e.journal[n + 1] = entry
  BY <1>2, <1>3, AppendIs
<1>5. /\ IsSeq(s.e.unknown) /\ Len(s.e.unknown) = m + 1
      /\ (\A k \in 1 .. m : s.e.unknown[k] = r.e.unknown[k]) /\ s.e.unknown[m + 1] = c
  BY <1>2, <1>3, AppendIs
<1>6. /\ \A i \in 0 .. n : \A cc : Brought(s.e.journal, i, cc) = Brought(r.e.journal, i, cc)
      /\ \A cc : Brought(s.e.journal, n + 1, cc) = Brought(r.e.journal, n, cc)
  BY <1>2, <1>3, BroughtByOne
<1>7. IsFlat(S, v, s.e)
  <2>1. \A i \in 1 .. m + 1 : ChunkOf(S, s.e.unknown[i])
    <3>1. \A i \in 1 .. m : ChunkOf(S, s.e.unknown[i])
      BY <1>5 DEF IsSoundReading, IsSound, IsFlat
    <3>2. \A i \in 1 .. m + 1 : i \in 1 .. m \/ i = m + 1
      BY <1>3
    <3> QED BY <1>5, <3>1, <3>2
  <2>2. s.e.val = [cc \in Members(S, v) |-> s.e.val[cc]] /\ s.e.rest \in {"none", "stray"}
    BY <1>2 DEF IsSoundReading, IsSound, IsFlat
  <2> QED BY <1>2, <1>4, <1>5, <2>1, <2>2 DEF IsFlat
<1>8. ASSUME NEW i \in 1 .. Len(s.e.journal) PROVE IsEntry(S, v, s.e, i)
  <2>1. CASE i \in 1 .. n
    <3>1. IsEntry(S, v, r.e, i)
      BY <2>1 DEF IsSoundReading, IsSound
    <3>2. i \in Nat \ {0} /\ \A k \in 1 .. i : s.e.journal[k] = r.e.journal[k]
      BY <1>3, <1>4, <2>1
    <3> QED BY <1>3, <1>5, <3>1, <3>2, EntryStays
  <2>2. CASE i = n + 1
    <3>1. s.e.journal[i] = entry /\ i - 1 = n
      BY <1>3, <1>4, <2>2
    <3>2. Brought(s.e.journal, i - 1, c.cc) = Brought(r.e.journal, n, c.cc)
      BY <1>3, <1>6, <3>1
    <3>3. UnknownEntry(S, v, s.e, entry, Brought(s.e.journal, i - 1, c.cc))
      BY <1>3, <1>5, <3>2 DEF UnknownEntry
    <3> QED BY <3>1, <3>3 DEF IsEntry
  <2> QED BY <1>3, <1>4, <2>1, <2>2
<1>9. \A cc \in Members(S, v) : IsMember(S, s.e, cc)
  <2> TAKE cc \in Members(S, v)
  <2>1. IsMember(S, r.e, cc)
    BY DEF IsSoundReading, IsSound
  <2>2. s.e.val[cc] = r.e.val[cc] /\ Brought(s.e.journal, Len(s.e.journal), cc) = Brought(r.e.journal, n, cc)
    BY <1>2, <1>4, <1>6
  <2> QED BY <2>1, <2>2 DEF IsMember
<1>10. IsSound(S, v, s.e)
  BY <1>7, <1>8, <1>9 DEF IsSound
<1>11. \A cc \in Members(S, v) :
         /\ s.seen[cc] = Brought(s.e.journal, Len(s.e.journal), cc)
         /\ IsSeveral(S, cc) => s.seen[cc] <= Len(s.e.val[cc])
         /\ IsSeveral(S, cc) /\ s.err = "none" => s.seen[cc] = Len(s.e.val[cc])
  BY <1>2, <1>4, <1>6 DEF IsSoundReading
<1>12. s.seen \in [Members(S, v) -> Nat] /\ s.err \in {"none", "ChunkSizeMismatch", "ChunkTruncated", "ChunkMissing"}
  BY <1>2 DEF IsSoundReading
<1>13. IsSoundReading(S, v, s)
  BY <1>2, <1>10, <1>11, <1>12 DEF IsSoundReading
<1> QED BY <1>13 DEF s

\* What a chunk is read as: it fits its member.
IsGot(S, cc, got) ==
    /\ got.err \in {"none", "ChunkSizeMismatch", "ChunkTruncated", "ChunkMissing"}
    /\ ~IsNested(S, cc) => PayloadFits(S, cc, got.e)

LEMMA KeepIsSound ==
    ASSUME NEW S, NEW v, NEW r, NEW cc \in Members(S, v), NEW got, IsSchema(S), IsSoundReading(S, v, r),
           r.err = "none", IsGot(S, cc, got), ~NoRoom(S, v, cc, r.seen[cc]),
           got.err # "none" /\ ~IsSeveral(S, cc) /\ ~IsNested(S, cc) => got.e = r.e.val[cc]
    PROVE  IsSoundReading(S, v, Keep(S, r, cc, got))
<1> DEFINE s == Keep(S, r, cc, got)
           entry == [cc |-> cc, known |-> TRUE, at |-> r.seen[cc]]
           n == Len(r.e.journal)
<1>1. IsKept(S, r, cc, got, s)
  BY KeepIs
<1> HIDE DEF s
<1>2. /\ s.err = got.err /\ s = [err |-> s.err, e |-> s.e, seen |-> s.seen]
      /\ s.e = [head |-> s.e.head, val |-> s.e.val, journal |-> s.e.journal, unknown |-> s.e.unknown,
                rest |-> s.e.rest]
      /\ s.e.unknown = r.e.unknown /\ s.e.rest = r.e.rest
      /\ s.e.val = [r.e.val EXCEPT ![cc] = IF IsSeveral(S, cc) THEN Append(r.e.val[cc], got.e) ELSE got.e]
      /\ got.err # "none" => s.e.journal = r.e.journal /\ s.seen = r.seen
      /\ got.err = "none" => /\ s.e.journal = Append(r.e.journal, entry)
                             /\ s.seen = [r.seen EXCEPT ![cc] = r.seen[cc] + 1]
  BY <1>1 DEF IsKept
<1>3. /\ IsSeq(r.e.journal) /\ IsSeq(r.e.unknown) /\ n \in Nat /\ Len(r.e.unknown) \in Nat
      /\ r.e.val = [x \in Members(S, v) |-> r.e.val[x]]
      /\ r.seen \in [Members(S, v) -> Nat] /\ r.seen[cc] \in Nat
      /\ \A x \in Members(S, v) : r.seen[x] = Brought(r.e.journal, n, x)
  BY SeqIs DEF IsSoundReading, IsSound, IsFlat
<1>4. /\ s.e.val = [x \in Members(S, v) |-> s.e.val[x]]
      /\ s.e.val[cc] = IF IsSeveral(S, cc) THEN Append(r.e.val[cc], got.e) ELSE got.e
      /\ \A x \in Members(S, v) : x # cc => s.e.val[x] = r.e.val[x]
  BY <1>2, <1>3
<1>5. got.err = "none" =>
         /\ IsSeq(s.e.journal) /\ Len(s.e.journal) = n + 1
         /\ (\A k \in 1 .. n : s.e.journal[k] = r.e.journal[k]) /\ s.e.journal[n + 1] = entry
         /\ \A i \in 0 .. n : \A x : Brought(s.e.journal, i, x) = Brought(r.e.journal, i, x)
         /\ \A x : Brought(s.e.journal, n + 1, x) = IF cc = x THEN Brought(r.e.journal, n, x) + 1
                                                    ELSE Brought(r.e.journal, n, x)
  <2>1. /\ IsSeq(Append(r.e.journal, entry)) /\ Len(Append(r.e.journal, entry)) = n + 1
        /\ (\A k \in 1 .. n : Append(r.e.journal, entry)[k] = r.e.journal[k])
        /\ Append(r.e.journal, entry)[n + 1] = entry
    BY <1>3, AppendIs
  <2>2. /\ \A i \in 0 .. n : \A x : Brought(Append(r.e.journal, entry), i, x) = Brought(r.e.journal, i, x)
        /\ \A x : Brought(Append(r.e.journal, entry), n + 1, x) =
                    IF entry.known /\ entry.cc = x THEN Brought(r.e.journal, n, x) + 1
                                                   ELSE Brought(r.e.journal, n, x)
    BY <1>3, BroughtByOne
  <2>3. entry.known /\ entry.cc = cc
    OBVIOUS
  <2> SUFFICES ASSUME got.err = "none"
               PROVE  /\ IsSeq(s.e.journal) /\ Len(s.e.journal) = n + 1
                      /\ (\A k \in 1 .. n : s.e.journal[k] = r.e.journal[k]) /\ s.e.journal[n + 1] = entry
                      /\ \A i \in 0 .. n : \A x : Brought(s.e.journal, i, x) = Brought(r.e.journal, i, x)
                      /\ \A x : Brought(s.e.journal, n + 1, x) =
                                  IF cc = x THEN Brought(r.e.journal, n, x) + 1
                                            ELSE Brought(r.e.journal, n, x)
    OBVIOUS
  <2>4. s.e.journal = Append(r.e.journal, entry)
    BY <1>2
  <2>5. \A x : Brought(s.e.journal, n + 1, x) = IF cc = x THEN Brought(r.e.journal, n, x) + 1
                                                ELSE Brought(r.e.journal, n, x)
    <3> HIDE DEF entry
    <3> QED BY <2>2, <2>3, <2>4
  <2> HIDE DEF entry
  <2> QED BY <2>1, <2>2, <2>4, <2>5
<1>6. IsSeq(s.e.journal) /\ IsFlat(S, v, s.e)
  BY <1>2, <1>3, <1>4, <1>5 DEF IsSoundReading, IsSound, IsFlat
<1>7. ASSUME NEW i \in 1 .. Len(s.e.journal) PROVE IsEntry(S, v, s.e, i)
  <2>1. CASE i \in 1 .. n
    <3>1. IsEntry(S, v, r.e, i)
      BY <2>1 DEF IsSoundReading, IsSound
    <3>2. i \in Nat \ {0} /\ \A k \in 1 .. i : s.e.journal[k] = r.e.journal[k]
      BY <1>2, <1>3, <1>5, <2>1
    <3> QED BY <1>2, <1>3, <3>1, <3>2, EntryStays
  <2>2. CASE i \notin 1 .. n
    <3>1. s.e.journal[i] = entry /\ i - 1 = n /\ got.err = "none"
      BY <1>2, <1>3, <1>5, <2>2
    <3>2. Brought(s.e.journal, i - 1, cc) = r.seen[cc]
      BY <1>3, <1>5, <3>1
    <3>3. ~IsSeveral(S, cc) => r.seen[cc] = 0
      BY <1>3 DEF NoRoom
    <3>4. KnownEntry(S, v, entry, r.seen[cc]) /\ entry.cc = cc
      BY <3>3 DEF KnownEntry
    <3> QED BY <3>1, <3>2, <3>4 DEF IsEntry
  <2> QED BY <2>1, <2>2
<1>8. ASSUME NEW x \in Members(S, v), x # cc PROVE IsMember(S, s.e, x)
  <2>1. IsMember(S, r.e, x) /\ s.e.val[x] = r.e.val[x]
    BY <1>4, <1>8 DEF IsSoundReading, IsSound
  <2>2. Brought(s.e.journal, Len(s.e.journal), x) = Brought(r.e.journal, n, x)
    BY <1>2, <1>5, <1>8
  <2> QED BY <2>1, <2>2 DEF IsMember
<1>9. IsMember(S, s.e, cc)
  <2>1. CASE IsSeveral(S, cc)
    <3>1. IsValues(S, cc, r.e.val[cc]) /\ r.seen[cc] = Len(r.e.val[cc]) /\ ~IsNested(S, cc)
      BY <2>1 DEF IsSoundReading, IsSound, IsMember, IsSchema, IsNested
    <3>2. PayloadFits(S, cc, got.e)
      BY <3>1 DEF IsGot
    <3> DEFINE old == r.e.val[cc]
               new == s.e.val[cc]
    <3>3. IsSeq(old) /\ (\A i \in 1 .. Len(old) : PayloadFits(S, cc, old[i])) /\ Len(old) \in Nat
      BY <3>1, SeqIs DEF IsValues
    <3>4. /\ IsSeq(new) /\ Len(new) = Len(old) + 1 /\ new[Len(old) + 1] = got.e
          /\ \A i \in 1 .. Len(old) : new[i] = old[i]
      <4>1. new = Append(old, got.e)
        BY <1>4, <2>1
      <4> HIDE DEF old, new
      <4> QED BY <3>3, <4>1, AppendIs
    <3>5. \A i \in 1 .. Len(new) : PayloadFits(S, cc, new[i])
      <4>1. \A i \in 1 .. Len(new) : i \in 1 .. Len(old) \/ i = Len(old) + 1
        BY <3>3, <3>4
      <4> QED BY <3>2, <3>3, <3>4, <4>1
    <3>6. IsSlots(S, cc) => S.slots[cc] \in Nat /\ Len(old) <= S.slots[cc] /\ Len(old) # S.slots[cc]
      BY <3>1 DEF NoRoom, IsValues, IsSchema, IsSchemaFlat, IsSlots
    <3>7. IsValues(S, cc, new)
      BY <3>3, <3>4, <3>5, <3>6 DEF IsValues
    <3> QED BY <2>1, <3>7 DEF IsMember
  <2>2. CASE ~IsSeveral(S, cc) /\ ~IsNested(S, cc)
    <3>1. s.e.val[cc] = got.e /\ PayloadFits(S, cc, got.e)
      BY <1>4, <2>2 DEF IsGot
    <3>2. CASE got.err = "none"
      <4>1. Brought(s.e.journal, Len(s.e.journal), cc) = r.seen[cc] + 1
        BY <1>3, <1>5, <3>2
      <4> QED BY <1>3, <2>2, <3>1, <4>1 DEF IsMember
    <3>3. CASE got.err # "none"
      <4>1. s.e.val[cc] = r.e.val[cc] /\ s.e.journal = r.e.journal
        BY <1>2, <2>2, <3>1, <3>3
      <4>2. IsMember(S, r.e, cc)
        BY DEF IsSoundReading, IsSound
      <4> QED BY <4>1, <4>2 DEF IsMember
    <3> QED BY <3>2, <3>3
  <2>3. CASE ~IsSeveral(S, cc) /\ IsNested(S, cc)
    BY <2>3 DEF IsMember
  <2> QED BY <2>1, <2>2, <2>3
<1>10. IsSound(S, v, s.e)
  BY <1>6, <1>7, <1>8, <1>9 DEF IsSound
<1>11. s.seen \in [Members(S, v) -> Nat]
  <2>1. r.seen[cc] + 1 \in Nat
    BY <1>3
  <2>2. [r.seen EXCEPT ![cc] = r.seen[cc] + 1] \in [Members(S, v) -> Nat]
    BY <1>3, <2>1
  <2> QED BY <1>2, <1>3, <2>2
<1>12. ASSUME NEW x \in Members(S, v)
       PROVE  /\ s.seen[x] = Brought(s.e.journal, Len(s.e.journal), x)
              /\ IsSeveral(S, x) => s.seen[x] <= Len(s.e.val[x])
              /\ IsSeveral(S, x) /\ s.err = "none" => s.seen[x] = Len(s.e.val[x])
  <2>1. s.seen[x] = Brought(s.e.journal, Len(s.e.journal), x)
    BY <1>2, <1>3, <1>5
  <2>2. IsSeveral(S, x) => r.seen[x] = Len(r.e.val[x]) /\ IsSeq(r.e.val[x])
    BY DEF IsSoundReading, IsSound, IsMember, IsValues
  <2>3. CASE x # cc
    <3>1. s.seen[x] = r.seen[x] /\ s.e.val[x] = r.e.val[x]
      BY <1>2, <1>3, <1>4, <2>3
    <3> QED BY <1>3, <2>1, <2>2, <3>1
  <2>4. CASE x = cc
    <3>1. IsSeveral(S, cc) => Len(s.e.val[cc]) = r.seen[cc] + 1
      BY <1>4, <2>2, <2>4, AppendIs
    <3>2. s.seen[cc] = IF got.err = "none" THEN r.seen[cc] + 1 ELSE r.seen[cc]
      BY <1>2, <1>3
    <3> QED BY <1>2, <1>3, <2>1, <2>4, <3>1, <3>2
  <2> QED BY <2>3, <2>4
<1>13. s.err \in {"none", "ChunkSizeMismatch", "ChunkTruncated", "ChunkMissing"}
  BY <1>2 DEF IsGot
<1>14. IsSoundReading(S, v, s)
  BY <1>2, <1>10, <1>11, <1>12, <1>13 DEF IsSoundReading
<1> QED BY <1>14 DEF s

LEMMA DefaultFits ==
    ASSUME NEW S, NEW cc, IsSchemaFlat(S)
    PROVE  PayloadFits(S, cc, Default(S, cc)) /\ IsOwn(S, cc, Default(S, cc))
<1>1. CASE IsSized(S, cc)
  <2>1. S.data[cc] \in Nat
    BY <1>1 DEF IsSized, IsSchemaFlat
  <2> DEFINE zeros == [i \in 1 .. S.data[cc] |-> 0]
  <2>2. Len(zeros) = S.data[cc]
    BY <2>1
  <2>3. Default(S, cc) = Bytes(zeros)
    BY <1>1 DEF Default, Zeroed
  <2> HIDE DEF zeros
  <2> QED BY <1>1, <2>2, <2>3 DEF PayloadFits, Bytes, IsOwn
<1>2. CASE ~IsSized(S, cc)
  <2>1. Default(S, cc) = Bytes(<<>>)
    BY <1>2 DEF Default, NoBytes
  <2> QED BY <1>2, <2>1 DEF PayloadFits, Bytes, IsOwn
<1> QED BY <1>1, <1>2

\* What a reading does with one more chunk.
GotOf(S, r, c, nested) ==
    ReadValue(S, c.cc, IF IsSeveral(S, c.cc) THEN Default(S, c.cc) ELSE r.e.val[c.cc], c.pay, nested)

LEMMA ReadChunkCases ==
    ASSUME NEW S, NEW v, NEW r, NEW c, NEW nested, IsSoundReading(S, v, r)
    PROVE  LET s == ReadChunk(S, v, r, c, nested)
           IN  \/ r.err # "none" /\ s = r
               \/ /\ r.err = "none" /\ s = Preserve(r, c)
                  /\ NoRoom(S, v, c.cc, Brought(r.e.journal, Len(r.e.journal), c.cc))
               \/ /\ r.err = "none" /\ s = Keep(S, r, c.cc, GotOf(S, r, c, nested))
                  /\ c.cc \in Members(S, v) /\ ~NoRoom(S, v, c.cc, r.seen[c.cc])
<1> DEFINE s == ReadChunk(S, v, r, c, nested)
           cc == c.cc
           isFull == \/ cc \notin Members(S, v)
                     \/ IsSlots(S, cc) /\ Len(r.e.val[cc]) = S.slots[cc]
                     \/ ~IsSeveral(S, cc) /\ r.seen[cc] > 0
<1>1. s = IF r.err # "none" THEN r
          ELSE IF isFull THEN Preserve(r, c) ELSE Keep(S, r, cc, GotOf(S, r, c, nested))
  BY DEF ReadChunk, GotOf
<1>2. r.err = "none" /\ cc \in Members(S, v) =>
        /\ r.seen[cc] = Brought(r.e.journal, Len(r.e.journal), cc)
        /\ IsSeveral(S, cc) => r.seen[cc] = Len(r.e.val[cc])
  BY DEF IsSoundReading
<1>3. IsSlots(S, cc) => IsSeveral(S, cc)
  BY DEF IsSeveral
<1>4. r.err = "none" /\ isFull => NoRoom(S, v, cc, Brought(r.e.journal, Len(r.e.journal), cc))
  BY <1>2, <1>3 DEF NoRoom
<1>5. r.err = "none" /\ ~isFull => cc \in Members(S, v) /\ ~NoRoom(S, v, cc, r.seen[cc])
  BY <1>2, <1>3 DEF NoRoom
<1> HIDE DEF s, isFull
<1>6. \/ r.err # "none" /\ s = r
      \/ /\ r.err = "none" /\ s = Preserve(r, c)
         /\ NoRoom(S, v, c.cc, Brought(r.e.journal, Len(r.e.journal), c.cc))
      \/ /\ r.err = "none" /\ s = Keep(S, r, c.cc, GotOf(S, r, c, nested))
         /\ c.cc \in Members(S, v) /\ ~NoRoom(S, v, c.cc, r.seen[c.cc])
  BY <1>1, <1>4, <1>5
<1> QED BY <1>6 DEF s

NestedErrs(S, v, nested, cc) ==
    cc \in Members(S, v) /\ IsNested(S, cc) =>
        nested[cc].err \in {"none", "ChunkSizeMismatch", "ChunkTruncated", "ChunkMissing"}

LEMMA GotIs ==
    ASSUME NEW S, NEW v, NEW r, NEW c, NEW nested, IsSchema(S), IsSoundReading(S, v, r),
           c.cc \in Members(S, v), NestedErrs(S, v, nested, c.cc)
    PROVE  LET got == GotOf(S, r, c, nested)
           IN  /\ IsGot(S, c.cc, got)
               /\ IsNested(S, c.cc) => got = nested[c.cc]
               /\ ~IsNested(S, c.cc) /\ got.err = "none" => got.e = c.pay
               /\ got.err # "none" /\ ~IsSeveral(S, c.cc) /\ ~IsNested(S, c.cc) => got.e = r.e.val[c.cc]
<1> DEFINE got == GotOf(S, r, c, nested)
           old == IF IsSeveral(S, c.cc) THEN Default(S, c.cc) ELSE r.e.val[c.cc]
<1>1. CASE IsNested(S, c.cc)
  <2>1. got = nested[c.cc]
    BY <1>1 DEF GotOf, ReadValue
  <2> HIDE DEF got
  <2>2. IsGot(S, c.cc, got)
    BY <1>1, <2>1 DEF IsGot, NestedErrs
  <2> QED BY <1>1, <2>1, <2>2 DEF got
<1>2. CASE ~IsNested(S, c.cc) /\ PayloadFits(S, c.cc, c.pay)
  <2>1. got = [err |-> "none", e |-> c.pay]
    BY <1>2 DEF GotOf, ReadValue
  <2> QED BY <1>2, <2>1 DEF IsGot
<1>3. CASE ~IsNested(S, c.cc) /\ ~PayloadFits(S, c.cc, c.pay)
  <2>1. got = [err |-> "ChunkSizeMismatch", e |-> old]
    BY <1>3 DEF GotOf, ReadValue
  <2>2. IsSeveral(S, c.cc) => PayloadFits(S, c.cc, old)
    BY DefaultFits DEF IsSchema
  <2>3. ~IsSeveral(S, c.cc) => PayloadFits(S, c.cc, old) /\ old = r.e.val[c.cc]
    BY <1>3 DEF IsSoundReading, IsSound, IsMember
  <2> HIDE DEF old
  <2> QED BY <1>3, <2>1, <2>2, <2>3 DEF IsGot
<1> QED BY <1>1, <1>2, <1>3

LEMMA ReadChunkIsSound ==
    ASSUME NEW S, NEW v, NEW r, NEW c, NEW nested, IsSchema(S), IsSoundReading(S, v, r),
           ChunkOf(S, c), NestedErrs(S, v, nested, c.cc)
    PROVE  IsSoundReading(S, v, ReadChunk(S, v, r, c, nested))
<1> DEFINE s == ReadChunk(S, v, r, c, nested)
           got == GotOf(S, r, c, nested)
<1>1. \/ r.err # "none" /\ s = r
      \/ /\ r.err = "none" /\ s = Preserve(r, c)
         /\ NoRoom(S, v, c.cc, Brought(r.e.journal, Len(r.e.journal), c.cc))
      \/ /\ r.err = "none" /\ s = Keep(S, r, c.cc, got)
         /\ c.cc \in Members(S, v) /\ ~NoRoom(S, v, c.cc, r.seen[c.cc])
  BY ReadChunkCases
<1>2. c.cc \in Members(S, v) =>
        /\ IsGot(S, c.cc, got)
        /\ got.err # "none" /\ ~IsSeveral(S, c.cc) /\ ~IsNested(S, c.cc) => got.e = r.e.val[c.cc]
  BY GotIs
<1> HIDE DEF s, got
<1>3. IsSoundReading(S, v, s)
  BY <1>1, <1>2, KeepIsSound, PreserveIsSound
<1> QED BY <1>3 DEF s

---------------------------------------------------------------------------
(* What a reading took from the stream, chunk by chunk.                     *)

\* The j-th chunk of the stream is where the j-th entry of the journal says.
Tells(S, e, sub, j, nested) ==
    LET entry == e.journal[j]
        c     == sub[j]
        val   == e.val[c.cc]
    IN  /\ entry.cc = c.cc
        /\ entry.known = FALSE => e.unknown[entry.at + 1] = c
        /\ entry.known = TRUE =>
             /\ IsSeveral(S, c.cc) => entry.at < Len(val) /\ val[entry.at + 1] = c.pay
             /\ ~IsSeveral(S, c.cc) /\ ~IsNested(S, c.cc) => val = c.pay
             /\ IsNested(S, c.cc) => /\ nested[c.cc].err = "none" /\ val = nested[c.cc].e
                                     /\ \A k \in 1 .. j - 1 : sub[k].cc # c.cc

\* e is start after i chunks of sub.
Took(S, v, start, sub, nested, r, i) ==
    /\ Len(r.e.journal) = i
    /\ r.e.head = start.head /\ r.e.rest = start.rest
    /\ \A cc \in Members(S, v) : ~IsSeveral(S, cc) /\ r.seen[cc] = 0 =>
          r.e.val[cc] = start.val[cc] /\ \A k \in 1 .. i : sub[k].cc # cc
    /\ \A j \in 1 .. i : Tells(S, r.e, sub, j, nested)

LEMMA PreserveTakes ==
    ASSUME NEW S, NEW v, NEW start, NEW sub, NEW nested, NEW r, NEW i \in Nat,
           IsSoundReading(S, v, r), Took(S, v, start, sub, nested, r, i),
           NoRoom(S, v, sub[i + 1].cc, Brought(r.e.journal, Len(r.e.journal), sub[i + 1].cc))
    PROVE  Took(S, v, start, sub, nested, Preserve(r, sub[i + 1]), i + 1)
<1> DEFINE c == sub[i + 1]
           s == Preserve(r, c)
           m == Len(r.e.unknown)
           entry == [cc |-> c.cc, known |-> FALSE, at |-> m]
<1>1. IsPreserved(r, c, s)
  BY PreserveIs
<1>2. IsSeq(r.e.journal) /\ IsSeq(r.e.unknown) /\ Len(r.e.journal) = i /\ m \in Nat
  BY SeqIs DEF IsSoundReading, IsSound, IsFlat, Took
<1>3. NoRoom(S, v, c.cc, Brought(r.e.journal, i, c.cc))
  BY <1>2
<1> HIDE DEF s, c
<1>4. /\ s.seen = r.seen /\ s.e.val = r.e.val /\ s.e.rest = r.e.rest /\ s.e.head = r.e.head
      /\ s.e.journal = Append(r.e.journal, entry) /\ s.e.unknown = Append(r.e.unknown, c)
  BY <1>1 DEF IsPreserved
<1>5. /\ Len(s.e.journal) = i + 1 /\ s.e.journal[i + 1] = entry
      /\ \A k \in 1 .. i : s.e.journal[k] = r.e.journal[k]
  BY <1>2, <1>4, AppendIs
<1>6. s.e.unknown[m + 1] = c /\ \A k \in 1 .. m : s.e.unknown[k] = r.e.unknown[k]
  BY <1>2, <1>4, AppendIs
<1>7. ASSUME NEW j \in 1 .. i PROVE Tells(S, s.e, sub, j, nested)
  <2>1. Tells(S, r.e, sub, j, nested) /\ s.e.journal[j] = r.e.journal[j]
    BY <1>5 DEF Took
  <2>2. IsEntry(S, v, r.e, j)
    BY <1>2 DEF IsSoundReading, IsSound
  <2>3. r.e.journal[j].known = FALSE => r.e.journal[j].at + 1 \in 1 .. m
    BY <1>2, <2>2 DEF IsEntry, KnownEntry, UnknownEntry
  <2>4. r.e.journal[j].known = FALSE =>
          s.e.unknown[r.e.journal[j].at + 1] = r.e.unknown[r.e.journal[j].at + 1]
    BY <1>6, <2>3
  <2> QED BY <1>4, <2>1, <2>4 DEF Tells
<1>8. Tells(S, s.e, sub, i + 1, nested)
  BY <1>5, <1>6 DEF Tells, c
<1>9. \A j \in 1 .. i + 1 : Tells(S, s.e, sub, j, nested)
  <2>1. \A j \in 1 .. i + 1 : j \in 1 .. i \/ j = i + 1
    OBVIOUS
  <2> QED BY <1>7, <1>8, <2>1
<1>10. ASSUME NEW cc \in Members(S, v), ~IsSeveral(S, cc), s.seen[cc] = 0
       PROVE  s.e.val[cc] = start.val[cc] /\ \A k \in 1 .. i + 1 : sub[k].cc # cc
  <2>1. r.seen[cc] = 0 /\ s.e.val[cc] = r.e.val[cc] /\ r.seen[cc] = Brought(r.e.journal, i, cc)
    BY <1>2, <1>4, <1>10 DEF IsSoundReading
  <2>2. r.e.val[cc] = start.val[cc] /\ \A k \in 1 .. i : sub[k].cc # cc
    BY <1>10, <2>1 DEF Took
  <2>3. c.cc # cc
    BY <1>3, <1>10, <2>1 DEF NoRoom, IsSeveral
  <2>4. \A k \in 1 .. i + 1 : k \in 1 .. i \/ k = i + 1
    OBVIOUS
  <2> QED BY <2>1, <2>2, <2>3, <2>4 DEF c
<1>11. s.e.head = start.head /\ s.e.rest = start.rest
  BY <1>4 DEF Took
<1>12. Took(S, v, start, sub, nested, s, i + 1)
  BY <1>5, <1>9, <1>10, <1>11 DEF Took
<1> QED BY <1>12 DEF s, c

LEMMA KeepTakes ==
    ASSUME NEW S, NEW v, NEW start, NEW sub, NEW nested, NEW r, NEW i \in Nat, NEW got, IsSchema(S),
           IsSoundReading(S, v, r), Took(S, v, start, sub, nested, r, i), r.err = "none",
           sub[i + 1].cc \in Members(S, v), ~NoRoom(S, v, sub[i + 1].cc, r.seen[sub[i + 1].cc]),
           got.err = "none", IsNested(S, sub[i + 1].cc) => got = nested[sub[i + 1].cc],
           ~IsNested(S, sub[i + 1].cc) => got.e = sub[i + 1].pay
    PROVE  Took(S, v, start, sub, nested, Keep(S, r, sub[i + 1].cc, got), i + 1)
<1> DEFINE c == sub[i + 1]
           cc == c.cc
           s == Keep(S, r, cc, got)
           entry == [cc |-> cc, known |-> TRUE, at |-> r.seen[cc]]
<1>1. IsKept(S, r, cc, got, s)
  BY KeepIs
<1>2. /\ IsSeq(r.e.journal) /\ Len(r.e.journal) = i /\ r.seen[cc] \in Nat
      /\ r.e.val = [x \in Members(S, v) |-> r.e.val[x]] /\ r.seen \in [Members(S, v) -> Nat]
      /\ IsSeveral(S, cc) => IsSeq(r.e.val[cc]) /\ r.seen[cc] = Len(r.e.val[cc])
  BY SeqIs DEF IsSoundReading, IsSound, IsFlat, Took, IsMember, IsValues
<1>3. cc \in Members(S, v) /\ ~NoRoom(S, v, cc, r.seen[cc])
  OBVIOUS
<1>4. ~IsSeveral(S, cc) => r.seen[cc] = 0
  BY <1>2, <1>3 DEF NoRoom
<1>5. ~IsNested(S, cc) => got.e = c.pay
  OBVIOUS
<1>6. IsNested(S, cc) => got = nested[cc] /\ ~IsSeveral(S, cc)
  BY DEF IsSchema, IsNested
<1> HIDE DEF s, cc, c
<1>7. /\ s.e.rest = r.e.rest /\ s.e.head = r.e.head /\ s.e.unknown = r.e.unknown
      /\ s.e.journal = Append(r.e.journal, entry) /\ s.seen = [r.seen EXCEPT ![cc] = r.seen[cc] + 1]
      /\ s.e.val = [r.e.val EXCEPT ![cc] = IF IsSeveral(S, cc) THEN Append(r.e.val[cc], got.e) ELSE got.e]
  BY <1>1 DEF IsKept
<1>8. /\ Len(s.e.journal) = i + 1 /\ s.e.journal[i + 1] = entry
      /\ \A k \in 1 .. i : s.e.journal[k] = r.e.journal[k]
  BY <1>2, <1>7, AppendIs
<1>9. /\ s.e.val[cc] = IF IsSeveral(S, cc) THEN Append(r.e.val[cc], got.e) ELSE got.e
      /\ \A x \in Members(S, v) : x # cc => s.e.val[x] = r.e.val[x]
      /\ s.seen[cc] = r.seen[cc] + 1
      /\ \A x \in Members(S, v) : x # cc => s.seen[x] = r.seen[x]
  BY <1>2, <1>3, <1>7
<1>10. IsSeveral(S, cc) => /\ Len(s.e.val[cc]) = Len(r.e.val[cc]) + 1
                           /\ s.e.val[cc][Len(r.e.val[cc]) + 1] = got.e
                           /\ \A k \in 1 .. Len(r.e.val[cc]) : s.e.val[cc][k] = r.e.val[cc][k]
  BY <1>2, <1>9, AppendIs
<1>11. ASSUME NEW j \in 1 .. i PROVE Tells(S, s.e, sub, j, nested)
  <2>1. Tells(S, r.e, sub, j, nested) /\ s.e.journal[j] = r.e.journal[j]
    BY <1>8 DEF Took
  <2> DEFINE x == sub[j].cc
  <2>2. IsEntry(S, v, r.e, j) /\ r.e.journal[j].cc = x
    BY <1>2, <2>1 DEF IsSoundReading, IsSound, Tells
  <2>3. CASE r.e.journal[j].known = FALSE
    BY <1>7, <2>1, <2>3 DEF Tells
  <2>4. CASE r.e.journal[j].known = TRUE
    <3>1. x \in Members(S, v)
      BY <2>2, <2>4 DEF IsEntry, KnownEntry, UnknownEntry
    <3>2. CASE x # cc
      <4>1. s.e.val[x] = r.e.val[x]
        BY <1>9, <3>1, <3>2
      <4> QED BY <2>1, <2>4, <4>1 DEF Tells
    <3>3. CASE x = cc /\ IsSeveral(S, cc)
      <4>1. ~IsNested(S, cc)
        BY <1>6, <3>3
      <4>2. r.e.journal[j].at \in Nat
        <5>1. j - 1 \in Nat
          OBVIOUS
        <5>2. Brought(r.e.journal, j - 1, r.e.journal[j].cc) \in Nat
          BY <5>1, BringingIsFinite
        <5> QED BY <2>2, <5>2 DEF IsEntry, KnownEntry, UnknownEntry
      <4>3. r.e.journal[j].at < Len(r.e.val[cc]) /\ r.e.val[cc][r.e.journal[j].at + 1] = sub[j].pay
        BY <2>1, <2>4, <3>3 DEF Tells
      <4>4. Len(r.e.val[cc]) \in Nat
        BY <1>2, <3>3
      <4>5. r.e.journal[j].at + 1 \in 1 .. Len(r.e.val[cc]) /\ r.e.journal[j].at < Len(s.e.val[cc])
        <5> DEFINE at == r.e.journal[j].at
                   n == Len(r.e.val[cc])
        <5>1. at \in Nat /\ at < n /\ n \in Nat /\ Len(s.e.val[cc]) = n + 1
          BY <1>10, <3>3, <4>2, <4>3, <4>4
        <5> HIDE DEF at, n
        <5>2. at + 1 \in 1 .. n /\ at < n + 1
          BY <5>1
        <5> QED BY <5>1, <5>2 DEF at, n
      <4>6. s.e.val[cc][r.e.journal[j].at + 1] = sub[j].pay
        BY <1>10, <3>3, <4>3, <4>5
      <4> QED BY <2>1, <2>4, <3>3, <4>1, <4>5, <4>6 DEF Tells
    <3>4. CASE x = cc /\ ~IsSeveral(S, cc)
      <4>1. sub[j].cc # cc
        BY <1>3, <1>4, <3>4 DEF Took
      <4> QED BY <3>4, <4>1
    <3> QED BY <3>2, <3>3, <3>4
  <2>5. r.e.journal[j].known = TRUE \/ r.e.journal[j].known = FALSE
    BY <2>2 DEF IsEntry, KnownEntry, UnknownEntry
  <2> QED BY <2>3, <2>4, <2>5
<1>12. Tells(S, s.e, sub, i + 1, nested)
  <2>1. entry.known = TRUE /\ entry.cc = cc /\ entry.at = r.seen[cc] /\ c = sub[i + 1] /\ cc = sub[i + 1].cc
    BY DEF c, cc
  <2> HIDE DEF entry
  <2>2. CASE IsSeveral(S, cc)
    <3>1. Len(r.e.val[cc]) \in Nat /\ ~IsNested(S, cc) /\ got.e = c.pay
      BY <1>2, <1>5, <1>6, <2>2
    <3> DEFINE n == Len(r.e.val[cc])
    <3>2. entry.at < Len(s.e.val[cc]) /\ s.e.val[cc][entry.at + 1] = c.pay
      <4>1. entry.at = n /\ n \in Nat /\ Len(s.e.val[cc]) = n + 1 /\ s.e.val[cc][n + 1] = c.pay
        BY <1>2, <1>10, <2>1, <2>2, <3>1
      <4> HIDE DEF n
      <4> QED BY <4>1
    <3> QED BY <1>8, <2>1, <2>2, <3>1, <3>2 DEF Tells
  <2>3. CASE ~IsSeveral(S, cc)
    <3>1. s.e.val[cc] = got.e
      BY <1>9, <2>3
    <3>2. \A k \in 1 .. i : sub[k].cc # cc
      BY <1>3, <1>4, <2>3 DEF Took
    <3>3. \A k \in 1 .. (i + 1) - 1 : sub[k].cc # cc
      BY <3>2
    <3> QED BY <1>5, <1>6, <1>8, <2>1, <2>3, <3>1, <3>3 DEF Tells
  <2> QED BY <2>2, <2>3
<1>13. \A j \in 1 .. i + 1 : Tells(S, s.e, sub, j, nested)
  <2>1. \A j \in 1 .. i + 1 : j \in 1 .. i \/ j = i + 1
    OBVIOUS
  <2> QED BY <1>11, <1>12, <2>1
<1>14. ASSUME NEW x \in Members(S, v), ~IsSeveral(S, x), s.seen[x] = 0
       PROVE  s.e.val[x] = start.val[x] /\ \A k \in 1 .. i + 1 : sub[k].cc # x
  <2>1. x # cc
    BY <1>2, <1>9, <1>14
  <2>2. r.seen[x] = 0 /\ s.e.val[x] = r.e.val[x]
    BY <1>9, <1>14, <2>1
  <2>3. r.e.val[x] = start.val[x] /\ \A k \in 1 .. i : sub[k].cc # x
    BY <1>14, <2>2 DEF Took
  <2>4. \A k \in 1 .. i + 1 : k \in 1 .. i \/ k = i + 1
    OBVIOUS
  <2> QED BY <2>1, <2>2, <2>3, <2>4 DEF c, cc
<1>15. s.e.head = start.head /\ s.e.rest = start.rest
  BY <1>7 DEF Took
<1>16. Took(S, v, start, sub, nested, s, i + 1)
  BY <1>8, <1>13, <1>14, <1>15 DEF Took
<1> QED BY <1>16 DEF s, c, cc

---------------------------------------------------------------------------
(* A whole stream.                                                          *)

HasHead(S, e) == S.header => e.head # <<>>

\* An entity nothing was read into and no member was added to.
IsNew(S, v, e) == /\ IsSound(S, v, e)
                  /\ HasHead(S, e)
                  /\ e.journal = <<>> /\ e.unknown = <<>> /\ e.rest = "none"
                  /\ \A cc \in Members(S, v) :
                       /\ IsSeveral(S, cc) => e.val[cc] = <<>>
                       /\ ~IsSeveral(S, cc) /\ ~IsNested(S, cc) => e.val[cc] = Default(S, cc)

\* What the members that nest a stream hold.
NestedFrom(S, v, start, sub, nested, e) ==
    \A cc \in Members(S, v) : IsNested(S, cc) =>
        \/ e.val[cc] = start.val[cc]
        \/ e.val[cc] = nested[cc].e /\ \E i \in 1 .. Len(sub) : sub[i].cc = cc

LEMMA ReadChunkNests ==
    ASSUME NEW S, NEW v, NEW start, NEW sub, NEW nested, NEW r, NEW i \in 1 .. Len(sub), IsSchema(S),
           IsSoundReading(S, v, r), NestedErrs(S, v, nested, sub[i].cc),
           NestedFrom(S, v, start, sub, nested, r.e)
    PROVE  NestedFrom(S, v, start, sub, nested, ReadChunk(S, v, r, sub[i], nested).e)
<1> DEFINE c == sub[i]
           s == ReadChunk(S, v, r, c, nested)
           got == GotOf(S, r, c, nested)
<1>1. \/ s = r
      \/ s = Preserve(r, c)
      \/ c.cc \in Members(S, v) /\ s = Keep(S, r, c.cc, got)
  BY ReadChunkCases
<1>2. r.e.val = [x \in Members(S, v) |-> r.e.val[x]]
  BY DEF IsSoundReading, IsSound, IsFlat
<1>3. NestedErrs(S, v, nested, c.cc)
  OBVIOUS
<1>4. c.cc \in Members(S, v) /\ IsNested(S, c.cc) => got = nested[c.cc] /\ ~IsSeveral(S, c.cc)
  BY <1>3, GotIs DEF IsSchema, IsNested
<1> HIDE DEF s, got
<1>5. CASE s = Preserve(r, c)
  <2>1. IsPreserved(r, c, s)
    BY <1>5, PreserveIs
  <2>2. s.e.val = r.e.val
    BY <2>1 DEF IsPreserved
  <2>3. NestedFrom(S, v, start, sub, nested, s.e)
    BY <2>2 DEF NestedFrom
  <2> QED BY <2>3 DEF s
<1>6. CASE c.cc \in Members(S, v) /\ s = Keep(S, r, c.cc, got)
  <2>1. IsKept(S, r, c.cc, got, s)
    BY <1>6, KeepIs
  <2>2. /\ s.e.val[c.cc] = IF IsSeveral(S, c.cc) THEN Append(r.e.val[c.cc], got.e) ELSE got.e
        /\ \A x \in Members(S, v) : x # c.cc => s.e.val[x] = r.e.val[x]
    BY <1>2, <1>6, <2>1 DEF IsKept
  <2>3. ASSUME NEW x \in Members(S, v), IsNested(S, x)
        PROVE  \/ s.e.val[x] = start.val[x]
               \/ s.e.val[x] = nested[x].e /\ \E k \in 1 .. Len(sub) : sub[k].cc = x
    <3>1. CASE x = c.cc
      BY <1>4, <1>6, <2>2, <2>3, <3>1
    <3>2. CASE x # c.cc
      BY <2>2, <2>3, <3>2 DEF NestedFrom
    <3> QED BY <3>1, <3>2
  <2>4. NestedFrom(S, v, start, sub, nested, s.e)
    BY <2>3 DEF NestedFrom
  <2> QED BY <2>4 DEF s
<1>7. CASE s = r
  BY <1>7 DEF s
<1> QED BY <1>1, <1>5, <1>6, <1>7

LEMMA ReadingsTake ==
    ASSUME NEW S, NEW v, NEW start, NEW sub, NEW nested, IsSchema(S), IsSoundReading(S, v, start),
           start.err = "none", start.e.journal = <<>>, Len(sub) \in Nat,
           \A i \in 1 .. Len(sub) : ChunkOf(S, sub[i]) /\ NestedErrs(S, v, nested, sub[i].cc)
    PROVE  LET r == Readings(S, v, start, sub, nested)[Len(sub)]
           IN  /\ IsSoundReading(S, v, r)
               /\ NestedFrom(S, v, start.e, sub, nested, r.e) /\ r.e.head = start.e.head
               /\ r.err = "none" => Took(S, v, start.e, sub, nested, r, Len(sub))
<1> DEFINE r == Readings(S, v, start, sub, nested)
           n == Len(sub)
           Fine(i) == /\ IsSoundReading(S, v, r[i])
                      /\ NestedFrom(S, v, start.e, sub, nested, r[i].e) /\ r[i].e.head = start.e.head
                      /\ r[i].err = "none" => Took(S, v, start.e, sub, nested, r[i], i)
           T == {i \in 0 .. n : Fine(i)}
<1>1. r[0] = start /\ \A i \in 1 .. n : r[i] = ReadChunk(S, v, r[i - 1], sub[i], nested)
  BY ReadingsAre
<1>2. n \in Nat
  OBVIOUS
<1> HIDE DEF r, n
<1>3. Fine(0)
  <2>1. Took(S, v, start.e, sub, nested, start, 0)
    BY EmptyIs DEF Took
  <2>2. NestedFrom(S, v, start.e, sub, nested, start.e)
    BY DEF NestedFrom
  <2> QED BY <1>1, <2>1, <2>2
<1>4. ASSUME NEW i \in 0 .. n - 1, Fine(i) PROVE Fine(i + 1)
  <2> DEFINE a == r[i]
             b == r[i + 1]
             c == sub[i + 1]
             got == GotOf(S, a, c, nested)
  <2>1. i + 1 \in 1 .. n /\ i \in Nat /\ b = ReadChunk(S, v, a, c, nested)
    <3>1. i + 1 \in 1 .. n /\ i \in Nat /\ (i + 1) - 1 = i
      BY <1>2
    <3> QED BY <1>1, <3>1
  <2>2. ChunkOf(S, c) /\ NestedErrs(S, v, nested, c.cc)
    BY <2>1 DEF n
  <2>3. IsSoundReading(S, v, a) /\ NestedFrom(S, v, start.e, sub, nested, a.e)
    BY <1>4
  <2>4. IsSoundReading(S, v, b)
    BY <2>1, <2>2, <2>3, ReadChunkIsSound
  <2>5. NestedFrom(S, v, start.e, sub, nested, b.e)
    BY <2>1, <2>2, <2>3, ReadChunkNests DEF n
  <2>6. b.e.head = start.e.head
    <3>1. b = a \/ b = Preserve(a, c) \/ (c.cc \in Members(S, v) /\ b = Keep(S, a, c.cc, got))
      BY <2>1, <2>3, ReadChunkCases
    <3>2. /\ b = Preserve(a, c) => IsPreserved(a, c, b)
          /\ b = Keep(S, a, c.cc, got) /\ c.cc \in Members(S, v) => IsKept(S, a, c.cc, got, b)
      BY <2>3, PreserveIs, KeepIs
    <3>3. b.e.head = a.e.head
      BY <3>1, <3>2 DEF IsPreserved, IsKept
    <3> QED BY <1>4, <3>3
  <2>7. ASSUME b.err = "none" PROVE Took(S, v, start.e, sub, nested, b, i + 1)
    <3>1. \/ a.err # "none" /\ b = a
          \/ /\ a.err = "none" /\ b = Preserve(a, c)
             /\ NoRoom(S, v, c.cc, Brought(a.e.journal, Len(a.e.journal), c.cc))
          \/ /\ a.err = "none" /\ b = Keep(S, a, c.cc, got)
             /\ c.cc \in Members(S, v) /\ ~NoRoom(S, v, c.cc, a.seen[c.cc])
      BY <2>1, <2>3, ReadChunkCases
    <3>2. a.err = "none" /\ Took(S, v, start.e, sub, nested, a, i)
      BY <1>4, <2>7, <3>1
    <3>3. CASE b = Preserve(a, c) /\ NoRoom(S, v, c.cc, Brought(a.e.journal, Len(a.e.journal), c.cc))
      BY <2>1, <2>3, <3>2, <3>3, PreserveTakes
    <3>4. CASE /\ b = Keep(S, a, c.cc, got)
               /\ c.cc \in Members(S, v) /\ ~NoRoom(S, v, c.cc, a.seen[c.cc])
      <4>1. /\ IsNested(S, c.cc) => got = nested[c.cc]
            /\ ~IsNested(S, c.cc) /\ got.err = "none" => got.e = c.pay
        BY <2>2, <2>3, <3>4, GotIs
      <4>2. IsKept(S, a, c.cc, got, b)
        BY <2>3, <3>4, KeepIs
      <4>3. got.err = "none"
        BY <2>7, <4>2 DEF IsKept
      <4> HIDE DEF got, a, b
      <4> QED BY <2>1, <2>3, <3>2, <3>4, <4>1, <4>3, KeepTakes
    <3> QED BY <3>1, <3>2, <3>3, <3>4
  <2> QED BY <2>4, <2>5, <2>6, <2>7
<1>5. \A i \in 0 .. n : i \in T
  <2>1. 0 \in T
    BY <1>2, <1>3
  <2>2. \A i \in 0 .. n - 1 : i \in T => i + 1 \in T
    <3> SUFFICES ASSUME NEW i \in 0 .. n - 1, i \in T PROVE i + 1 \in T
      OBVIOUS
    <3>1. Fine(i) /\ i + 1 \in 0 .. n
      BY <1>2
    <3> HIDE DEF Fine
    <3> QED BY <1>4, <3>1
  <2> HIDE DEF T
  <2> QED BY <1>2, <2>1, <2>2, CountUp
<1>6. n \in 0 .. n
  BY <1>2
<1>7. Fine(n)
  BY <1>5, <1>6
<1> QED BY <1>7 DEF r, n

\* e has all of the file, each chunk where its journal says.
IsCopy(S, v, new, pay, nested, e) ==
    /\ Len(e.journal) = Len(pay.sub)
    /\ e.head = pay.els /\ e.rest = pay.rest
    /\ \A j \in 1 .. Len(pay.sub) : Tells(S, e, pay.sub, j, nested)
    /\ \A cc \in Members(S, v) :
         /\ IsSeveral(S, cc) => Brought(e.journal, Len(e.journal), cc) = Len(e.val[cc])
         /\ ~IsSeveral(S, cc) /\ Brought(e.journal, Len(e.journal), cc) = 0 => e.val[cc] = new.val[cc]
         /\ cc \in S.required => Brought(e.journal, Len(e.journal), cc) # 0

LEMMA ReadStreamIs ==
    ASSUME NEW S, NEW v, NEW e, NEW pay, NEW nested, IsSchema(S), IsNew(S, v, e), IsStream(pay),
           \A i \in 1 .. Len(pay.sub) : ChunkOf(S, pay.sub[i]) /\ NestedErrs(S, v, nested, pay.sub[i].cc)
    PROVE  LET r == ReadStream(S, v, e, pay, nested)
           IN  /\ r = [err |-> r.err, e |-> r.e]
               /\ r.err \in {"none", "ChunkSizeMismatch", "ChunkTruncated", "ChunkMissing"}
               /\ IsSound(S, v, r.e) /\ HasAll(S, v, r.e) /\ HasHead(S, r.e)
               /\ NestedFrom(S, v, e, pay.sub, nested, r.e)
               /\ r.err = "none" => IsCopy(S, v, e, pay, nested, r.e)
<1> DEFINE r == ReadStream(S, v, e, pay, nested)
           headed == [e EXCEPT !.head = pay.els]
           start == [err |-> "none", seen |-> [cc \in Members(S, v) |-> 0], e |-> headed]
           scan == Readings(S, v, start, pay.sub, nested)[Len(pay.sub)]
           errs == {"none", "ChunkSizeMismatch", "ChunkTruncated", "ChunkMissing"}
<1>1. /\ IsSound(S, v, e) /\ e.journal = <<>> /\ e.unknown = <<>> /\ e.rest = "none"
      /\ \A cc \in Members(S, v) : IsSeveral(S, cc) => e.val[cc] = <<>>
  BY DEF IsNew
<1>2. e = [head |-> e.head, val |-> e.val, journal |-> e.journal, unknown |-> e.unknown, rest |-> e.rest]
  BY <1>1 DEF IsSound, IsFlat
<1>3. headed = [head |-> pay.els, val |-> e.val, journal |-> e.journal, unknown |-> e.unknown, rest |-> e.rest]
  BY <1>2
<1> HIDE DEF headed
<1>4. IsSound(S, v, headed)
  <2>1. IsFlat(S, v, headed)
    BY <1>1, <1>3 DEF IsSound, IsFlat
  <2>2. Len(headed.journal) = 0
    BY <1>1, <1>3, EmptyIs
  <2>3. \A i \in 1 .. Len(headed.journal) : IsEntry(S, v, headed, i)
    BY <2>2
  <2>4. \A cc \in Members(S, v) : IsMember(S, headed, cc)
    BY <1>1, <1>3 DEF IsSound, IsMember
  <2> QED BY <2>1, <2>3, <2>4 DEF IsSound
<1>5. \A cc : Brought(headed.journal, Len(headed.journal), cc) = 0
  BY <1>1, <1>3, EmptyIs, NothingBrought
<1>6. IsSoundReading(S, v, start)
  <2>1. \A cc \in Members(S, v) : IsSeveral(S, cc) => Len(headed.val[cc]) = 0
    BY <1>1, <1>3, EmptyIs
  <2> QED BY <1>4, <1>5, <2>1 DEF IsSoundReading
<1>7. Len(pay.sub) \in Nat
  BY DEF IsStream
<1>8. /\ IsSoundReading(S, v, scan)
      /\ NestedFrom(S, v, headed, pay.sub, nested, scan.e) /\ scan.e.head = headed.head
      /\ scan.err = "none" => Took(S, v, headed, pay.sub, nested, scan, Len(pay.sub))
  <2>1. start.err = "none" /\ start.e = headed /\ start.e.journal = <<>>
    BY <1>1, <1>3
  <2> HIDE DEF start
  <2> QED BY <1>6, <1>7, <2>1, ReadingsTake
<1>9. r = IF S.header /\ pay.els = <<>> THEN [err |-> "ChunkTruncated", e |-> e]
          ELSE EndOfStream(S, v, pay, scan)
  BY DEF ReadStream, headed
<1>10. /\ IsSound(S, v, scan.e) /\ HasAll(S, v, scan.e) /\ scan.err \in errs
       /\ ~(S.header /\ pay.els = <<>>) => HasHead(S, scan.e)
  BY <1>3, <1>8 DEF IsSoundReading, HasAll, HasHead
<1>11. NestedFrom(S, v, e, pay.sub, nested, scan.e)
  BY <1>3, <1>8 DEF NestedFrom
<1> HIDE DEF scan, r
<1>12. CASE S.header /\ pay.els = <<>>
  <2>1. r = [err |-> "ChunkTruncated", e |-> e]
    BY <1>9, <1>12
  <2>2. HasAll(S, v, e)
    <3>1. \A cc : Brought(e.journal, Len(e.journal), cc) = 0
      BY <1>3, <1>5
    <3> QED BY <1>1, <3>1, EmptyIs DEF HasAll
  <2>3. NestedFrom(S, v, e, pay.sub, nested, e)
    BY DEF NestedFrom
  <2>4. HasHead(S, e)
    BY DEF IsNew
  <2> QED BY <1>1, <2>1, <2>2, <2>3, <2>4 DEF r
<1>13. CASE ~(S.header /\ pay.els = <<>>)
  <2> DEFINE missing == \E cc \in Required(S, v) : scan.seen[cc] = 0
             stray == [scan.e EXCEPT !.rest = "stray"]
  <2>1. CASE scan.err # "none"
    <3>1. r = [err |-> scan.err, e |-> scan.e]
      BY <1>9, <1>13, <2>1 DEF EndOfStream
    <3> QED BY <1>10, <1>11, <1>13, <2>1, <3>1 DEF r
  <2>2. CASE scan.err = "none" /\ pay.rest = "overrun"
    <3>1. r = [err |-> "ChunkTruncated", e |-> scan.e]
      BY <1>9, <1>13, <2>2 DEF EndOfStream
    <3> QED BY <1>10, <1>11, <1>13, <3>1 DEF r
  <2>3. CASE scan.err = "none" /\ pay.rest # "overrun"
    <3>1. r = [err |-> IF missing THEN "ChunkMissing" ELSE "none",
               e |-> IF pay.rest = "stray" THEN stray ELSE scan.e]
      BY <1>9, <1>13, <2>3 DEF EndOfStream
    <3>2. /\ scan.e = [head |-> scan.e.head, val |-> scan.e.val, journal |-> scan.e.journal,
                       unknown |-> scan.e.unknown, rest |-> scan.e.rest]
          /\ scan.e.head = pay.els /\ scan.e.rest = "none"
      BY <1>1, <1>3, <1>8, <2>3 DEF IsSoundReading, IsSound, IsFlat, Took
    <3>3. /\ r.e = [head |-> r.e.head, val |-> r.e.val, journal |-> r.e.journal,
                    unknown |-> r.e.unknown, rest |-> r.e.rest]
          /\ r.e.head = pay.els /\ r.e.val = scan.e.val /\ r.e.journal = scan.e.journal
          /\ r.e.unknown = scan.e.unknown /\ r.e.rest = pay.rest
      BY <2>3, <3>1, <3>2 DEF IsStream
    <3>4. IsSound(S, v, r.e)
      <4>1. r.e.rest \in {"none", "stray"}
        BY <2>3, <3>3 DEF IsStream
      <4>2. IsFlat(S, v, r.e)
        BY <1>10, <3>3, <4>1 DEF IsSound, IsFlat
      <4>3. \A i \in 1 .. Len(r.e.journal) : IsEntry(S, v, r.e, i)
        BY <1>10, <3>3 DEF IsSound, IsEntry, UnknownEntry
      <4>4. \A cc \in Members(S, v) : IsMember(S, r.e, cc)
        BY <1>10, <3>3 DEF IsSound, IsMember
      <4> QED BY <4>2, <4>3, <4>4 DEF IsSound
    <3>5. HasAll(S, v, r.e)
      BY <1>10, <3>3 DEF HasAll
    <3>6. NestedFrom(S, v, e, pay.sub, nested, r.e)
      BY <1>11, <3>3 DEF NestedFrom
    <3>7. ASSUME r.err = "none" PROVE IsCopy(S, v, e, pay, nested, r.e)
      <4>1. ~missing
        BY <3>1, <3>7
      <4>2. \A j \in 1 .. Len(pay.sub) : Tells(S, r.e, pay.sub, j, nested)
        BY <1>8, <2>3, <3>3 DEF Took, Tells
      <4>3. ASSUME NEW cc \in Members(S, v)
            PROVE  /\ IsSeveral(S, cc) => Brought(r.e.journal, Len(r.e.journal), cc) = Len(r.e.val[cc])
                   /\ ~IsSeveral(S, cc) /\ Brought(r.e.journal, Len(r.e.journal), cc) = 0
                        => r.e.val[cc] = e.val[cc]
                   /\ cc \in S.required => Brought(r.e.journal, Len(r.e.journal), cc) # 0
        <5>1. scan.seen[cc] = Brought(r.e.journal, Len(r.e.journal), cc)
          BY <1>8, <3>3 DEF IsSoundReading
        <5>2. IsSeveral(S, cc) => scan.seen[cc] = Len(r.e.val[cc])
          BY <1>8, <2>3, <3>3 DEF IsSoundReading
        <5>3. ~IsSeveral(S, cc) /\ scan.seen[cc] = 0 => r.e.val[cc] = headed.val[cc]
          BY <1>8, <2>3, <3>3 DEF Took
        <5>4. cc \in S.required => scan.seen[cc] # 0
          BY <4>1 DEF Required
        <5> QED BY <1>3, <5>1, <5>2, <5>3, <5>4
      <4>4. Len(r.e.journal) = Len(pay.sub)
        BY <1>8, <2>3, <3>3 DEF Took
      <4> QED BY <3>3, <4>2, <4>3, <4>4 DEF IsCopy
    <3>8. r = [err |-> r.err, e |-> r.e] /\ r.err \in errs
      BY <3>1
    <3>9. HasHead(S, r.e)
      BY <1>13, <3>3 DEF HasHead
    <3> QED BY <3>4, <3>5, <3>6, <3>7, <3>8, <3>9 DEF r
  <2> QED BY <2>1, <2>2, <2>3
<1> QED BY <1>12, <1>13

---------------------------------------------------------------------------
(* The recursive definitions of writing are what they say.                  *)

IsEmissions(f, S, e, w, cc, further, streams, n) ==
    f = [i \in 0 .. n |-> IF i = 0 THEN w ELSE Emit(S, e, f[i - 1], cc, further[i], streams)]

LEMMA EmissionsExist ==
    ASSUME NEW S, NEW e, NEW w, NEW cc, NEW further, NEW streams, NEW n \in Nat
    PROVE  \E f : IsEmissions(f, S, e, w, cc, further, streams, n)
<1> DEFINE T == {i \in 0 .. n : \E f : IsEmissions(f, S, e, w, cc, further, streams, i)}
<1>1. 0 \in T
  <2>1. IsEmissions([i \in 0 .. 0 |-> w], S, e, w, cc, further, streams, 0)
    BY DEF IsEmissions
  <2> QED BY <2>1
<1>2. ASSUME NEW i \in 0 .. n - 1, i \in T PROVE i + 1 \in T
  <2>1. PICK f : IsEmissions(f, S, e, w, cc, further, streams, i)
    BY <1>2
  <2> DEFINE g == [j \in 0 .. i + 1 |-> IF j = i + 1 THEN Emit(S, e, f[i], cc, further[i + 1], streams)
                                                   ELSE f[j]]
  <2>2. \A j \in 0 .. i : g[j] = f[j]
    OBVIOUS
  <2>3. \A j \in 0 .. i : f[j] = IF j = 0 THEN w ELSE Emit(S, e, f[j - 1], cc, further[j], streams)
    BY <2>1 DEF IsEmissions
  <2>4. ASSUME NEW j \in 0 .. i + 1
        PROVE  g[j] = IF j = 0 THEN w ELSE Emit(S, e, g[j - 1], cc, further[j], streams)
    <3>1. CASE j \in 0 .. i
      <4>1. j # 0 => j - 1 \in 0 .. i
        BY <3>1
      <4> HIDE DEF g
      <4> QED BY <2>2, <2>3, <3>1, <4>1
    <3>2. CASE j = i + 1
      <4>1. g[j] = Emit(S, e, f[i], cc, further[i + 1], streams) /\ g[i] = f[i] /\ j - 1 = i /\ j # 0
        BY <2>2, <3>2
      <4> HIDE DEF g
      <4> QED BY <3>2, <4>1
    <3> QED BY <3>1, <3>2
  <2>5. g = [j \in 0 .. i + 1 |-> g[j]]
    OBVIOUS
  <2>6. IsEmissions(g, S, e, w, cc, further, streams, i + 1)
    <3> HIDE DEF g
    <3> QED BY <2>4, <2>5 DEF IsEmissions
  <2> QED BY <2>6
<1>3. \A i \in 0 .. n : i \in T
  <2> HIDE DEF T
  <2> QED BY <1>1, <1>2, CountUp
<1> QED BY <1>3

LEMMA EmissionsAre ==
    ASSUME NEW S, NEW e, NEW w, NEW cc, NEW further, NEW streams, Len(further) \in Nat
    PROVE  LET r == Emissions(S, e, w, cc, further, streams)
           IN  /\ r[0] = w
               /\ \A i \in 1 .. Len(further) : r[i] = Emit(S, e, r[i - 1], cc, further[i], streams)
<1> DEFINE r == Emissions(S, e, w, cc, further, streams)
<1>1. \E f : IsEmissions(f, S, e, w, cc, further, streams, Len(further))
  BY EmissionsExist
<1>2. r = CHOOSE f : IsEmissions(f, S, e, w, cc, further, streams, Len(further))
  BY DEF Emissions, IsEmissions
<1>3. IsEmissions(r, S, e, w, cc, further, streams, Len(further))
  <2> HIDE DEF r
  <2> QED BY <1>1, <1>2
<1> HIDE DEF r
<1>4. /\ r[0] = w
      /\ \A i \in 1 .. Len(further) : r[i] = Emit(S, e, r[i - 1], cc, further[i], streams)
  BY <1>3 DEF IsEmissions
<1> QED BY <1>4 DEF r

IsReplays(f, S, e, start, journal, streams, n) ==
    f = [i \in 0 .. n |-> IF i = 0 THEN start ELSE Replay(S, e, f[i - 1], journal[i], streams)]

LEMMA ReplaysExist ==
    ASSUME NEW S, NEW e, NEW start, NEW journal, NEW streams, NEW n \in Nat
    PROVE  \E f : IsReplays(f, S, e, start, journal, streams, n)
<1> DEFINE T == {i \in 0 .. n : \E f : IsReplays(f, S, e, start, journal, streams, i)}
<1>1. 0 \in T
  <2>1. IsReplays([i \in 0 .. 0 |-> start], S, e, start, journal, streams, 0)
    BY DEF IsReplays
  <2> QED BY <2>1
<1>2. ASSUME NEW i \in 0 .. n - 1, i \in T PROVE i + 1 \in T
  <2>1. PICK f : IsReplays(f, S, e, start, journal, streams, i)
    BY <1>2
  <2> DEFINE g == [j \in 0 .. i + 1 |-> IF j = i + 1 THEN Replay(S, e, f[i], journal[i + 1], streams)
                                                   ELSE f[j]]
  <2>2. \A j \in 0 .. i : g[j] = f[j]
    OBVIOUS
  <2>3. \A j \in 0 .. i : f[j] = IF j = 0 THEN start ELSE Replay(S, e, f[j - 1], journal[j], streams)
    BY <2>1 DEF IsReplays
  <2>4. ASSUME NEW j \in 0 .. i + 1
        PROVE  g[j] = IF j = 0 THEN start ELSE Replay(S, e, g[j - 1], journal[j], streams)
    <3>1. CASE j \in 0 .. i
      <4>1. j # 0 => j - 1 \in 0 .. i
        BY <3>1
      <4> HIDE DEF g
      <4> QED BY <2>2, <2>3, <3>1, <4>1
    <3>2. CASE j = i + 1
      <4>1. g[j] = Replay(S, e, f[i], journal[i + 1], streams) /\ g[i] = f[i] /\ j - 1 = i /\ j # 0
        BY <2>2, <3>2
      <4> HIDE DEF g
      <4> QED BY <3>2, <4>1
    <3> QED BY <3>1, <3>2
  <2>5. g = [j \in 0 .. i + 1 |-> g[j]]
    OBVIOUS
  <2>6. IsReplays(g, S, e, start, journal, streams, i + 1)
    <3> HIDE DEF g
    <3> QED BY <2>4, <2>5 DEF IsReplays
  <2> QED BY <2>6
<1>3. \A i \in 0 .. n : i \in T
  <2> HIDE DEF T
  <2> QED BY <1>1, <1>2, CountUp
<1> QED BY <1>3

LEMMA ReplaysAre ==
    ASSUME NEW S, NEW e, NEW start, NEW journal, NEW streams, Len(journal) \in Nat
    PROVE  LET r == Replays(S, e, start, journal, streams)
           IN  /\ r[0] = start
               /\ \A i \in 1 .. Len(journal) : r[i] = Replay(S, e, r[i - 1], journal[i], streams)
<1> DEFINE r == Replays(S, e, start, journal, streams)
<1>1. \E f : IsReplays(f, S, e, start, journal, streams, Len(journal))
  BY ReplaysExist
<1>2. r = CHOOSE f : IsReplays(f, S, e, start, journal, streams, Len(journal))
  BY DEF Replays, IsReplays
<1>3. IsReplays(r, S, e, start, journal, streams, Len(journal))
  <2> HIDE DEF r
  <2> QED BY <1>1, <1>2
<1> HIDE DEF r
<1>4. /\ r[0] = start
      /\ \A i \in 1 .. Len(journal) : r[i] = Replay(S, e, r[i - 1], journal[i], streams)
  BY <1>3 DEF IsReplays
<1> QED BY <1>4 DEF r

IsCompletions(f, S, v, e, start, streams, n) ==
    f = [i \in 0 .. n |-> IF i = 0 THEN start ELSE AddUnjournaled(S, v, e, f[i - 1], S.order[i], streams)]

LEMMA CompletionsExist ==
    ASSUME NEW S, NEW v, NEW e, NEW start, NEW streams, NEW n \in Nat
    PROVE  \E f : IsCompletions(f, S, v, e, start, streams, n)
<1> DEFINE T == {i \in 0 .. n : \E f : IsCompletions(f, S, v, e, start, streams, i)}
<1>1. 0 \in T
  <2>1. IsCompletions([i \in 0 .. 0 |-> start], S, v, e, start, streams, 0)
    BY DEF IsCompletions
  <2> QED BY <2>1
<1>2. ASSUME NEW i \in 0 .. n - 1, i \in T PROVE i + 1 \in T
  <2>1. PICK f : IsCompletions(f, S, v, e, start, streams, i)
    BY <1>2
  <2> DEFINE g == [j \in 0 .. i + 1 |-> IF j = i + 1 THEN AddUnjournaled(S, v, e, f[i], S.order[i + 1], streams)
                                                   ELSE f[j]]
  <2>2. \A j \in 0 .. i : g[j] = f[j]
    OBVIOUS
  <2>3. \A j \in 0 .. i : f[j] = IF j = 0 THEN start ELSE AddUnjournaled(S, v, e, f[j - 1], S.order[j], streams)
    BY <2>1 DEF IsCompletions
  <2>4. ASSUME NEW j \in 0 .. i + 1
        PROVE  g[j] = IF j = 0 THEN start ELSE AddUnjournaled(S, v, e, g[j - 1], S.order[j], streams)
    <3>1. CASE j \in 0 .. i
      <4>1. j # 0 => j - 1 \in 0 .. i
        BY <3>1
      <4> HIDE DEF g
      <4> QED BY <2>2, <2>3, <3>1, <4>1
    <3>2. CASE j = i + 1
      <4>1. g[j] = AddUnjournaled(S, v, e, f[i], S.order[i + 1], streams) /\ g[i] = f[i] /\ j - 1 = i /\ j # 0
        BY <2>2, <3>2
      <4> HIDE DEF g
      <4> QED BY <3>2, <4>1
    <3> QED BY <3>1, <3>2
  <2>5. g = [j \in 0 .. i + 1 |-> g[j]]
    OBVIOUS
  <2>6. IsCompletions(g, S, v, e, start, streams, i + 1)
    <3> HIDE DEF g
    <3> QED BY <2>4, <2>5 DEF IsCompletions
  <2> QED BY <2>6
<1>3. \A i \in 0 .. n : i \in T
  <2> HIDE DEF T
  <2> QED BY <1>1, <1>2, CountUp
<1> QED BY <1>3

LEMMA CompletionsAre ==
    ASSUME NEW S, NEW v, NEW e, NEW start, NEW streams, Len(S.order) \in Nat
    PROVE  LET r == Completions(S, v, e, start, streams)
           IN  /\ r[0] = start
               /\ \A i \in 1 .. Len(S.order) : r[i] = AddUnjournaled(S, v, e, r[i - 1], S.order[i], streams)
<1> DEFINE r == Completions(S, v, e, start, streams)
<1>1. \E f : IsCompletions(f, S, v, e, start, streams, Len(S.order))
  BY CompletionsExist
<1>2. r = CHOOSE f : IsCompletions(f, S, v, e, start, streams, Len(S.order))
  BY DEF Completions, IsCompletions
<1>3. IsCompletions(r, S, v, e, start, streams, Len(S.order))
  <2> HIDE DEF r
  <2> QED BY <1>1, <1>2
<1> HIDE DEF r
<1>4. /\ r[0] = start
      /\ \A i \in 1 .. Len(S.order) : r[i] = AddUnjournaled(S, v, e, r[i - 1], S.order[i], streams)
  BY <1>3 DEF IsCompletions
<1> QED BY <1>4 DEF r

---------------------------------------------------------------------------
(* An entity that has all of a file is written as that file.                *)

IsWriting(S, v, w) ==
    /\ w = [err |-> w.err, out |-> w.out, written |-> w.written]
    /\ w.written = [cc \in Members(S, v) |-> w.written[cc]]

\* Written as far as the j-th entry of the journal: the first j chunks of sub.
Wrote(S, v, e, sub, w, j) ==
    /\ IsWriting(S, v, w)
    /\ w.err = "none" /\ IsSeq(w.out) /\ Len(w.out) = j
    /\ \A k \in 1 .. j : w.out[k] = sub[k]
    /\ \A cc \in Members(S, v) : w.written[cc] = Brought(e.journal, j, cc)

\* What is not the member itself is what the file had there.
StreamsAgree(S, e, sub, streams) ==
    \A j \in 1 .. Len(sub) : e.journal[j].known = TRUE =>
        /\ IsNested(S, sub[j].cc) => sub[j].cc \in DOMAIN streams
        /\ sub[j].cc \in DOMAIN streams => /\ ~IsSeveral(S, sub[j].cc)
                                           /\ streams[sub[j].cc] = [err |-> "none", pay |-> sub[j].pay]

LEMMA ReplayWrites ==
    ASSUME NEW S, NEW v, NEW e, NEW new, NEW pay, NEW nested, NEW streams, NEW w, NEW i \in Nat,
           IsSound(S, v, e), IsCopy(S, v, new, pay, nested, e), StreamsAgree(S, e, pay.sub, streams),
           i + 1 \in 1 .. Len(pay.sub), ChunkOf(S, pay.sub[i + 1]), Wrote(S, v, e, pay.sub, w, i)
    PROVE  Wrote(S, v, e, pay.sub, Replay(S, e, w, e.journal[i + 1], streams), i + 1)
<1> DEFINE j == i + 1
           c == pay.sub[j]
           entry == e.journal[j]
           x == Replay(S, e, w, entry, streams)
<1>1. Tells(S, e, pay.sub, j, nested) /\ entry.cc = c.cc /\ Len(e.journal) = Len(pay.sub)
  BY DEF IsCopy, Tells
<1>2. IsEntry(S, v, e, j)
  BY <1>1 DEF IsSound
<1>3. j - 1 = i /\ c = [cc |-> c.cc, pay |-> c.pay]
  BY DEF ChunkOf
<1>4. /\ w = [err |-> w.err, out |-> w.out, written |-> w.written]
      /\ w.written = [cc \in Members(S, v) |-> w.written[cc]]
      /\ w.err = "none" /\ IsSeq(w.out) /\ Len(w.out) = i
      /\ \A k \in 1 .. i : w.out[k] = pay.sub[k]
      /\ \A cc \in Members(S, v) : w.written[cc] = Brought(e.journal, i, cc)
  BY DEF Wrote, IsWriting
<1>5. \A cc : Brought(e.journal, j, cc) = IF entry.known /\ entry.cc = cc THEN Brought(e.journal, i, cc) + 1
                                          ELSE Brought(e.journal, i, cc)
  BY OneMoreBrought
<1>6. KnownEntry(S, v, entry, Brought(e.journal, i, c.cc)) \/ UnknownEntry(S, v, e, entry, Brought(e.journal, i, c.cc))
  BY <1>1, <1>2, <1>3 DEF IsEntry
<1>7. entry.known = TRUE \/ entry.known = FALSE
  BY <1>6 DEF KnownEntry, UnknownEntry
<1> HIDE DEF c, j, entry
<1>8. x.out = Append(w.out, c) => /\ IsSeq(x.out) /\ Len(x.out) = j
                                  /\ \A k \in 1 .. j : x.out[k] = pay.sub[k]
  <2> SUFFICES ASSUME x.out = Append(w.out, c)
               PROVE  IsSeq(x.out) /\ Len(x.out) = j /\ \A k \in 1 .. j : x.out[k] = pay.sub[k]
    OBVIOUS
  <2> HIDE DEF x
  <2>1. /\ IsSeq(x.out) /\ Len(x.out) = i + 1 /\ x.out[i + 1] = c
        /\ \A k \in 1 .. i : x.out[k] = w.out[k]
    BY <1>4, AppendIs
  <2>2. \A k \in 1 .. i + 1 : k \in 1 .. i \/ k = i + 1
    OBVIOUS
  <2> QED BY <1>4, <2>1, <2>2 DEF c, j
<1>9. CASE entry.known = TRUE
  <2>1. entry.at = Brought(e.journal, i, c.cc) /\ c.cc \in Members(S, v)
    BY <1>1, <1>6, <1>9 DEF KnownEntry, UnknownEntry
  <2>2. x = Emit(S, e, w, c.cc, entry.at, streams)
    BY <1>1, <1>9 DEF Replay
  <2>3. /\ IsNested(S, c.cc) => c.cc \in DOMAIN streams
        /\ c.cc \in DOMAIN streams => ~IsSeveral(S, c.cc) /\ streams[c.cc] = [err |-> "none", pay |-> c.pay]
    BY <1>9 DEF StreamsAgree, c, j, entry
  <2>4. /\ IsSeveral(S, c.cc) => /\ entry.at < Len(e.val[c.cc]) /\ e.val[c.cc][entry.at + 1] = c.pay
                                 /\ Len(e.val[c.cc]) \in Nat /\ entry.at \in Nat
        /\ ~IsSeveral(S, c.cc) /\ ~IsNested(S, c.cc) => e.val[c.cc] = c.pay
    <3>1. IsSeveral(S, c.cc) => IsSeq(e.val[c.cc])
      BY <2>1 DEF IsSound, IsMember, IsValues
    <3> QED BY <1>1, <1>9, <2>1, <3>1, SeqIs, BringingIsFinite DEF Tells, c, j, entry
  <2>5. ~(IsSeveral(S, c.cc) /\ entry.at >= Len(e.val[c.cc]))
    BY <2>4
  <2> DEFINE own == IF IsSeveral(S, c.cc) THEN e.val[c.cc][entry.at + 1] ELSE e.val[c.cc]
             out == IF c.cc \in DOMAIN streams THEN streams[c.cc] ELSE [err |-> "none", pay |-> own]
  <2>6. out = [err |-> "none", pay |-> c.pay]
    BY <2>3, <2>4
  <2>7. x = [err |-> out.err, out |-> Append(w.out, [cc |-> c.cc, pay |-> out.pay]),
             written |-> [w.written EXCEPT ![c.cc] = w.written[c.cc] + 1]]
    BY <1>4, <2>2, <2>5 DEF Emit
  <2> HIDE DEF out, x
  <2>8. /\ x = [err |-> x.err, out |-> x.out, written |-> x.written] /\ x.err = "none"
        /\ x.out = Append(w.out, c) /\ x.written = [w.written EXCEPT ![c.cc] = w.written[c.cc] + 1]
    BY <1>3, <2>6, <2>7
  <2>9. /\ x.written = [cc \in Members(S, v) |-> x.written[cc]]
        /\ x.written[c.cc] = w.written[c.cc] + 1
        /\ \A cc \in Members(S, v) : cc # c.cc => x.written[cc] = w.written[cc]
    BY <1>4, <2>1, <2>8
  <2>10. \A cc \in Members(S, v) : x.written[cc] = Brought(e.journal, j, cc)
    BY <1>1, <1>4, <1>5, <1>9, <2>1, <2>9
  <2>11. Wrote(S, v, e, pay.sub, x, j)
    BY <1>8, <2>8, <2>9, <2>10 DEF Wrote, IsWriting
  <2> QED BY <2>11 DEF x, entry, j
<1>10. CASE entry.known = FALSE
  <2>1. /\ e.unknown[entry.at + 1] = c /\ entry.at \in Nat /\ entry.at < Len(e.unknown)
    BY <1>1, <1>6, <1>10 DEF KnownEntry, UnknownEntry, Tells, c, j, entry
  <2>2. Len(e.unknown) \in Nat
    BY SeqIs DEF IsSound, IsFlat
  <2>3. ~(entry.at >= Len(e.unknown))
    BY <2>1, <2>2
  <2>4. x = [w EXCEPT !.out = Append(w.out, c)]
    BY <1>4, <1>10, <2>1, <2>3 DEF Replay
  <2> HIDE DEF x
  <2>5. /\ x = [err |-> x.err, out |-> x.out, written |-> x.written] /\ x.err = "none"
        /\ x.out = Append(w.out, c) /\ x.written = w.written
    BY <1>4, <2>4
  <2>6. \A cc \in Members(S, v) : x.written[cc] = Brought(e.journal, j, cc)
    BY <1>4, <1>5, <1>10, <2>5
  <2>7. Wrote(S, v, e, pay.sub, x, j)
    BY <1>4, <1>8, <2>5, <2>6 DEF Wrote, IsWriting
  <2> QED BY <2>7 DEF x, entry, j
<1> QED BY <1>7, <1>9, <1>10

\* Nothing is left of a member as it was read that the journal did not bring.
LEMMA NothingToAdd ==
    ASSUME NEW S, NEW v, NEW e, NEW o, NEW new, NEW pay, NEW nested, NEW streams, NEW w, NEW cc \in Range(S.order),
           IsSchema(S), IsSound(S, v, o), IsNew(S, v, new), IsCopy(S, v, new, pay, nested, o),
           cc \in Members(S, v) => /\ e.val[cc] = o.val[cc]
                                  /\ w.written[cc] = Brought(o.journal, Len(o.journal), cc)
    PROVE  AddUnjournaled(S, v, e, w, cc, streams) = w
<1> DEFINE further == Further(S, e, w, cc)
<1> SUFFICES ASSUME Active(S, v, cc), IsSeveral(S, cc) \/ cc \in S.required \/ Engaged(S, v, cc, e.val[cc])
             PROVE  Emissions(S, e, w, cc, further, streams)[Len(further)] = w
  BY DEF AddUnjournaled
<1>1. cc \in Members(S, v) /\ e.val[cc] = o.val[cc]
  BY DEF Members
<1>2. w.written[cc] = Brought(o.journal, Len(o.journal), cc)
  BY <1>1
<1>3. Len(further) = 0
  <2>1. CASE IsSeveral(S, cc)
    <3>1. IsSeq(e.val[cc]) /\ w.written[cc] = Len(e.val[cc])
      BY <1>1, <1>2, <2>1 DEF IsCopy, IsSound, IsMember, IsValues
    <3>2. Len(e.val[cc]) - w.written[cc] = 0
      BY <3>1, SeqIs
    <3>3. further = [i \in 1 .. 0 |-> w.written[cc] + i - 1]
      BY <2>1, <3>2 DEF Further
    <3> QED BY <3>3
  <2>2. CASE ~IsSeveral(S, cc) /\ w.written[cc] # 0
    BY <2>2 DEF Further
  <2>3. CASE ~IsSeveral(S, cc) /\ w.written[cc] = 0
    <3>1. cc \notin S.required /\ e.val[cc] = new.val[cc]
      BY <1>1, <1>2, <2>3 DEF IsCopy
    <3>2. ~IsNested(S, cc) /\ ~IsSized(S, cc)
      BY <2>3, <3>1 DEF IsSchema, IsSchemaFlat, IsNested, IsSized, IsSeveral, IsSlots
    <3>3. e.val[cc] = NoBytes
      BY <1>1, <2>3, <3>1, <3>2 DEF IsNew, Default
    <3>4. ~Engaged(S, v, cc, e.val[cc])
      BY <2>3, <3>2, <3>3 DEF Engaged, EngagedFlat, Holds, NoBytes, Bytes
    <3> QED BY <2>3, <3>1, <3>4
  <2> QED BY <2>1, <2>2, <2>3
<1> QED BY <1>3, EmissionsAre

LEMMA WritesBack ==
    ASSUME NEW S, NEW v, NEW e, NEW new, NEW pay, NEW nested, NEW streams,
           IsSchema(S), IsSound(S, v, e), IsNew(S, v, new), IsCopy(S, v, new, pay, nested, e),
           IsStream(pay), \A i \in 1 .. Len(pay.sub) : ChunkOf(S, pay.sub[i]),
           StreamsAgree(S, e, pay.sub, streams)
    PROVE  WriteStream(S, v, e, e.journal, streams) = [err |-> "none", pay |-> pay]
<1> DEFINE start == [err |-> "none", out |-> <<>>, written |-> [cc \in Members(S, v) |-> 0]]
           n == Len(e.journal)
           r == Replays(S, e, start, e.journal, streams)
           q == Completions(S, v, e, r[n], streams)
           T == {i \in 0 .. n : Wrote(S, v, e, pay.sub, r[i], i)}
<1>1. n \in Nat /\ n = Len(pay.sub) /\ IsSeq(pay.sub)
  BY SeqIs DEF IsStream, IsCopy, IsSeq
<1>2. r[0] = start /\ \A i \in 1 .. n : r[i] = Replay(S, e, r[i - 1], e.journal[i], streams)
  BY <1>1, ReplaysAre
<1>3. Wrote(S, v, e, pay.sub, start, 0)
  <2>1. \A cc \in Members(S, v) : start.written[cc] = Brought(e.journal, 0, cc)
    BY NothingBrought
  <2> QED BY <2>1, EmptyIs DEF Wrote, IsWriting
<1> HIDE DEF start, r
<1>4. 0 \in T
  BY <1>1, <1>2, <1>3
<1>5. ASSUME NEW i \in 0 .. n - 1, i \in T PROVE i + 1 \in T
  <2>1. i + 1 \in 1 .. n /\ i \in Nat /\ (i + 1) - 1 = i
    BY <1>1
  <2>2. r[i + 1] = Replay(S, e, r[i], e.journal[i + 1], streams) /\ i + 1 \in 0 .. n
    BY <1>2, <2>1
  <2>3. Wrote(S, v, e, pay.sub, r[i], i) /\ ChunkOf(S, pay.sub[i + 1])
    BY <1>1, <1>5, <2>1
  <2>4. Wrote(S, v, e, pay.sub, r[i + 1], i + 1)
    BY <1>1, <2>1, <2>2, <2>3, ReplayWrites
  <2> QED BY <2>2, <2>4
<1>6. \A i \in 0 .. n : i \in T
  <2> HIDE DEF T, n
  <2> QED BY <1>1, <1>4, <1>5, CountUp
<1>7. Wrote(S, v, e, pay.sub, r[n], n)
  BY <1>1, <1>6
<1> DEFINE m == Len(S.order)
           U == {i \in 0 .. m : q[i] = r[n]}
<1>8. m \in Nat /\ \A i \in 1 .. m : S.order[i] \in Range(S.order)
  <2>1. IsSeq(S.order)
    BY DEF IsSchema, IsSchemaFlat, IsSeq
  <2> QED BY <2>1, SeqIs DEF Range
<1>9. q[0] = r[n] /\ \A i \in 1 .. m : q[i] = AddUnjournaled(S, v, e, q[i - 1], S.order[i], streams)
  BY <1>8, CompletionsAre
<1> HIDE DEF q
<1>10. 0 \in U
  BY <1>8, <1>9
<1>11. ASSUME NEW i \in 0 .. m - 1, i \in U PROVE i + 1 \in U
  <2>1. i + 1 \in 1 .. m /\ (i + 1) - 1 = i /\ i + 1 \in 0 .. m
    BY <1>8
  <2>2. q[i + 1] = AddUnjournaled(S, v, e, r[n], S.order[i + 1], streams)
    BY <1>9, <1>11, <2>1
  <2>3. \A x \in Members(S, v) : r[n].written[x] = Brought(e.journal, n, x)
    BY <1>7 DEF Wrote
  <2>4. AddUnjournaled(S, v, e, r[n], S.order[i + 1], streams) = r[n]
    BY <1>8, <2>1, <2>3, NothingToAdd
  <2> QED BY <2>1, <2>2, <2>4
<1>12. q[m] = r[n]
  <2>1. \A i \in 0 .. m : i \in U
    <3> HIDE DEF U, m
    <3> QED BY <1>8, <1>10, <1>11, CountUp
  <2> QED BY <1>8, <2>1
<1>13. r[n].out = pay.sub
  <2>1. IsSeq(r[n].out) /\ Len(r[n].out) = n /\ \A k \in 1 .. n : r[n].out[k] = pay.sub[k]
    BY <1>7 DEF Wrote
  <2> QED BY <1>1, <2>1, SeqsAreEqual
<1>14. WriteStream(S, v, e, e.journal, streams) = Finished(e, q[m])
  BY DEF WriteStream, start, r, q
<1>15. e.head = pay.els /\ e.rest = pay.rest /\ r[n].err = "none"
  BY <1>7 DEF IsCopy, Wrote
<1>16. pay = [els |-> pay.els, sub |-> pay.sub, rest |-> pay.rest]
  BY DEF IsStream
<1> QED BY <1>12, <1>13, <1>14, <1>15, <1>16 DEF Finished

---------------------------------------------------------------------------
(* New entities.                                                            *)

LEMMA FreshFlatIsNew ==
    ASSUME NEW S, NEW v, IsSchemaFlat(S), DOMAIN S.nested = {}
    PROVE  IsNew(S, v, FreshFlat(S, v))
<1> DEFINE e == FreshFlat(S, v)
<1>1. e = [head |-> e.head, val |-> e.val, journal |-> <<>>, unknown |-> <<>>, rest |-> "none"]
  BY DEF FreshFlat
<1>2. e.val = [cc \in Members(S, v) |-> IF IsSeveral(S, cc) THEN <<>> ELSE Default(S, cc)]
  BY DEF FreshFlat
<1> HIDE DEF e
<1>3. IsFlat(S, v, e)
  BY <1>1, <1>2, EmptyIs DEF IsFlat
<1>4. ASSUME NEW cc \in Members(S, v) PROVE IsMember(S, e, cc)
  <2>1. IsSeveral(S, cc) => IsValues(S, cc, e.val[cc])
    BY <1>2, EmptyIs DEF IsValues, IsSlots, IsSchemaFlat
  <2>2. ~IsSeveral(S, cc) => e.val[cc] = Default(S, cc)
    BY <1>2
  <2> QED BY <2>1, <2>2, DefaultFits DEF IsMember
<1>5. Len(e.journal) = 0
  BY <1>1, EmptyIs
<1>6. IsSound(S, v, e)
  BY <1>3, <1>4, <1>5 DEF IsSound
<1>7. HasHead(S, e)
  BY DEF HasHead, FreshFlat, e
<1>8. IsNew(S, v, e)
  BY <1>1, <1>2, <1>6, <1>7 DEF IsNew
<1> QED BY <1>8 DEF e

LEMMA FreshIsNew ==
    ASSUME NEW S, NEW v, IsSchema(S)
    PROVE  /\ IsNew(S, v, Fresh(S, v))
           /\ \A cc \in Members(S, v) :
                IsNested(S, cc) => Fresh(S, v).val[cc] = FreshFlat(S.nested[cc], v)
<1> DEFINE e == Fresh(S, v)
           flat == FreshFlat(S, v)
<1>1. flat = [head |-> flat.head, val |-> flat.val, journal |-> <<>>, unknown |-> <<>>, rest |-> "none"]
  BY DEF FreshFlat
<1>2. flat.val = [cc \in Members(S, v) |-> IF IsSeveral(S, cc) THEN <<>> ELSE Default(S, cc)]
  BY DEF FreshFlat
<1> DEFINE val == [cc \in Members(S, v) |-> IF IsNested(S, cc) THEN FreshFlat(S.nested[cc], v) ELSE flat.val[cc]]
<1>3. e = [flat EXCEPT !.val = val]
  BY DEF Fresh
<1>head. HasHead(S, flat)
  BY DEF HasHead, FreshFlat
<1> HIDE DEF flat
<1>4. e = [head |-> flat.head, val |-> val, journal |-> <<>>, unknown |-> <<>>, rest |-> "none"]
  BY <1>1, <1>3
<1>5. \A cc \in Members(S, v) : IsNested(S, cc) => ~IsSeveral(S, cc)
  BY DEF IsSchema, IsNested
<1>6. /\ e.val = [cc \in Members(S, v) |-> e.val[cc]]
      /\ \A cc \in Members(S, v) :
           /\ IsNested(S, cc) => e.val[cc] = FreshFlat(S.nested[cc], v)
           /\ IsSeveral(S, cc) => e.val[cc] = <<>>
           /\ ~IsSeveral(S, cc) /\ ~IsNested(S, cc) => e.val[cc] = Default(S, cc)
  BY <1>2, <1>4, <1>5
<1>7. e = [head |-> e.head, val |-> e.val, journal |-> <<>>, unknown |-> <<>>, rest |-> "none"]
  BY <1>4
<1> HIDE DEF e
<1>8. IsFlat(S, v, e)
  BY <1>6, <1>7, EmptyIs DEF IsFlat
<1>9. ASSUME NEW cc \in Members(S, v) PROVE IsMember(S, e, cc)
  <2>1. IsSchemaFlat(S)
    BY DEF IsSchema
  <2>2. IsSeveral(S, cc) => IsValues(S, cc, e.val[cc])
    BY <1>6, <2>1, EmptyIs DEF IsValues, IsSlots, IsSchemaFlat
  <2> QED BY <1>6, <2>1, <2>2, DefaultFits DEF IsMember
<1>10. Len(e.journal) = 0
  BY <1>7, EmptyIs
<1>11. IsSound(S, v, e)
  BY <1>8, <1>9, <1>10 DEF IsSound
<1>12. IsNew(S, v, e)
  <2>1. HasHead(S, e)
    BY <1>4, <1>head DEF HasHead, e
  <2> QED BY <1>6, <1>7, <1>11, <2>1 DEF IsNew
<1> QED BY <1>6, <1>12 DEF e

LEMMA NewHasAll ==
    ASSUME NEW S, NEW v, NEW e, IsNew(S, v, e)
    PROVE  HasAll(S, v, e)
<1>1. \A cc : Brought(e.journal, Len(e.journal), cc) = 0
  BY EmptyIs, NothingBrought DEF IsNew
<1>2. \A cc \in Members(S, v) : IsSeveral(S, cc) => Len(e.val[cc]) = 0
  BY EmptyIs DEF IsNew
<1> QED BY <1>1, <1>2 DEF HasAll

---------------------------------------------------------------------------
(* Entities, and the containers in them.                                    *)

ReadErrors == {"none", "ChunkSizeMismatch", "ChunkTruncated", "ChunkMissing"}

LEMMA ReadFlatIs ==
    ASSUME NEW S, NEW v, NEW pay, IsSchemaFlat(S), DOMAIN S.nested = {}, IsStream(pay)
    PROVE  LET r == ReadFlat(S, v, FreshFlat(S, v), pay)
           IN  /\ r.err \in ReadErrors /\ IsSound(S, v, r.e) /\ HasAll(S, v, r.e) /\ HasHead(S, r.e)
               /\ r.err = "none" => WriteFlat(S, v, r.e) = [err |-> "none", pay |-> pay]
<1> DEFINE new == FreshFlat(S, v)
           r == ReadStream(S, v, new, pay, <<>>)
<1>1. IsSchema(S)
  BY DEF IsSchema
<1>2. IsNew(S, v, new)
  BY FreshFlatIsNew
<1>3. \A i \in 1 .. Len(pay.sub) : ChunkOf(S, pay.sub[i]) /\ NestedErrs(S, v, <<>>, pay.sub[i].cc)
  BY DEF IsStream, ChunkOf, NestedErrs, IsNested
<1> HIDE DEF new
<1>4. /\ r.err \in ReadErrors /\ IsSound(S, v, r.e) /\ HasAll(S, v, r.e) /\ HasHead(S, r.e)
      /\ r.err = "none" => IsCopy(S, v, new, pay, <<>>, r.e)
  BY <1>1, <1>2, <1>3, ReadStreamIs DEF ReadErrors
<1>5. StreamsAgree(S, r.e, pay.sub, <<>>)
  BY DEF StreamsAgree, IsNested
<1> HIDE DEF r
<1>6. r.err = "none" => WriteStream(S, v, r.e, r.e.journal, <<>>) = [err |-> "none", pay |-> pay]
  BY <1>1, <1>2, <1>3, <1>4, <1>5, WritesBack
<1> QED BY <1>4, <1>6 DEF ReadFlat, WriteFlat, r, new

\* What is read of each container: the first of its chunks.
IsFirstOf(pay, i, cc) == pay.sub[i].cc = cc /\ \A j \in 1 .. i - 1 : pay.sub[j].cc # cc
FirstOf(pay, cc)      == pay.sub[CHOOSE i \in DOMAIN pay.sub : IsFirstOf(pay, i, cc)].pay
Containers(S, v, e, pay) ==
    [cc \in {x \in DOMAIN S.nested : \E i \in DOMAIN pay.sub : pay.sub[i].cc = x} |->
        ReadFlat(S.nested[cc], v, e.val[cc], FirstOf(pay, cc))]

\* Any sequence with a chunk has a first one.
LEMMA FirstIs ==
    ASSUME NEW pay, IsStream(pay), NEW i \in DOMAIN pay.sub
    PROVE  \E j \in DOMAIN pay.sub : IsFirstOf(pay, j, pay.sub[i].cc)
<1> DEFINE cc == pay.sub[i].cc
           Is == {j \in DOMAIN pay.sub : pay.sub[j].cc = cc}
<1>1. Len(pay.sub) \in Nat /\ DOMAIN pay.sub = 1 .. Len(pay.sub)
  BY DEF IsStream
<1>2. Is \subseteq Nat /\ Is # {}
  BY <1>1
<1>3. PICK j \in Is : \A k \in Is : ~(<<k, j>> \in OpToRel(<, Nat))
  BY <1>2, NatLessThanWellFounded, WFMin
<1>4. ASSUME NEW k \in 1 .. j - 1 PROVE pay.sub[k].cc # cc
  <2>1. k \in DOMAIN pay.sub /\ k \in Nat /\ j \in Nat /\ k < j
    <3>1. j \in 1 .. Len(pay.sub)
      BY <1>1
    <3> QED BY <1>1, <3>1
  <2>2. k \notin Is
    <3> SUFFICES ASSUME k \in Is PROVE FALSE
      OBVIOUS
    <3> HIDE DEF Is
    <3> QED BY <1>3, <2>1 DEF OpToRel
  <2> QED BY <2>1, <2>2
<1> QED BY <1>3, <1>4 DEF IsFirstOf

LEMMA FirstIsUnique ==
    ASSUME NEW pay, IsStream(pay), NEW i \in DOMAIN pay.sub, NEW cc, IsFirstOf(pay, i, cc)
    PROVE  FirstOf(pay, cc) = pay.sub[i].pay
<1>1. Len(pay.sub) \in Nat /\ DOMAIN pay.sub = 1 .. Len(pay.sub)
  BY DEF IsStream
<1>2. \A j \in DOMAIN pay.sub : IsFirstOf(pay, j, cc) => j = i
  <2> TAKE j \in DOMAIN pay.sub
  <2>1. i \in Nat /\ j \in Nat
    BY <1>1
  <2> HAVE IsFirstOf(pay, j, cc)
  <2>2. ~(i \in 1 .. j - 1) /\ ~(j \in 1 .. i - 1)
    BY DEF IsFirstOf
  <2> QED BY <1>1, <2>1, <2>2
<1>3. (CHOOSE j \in DOMAIN pay.sub : IsFirstOf(pay, j, cc)) = i
  BY <1>2
<1> QED BY <1>3 DEF FirstOf

\* An entity and the containers in it are sound, and all is there.
IsWhole(S, v, e) ==
    /\ IsSound(S, v, e) /\ HasHead(S, e)
    /\ \A cc \in Members(S, v) : IsNested(S, cc) =>
         IsSound(S.nested[cc], v, e.val[cc]) /\ HasHead(S.nested[cc], e.val[cc])

WholeHasAll(S, v, e) ==
    /\ HasAll(S, v, e)
    /\ \A cc \in Members(S, v) : IsNested(S, cc) => HasAll(S.nested[cc], v, e.val[cc])

LEMMA ReadEntityIs ==
    ASSUME NEW S, NEW v, NEW pay, IsSchema(S), IsFile(S, pay)
    PROVE  LET new == Fresh(S, v)
               r   == ReadEntity(S, v, new, pay)
               nested == Containers(S, v, new, pay)
           IN  /\ r = [err |-> r.err, e |-> r.e]
               /\ r.err \in ReadErrors /\ IsWhole(S, v, r.e) /\ WholeHasAll(S, v, r.e)
               /\ r.err = "none" => IsCopy(S, v, new, pay, nested, r.e)
<1> DEFINE new == Fresh(S, v)
           nested == Containers(S, v, new, pay)
           r == ReadEntity(S, v, new, pay)
<1>1. r = ReadStream(S, v, new, pay, nested)
  BY DEF ReadEntity, Containers, FirstOf, IsFirstOf
<1>2. /\ IsNew(S, v, new)
      /\ \A cc \in Members(S, v) : IsNested(S, cc) => new.val[cc] = FreshFlat(S.nested[cc], v)
  BY FreshIsNew
<1>3. /\ IsStream(pay) /\ Len(pay.sub) \in Nat /\ DOMAIN pay.sub = 1 .. Len(pay.sub)
      /\ \A i \in 1 .. Len(pay.sub) : ChunkOf(S, pay.sub[i])
  BY DEF IsFile, IsStream, ChunkOf
<1> HIDE DEF new, r
<1>4. ASSUME NEW i \in 1 .. Len(pay.sub), IsNested(S, pay.sub[i].cc), pay.sub[i].cc \in Members(S, v)
      PROVE  LET cc == pay.sub[i].cc
             IN  /\ nested[cc].err \in ReadErrors
                 /\ IsSound(S.nested[cc], v, nested[cc].e) /\ HasAll(S.nested[cc], v, nested[cc].e)
                 /\ HasHead(S.nested[cc], nested[cc].e)
  <2> DEFINE cc == pay.sub[i].cc
  <2>1. PICK j \in DOMAIN pay.sub : IsFirstOf(pay, j, cc)
    BY <1>3, FirstIs
  <2>2. FirstOf(pay, cc) = pay.sub[j].pay
    BY <1>3, <2>1, FirstIsUnique
  <2>3. IsStream(pay.sub[j].pay)
    BY <1>4, <2>1 DEF IsFile, IsFirstOf, IsNested
  <2>4. nested[cc] = ReadFlat(S.nested[cc], v, FreshFlat(S.nested[cc], v), pay.sub[j].pay)
    BY <1>2, <1>3, <1>4, <2>2 DEF Containers, IsNested
  <2>5. IsSchemaFlat(S.nested[cc]) /\ DOMAIN S.nested[cc].nested = {}
    BY <1>4 DEF IsSchema, IsNested
  <2> QED BY <2>3, <2>4, <2>5, ReadFlatIs
<1>5. \A i \in 1 .. Len(pay.sub) : NestedErrs(S, v, nested, pay.sub[i].cc)
  BY <1>4 DEF NestedErrs, ReadErrors
<1> HIDE DEF nested
<1>6. /\ r = [err |-> r.err, e |-> r.e] /\ r.err \in ReadErrors
      /\ IsSound(S, v, r.e) /\ HasAll(S, v, r.e) /\ HasHead(S, r.e)
      /\ NestedFrom(S, v, new, pay.sub, nested, r.e)
      /\ r.err = "none" => IsCopy(S, v, new, pay, nested, r.e)
  BY <1>1, <1>2, <1>3, <1>5, ReadStreamIs DEF ReadErrors
<1>7. ASSUME NEW cc \in Members(S, v), IsNested(S, cc)
      PROVE  /\ IsSound(S.nested[cc], v, r.e.val[cc]) /\ HasAll(S.nested[cc], v, r.e.val[cc])
             /\ HasHead(S.nested[cc], r.e.val[cc])
  <2>1. CASE r.e.val[cc] = new.val[cc]
    <3>1. IsSchemaFlat(S.nested[cc]) /\ DOMAIN S.nested[cc].nested = {}
      BY <1>7 DEF IsSchema, IsNested
    <3>2. IsNew(S.nested[cc], v, FreshFlat(S.nested[cc], v))
      BY <3>1, FreshFlatIsNew
    <3>3. r.e.val[cc] = FreshFlat(S.nested[cc], v)
      BY <1>2, <1>7, <2>1
    <3> QED BY <3>2, <3>3, NewHasAll DEF IsNew
  <2>2. CASE r.e.val[cc] = nested[cc].e /\ \E i \in 1 .. Len(pay.sub) : pay.sub[i].cc = cc
    BY <1>4, <1>7, <2>2
  <2> QED BY <1>6, <1>7, <2>1, <2>2 DEF NestedFrom
<1>8. IsWhole(S, v, r.e) /\ WholeHasAll(S, v, r.e)
  BY <1>6, <1>7 DEF IsWhole, WholeHasAll
<1> QED BY <1>6, <1>8 DEF new, nested, r

\* What the stamped fields are when nothing was changed: what the file had.
StampsAgree(S, e, stamped) ==
    \A cc \in DOMAIN stamped : /\ ~IsSeveral(S, cc) /\ ~IsNested(S, cc)
                               /\ stamped[cc] = [err |-> "none", pay |-> e.val[cc]]

\* A file that can be read is written as it was: for every entity of the
\* library, client and file, with its duplicates, its chunks nobody knows, the
\* occurrences past a capacity, its stray bytes and its order
\* (chunked_file.hpp: readEntity, then writeEntity).
THEOREM ReadIsWrittenBack ==
    ASSUME NEW S, NEW v, NEW pay, NEW stamped, IsSchema(S), IsFile(S, pay),
           ReadEntity(S, v, Fresh(S, v), pay).err = "none",
           StampsAgree(S, ReadEntity(S, v, Fresh(S, v), pay).e, stamped)
    PROVE  LET e == ReadEntity(S, v, Fresh(S, v), pay).e
           IN  WriteEntity(S, v, e, e.journal, stamped) = [err |-> "none", pay |-> pay]
<1> DEFINE new == Fresh(S, v)
           nested == Containers(S, v, new, pay)
           e == ReadEntity(S, v, new, pay).e
           streams == [cc \in DOMAIN S.nested \cup DOMAIN stamped |->
                         IF cc \in DOMAIN S.nested THEN WriteFlat(S.nested[cc], v, e.val[cc]) ELSE stamped[cc]]
<1>1. IsSound(S, v, e) /\ IsCopy(S, v, new, pay, nested, e)
  BY ReadEntityIs DEF IsWhole
<1>2. /\ IsNew(S, v, new)
      /\ \A cc \in Members(S, v) : IsNested(S, cc) => new.val[cc] = FreshFlat(S.nested[cc], v)
  BY FreshIsNew
<1>3. /\ IsStream(pay) /\ Len(pay.sub) \in Nat /\ DOMAIN pay.sub = 1 .. Len(pay.sub)
      /\ \A i \in 1 .. Len(pay.sub) : ChunkOf(S, pay.sub[i])
  BY DEF IsFile, IsStream, ChunkOf
<1>4. StampsAgree(S, e, stamped)
  OBVIOUS
<1> HIDE DEF new, e
<1>5. ASSUME NEW j \in 1 .. Len(pay.sub), e.journal[j].known = TRUE
      PROVE  LET cc == pay.sub[j].cc
             IN  /\ IsNested(S, cc) => cc \in DOMAIN streams
                 /\ cc \in DOMAIN streams => /\ ~IsSeveral(S, cc)
                                             /\ streams[cc] = [err |-> "none", pay |-> pay.sub[j].pay]
  <2> DEFINE cc == pay.sub[j].cc
             entry == e.journal[j]
  <2>1. Tells(S, e, pay.sub, j, nested) /\ Len(e.journal) = Len(pay.sub)
    BY <1>1 DEF IsCopy
  <2>2. entry.cc = cc /\ cc \in Members(S, v)
    <3>1. IsEntry(S, v, e, j) /\ entry.cc = cc
      BY <1>1, <2>1 DEF IsSound, Tells
    <3> QED BY <1>5, <3>1 DEF IsEntry, KnownEntry, UnknownEntry
  <2>3. CASE IsNested(S, cc)
    <3>1. nested[cc].err = "none" /\ e.val[cc] = nested[cc].e /\ IsFirstOf(pay, j, cc)
      BY <1>5, <2>1, <2>2, <2>3 DEF Tells, IsFirstOf
    <3>2. FirstOf(pay, cc) = pay.sub[j].pay
      BY <1>3, <3>1, FirstIsUnique
    <3>3. nested[cc] = ReadFlat(S.nested[cc], v, FreshFlat(S.nested[cc], v), pay.sub[j].pay)
      BY <1>2, <1>3, <2>2, <2>3, <3>2 DEF Containers, IsNested
    <3>4. IsSchemaFlat(S.nested[cc]) /\ DOMAIN S.nested[cc].nested = {} /\ ~IsSeveral(S, cc)
      BY <2>3 DEF IsSchema, IsNested
    <3>5. IsStream(pay.sub[j].pay)
      BY <1>3, <2>3 DEF IsFile, IsNested
    <3>6. WriteFlat(S.nested[cc], v, e.val[cc]) = [err |-> "none", pay |-> pay.sub[j].pay]
      BY <3>1, <3>3, <3>4, <3>5, ReadFlatIs
    <3>7. cc \in DOMAIN streams /\ streams[cc] = WriteFlat(S.nested[cc], v, e.val[cc])
      BY <2>3 DEF IsNested
    <3> QED BY <3>4, <3>6, <3>7
  <2>4. CASE ~IsNested(S, cc)
    <3>1. cc \in DOMAIN streams => cc \in DOMAIN stamped /\ streams[cc] = stamped[cc]
      BY <2>4 DEF IsNested
    <3>2. cc \in DOMAIN stamped => ~IsSeveral(S, cc) /\ stamped[cc] = [err |-> "none", pay |-> e.val[cc]]
      BY <1>4 DEF StampsAgree
    <3>3. ~IsSeveral(S, cc) => e.val[cc] = pay.sub[j].pay
      BY <1>5, <2>1, <2>2, <2>4 DEF Tells
    <3> HIDE DEF streams
    <3> QED BY <2>4, <3>1, <3>2, <3>3
  <2> QED BY <2>3, <2>4
<1>6. StreamsAgree(S, e, pay.sub, streams)
  BY <1>5 DEF StreamsAgree
<1>7. WriteEntity(S, v, e, e.journal, stamped) = WriteStream(S, v, e, e.journal, streams)
  BY DEF WriteEntity
<1> HIDE DEF streams, nested
<1>8. WriteStream(S, v, e, e.journal, streams) = [err |-> "none", pay |-> pay]
  BY <1>1, <1>2, <1>3, <1>6, WritesBack
<1> QED BY <1>7, <1>8 DEF e, new


---------------------------------------------------------------------------
(* Whatever the entity holds now, what is written of it reads back: a       *)
(* reading of the chunks written so far has what was written so far.        *)

\* Two streams, and what is nested in them, are alike for n chunks.
AgreeUpTo(S, v, sub, other, nested, others, n) ==
    /\ Len(sub) \in Nat /\ Len(other) \in Nat /\ n <= Len(sub) /\ n <= Len(other)
    /\ \A i \in 1 .. n :
         /\ sub[i] = other[i]
         /\ sub[i].cc \in Members(S, v) /\ IsNested(S, sub[i].cc) => nested[sub[i].cc] = others[sub[i].cc]

LEMMA SameReadings ==
    ASSUME NEW S, NEW v, NEW start, NEW sub, NEW other, NEW nested, NEW others, NEW n \in Nat,
           AgreeUpTo(S, v, sub, other, nested, others, n)
    PROVE  Readings(S, v, start, sub, nested)[n] = Readings(S, v, start, other, others)[n]
<1> DEFINE p == Readings(S, v, start, sub, nested)
           q == Readings(S, v, start, other, others)
           T == {i \in 0 .. n : p[i] = q[i]}
<1> USE DEF AgreeUpTo
<1>1. /\ p[0] = start /\ \A i \in 1 .. Len(sub) : p[i] = ReadChunk(S, v, p[i - 1], sub[i], nested)
      /\ q[0] = start /\ \A i \in 1 .. Len(other) : q[i] = ReadChunk(S, v, q[i - 1], other[i], others)
  BY ReadingsAre
<1> HIDE DEF p, q
<1>2. 0 \in T
  BY <1>1
<1>3. ASSUME NEW i \in 0 .. n - 1, i \in T PROVE i + 1 \in T
  <2>1. i + 1 \in 1 .. n /\ i + 1 \in 1 .. Len(sub) /\ i + 1 \in 1 .. Len(other) /\ (i + 1) - 1 = i /\ i + 1 \in 0 .. n
    OBVIOUS
  <2>2. p[i] = q[i]
    BY <1>3
  <2> DEFINE c == sub[i + 1]
  <2>3. p[i + 1] = ReadChunk(S, v, p[i], c, nested) /\ q[i + 1] = ReadChunk(S, v, p[i], c, others)
    <3>1. other[i + 1] = c
      BY <2>1
    <3> HIDE DEF c
    <3>2. p[i + 1] = ReadChunk(S, v, p[i], c, nested)
      BY <1>1, <2>1 DEF c
    <3>3. q[i + 1] = ReadChunk(S, v, q[i], c, others)
      BY <1>1, <2>1, <3>1
    <3> QED BY <2>2, <3>2, <3>3
  <2>4. c.cc \in Members(S, v) /\ IsNested(S, c.cc) => nested[c.cc] = others[c.cc]
    BY <2>1
  <2> HIDE DEF c
  <2>5. c.cc \in Members(S, v) => GotOf(S, p[i], c, nested) = GotOf(S, p[i], c, others)
    BY <2>4 DEF GotOf, ReadValue
  <2>6. ReadChunk(S, v, p[i], c, nested) = ReadChunk(S, v, p[i], c, others)
    BY <2>5 DEF ReadChunk, GotOf
  <2> QED BY <2>1, <2>3, <2>6
<1>4. \A i \in 0 .. n : i \in T
  <2> HIDE DEF T
  <2> QED BY <1>2, <1>3, CountUp
<1>5. p[n] = q[n]
  BY <1>4
<1> QED BY <1>5 DEF p, q

LEMMA OneMoreReading ==
    ASSUME NEW S, NEW v, NEW start, NEW out, IsSeq(out), NEW c, NEW nested
    PROVE  LET longer == Append(out, c)
           IN  Readings(S, v, start, longer, nested)[Len(longer)] =
               ReadChunk(S, v, Readings(S, v, start, out, nested)[Len(out)], c, nested)
<1> DEFINE longer == Append(out, c)
           n == Len(out)
<1>1. /\ n \in Nat /\ Len(longer) = n + 1 /\ longer[n + 1] = c
      /\ \A i \in 1 .. n : longer[i] = out[i]
  BY AppendIs, SeqIs
<1> HIDE DEF longer, n
<1>2. Readings(S, v, start, longer, nested)[n] = Readings(S, v, start, out, nested)[n]
  <2>1. n <= Len(out) /\ n <= Len(longer) /\ Len(out) \in Nat /\ Len(longer) \in Nat /\ n \in Nat
    BY <1>1 DEF n
  <2>2. AgreeUpTo(S, v, longer, out, nested, nested, n)
    BY <1>1, <2>1 DEF AgreeUpTo
  <2> QED BY <1>1, <2>2, SameReadings
<1>3. n + 1 \in 1 .. Len(longer) /\ (n + 1) - 1 = n
  BY <1>1
<1>4. Readings(S, v, start, longer, nested)[n + 1] =
      ReadChunk(S, v, Readings(S, v, start, longer, nested)[n], longer[n + 1], nested)
  BY <1>1, <1>3, ReadingsAre
<1> QED BY <1>1, <1>2, <1>4 DEF longer, n

\* What goes out of a member that comes once, and what is read of it.
Sent(e, cc, streams) == IF cc \in DOMAIN streams THEN streams[cc].pay ELSE e.val[cc]
Back(S, e, cc, streams, nested) == IF IsNested(S, cc) THEN nested[cc].e ELSE Sent(e, cc, streams)

\* streams is what a writer gets, and nested what its streams read as.
AreStreams(S, v, streams, nested) ==
    \A cc \in Members(S, v) :
        /\ IsNested(S, cc) =>
             /\ cc \in DOMAIN streams
             /\ streams[cc].err = "none" => IsStream(streams[cc].pay) /\ nested[cc].err = "none"
        /\ cc \in DOMAIN streams =>
             /\ ~IsSeveral(S, cc) /\ cc \in S.required /\ streams[cc].err \in {"none", "ChunkSizeMismatch"}
             /\ ~IsNested(S, cc) => streams[cc].err = "none" /\ PayloadFits(S, cc, streams[cc].pay)

\* Nothing that the journal tells of was taken away.
Complete(S, v, e, streams) ==
    /\ HasAll(S, v, e)
    /\ \A cc \in Members(S, v) : cc \in DOMAIN streams => streams[cc].err = "none"

\* How the member cc was written, and r has it.
IsMirroredMember(S, e, start, streams, nested, out, r, cc) ==
    /\ IsSeveral(S, cc) => /\ Len(r.e.val[cc]) <= Len(e.val[cc])
                           /\ \A k \in 1 .. Len(r.e.val[cc]) : r.e.val[cc][k] = e.val[cc][k]
    /\ ~IsSeveral(S, cc) /\ r.seen[cc] = 0 =>
         r.e.val[cc] = start.e.val[cc] /\ \A k \in 1 .. Len(out) : out[k].cc # cc
    /\ ~IsSeveral(S, cc) /\ r.seen[cc] # 0 =>
         /\ r.e.val[cc] = Back(S, e, cc, streams, nested)
         /\ cc \in DOMAIN streams => streams[cc].err = "none"
         /\ \E k \in 1 .. Len(out) : /\ out[k].cc = cc /\ out[k].pay = Sent(e, cc, streams)
                                     /\ \A m \in 1 .. k - 1 : out[m].cc # cc

IsMirroredBy(S, v, e, start, streams, nested, w, r) ==
    /\ IsSeq(w.out) /\ \A i \in 1 .. Len(w.out) : ChunkOf(S, w.out[i]) /\ NestedErrs(S, v, nested, w.out[i].cc)
    /\ IsSoundReading(S, v, r) /\ r.err = "none" /\ r.seen = w.written
    /\ \A cc \in Members(S, v) : IsMirroredMember(S, e, start, streams, nested, w.out, r, cc)

Mirrored(S, v, e, start, streams, nested, w) ==
    IsMirroredBy(S, v, e, start, streams, nested, w, Readings(S, v, start, w.out, nested)[Len(w.out)])

IsMirror(S, v, e, start, streams, nested, w) ==
    /\ IsWriting(S, v, w) /\ w.written \in [Members(S, v) -> Nat]
    /\ w.err \in {"none", "ChunkSizeMismatch"}
    /\ Complete(S, v, e, streams) => w.err = "none"
    /\ w.err = "none" => Mirrored(S, v, e, start, streams, nested, w)

\* The chunk that goes out is read into its member.
LEMMA MirroredByOneMore ==
    ASSUME NEW S, NEW v, NEW e, NEW start, NEW streams, NEW nested, NEW w, NEW r, NEW x, NEW cc \in Members(S, v),
           NEW c, IsSchema(S), IsSound(S, v, e), AreStreams(S, v, streams, nested),
           IsWriting(S, v, w), IsMirroredBy(S, v, e, start, streams, nested, w, r),
           IsSeveral(S, cc) => /\ w.written[cc] < Len(e.val[cc])
                               /\ c = [cc |-> cc, pay |-> e.val[cc][w.written[cc] + 1]],
           ~IsSeveral(S, cc) => /\ w.written[cc] = 0 /\ c = [cc |-> cc, pay |-> Sent(e, cc, streams)]
                                /\ cc \in DOMAIN streams => streams[cc].err = "none",
           x = [err |-> "none", out |-> Append(w.out, c), written |-> [w.written EXCEPT ![cc] = w.written[cc] + 1]]
    PROVE  IsMirroredBy(S, v, e, start, streams, nested, x, ReadChunk(S, v, r, c, nested))
<1> DEFINE s == ReadChunk(S, v, r, c, nested)
           got == GotOf(S, r, c, nested)
           n == Len(w.out)
<1>1. /\ IsSoundReading(S, v, r) /\ r.err = "none" /\ r.seen = w.written
      /\ r.seen \in [Members(S, v) -> Nat] /\ r.e.val = [y \in Members(S, v) |-> r.e.val[y]]
      /\ IsSeq(w.out) /\ \A i \in 1 .. n : ChunkOf(S, w.out[i]) /\ NestedErrs(S, v, nested, w.out[i].cc)
      /\ \A y \in Members(S, v) : IsMirroredMember(S, e, start, streams, nested, w.out, r, y)
  BY DEF IsMirroredBy, IsSoundReading, IsSound, IsFlat
<1>2. c.cc = cc /\ c = [cc |-> c.cc, pay |-> c.pay]
  OBVIOUS
<1>3. /\ IsSeveral(S, cc) => IsValues(S, cc, e.val[cc]) /\ Len(e.val[cc]) \in Nat
      /\ IsNested(S, cc) => ~IsSeveral(S, cc)
  BY SeqIs DEF IsSound, IsMember, IsValues, IsSchema, IsNested
<1>4. ~NoRoom(S, v, cc, r.seen[cc])
  BY <1>1, <1>3 DEF NoRoom, IsValues, IsSlots, IsSchema, IsSchemaFlat, IsSeveral
<1>5. ~IsNested(S, cc) => PayloadFits(S, cc, c.pay)
  <2>1. CASE IsSeveral(S, cc)
    <3>1. w.written[cc] + 1 \in 1 .. Len(e.val[cc])
      BY <1>1, <1>3, <2>1
    <3> QED BY <1>3, <2>1, <3>1 DEF IsValues
  <2>2. CASE ~IsSeveral(S, cc)
    BY <2>2 DEF IsSound, IsMember, Sent, AreStreams
  <2> QED BY <2>1, <2>2
<1>6. /\ IsNested(S, cc) => nested[cc].err = "none" /\ IsStream(c.pay)
      /\ ChunkOf(S, c) /\ NestedErrs(S, v, nested, cc)
  BY <1>2, <1>3 DEF AreStreams, Sent, ChunkOf, NestedErrs, IsNested
<1>7. s = Keep(S, r, cc, got)
  <2>1. r.seen[cc] = Brought(r.e.journal, Len(r.e.journal), cc)
    BY <1>1 DEF IsSoundReading
  <2>3. IsSoundReading(S, v, r)
    BY <1>1
  <2>2. \/ r.err # "none" /\ s = r
        \/ /\ r.err = "none" /\ s = Preserve(r, c)
           /\ NoRoom(S, v, c.cc, Brought(r.e.journal, Len(r.e.journal), c.cc))
        \/ /\ r.err = "none" /\ s = Keep(S, r, c.cc, got)
           /\ c.cc \in Members(S, v) /\ ~NoRoom(S, v, c.cc, r.seen[c.cc])
    BY <2>3, ReadChunkCases
  <2> HIDE DEF got, s
  <2> QED BY <1>1, <1>2, <1>4, <2>1, <2>2
<1>8. got = IF IsNested(S, cc) THEN nested[cc] ELSE [err |-> "none", e |-> c.pay]
  BY <1>2, <1>5 DEF GotOf, ReadValue
<1>9. got.err = "none" /\ got.e = IF IsNested(S, cc) THEN nested[cc].e ELSE c.pay
  BY <1>6, <1>8
<1>10. IsSoundReading(S, v, s)
  BY <1>1, <1>2, <1>6, ReadChunkIsSound
<1> HIDE DEF s, got
<1>11. IsKept(S, r, cc, got, s)
  BY <1>1, <1>7, KeepIs
<1>12. /\ s.err = "none" /\ s.seen = [r.seen EXCEPT ![cc] = r.seen[cc] + 1]
       /\ s.e.val = [r.e.val EXCEPT ![cc] = IF IsSeveral(S, cc) THEN Append(r.e.val[cc], got.e) ELSE got.e]
  <2>1. s.err = got.err
    BY <1>11 DEF IsKept
  <2> QED BY <1>9, <1>11, <2>1 DEF IsKept
<1>13. /\ s.seen[cc] = r.seen[cc] + 1 /\ s.e.val[cc] = IF IsSeveral(S, cc) THEN Append(r.e.val[cc], got.e) ELSE got.e
       /\ \A y \in Members(S, v) : y # cc => s.seen[y] = r.seen[y] /\ s.e.val[y] = r.e.val[y]
  BY <1>1, <1>12
<1>14. /\ x.out = Append(w.out, c) /\ s.seen = x.written
  BY <1>1, <1>12
<1>15. /\ IsSeq(x.out) /\ Len(x.out) = n + 1 /\ n \in Nat /\ x.out[n + 1] = c
       /\ \A i \in 1 .. n : x.out[i] = w.out[i]
  BY <1>1, <1>14, AppendIs, SeqIs
<1> HIDE DEF n
<1>16. \A i \in 1 .. Len(x.out) : ChunkOf(S, x.out[i]) /\ NestedErrs(S, v, nested, x.out[i].cc)
  <2>1. \A i \in 1 .. n + 1 : i \in 1 .. n \/ i = n + 1
    BY <1>15
  <2> QED BY <1>1, <1>2, <1>6, <1>15, <2>1
<1>17. ASSUME NEW y \in Members(S, v) PROVE IsMirroredMember(S, e, start, streams, nested, x.out, s, y)
  <2>1. IsMirroredMember(S, e, start, streams, nested, w.out, r, y)
    BY <1>1
  <2>2. CASE y # cc
    <3>1. s.seen[y] = r.seen[y] /\ s.e.val[y] = r.e.val[y]
      BY <1>13, <2>2
    <3>2. ASSUME \A k \in 1 .. n : w.out[k].cc # y PROVE \A k \in 1 .. n + 1 : x.out[k].cc # y
      <4>1. \A i \in 1 .. n + 1 : i \in 1 .. n \/ i = n + 1
        BY <1>15
      <4> QED BY <1>2, <1>15, <2>2, <3>2, <4>1
    <3>3. ASSUME NEW k \in 1 .. n, w.out[k].cc = y, w.out[k].pay = Sent(e, y, streams),
                 \A m \in 1 .. k - 1 : w.out[m].cc # y
          PROVE  /\ k \in 1 .. n + 1 /\ x.out[k].cc = y /\ x.out[k].pay = Sent(e, y, streams)
                 /\ \A m \in 1 .. k - 1 : x.out[m].cc # y
      <4>1. k \in 1 .. n + 1 /\ \A m \in 1 .. k - 1 : m \in 1 .. n
        BY <1>15
      <4> QED BY <1>15, <3>3, <4>1
    <3> QED BY <1>15, <2>1, <3>1, <3>2, <3>3 DEF IsMirroredMember, n
  <2>3. CASE y = cc /\ IsSeveral(S, cc)
    <3> DEFINE vals == r.e.val[cc]
               m == Len(vals)
    <3>1. IsSeq(vals) /\ m \in Nat /\ m = w.written[cc]
      BY <1>1, <2>3, SeqIs DEF IsSoundReading, IsSound, IsMember, IsValues
    <3>2. s.e.val[cc] = Append(vals, c.pay)
      BY <1>3, <1>9, <1>13, <2>3
    <3>3. c.pay = e.val[cc][m + 1] /\ m < Len(e.val[cc])
      BY <2>3, <3>1
    <3>4. \A k \in 1 .. m : vals[k] = e.val[cc][k]
      BY <2>1, <2>3 DEF IsMirroredMember
    <3> HIDE DEF vals, m
    <3>5. /\ Len(s.e.val[cc]) = m + 1 /\ s.e.val[cc][m + 1] = c.pay
          /\ \A k \in 1 .. m : s.e.val[cc][k] = vals[k]
      BY <3>1, <3>2, AppendIs DEF m
    <3>6. \A k \in 1 .. m + 1 : k \in 1 .. m \/ k = m + 1
      BY <3>1
    <3>7. \A k \in 1 .. m + 1 : s.e.val[cc][k] = e.val[cc][k]
      BY <3>3, <3>4, <3>5, <3>6
    <3> QED BY <1>3, <2>3, <3>1, <3>3, <3>5, <3>7 DEF IsMirroredMember
  <2>4. CASE y = cc /\ ~IsSeveral(S, cc)
    <3>1. /\ s.seen[cc] # 0 /\ \A k \in 1 .. n : w.out[k].cc # cc
      BY <1>1, <1>13, <2>1, <2>4 DEF IsMirroredMember, n
    <3>2. c.pay = Sent(e, cc, streams) /\ s.e.val[cc] = Back(S, e, cc, streams, nested)
      BY <1>9, <1>13, <2>4 DEF Back
    <3>3. \A k \in 1 .. n : x.out[k].cc # cc
      BY ONLY <1>15, <3>1
    <3>4. n + 1 \in 1 .. Len(x.out) /\ (n + 1) - 1 = n
      BY ONLY <1>15
    <3> QED BY <1>2, <1>15, <2>4, <3>1, <3>2, <3>3, <3>4 DEF IsMirroredMember
  <2> QED BY <2>2, <2>3, <2>4
<1> QED BY <1>10, <1>12, <1>14, <1>15, <1>16, <1>17 DEF IsMirroredBy, s

\* A writer may put out what the member has next.
MayEmit(S, v, e, streams, w, cc, at) ==
    /\ cc \in Members(S, v) /\ at \in Nat
    /\ IsSeveral(S, cc) => at = w.written[cc] /\ (Complete(S, v, e, streams) => at < Len(e.val[cc]))
    /\ ~IsSeveral(S, cc) => w.written[cc] = 0

\* And it does, or fails.
Emitted(S, e, w, cc, at, x) ==
    x.err = "none" => /\ w.err = "none"
                      /\ x.written = [w.written EXCEPT ![cc] = w.written[cc] + 1]
                      /\ IsSeveral(S, cc) => at < Len(e.val[cc])

LEMMA EmitMirrors ==
    ASSUME NEW S, NEW v, NEW e, NEW start, NEW streams, NEW nested, NEW w, NEW cc, NEW at,
           IsSchema(S), IsSound(S, v, e), AreStreams(S, v, streams, nested),
           IsMirror(S, v, e, start, streams, nested, w),
           w.err = "none" => MayEmit(S, v, e, streams, w, cc, at)
    PROVE  LET x == Emit(S, e, w, cc, at, streams)
           IN  IsMirror(S, v, e, start, streams, nested, x) /\ Emitted(S, e, w, cc, at, x)
<1> DEFINE x == Emit(S, e, w, cc, at, streams)
           own == IF IsSeveral(S, cc) THEN e.val[cc][at + 1] ELSE e.val[cc]
           out == IF cc \in DOMAIN streams THEN streams[cc] ELSE [err |-> "none", pay |-> own]
           c == [cc |-> cc, pay |-> out.pay]
           tooFar == IsSeveral(S, cc) /\ at >= Len(e.val[cc])
<1>1. x = IF w.err # "none" THEN w
          ELSE IF tooFar THEN [w EXCEPT !.err = "ChunkSizeMismatch"]
          ELSE [err |-> out.err, out |-> Append(w.out, c), written |-> [w.written EXCEPT ![cc] = @ + 1]]
  BY DEF Emit
<1>2. IsWriting(S, v, w) /\ w.err \in {"none", "ChunkSizeMismatch"} /\ w.written \in [Members(S, v) -> Nat]
  BY DEF IsMirror
<1>3. /\ w = [err |-> w.err, out |-> w.out, written |-> w.written]
      /\ w.written = [y \in Members(S, v) |-> w.written[y]]
  BY <1>2 DEF IsWriting
<1> HIDE DEF x
<1>4. CASE w.err # "none"
  <2>1. x = w
    BY <1>1, <1>4
  <2> QED BY <1>4, <2>1 DEF Emitted, x
<1>5. CASE w.err = "none" /\ tooFar
  <2>1. x = [err |-> "ChunkSizeMismatch", out |-> w.out, written |-> w.written]
    BY <1>1, <1>3, <1>5
  <2>2. IsWriting(S, v, x) /\ x.written \in [Members(S, v) -> Nat]
    BY <1>2, <1>3, <2>1 DEF IsWriting
  <2>3. ~Complete(S, v, e, streams)
    <3>1. cc \in Members(S, v) /\ at \in Nat
      BY <1>5 DEF MayEmit
    <3>2. Len(e.val[cc]) \in Nat
      BY <1>5, <3>1, SeqIs DEF IsSound, IsMember, IsValues
    <3> QED BY <1>5, <3>1, <3>2 DEF MayEmit
  <2>4. IsMirror(S, v, e, start, streams, nested, x)
    BY <2>1, <2>2, <2>3 DEF IsMirror
  <2> QED BY <2>1, <2>4 DEF Emitted, x
<1>6. CASE w.err = "none" /\ ~tooFar
  <2>1. x = [err |-> out.err, out |-> Append(w.out, c), written |-> [w.written EXCEPT ![cc] = w.written[cc] + 1]]
    BY <1>1, <1>6
  <2>2. MayEmit(S, v, e, streams, w, cc, at)
    BY <1>6
  <2>3. /\ cc \in Members(S, v)
        /\ IsSeveral(S, cc) => cc \notin DOMAIN streams /\ at = w.written[cc] /\ at < Len(e.val[cc])
    <3>1. cc \in Members(S, v) /\ at \in Nat
      BY <2>2 DEF MayEmit
    <3>2. IsSeveral(S, cc) => Len(e.val[cc]) \in Nat
      BY <3>1, SeqIs DEF IsSound, IsMember, IsValues
    <3> QED BY <1>6, <2>2, <3>1, <3>2 DEF MayEmit, AreStreams
  <2>4. out.err \in {"none", "ChunkSizeMismatch"} /\ (out.err # "none" => ~Complete(S, v, e, streams))
    BY <2>3 DEF AreStreams, Complete
  <2>5. IsWriting(S, v, x) /\ x.written \in [Members(S, v) -> Nat]
    BY <1>2, <1>3, <2>1, <2>3 DEF IsWriting
  <2>6. ASSUME x.err = "none" PROVE Mirrored(S, v, e, start, streams, nested, x)
    <3> DEFINE r == Readings(S, v, start, w.out, nested)[Len(w.out)]
    <3>1. IsMirroredBy(S, v, e, start, streams, nested, w, r)
      BY <1>6 DEF IsMirror, Mirrored
    <3>2. out.err = "none"
      BY <2>1, <2>6
    <3>3. IsSeveral(S, cc) => c = [cc |-> cc, pay |-> e.val[cc][w.written[cc] + 1]]
      BY <2>3
    <3>4. ~IsSeveral(S, cc) => /\ w.written[cc] = 0 /\ c = [cc |-> cc, pay |-> Sent(e, cc, streams)]
                               /\ cc \in DOMAIN streams => streams[cc].err = "none"
      BY <2>2, <3>2 DEF MayEmit, Sent
    <3>5. x = [err |-> "none", out |-> Append(w.out, c), written |-> [w.written EXCEPT ![cc] = w.written[cc] + 1]]
      BY <2>1, <3>2
    <3>6. IsSeq(w.out)
      BY <3>1 DEF IsMirroredBy
    <3> HIDE DEF r, c, out
    <3>7. IsMirroredBy(S, v, e, start, streams, nested, x, ReadChunk(S, v, r, c, nested))
      BY <1>2, <2>3, <3>1, <3>3, <3>4, <3>5, MirroredByOneMore
    <3>8. Readings(S, v, start, x.out, nested)[Len(x.out)] = ReadChunk(S, v, r, c, nested)
      BY <3>5, <3>6, OneMoreReading DEF r
    <3> QED BY <3>7, <3>8 DEF Mirrored
  <2> HIDE DEF out
  <2>7. x.err = out.err /\ x.written = [w.written EXCEPT ![cc] = w.written[cc] + 1]
    BY <2>1
  <2>8. IsMirror(S, v, e, start, streams, nested, x)
    BY <2>4, <2>5, <2>6, <2>7 DEF IsMirror
  <2> QED BY <1>6, <2>3, <2>7, <2>8 DEF Emitted, x
<1> QED BY <1>4, <1>5, <1>6

\* A chunk nobody took stays what it is.
LEMMA UnknownMirrors ==
    ASSUME NEW S, NEW v, NEW e, NEW start, NEW streams, NEW nested, NEW w, NEW c,
           IsSchema(S), IsMirror(S, v, e, start, streams, nested, w), w.err = "none",
           ChunkOf(S, c), NoRoom(S, v, c.cc, w.written[c.cc])
    PROVE  IsMirror(S, v, e, start, streams, nested, [w EXCEPT !.out = Append(w.out, c)])
<1> DEFINE x == [w EXCEPT !.out = Append(w.out, c)]
           r == Readings(S, v, start, w.out, nested)[Len(w.out)]
           s == ReadChunk(S, v, r, c, nested)
           n == Len(w.out)
<1>1. /\ IsWriting(S, v, w) /\ w.written \in [Members(S, v) -> Nat]
      /\ IsMirroredBy(S, v, e, start, streams, nested, w, r)
  BY DEF IsMirror, Mirrored
<1>2. x = [err |-> "none", out |-> Append(w.out, c), written |-> w.written]
  <2>1. w = [err |-> w.err, out |-> w.out, written |-> w.written]
    BY DEF IsMirror, IsWriting
  <2> DEFINE out == Append(w.out, c)
  <2> HIDE DEF out
  <2>2. [w EXCEPT !.out = out] = [err |-> w.err, out |-> out, written |-> w.written]
    BY <2>1
  <2> QED BY <2>2 DEF out
<1>3. IsWriting(S, v, x) /\ x.written \in [Members(S, v) -> Nat]
  BY <1>1, <1>2 DEF IsWriting
<1> HIDE DEF x, r
<1>4. /\ IsSoundReading(S, v, r) /\ r.err = "none" /\ r.seen = w.written
      /\ IsSeq(w.out) /\ \A i \in 1 .. n : ChunkOf(S, w.out[i]) /\ NestedErrs(S, v, nested, w.out[i].cc)
      /\ \A y \in Members(S, v) : IsMirroredMember(S, e, start, streams, nested, w.out, r, y)
  BY <1>1 DEF IsMirroredBy
<1>5. /\ IsSeq(x.out) /\ Len(x.out) = n + 1 /\ n \in Nat /\ x.out[n + 1] = c
      /\ \A i \in 1 .. n : x.out[i] = w.out[i]
  BY <1>2, <1>4, AppendIs, SeqIs
<1> HIDE DEF n
<1>6. s = Preserve(r, c)
  <2>1. c.cc \in Members(S, v) => /\ IsSeveral(S, c.cc) => r.seen[c.cc] = Len(r.e.val[c.cc])
                                  /\ IsSlots(S, c.cc) => IsSeveral(S, c.cc)
    BY <1>4 DEF IsSoundReading, IsSeveral
  <2> QED BY <1>4, <2>1 DEF NoRoom, ReadChunk
<1>7. NestedErrs(S, v, nested, c.cc)
  <2> SUFFICES ASSUME c.cc \in Members(S, v), IsNested(S, c.cc)
               PROVE  nested[c.cc].err \in {"none", "ChunkSizeMismatch", "ChunkTruncated", "ChunkMissing"}
    BY DEF NestedErrs
  <2>1. ~IsSeveral(S, c.cc) /\ r.seen[c.cc] # 0
    BY <1>4 DEF IsSchema, IsNested, NoRoom, IsSeveral
  <2>2. PICK k \in 1 .. n : w.out[k].cc = c.cc
    BY <1>4, <2>1 DEF IsMirroredMember, n
  <2> QED BY <1>4, <2>2 DEF NestedErrs
<1>8. IsSoundReading(S, v, s)
  BY <1>4, <1>7, ReadChunkIsSound
<1> HIDE DEF s
<1>9. IsPreserved(r, c, s)
  BY <1>4, <1>6, PreserveIs
<1>10. s.err = "none" /\ s.seen = r.seen /\ s.e.val = r.e.val
  BY <1>4, <1>9 DEF IsPreserved
<1>11. \A i \in 1 .. Len(x.out) : ChunkOf(S, x.out[i]) /\ NestedErrs(S, v, nested, x.out[i].cc)
  <2>1. \A i \in 1 .. n + 1 : i \in 1 .. n \/ i = n + 1
    BY <1>5
  <2> QED BY <1>4, <1>5, <1>7, <2>1
<1>12. ASSUME NEW y \in Members(S, v) PROVE IsMirroredMember(S, e, start, streams, nested, x.out, s, y)
  <2>1. IsMirroredMember(S, e, start, streams, nested, w.out, r, y)
    BY <1>4
  <2>2. ~IsSeveral(S, y) /\ r.seen[y] = 0 => c.cc # y
    <3>1. ~IsSeveral(S, y) => ~IsSlots(S, y)
      BY DEF IsSeveral
    <3> QED BY <1>4, <3>1 DEF NoRoom
  <2>3. ASSUME \A k \in 1 .. n : w.out[k].cc # y, c.cc # y PROVE \A k \in 1 .. n + 1 : x.out[k].cc # y
    <3>1. \A i \in 1 .. n + 1 : i \in 1 .. n \/ i = n + 1
      BY <1>5
    <3> QED BY <1>5, <2>3, <3>1
  <2>4. ASSUME NEW k \in 1 .. n, w.out[k].cc = y, w.out[k].pay = Sent(e, y, streams),
               \A m \in 1 .. k - 1 : w.out[m].cc # y
        PROVE  /\ k \in 1 .. n + 1 /\ x.out[k].cc = y /\ x.out[k].pay = Sent(e, y, streams)
               /\ \A m \in 1 .. k - 1 : x.out[m].cc # y
    <3>1. k \in 1 .. n + 1 /\ \A m \in 1 .. k - 1 : m \in 1 .. n
      BY <1>5
    <3> QED BY <1>5, <2>4, <3>1
  <2> QED BY <1>5, <1>10, <2>1, <2>2, <2>3, <2>4 DEF IsMirroredMember, n
<1>13. IsMirroredBy(S, v, e, start, streams, nested, x, s)
  BY <1>2, <1>4, <1>5, <1>8, <1>10, <1>11, <1>12 DEF IsMirroredBy
<1>14. Readings(S, v, start, x.out, nested)[Len(x.out)] = s
  BY <1>2, <1>4, OneMoreReading DEF r, s, n
<1>15. IsMirror(S, v, e, start, streams, nested, x)
  BY <1>2, <1>3, <1>13, <1>14 DEF IsMirror, Mirrored
<1> QED BY <1>15 DEF x

LEMMA BroughtGrows ==
    ASSUME NEW journal, NEW i \in Nat, NEW n \in Nat, i <= n, NEW cc
    PROVE  Brought(journal, i, cc) <= Brought(journal, n, cc)
<1>1. Bringing(journal, i, cc) \subseteq Bringing(journal, n, cc)
  BY DEF Bringing
<1>2. IsFiniteSet(Bringing(journal, n, cc))
  BY BringingIsFinite
<1> QED BY <1>1, <1>2, FS_Subset DEF Brought

\* The first j entries of the journal are written.
Replayed(S, v, e, start, streams, nested, w, j) ==
    /\ IsMirror(S, v, e, start, streams, nested, w)
    /\ w.err = "none" => \A cc \in Members(S, v) : w.written[cc] = Brought(e.journal, j, cc)

LEMMA ReplayMirrors ==
    ASSUME NEW S, NEW v, NEW e, NEW start, NEW streams, NEW nested, NEW w, NEW i \in Nat,
           i + 1 \in 1 .. Len(e.journal),
           IsSchema(S), IsSound(S, v, e), AreStreams(S, v, streams, nested),
           Replayed(S, v, e, start, streams, nested, w, i)
    PROVE  Replayed(S, v, e, start, streams, nested, Replay(S, e, w, e.journal[i + 1], streams), i + 1)
<1> DEFINE j == i + 1
           n == Len(e.journal)
           entry == e.journal[j]
           cc == entry.cc
           x == Replay(S, e, w, entry, streams)
<1>1. /\ IsMirror(S, v, e, start, streams, nested, w)
      /\ w.err = "none" => \A y \in Members(S, v) : w.written[y] = Brought(e.journal, i, y)
  BY DEF Replayed
<1>2. n \in Nat /\ j \in 1 .. n /\ j - 1 = i /\ j <= n /\ j \in Nat
  BY SeqIs DEF IsSound, IsFlat
<1>3. KnownEntry(S, v, entry, Brought(e.journal, i, cc)) \/ UnknownEntry(S, v, e, entry, Brought(e.journal, i, cc))
  BY <1>2 DEF IsSound, IsEntry
<1>4. \A y : Brought(e.journal, j, y) = IF entry.known /\ entry.cc = y THEN Brought(e.journal, i, y) + 1
                                          ELSE Brought(e.journal, i, y)
  BY OneMoreBrought
<1> HIDE DEF j, n, entry
<1>5. CASE KnownEntry(S, v, entry, Brought(e.journal, i, cc))
  <2>1. /\ entry.known = TRUE /\ cc \in Members(S, v) /\ entry.at = Brought(e.journal, i, cc)
        /\ ~IsSeveral(S, cc) => entry.at = 0
    BY <1>5 DEF KnownEntry
  <2>2. x = Emit(S, e, w, cc, entry.at, streams)
    BY <2>1 DEF Replay
  <2>3. entry.at \in Nat /\ Brought(e.journal, j, cc) = entry.at + 1
    BY <1>4, <2>1, BringingIsFinite
  <2>4. IsSeveral(S, cc) /\ Complete(S, v, e, streams) => entry.at < Len(e.val[cc])
    <3>1. IsSeveral(S, cc) => Len(e.val[cc]) \in Nat
      BY <2>1, SeqIs DEF IsSound, IsMember, IsValues
    <3>2. Brought(e.journal, j, cc) <= Brought(e.journal, n, cc) /\ Brought(e.journal, n, cc) \in Nat
      BY <1>2, BroughtGrows, BringingIsFinite
    <3>3. IsSeveral(S, cc) /\ Complete(S, v, e, streams) => Brought(e.journal, n, cc) <= Len(e.val[cc])
      BY <2>1 DEF Complete, HasAll, n
    <3> HIDE DEF x, cc
    <3> QED BY <2>3, <3>1, <3>2, <3>3
  <2>5. w.err = "none" => MayEmit(S, v, e, streams, w, cc, entry.at)
    BY <1>1, <2>1, <2>3, <2>4 DEF MayEmit
  <2> HIDE DEF x, cc
  <2>6. IsMirror(S, v, e, start, streams, nested, x) /\ Emitted(S, e, w, cc, entry.at, x)
    BY <1>1, <2>2, <2>5, EmitMirrors
  <2>7. IsWriting(S, v, w)
    BY <1>1 DEF IsMirror
  <2>8. ASSUME x.err = "none", NEW y \in Members(S, v) PROVE x.written[y] = Brought(e.journal, j, y)
    <3>1. w.err = "none" /\ x.written = [w.written EXCEPT ![cc] = w.written[cc] + 1]
      BY <2>6, <2>8 DEF Emitted
    <3>2. w.written = [z \in Members(S, v) |-> w.written[z]]
      BY <2>7 DEF IsWriting
    <3>3. x.written[y] = IF y = cc THEN w.written[cc] + 1 ELSE w.written[y]
      BY <3>1, <3>2
    <3> QED BY <1>1, <1>4, <2>1, <3>1, <3>3 DEF cc
  <2> QED BY <2>6, <2>8 DEF Replayed, x, entry, j
<1>6. CASE UnknownEntry(S, v, e, entry, Brought(e.journal, i, cc))
  <2>1. /\ entry.known = FALSE /\ entry.at \in Nat /\ entry.at < Len(e.unknown)
        /\ e.unknown[entry.at + 1].cc = cc /\ NoRoom(S, v, cc, Brought(e.journal, i, cc))
    BY <1>6 DEF UnknownEntry
  <2> DEFINE c == e.unknown[entry.at + 1]
  <2>2. Len(e.unknown) \in Nat /\ entry.at + 1 \in 1 .. Len(e.unknown)
    BY <2>1, SeqIs DEF IsSound, IsFlat
  <2>3. ChunkOf(S, c) /\ ~(entry.at >= Len(e.unknown))
    BY <2>1, <2>2 DEF IsSound, IsFlat
  <2>4. x = IF w.err # "none" THEN w ELSE [w EXCEPT !.out = Append(w.out, c)]
    BY <2>1, <2>3 DEF Replay
  <2>5. IsWriting(S, v, w)
    BY <1>1 DEF IsMirror
  <2>6. w.err = "none" => NoRoom(S, v, c.cc, w.written[c.cc])
    BY <1>1, <2>1 DEF NoRoom
  <2> HIDE DEF c, x, cc
  <2>7. IsMirror(S, v, e, start, streams, nested, x)
    BY <1>1, <2>3, <2>4, <2>6, UnknownMirrors
  <2>8. x.err = w.err /\ x.written = w.written
    BY <2>4, <2>5 DEF IsWriting
  <2>9. x.err = "none" => \A y \in Members(S, v) : x.written[y] = Brought(e.journal, j, y)
    BY <1>1, <1>4, <2>1, <2>8
  <2> QED BY <2>7, <2>9 DEF Replayed, x, entry, j
<1> QED BY <1>3, <1>5, <1>6

\* The members in the order up to j are all written, and the journal is.
IsDone(S, v, e, w, cc) ==
    /\ IsSeveral(S, cc) => w.written[cc] = Len(e.val[cc])
    /\ ~IsSeveral(S, cc) /\ w.written[cc] = 0 => cc \notin S.required /\ ~Engaged(S, v, cc, e.val[cc])

Completed(S, v, e, start, streams, nested, w, done) ==
    /\ IsMirror(S, v, e, start, streams, nested, w)
    /\ w.err = "none" =>
         /\ \A cc \in Members(S, v) : Brought(e.journal, Len(e.journal), cc) <= w.written[cc]
         /\ \A cc \in done \cap Members(S, v) : IsDone(S, v, e, w, cc)

\* The further values of one member, the first k of them.
Furthered(S, v, e, start, streams, nested, w, cc, x, k) ==
    /\ IsMirror(S, v, e, start, streams, nested, x)
    /\ x.err = "none" => /\ w.err = "none"
                         /\ x.written = [w.written EXCEPT ![cc] = w.written[cc] + k]

LEMMA WrittenIsBounded ==
    ASSUME NEW S, NEW v, NEW e, NEW start, NEW streams, NEW nested, NEW w,
           IsMirror(S, v, e, start, streams, nested, w), w.err = "none", NEW cc \in Members(S, v)
    PROVE  w.written[cc] \in Nat /\ (IsSeveral(S, cc) => w.written[cc] <= Len(e.val[cc]))
<1>1. PICK r : IsMirroredBy(S, v, e, start, streams, nested, w, r)
  BY DEF IsMirror, Mirrored
<1>2. IsMirroredMember(S, e, start, streams, nested, w.out, r, cc) /\ IsSoundReading(S, v, r)
      /\ r.seen = w.written /\ r.err = "none"
  BY <1>1 DEF IsMirroredBy
<1>3. r.seen[cc] \in Nat /\ (IsSeveral(S, cc) => r.seen[cc] = Len(r.e.val[cc]))
  BY <1>2 DEF IsSoundReading
<1> QED BY <1>2, <1>3 DEF IsMirroredMember

LEMMA FurtherIs ==
    ASSUME NEW S, NEW e, NEW w, NEW cc, w.written[cc] \in Nat,
           IsSeveral(S, cc) => Len(e.val[cc]) \in Nat
    PROVE  LET further == Further(S, e, w, cc)
               m == Len(further)
           IN  /\ m \in Nat
               /\ IsSeveral(S, cc) => /\ m # 0 => w.written[cc] + m = Len(e.val[cc])
                                      /\ w.written[cc] <= Len(e.val[cc]) => w.written[cc] + m = Len(e.val[cc])
                                      /\ \A i \in 1 .. m : further[i] = w.written[cc] + i - 1
               /\ ~IsSeveral(S, cc) => /\ m = IF w.written[cc] = 0 THEN 1 ELSE 0
                                       /\ \A i \in 1 .. m : further[i] = 0
<1> DEFINE further == Further(S, e, w, cc)
           m == Len(further)
           k == Len(e.val[cc]) - w.written[cc]
<1>1. CASE ~IsSeveral(S, cc) /\ w.written[cc] = 0
  <2>1. further = <<0>>
    BY <1>1 DEF Further
  <2> QED BY <1>1, <2>1
<1>2. CASE ~IsSeveral(S, cc) /\ w.written[cc] # 0
  <2>1. further = <<>>
    BY <1>2 DEF Further
  <2> QED BY <1>2, <2>1
<1>3. CASE IsSeveral(S, cc) /\ k >= 0
  <2>1. further = [i \in 1 .. k |-> w.written[cc] + i - 1] /\ k \in Nat
    BY <1>3 DEF Further
  <2>2. m = k /\ \A i \in 1 .. m : further[i] = w.written[cc] + i - 1
    BY <2>1
  <2>3. w.written[cc] + k = Len(e.val[cc])
    BY <1>3
  <2> HIDE DEF further, m, k
  <2> QED BY <1>3, <2>1, <2>2, <2>3 DEF further, m
<1>4. CASE IsSeveral(S, cc) /\ k < 0
  <2>1. further = [i \in 1 .. k |-> w.written[cc] + i - 1] /\ 1 .. k = {}
    BY <1>4 DEF Further
  <2>2. further = <<>>
    BY <2>1
  <2>3. m = 0 /\ ~(w.written[cc] <= Len(e.val[cc]))
    BY <1>4, <2>2
  <2> HIDE DEF further, m, k
  <2> QED BY <1>4, <2>3 DEF further, m
<1>5. k >= 0 \/ k < 0 \/ ~IsSeveral(S, cc)
  OBVIOUS
<1> QED BY <1>1, <1>2, <1>3, <1>4, <1>5

LEMMA EmissionsMirror ==
    ASSUME NEW S, NEW v, NEW e, NEW start, NEW streams, NEW nested, NEW w, NEW cc \in Members(S, v),
           IsSchema(S), IsSound(S, v, e), AreStreams(S, v, streams, nested),
           IsMirror(S, v, e, start, streams, nested, w)
    PROVE  LET further == Further(S, e, w, cc)
               m == Len(further)
           IN  m \in Nat /\ Furthered(S, v, e, start, streams, nested, w, cc,
                                      Emissions(S, e, w, cc, further, streams)[m], m)
<1> DEFINE further == Further(S, e, w, cc)
           m == Len(further)
           p == Emissions(S, e, w, cc, further, streams)
           done == w.written[cc]
           T == {i \in 0 .. m : Furthered(S, v, e, start, streams, nested, w, cc, p[i], i)}
<1>1. /\ w.written \in [Members(S, v) -> Nat] /\ done \in Nat
      /\ IsSeveral(S, cc) => Len(e.val[cc]) \in Nat
  BY SeqIs DEF IsMirror, IsSound, IsMember, IsValues
<1>2. /\ m \in Nat
      /\ IsSeveral(S, cc) => /\ m # 0 => done + m = Len(e.val[cc])
                             /\ \A i \in 1 .. m : further[i] = done + i - 1
      /\ ~IsSeveral(S, cc) => /\ m = IF done = 0 THEN 1 ELSE 0
                              /\ \A i \in 1 .. m : further[i] = 0
  BY <1>1, FurtherIs
<1>3. p[0] = w /\ \A i \in 1 .. m : p[i] = Emit(S, e, p[i - 1], cc, further[i], streams)
  BY <1>2, EmissionsAre
<1> HIDE DEF p, further, m, done
<1>4. 0 \in T
  <2>1. w.written = [w.written EXCEPT ![cc] = w.written[cc] + 0]
    BY <1>1 DEF done
  <2>2. Furthered(S, v, e, start, streams, nested, w, cc, w, 0)
    BY <2>1 DEF Furthered
  <2> QED BY <1>2, <1>3, <2>2
<1>5. ASSUME NEW i \in 0 .. m - 1, i \in T PROVE i + 1 \in T
  <2>1. i + 1 \in 1 .. m /\ i \in Nat /\ (i + 1) - 1 = i /\ i + 1 \in 0 .. m /\ i < m
    BY <1>2
  <2> DEFINE at == further[i + 1]
  <2>2. p[i + 1] = Emit(S, e, p[i], cc, at, streams)
    BY <1>3, <2>1
  <2>3. /\ IsMirror(S, v, e, start, streams, nested, p[i])
        /\ p[i].err = "none" => w.err = "none" /\ p[i].written = [w.written EXCEPT ![cc] = done + i]
    BY <1>5 DEF Furthered, done
  <2>4. p[i].err = "none" => p[i].written[cc] = done + i
    BY <1>1, <2>3
  <2>5. at \in Nat /\ (IsSeveral(S, cc) => at = done + i /\ at < Len(e.val[cc]))
        /\ (~IsSeveral(S, cc) => done + i = 0)
    <3>1. CASE IsSeveral(S, cc)
      <4>1. at = done + (i + 1) - 1 /\ done + m = Len(e.val[cc])
        BY <1>2, <2>1, <3>1
      <4> HIDE DEF at
      <4> QED BY <1>1, <1>2, <2>1, <3>1, <4>1
    <3>2. CASE ~IsSeveral(S, cc)
      <4>1. at = 0 /\ m = 1 /\ done = 0
        BY <1>2, <2>1, <3>2
      <4> HIDE DEF at
      <4> QED BY <2>1, <3>2, <4>1
    <3> QED BY <3>1, <3>2
  <2> HIDE DEF at
  <2>6. p[i].err = "none" => MayEmit(S, v, e, streams, p[i], cc, at)
    BY <2>4, <2>5 DEF MayEmit
  <2>7. /\ IsMirror(S, v, e, start, streams, nested, p[i + 1])
        /\ Emitted(S, e, p[i], cc, at, p[i + 1])
    BY <2>2, <2>3, <2>6, EmitMirrors
  <2>8. ASSUME p[i + 1].err = "none"
        PROVE  w.err = "none" /\ p[i + 1].written = [w.written EXCEPT ![cc] = done + (i + 1)]
    <3>1. p[i].err = "none" /\ p[i + 1].written = [p[i].written EXCEPT ![cc] = p[i].written[cc] + 1]
      BY <2>7, <2>8 DEF Emitted
    <3>2. p[i].written = [w.written EXCEPT ![cc] = done + i] /\ (done + i) + 1 = done + (i + 1)
      BY <1>1, <2>1, <2>3, <3>1
    <3>3. p[i + 1].written = [w.written EXCEPT ![cc] = (done + i) + 1]
      BY <1>1, <3>1, <3>2
    <3> QED BY <2>3, <3>1, <3>2, <3>3
  <2>9. Furthered(S, v, e, start, streams, nested, w, cc, p[i + 1], i + 1)
    BY <2>7, <2>8 DEF Furthered, done
  <2> QED BY <2>1, <2>9
<1>6. \A i \in 0 .. m : i \in T
  <2> HIDE DEF T
  <2> QED BY <1>2, <1>4, <1>5, CountUp
<1>7. m \in Nat /\ Furthered(S, v, e, start, streams, nested, w, cc, p[m], m)
  BY <1>2, <1>6
<1> QED BY <1>7 DEF p, further, m

LEMMA AddMirrors ==
    ASSUME NEW S, NEW v, NEW e, NEW start, NEW streams, NEW nested, NEW w, NEW cc, NEW done,
           IsSchema(S), IsSound(S, v, e), AreStreams(S, v, streams, nested), cc \in Range(S.order),
           Completed(S, v, e, start, streams, nested, w, done)
    PROVE  Completed(S, v, e, start, streams, nested, AddUnjournaled(S, v, e, w, cc, streams), done \cup {cc})
<1> DEFINE further == Further(S, e, w, cc)
           m == Len(further)
           p == Emissions(S, e, w, cc, further, streams)
           x == AddUnjournaled(S, v, e, w, cc, streams)
           writes == Active(S, v, cc) /\ (IsSeveral(S, cc) \/ cc \in S.required \/ Engaged(S, v, cc, e.val[cc]))
<1>1. IsMirror(S, v, e, start, streams, nested, w) /\ w.written \in [Members(S, v) -> Nat]
  BY DEF Completed, IsMirror
<1>2. x = IF writes THEN p[m] ELSE w
  BY DEF AddUnjournaled
<1>3. cc \in Members(S, v) <=> Active(S, v, cc)
  BY DEF Members
<1>4. CASE ~writes
  <2>1. x = w
    BY <1>2, <1>4
  <2>2. w.err = "none" /\ cc \in Members(S, v) => IsDone(S, v, e, w, cc)
    BY <1>3, <1>4 DEF IsDone
  <2> HIDE DEF x
  <2>3. Completed(S, v, e, start, streams, nested, x, done \cup {cc})
    BY <2>1, <2>2 DEF Completed
  <2> QED BY <2>3 DEF x
<1>5. CASE writes
  <2>1. cc \in Members(S, v) /\ x = p[m]
    BY <1>2, <1>3, <1>5
  <2>2. IsSeveral(S, cc) => Len(e.val[cc]) \in Nat
    BY <2>1, SeqIs DEF IsSound, IsMember, IsValues
  <2>3. w.err = "none" => w.written[cc] \in Nat /\ (IsSeveral(S, cc) => w.written[cc] <= Len(e.val[cc]))
    BY <1>1, <2>1, WrittenIsBounded
  <2>4. m \in Nat /\ Furthered(S, v, e, start, streams, nested, w, cc, p[m], m)
    BY <1>1, <2>1, EmissionsMirror
  <2>5. /\ IsSeveral(S, cc) /\ w.written[cc] <= Len(e.val[cc]) => w.written[cc] + m = Len(e.val[cc])
        /\ ~IsSeveral(S, cc) => m = IF w.written[cc] = 0 THEN 1 ELSE 0
    BY <1>1, <2>1, <2>2, FurtherIs
  <2> HIDE DEF x, m, p, further
  <2>6. IsMirror(S, v, e, start, streams, nested, x)
    BY <2>1, <2>4 DEF Furthered
  <2>7. ASSUME x.err = "none"
        PROVE  /\ \A y \in Members(S, v) : Brought(e.journal, Len(e.journal), y) <= x.written[y]
               /\ \A y \in (done \cup {cc}) \cap Members(S, v) : IsDone(S, v, e, x, y)
    <3>1. w.err = "none" /\ x.written = [w.written EXCEPT ![cc] = w.written[cc] + m]
      BY <2>1, <2>4, <2>7 DEF Furthered
    <3>2. /\ x.written[cc] = w.written[cc] + m /\ w.written[cc] \in Nat
          /\ \A y \in Members(S, v) : y # cc => x.written[y] = w.written[y]
      BY <1>1, <2>1, <3>1
    <3>3. /\ \A y \in Members(S, v) : Brought(e.journal, Len(e.journal), y) <= w.written[y]
          /\ \A y \in done \cap Members(S, v) : IsDone(S, v, e, w, y)
      BY <3>1 DEF Completed
    <3>4. Brought(e.journal, Len(e.journal), cc) <= x.written[cc]
      <4>1. Brought(e.journal, Len(e.journal), cc) \in Nat
        <5>1. Len(e.journal) \in Nat
          BY SeqIs DEF IsSound, IsFlat
        <5> QED BY <5>1, BringingIsFinite
      <4>2. Brought(e.journal, Len(e.journal), cc) <= w.written[cc]
        BY <2>1, <3>3
      <4> QED BY <2>4, <3>2, <4>1, <4>2
    <3>5. IsDone(S, v, e, x, cc)
      BY <2>3, <2>4, <2>5, <3>1, <3>2 DEF IsDone
    <3>6. \A y \in done \cap Members(S, v) : y # cc => IsDone(S, v, e, x, y)
      BY <3>2, <3>3 DEF IsDone
    <3> QED BY <3>2, <3>3, <3>4, <3>5, <3>6
  <2>8. Completed(S, v, e, start, streams, nested, x, done \cup {cc})
    BY <2>6, <2>7 DEF Completed
  <2> QED BY <2>8 DEF x
<1> QED BY <1>4, <1>5

\* A reading of a stream into a new entity starts so.
StartOf(S, v, new, head) ==
    [err |-> "none", seen |-> [cc \in Members(S, v) |-> 0], e |-> [new EXCEPT !.head = head]]

LEMMA StartIs ==
    ASSUME NEW S, NEW v, NEW new, NEW head, IsSchema(S), IsNew(S, v, new)
    PROVE  LET start == StartOf(S, v, new, head)
           IN  /\ IsSoundReading(S, v, start) /\ start.err = "none"
               /\ start.seen = [cc \in Members(S, v) |-> 0]
<1> DEFINE headed == [new EXCEPT !.head = head]
           start == StartOf(S, v, new, head)
<1>1. /\ IsSound(S, v, new) /\ new.journal = <<>> /\ new.unknown = <<>> /\ new.rest = "none"
      /\ \A cc \in Members(S, v) : IsSeveral(S, cc) => new.val[cc] = <<>>
  BY DEF IsNew
<1>2. new = [head |-> new.head, val |-> new.val, journal |-> new.journal, unknown |-> new.unknown, rest |-> new.rest]
  BY <1>1 DEF IsSound, IsFlat
<1>3. headed = [head |-> head, val |-> new.val, journal |-> new.journal, unknown |-> new.unknown, rest |-> new.rest]
  BY <1>2
<1>4. start = [err |-> "none", seen |-> [cc \in Members(S, v) |-> 0], e |-> headed]
  BY DEF StartOf
<1> HIDE DEF headed, start
<1>5. IsSound(S, v, headed)
  <2>1. IsFlat(S, v, headed)
    BY <1>1, <1>3 DEF IsSound, IsFlat
  <2>2. Len(headed.journal) = 0
    BY <1>1, <1>3, EmptyIs
  <2>3. \A i \in 1 .. Len(headed.journal) : IsEntry(S, v, headed, i)
    BY <2>2
  <2>4. \A cc \in Members(S, v) : IsMember(S, headed, cc)
    BY <1>1, <1>3 DEF IsSound, IsMember
  <2> QED BY <2>1, <2>3, <2>4 DEF IsSound
<1>6. \A cc : Brought(headed.journal, Len(headed.journal), cc) = 0
  BY <1>1, <1>3, EmptyIs, NothingBrought
<1>7. \A cc \in Members(S, v) : IsSeveral(S, cc) => Len(headed.val[cc]) = 0
  BY <1>1, <1>3, EmptyIs
<1>8. IsSoundReading(S, v, start)
  BY <1>4, <1>5, <1>6, <1>7 DEF IsSoundReading
<1> QED BY <1>3, <1>4, <1>8 DEF start

\* How a stream is written, from the first entry of the journal to the last member.
LEMMA WriteStreamIs ==
    ASSUME NEW S, NEW v, NEW e, NEW new, NEW streams, NEW nested,
           IsSchema(S), IsSound(S, v, e), AreStreams(S, v, streams, nested), IsNew(S, v, new)
    PROVE  \E w : /\ Completed(S, v, e, StartOf(S, v, new, e.head), streams, nested, w, Range(S.order))
                  /\ WriteStream(S, v, e, e.journal, streams) = Finished(e, w)
<1> DEFINE first == [err |-> "none", out |-> <<>>, written |-> [cc \in Members(S, v) |-> 0]]
           start == StartOf(S, v, new, e.head)
           n == Len(e.journal)
           r == Replays(S, e, first, e.journal, streams)
           q == Completions(S, v, e, r[n], streams)
           T == {i \in 0 .. n : Replayed(S, v, e, start, streams, nested, r[i], i)}
<1>1. n \in Nat
  BY SeqIs DEF IsSound, IsFlat
<1>2. r[0] = first /\ \A i \in 1 .. n : r[i] = Replay(S, e, r[i - 1], e.journal[i], streams)
  BY <1>1, ReplaysAre
<1>3. IsSoundReading(S, v, start) /\ start.err = "none" /\ start.seen = [cc \in Members(S, v) |-> 0]
  BY StartIs
<1> HIDE DEF start, r, q
<1>4. Replayed(S, v, e, start, streams, nested, first, 0)
  <2>1. /\ IsWriting(S, v, first) /\ first.written \in [Members(S, v) -> Nat]
        /\ first.err = "none" /\ first.out = <<>> /\ first.written = start.seen
    BY <1>3 DEF IsWriting
  <2> HIDE DEF first
  <2>2. Len(first.out) = 0 /\ IsSeq(first.out)
    BY <2>1, EmptyIs
  <2>3. Readings(S, v, start, first.out, nested)[Len(first.out)] = start
    BY <2>2, ReadingsAre
  <2>4. ASSUME NEW cc \in Members(S, v)
        PROVE  IsMirroredMember(S, e, start, streams, nested, first.out, start, cc)
    <3>1. start.seen[cc] = 0
      BY <1>3
    <3>2. IsSeveral(S, cc) => Len(start.e.val[cc]) = 0 /\ Len(e.val[cc]) \in Nat
      BY <1>3, <3>1, SeqIs DEF IsSoundReading, IsSound, IsMember, IsValues
    <3> QED BY <2>2, <3>1, <3>2 DEF IsMirroredMember
  <2>5. Mirrored(S, v, e, start, streams, nested, first)
    BY <1>3, <2>1, <2>2, <2>3, <2>4 DEF Mirrored, IsMirroredBy
  <2>6. \A cc \in Members(S, v) : first.written[cc] = Brought(e.journal, 0, cc)
    BY <1>3, <2>1, NothingBrought
  <2> QED BY <2>1, <2>5, <2>6 DEF Replayed, IsMirror
<1> HIDE DEF first
<1>5. 0 \in T
  BY <1>1, <1>2, <1>4
<1>6. ASSUME NEW i \in 0 .. n - 1, i \in T PROVE i + 1 \in T
  <2>1. i + 1 \in 1 .. n /\ i \in Nat /\ (i + 1) - 1 = i /\ i + 1 \in 0 .. n
    BY <1>1
  <2>2. r[i + 1] = Replay(S, e, r[i], e.journal[i + 1], streams)
    BY <1>2, <2>1
  <2>3. Replayed(S, v, e, start, streams, nested, r[i], i)
    BY <1>6
  <2>4. Replayed(S, v, e, start, streams, nested, r[i + 1], i + 1)
    BY <2>1, <2>2, <2>3, ReplayMirrors
  <2> QED BY <2>1, <2>4
<1>7. Replayed(S, v, e, start, streams, nested, r[n], n)
  <2>1. \A i \in 0 .. n : i \in T
    <3> HIDE DEF T, n
    <3> QED BY <1>1, <1>5, <1>6, CountUp
  <2> QED BY <1>1, <2>1
<1> DEFINE m == Len(S.order)
           Done(i) == {S.order[k] : k \in 1 .. i}
           U == {i \in 0 .. m : Completed(S, v, e, start, streams, nested, q[i], Done(i))}
<1>8. m \in Nat /\ Range(S.order) = Done(m) /\ \A i \in 1 .. m : S.order[i] \in Range(S.order)
  <2>1. IsSeq(S.order)
    BY DEF IsSchema, IsSchemaFlat, IsSeq
  <2> QED BY <2>1, SeqIs DEF Range
<1>9. q[0] = r[n] /\ \A i \in 1 .. m : q[i] = AddUnjournaled(S, v, e, q[i - 1], S.order[i], streams)
  BY <1>8, CompletionsAre DEF q
<1>10. 0 \in U
  <2>1. r[n].err = "none" => \A cc \in Members(S, v) : r[n].written[cc] = Brought(e.journal, n, cc)
                                                       /\ Brought(e.journal, n, cc) \in Nat
    BY <1>1, <1>7, BringingIsFinite DEF Replayed
  <2>2. Done(0) = {}
    OBVIOUS
  <2>3. Completed(S, v, e, start, streams, nested, r[n], {})
    BY <1>7, <2>1 DEF Completed, Replayed
  <2>4. 0 \in 0 .. m
    BY <1>8
  <2>5. q[0] = r[n]
    BY <1>9
  <2> HIDE DEF Done, m, q, r, n
  <2>6. Completed(S, v, e, start, streams, nested, q[0], Done(0))
    BY <2>2, <2>3, <2>5
  <2> QED BY <2>4, <2>6
<1>11. ASSUME NEW i \in 0 .. m - 1, i \in U PROVE i + 1 \in U
  <2>1. i + 1 \in 1 .. m /\ (i + 1) - 1 = i /\ i + 1 \in 0 .. m
    BY <1>8
  <2>2. q[i + 1] = AddUnjournaled(S, v, e, q[i], S.order[i + 1], streams) /\ S.order[i + 1] \in Range(S.order)
    BY <1>8, <1>9, <2>1
  <2>3. Completed(S, v, e, start, streams, nested, q[i], Done(i))
    BY <1>11
  <2>4. Completed(S, v, e, start, streams, nested, q[i + 1], Done(i) \cup {S.order[i + 1]})
    BY <2>2, <2>3, AddMirrors
  <2>5. Done(i + 1) = Done(i) \cup {S.order[i + 1]}
    <3>1. \A k \in 1 .. i + 1 : k \in 1 .. i \/ k = i + 1
      OBVIOUS
    <3>2. \A k \in 1 .. i : k \in 1 .. i + 1
      OBVIOUS
    <3>3. i + 1 \in 1 .. i + 1
      OBVIOUS
    <3> QED BY <3>1, <3>2, <3>3
  <2> QED BY <2>1, <2>4, <2>5
<1>12. Completed(S, v, e, start, streams, nested, q[m], Range(S.order))
  <2>1. \A i \in 0 .. m : i \in U
    <3> HIDE DEF U, m
    <3> QED BY <1>8, <1>10, <1>11, CountUp
  <2>2. m \in 0 .. m
    BY <1>8
  <2> HIDE DEF Done, m
  <2>3. Completed(S, v, e, start, streams, nested, q[m], Done(m))
    BY <2>1, <2>2
  <2> QED BY <1>8, <2>3
<1>13. WriteStream(S, v, e, e.journal, streams) = Finished(e, q[m])
  BY DEF WriteStream, first, r, q
<1> QED BY <1>12, <1>13 DEF start

\* r, read of pay, has what e has, and the containers are where they were put.
IsReadBack(S, v, e, streams, nested, pay, r) ==
    /\ IsStream(pay) /\ \A i \in 1 .. Len(pay.sub) : ChunkOf(S, pay.sub[i])
    /\ r.err = "none"
    /\ \A cc \in Members(S, v) :
         /\ r.e.val[cc] = IF IsSeveral(S, cc) THEN e.val[cc] ELSE Back(S, e, cc, streams, nested)
         /\ IsNested(S, cc) => /\ streams[cc].err = "none"
                               /\ \E k \in DOMAIN pay.sub : /\ IsFirstOf(pay, k, cc)
                                                             /\ pay.sub[k].pay = Sent(e, cc, streams)

\* A member that was not written held nothing.
LEMMA UnwrittenIsNew ==
    ASSUME NEW S, NEW v, NEW e, NEW new, NEW streams, NEW nested, NEW w, NEW cc \in Members(S, v),
           IsSchema(S), IsSound(S, v, e), AreStreams(S, v, streams, nested), IsNew(S, v, new),
           ~IsSeveral(S, cc), w.written[cc] = 0, IsDone(S, v, e, w, cc),
           Brought(e.journal, Len(e.journal), cc) <= w.written[cc]
    PROVE  new.val[cc] = Back(S, e, cc, streams, nested)
<1>1. cc \notin S.required /\ ~Engaged(S, v, cc, e.val[cc])
  BY DEF IsDone
<1>2. ~IsNested(S, cc) /\ ~IsSized(S, cc)
  BY <1>1 DEF IsSchema, IsSchemaFlat, IsNested, IsSized, IsSeveral, IsSlots
<1>3. Brought(e.journal, Len(e.journal), cc) = 0
  <2>1. Len(e.journal) \in Nat
    BY SeqIs DEF IsSound, IsFlat
  <2>2. Brought(e.journal, Len(e.journal), cc) \in Nat
    BY <2>1, BringingIsFinite
  <2> QED BY <2>2
<1>4. e.val[cc] = Bytes(e.val[cc].els)
  BY <1>2, <1>3 DEF IsSound, IsMember, IsOwn
<1>5. e.val[cc].els = <<>>
  BY <1>1, <1>2 DEF Engaged, EngagedFlat, Holds
<1>6. new.val[cc] = Bytes(<<>>)
  BY <1>2 DEF IsNew, Default, NoBytes
<1>7. cc \notin DOMAIN streams
  BY <1>1 DEF AreStreams
<1> QED BY <1>2, <1>4, <1>5, <1>6, <1>7 DEF Back, Sent

LEMMA StreamReadsBack ==
    ASSUME NEW S, NEW v, NEW e, NEW new, NEW streams, NEW nested,
           IsSchema(S), IsSound(S, v, e), HasHead(S, e), AreStreams(S, v, streams, nested), IsNew(S, v, new)
    PROVE  LET w == WriteStream(S, v, e, e.journal, streams)
           IN  /\ w = [err |-> w.err, pay |-> w.pay] /\ w.err \in {"none", "ChunkSizeMismatch"}
               /\ Complete(S, v, e, streams) => w.err = "none"
               /\ w.err = "none" => IsReadBack(S, v, e, streams, nested, w.pay,
                                               ReadStream(S, v, new, w.pay, nested))
<1> DEFINE start == StartOf(S, v, new, e.head)
           w == WriteStream(S, v, e, e.journal, streams)
           r == ReadStream(S, v, new, w.pay, nested)
<1>1. PICK x : /\ Completed(S, v, e, start, streams, nested, x, Range(S.order))
               /\ w = Finished(e, x)
  BY WriteStreamIs
<1>2. w = [err |-> x.err, pay |-> [els |-> e.head, sub |-> x.out, rest |-> e.rest]]
  BY <1>1 DEF Finished
<1>3. IsMirror(S, v, e, start, streams, nested, x)
  BY <1>1 DEF Completed
<1>4. x.err \in {"none", "ChunkSizeMismatch"} /\ (Complete(S, v, e, streams) => x.err = "none")
  BY <1>3 DEF IsMirror
<1>7. start.e.val = new.val
  <2>1. new = [head |-> new.head, val |-> new.val, journal |-> new.journal, unknown |-> new.unknown, rest |-> new.rest]
    BY DEF IsNew, IsSound, IsFlat
  <2>2. [new EXCEPT !.head = e.head].val = new.val
    BY <2>1
  <2> QED BY <2>2 DEF StartOf
<1> HIDE DEF w, start
<1>5. ASSUME w.err = "none" PROVE IsReadBack(S, v, e, streams, nested, w.pay, r)
  <2> DEFINE scan == Readings(S, v, start, x.out, nested)[Len(x.out)]
             pay == w.pay
  <2>1. x.err = "none" /\ pay = [els |-> e.head, sub |-> x.out, rest |-> e.rest]
    BY <1>2, <1>5
  <2>2. IsMirroredBy(S, v, e, start, streams, nested, x, scan)
    BY <1>3, <2>1 DEF IsMirror, Mirrored
  <2>3. pay.els = e.head /\ pay.sub = x.out /\ pay.rest = e.rest
    BY <2>1
  <2> HIDE DEF pay, scan
  <2>4. /\ IsSeq(x.out) /\ \A i \in 1 .. Len(x.out) : ChunkOf(S, x.out[i])
        /\ scan.err = "none" /\ scan.seen = x.written
        /\ \A cc \in Members(S, v) : IsMirroredMember(S, e, start, streams, nested, x.out, scan, cc)
    BY <2>2 DEF IsMirroredBy
  <2>5. DOMAIN x.out = 1 .. Len(x.out) /\ e.rest \in {"none", "stray"}
    BY <2>4, SeqIs DEF IsSound, IsFlat
  <2>6. IsStream(pay)
    BY <2>1, <2>3, <2>4, <2>5 DEF IsStream, IsSeq, ChunkOf
  <2>7. \A cc \in Members(S, v) : IsDone(S, v, e, x, cc)
                                  /\ Brought(e.journal, Len(e.journal), cc) <= x.written[cc]
    BY <1>1, <2>1 DEF Completed, Members
  <2>8. \A cc \in Required(S, v) : scan.seen[cc] # 0
    <3>1. \A cc \in Required(S, v) : cc \in Members(S, v) /\ cc \in S.required /\ ~IsSeveral(S, cc)
      BY DEF Required, IsSchema, IsSchemaFlat
    <3> QED BY <2>4, <2>7, <3>1 DEF IsDone
  <2>9. r = EndOfStream(S, v, pay, scan)
    <3>1. ~(S.header /\ pay.els = <<>>)
      BY <2>3 DEF HasHead
    <3> QED BY <2>3, <3>1 DEF ReadStream, start, StartOf, scan, pay
  <2>10. r.err = "none" /\ r.e.val = scan.e.val
    <3>1. pay.rest # "overrun"
      BY <2>3, <2>5
    <3>2. ~(\E cc \in Required(S, v) : scan.seen[cc] = 0)
      BY <2>8
    <3>3. r = [err |-> "none", e |-> IF pay.rest = "stray" THEN [scan.e EXCEPT !.rest = "stray"] ELSE scan.e]
      BY <2>4, <2>9, <3>1, <3>2 DEF EndOfStream
    <3>4. scan.e = [head |-> scan.e.head, val |-> scan.e.val, journal |-> scan.e.journal,
                    unknown |-> scan.e.unknown, rest |-> scan.e.rest]
      BY <2>2 DEF IsMirroredBy, IsSoundReading, IsSound, IsFlat
    <3> HIDE DEF r
    <3> QED BY <3>3, <3>4
  <2>11. ASSUME NEW cc \in Members(S, v)
         PROVE  /\ scan.e.val[cc] = IF IsSeveral(S, cc) THEN e.val[cc] ELSE Back(S, e, cc, streams, nested)
                /\ IsNested(S, cc) => /\ streams[cc].err = "none"
                                      /\ \E k \in DOMAIN pay.sub : /\ IsFirstOf(pay, k, cc)
                                                                    /\ pay.sub[k].pay = Sent(e, cc, streams)
    <3>1. IsMirroredMember(S, e, start, streams, nested, x.out, scan, cc) /\ IsDone(S, v, e, x, cc)
      BY <2>4, <2>7
    <3>2. CASE IsSeveral(S, cc)
      <4>1. x.written[cc] = Len(e.val[cc]) /\ IsSeq(e.val[cc]) /\ ~IsNested(S, cc)
        BY <3>1, <3>2 DEF IsDone, IsSound, IsMember, IsValues, IsSchema, IsNested
      <4>2. IsSeq(scan.e.val[cc]) /\ Len(scan.e.val[cc]) = x.written[cc]
        BY <2>2, <2>4, <3>2 DEF IsMirroredBy, IsSoundReading, IsSound, IsMember, IsValues
      <4>3. \A k \in 1 .. Len(scan.e.val[cc]) : scan.e.val[cc][k] = e.val[cc][k]
        BY <3>1, <3>2 DEF IsMirroredMember
      <4>4. scan.e.val[cc] = e.val[cc]
        BY <4>1, <4>2, <4>3, SeqsAreEqual
      <4> QED BY <3>2, <4>1, <4>4
    <3>3. CASE ~IsSeveral(S, cc) /\ x.written[cc] = 0
      <4>1. scan.e.val[cc] = new.val[cc]
        BY <1>7, <2>4, <3>1, <3>3 DEF IsMirroredMember
      <4>2. new.val[cc] = Back(S, e, cc, streams, nested)
        BY <2>7, <3>1, <3>3, UnwrittenIsNew
      <4>3. ~IsNested(S, cc)
        BY <3>1, <3>3 DEF IsDone, IsSchema, IsNested
      <4> QED BY <3>3, <4>1, <4>2, <4>3
    <3>4. CASE ~IsSeveral(S, cc) /\ x.written[cc] # 0
      <4>1. /\ scan.e.val[cc] = Back(S, e, cc, streams, nested)
            /\ cc \in DOMAIN streams => streams[cc].err = "none"
            /\ \E k \in 1 .. Len(x.out) : /\ x.out[k].cc = cc /\ x.out[k].pay = Sent(e, cc, streams)
                                          /\ \A m \in 1 .. k - 1 : x.out[m].cc # cc
        BY <2>4, <3>1, <3>4 DEF IsMirroredMember
      <4>2. IsNested(S, cc) => cc \in DOMAIN streams
        BY DEF AreStreams
      <4> QED BY <2>3, <2>5, <3>4, <4>1, <4>2 DEF IsFirstOf
    <3> QED BY <3>2, <3>3, <3>4
  <2> HIDE DEF r
  <2>12. IsReadBack(S, v, e, streams, nested, pay, r)
    BY <2>3, <2>4, <2>6, <2>10, <2>11 DEF IsReadBack
  <2> QED BY <2>12 DEF pay
<1>6. w = [err |-> w.err, pay |-> w.pay] /\ w.err = x.err
  BY <1>2
<1> QED BY <1>4, <1>5, <1>6 DEF w, r

LEMMA FlatReadsBack ==
    ASSUME NEW S, NEW v, NEW e, IsSchemaFlat(S), DOMAIN S.nested = {}, IsSound(S, v, e), HasHead(S, e)
    PROVE  LET w == WriteFlat(S, v, e)
               r == ReadFlat(S, v, FreshFlat(S, v), w.pay)
           IN  /\ w.err \in {"none", "ChunkSizeMismatch"}
               /\ HasAll(S, v, e) => w.err = "none"
               /\ w.err = "none" => /\ IsStream(w.pay) /\ r.err = "none"
                                    /\ \A cc \in Members(S, v) : r.e.val[cc] = e.val[cc]
<1> DEFINE new == FreshFlat(S, v)
           w == WriteStream(S, v, e, e.journal, <<>>)
           r == ReadStream(S, v, new, w.pay, <<>>)
<1>1. IsSchema(S) /\ IsNew(S, v, new)
  BY FreshFlatIsNew DEF IsSchema
<1>2. DOMAIN <<>> = {}
  OBVIOUS
<1>3. AreStreams(S, v, <<>>, <<>>) /\ (HasAll(S, v, e) => Complete(S, v, e, <<>>))
  BY <1>2 DEF AreStreams, IsNested, Complete
<1> HIDE DEF new
<1>4. /\ w = [err |-> w.err, pay |-> w.pay] /\ w.err \in {"none", "ChunkSizeMismatch"}
      /\ Complete(S, v, e, <<>>) => w.err = "none"
      /\ w.err = "none" => IsReadBack(S, v, e, <<>>, <<>>, w.pay, r)
  BY <1>1, <1>3, StreamReadsBack
<1> HIDE DEF w, r
<1>5. w.err = "none" => /\ IsStream(w.pay) /\ r.err = "none"
                        /\ \A cc \in Members(S, v) : r.e.val[cc] = e.val[cc]
  BY <1>2, <1>4 DEF IsReadBack, Back, Sent, IsNested
<1> QED BY <1>3, <1>4, <1>5 DEF w, r, new, WriteFlat, ReadFlat

\* What stamping derives fits where it goes.
AreStamps(S, v, stamped) ==
    \A cc \in Members(S, v) \cap DOMAIN stamped :
        /\ ~IsSeveral(S, cc) /\ ~IsNested(S, cc) /\ cc \in S.required
        /\ stamped[cc].err = "none" /\ PayloadFits(S, cc, stamped[cc].pay)

\* f, read back, has what e has, and what was stamped over it.
HasSame(S, v, e, stamped, f) ==
    \A cc \in Members(S, v) :
        /\ IsNested(S, cc) => \A x \in Members(S.nested[cc], v) : f.val[cc].val[x] = e.val[cc].val[x]
        /\ ~IsNested(S, cc) => f.val[cc] = Sent(e, cc, stamped)

\* In pay the first chunk of each container holds the stream of it.
Wraps(S, v, e, pay) ==
    \A cc \in Members(S, v) : IsNested(S, cc) =>
        /\ WriteFlat(S.nested[cc], v, e.val[cc]).err = "none"
        /\ \E k \in DOMAIN pay.sub : /\ IsFirstOf(pay, k, cc)
                                     /\ pay.sub[k].pay = WriteFlat(S.nested[cc], v, e.val[cc]).pay

LEMMA EntityReadsBack ==
    ASSUME NEW S, NEW v, NEW e, NEW stamped, IsSchema(S), IsWhole(S, v, e), AreStamps(S, v, stamped)
    PROVE  LET w == WriteEntity(S, v, e, e.journal, stamped)
               r == ReadEntity(S, v, Fresh(S, v), w.pay)
           IN  /\ w = [err |-> w.err, pay |-> w.pay] /\ w.err \in {"none", "ChunkSizeMismatch"}
               /\ WholeHasAll(S, v, e) => w.err = "none"
               /\ w.err = "none" => /\ IsFile(S, w.pay) /\ r.err = "none" /\ HasSame(S, v, e, stamped, r.e)
                                    /\ Wraps(S, v, e, w.pay)
<1> DEFINE Inside(cc) == WriteFlat(S.nested[cc], v, e.val[cc])
           streams == [cc \in DOMAIN S.nested \cup DOMAIN stamped |->
                         IF cc \in DOMAIN S.nested THEN Inside(cc) ELSE stamped[cc]]
           nested == [cc \in DOMAIN S.nested |->
                        ReadFlat(S.nested[cc], v, FreshFlat(S.nested[cc], v), Inside(cc).pay)]
           new == Fresh(S, v)
           w == WriteStream(S, v, e, e.journal, streams)
           r == ReadEntity(S, v, new, w.pay)
<1>1. /\ IsNew(S, v, new)
      /\ \A cc \in Members(S, v) : IsNested(S, cc) => new.val[cc] = FreshFlat(S.nested[cc], v)
  BY FreshIsNew
<1>2. ASSUME NEW cc \in Members(S, v), IsNested(S, cc)
      PROVE  /\ Inside(cc).err \in {"none", "ChunkSizeMismatch"}
             /\ HasAll(S.nested[cc], v, e.val[cc]) => Inside(cc).err = "none"
             /\ Inside(cc).err = "none" =>
                  /\ IsStream(Inside(cc).pay) /\ nested[cc].err = "none"
                  /\ \A x \in Members(S.nested[cc], v) : nested[cc].e.val[x] = e.val[cc].val[x]
             /\ ~IsSeveral(S, cc) /\ cc \in S.required
  <2>1. IsSchemaFlat(S.nested[cc]) /\ DOMAIN S.nested[cc].nested = {} /\ ~IsSeveral(S, cc) /\ cc \in S.required
    BY <1>2 DEF IsSchema, IsNested
  <2>2. IsSound(S.nested[cc], v, e.val[cc]) /\ HasHead(S.nested[cc], e.val[cc])
    BY <1>2 DEF IsWhole
  <2>3. nested[cc] = ReadFlat(S.nested[cc], v, FreshFlat(S.nested[cc], v), Inside(cc).pay)
    BY <1>2 DEF IsNested
  <2> HIDE DEF nested
  <2> QED BY <2>1, <2>2, <2>3, FlatReadsBack
<1>3. \A cc : /\ IsNested(S, cc) => cc \in DOMAIN streams /\ streams[cc] = Inside(cc)
              /\ ~IsNested(S, cc) /\ cc \in DOMAIN streams => cc \in DOMAIN stamped /\ streams[cc] = stamped[cc]
              /\ ~IsNested(S, cc) /\ cc \in DOMAIN stamped => cc \in DOMAIN streams
  BY DEF IsNested
<1> HIDE DEF streams, nested, Inside, new
<1>4. AreStreams(S, v, streams, nested)
  BY <1>2, <1>3 DEF AreStreams, AreStamps
<1>5. WholeHasAll(S, v, e) => Complete(S, v, e, streams)
  BY <1>2, <1>3 DEF WholeHasAll, Complete, AreStamps
<1>6. IsSound(S, v, e) /\ HasHead(S, e)
  BY DEF IsWhole
<1>7. /\ w = [err |-> w.err, pay |-> w.pay] /\ w.err \in {"none", "ChunkSizeMismatch"}
      /\ Complete(S, v, e, streams) => w.err = "none"
      /\ w.err = "none" => IsReadBack(S, v, e, streams, nested, w.pay, ReadStream(S, v, new, w.pay, nested))
  BY <1>1, <1>4, <1>6, StreamReadsBack
<1> DEFINE pay == w.pay
           found == Containers(S, v, new, pay)
           q == ReadStream(S, v, new, pay, nested)
<1>8. r = ReadStream(S, v, new, pay, found)
  BY DEF ReadEntity, Containers, FirstOf, IsFirstOf
<1> HIDE DEF w, r, pay, found, q
<1>9. ASSUME w.err = "none"
      PROVE  /\ IsFile(S, pay) /\ r.err = "none" /\ HasSame(S, v, e, stamped, r.e)
             /\ Wraps(S, v, e, pay)
  <2>1. IsReadBack(S, v, e, streams, nested, pay, q)
    BY <1>7, <1>9 DEF pay, q
  <2>2. /\ IsStream(pay) /\ Len(pay.sub) \in Nat /\ DOMAIN pay.sub = 1 .. Len(pay.sub)
        /\ \A i \in 1 .. Len(pay.sub) : ChunkOf(S, pay.sub[i])
    BY <2>1 DEF IsReadBack, IsStream
  <2>3. IsFile(S, pay)
    BY <2>2 DEF IsFile, ChunkOf
  <2>4. ASSUME NEW i \in 1 .. Len(pay.sub), pay.sub[i].cc \in Members(S, v), IsNested(S, pay.sub[i].cc)
        PROVE  nested[pay.sub[i].cc] = found[pay.sub[i].cc]
    <3> DEFINE cc == pay.sub[i].cc
    <3>1. PICK k \in DOMAIN pay.sub : IsFirstOf(pay, k, cc) /\ pay.sub[k].pay = Sent(e, cc, streams)
      BY <2>1, <2>4 DEF IsReadBack
    <3>2. FirstOf(pay, cc) = Inside(cc).pay
      BY <1>3, <2>2, <2>4, <3>1, FirstIsUnique DEF Sent
    <3>3. found[cc] = ReadFlat(S.nested[cc], v, new.val[cc], FirstOf(pay, cc))
      BY <2>2, <2>4 DEF found, Containers, IsNested
    <3>4. nested[cc] = ReadFlat(S.nested[cc], v, FreshFlat(S.nested[cc], v), Inside(cc).pay)
      BY <2>4 DEF nested, IsNested
    <3> QED BY <1>1, <2>4, <3>2, <3>3, <3>4
  <2> DEFINE start == StartOf(S, v, new, pay.els)
  <2>5. Readings(S, v, start, pay.sub, nested)[Len(pay.sub)] = Readings(S, v, start, pay.sub, found)[Len(pay.sub)]
    <3>1. AgreeUpTo(S, v, pay.sub, pay.sub, nested, found, Len(pay.sub))
      BY <2>2, <2>4 DEF AgreeUpTo
    <3> QED BY <2>2, <3>1, SameReadings
  <2>6. r = q
    BY <1>8, <2>5 DEF q, ReadStream, StartOf
  <2>7. r.err = "none" /\ \A cc \in Members(S, v) :
          r.e.val[cc] = IF IsSeveral(S, cc) THEN e.val[cc] ELSE Back(S, e, cc, streams, nested)
    BY <2>1, <2>6 DEF IsReadBack
  <2>8. ASSUME NEW cc \in Members(S, v)
        PROVE  /\ IsNested(S, cc) => \A x \in Members(S.nested[cc], v) : r.e.val[cc].val[x] = e.val[cc].val[x]
               /\ ~IsNested(S, cc) => r.e.val[cc] = Sent(e, cc, stamped)
    <3>1. CASE IsNested(S, cc)
      <4>1. PICK k \in DOMAIN pay.sub : IsFirstOf(pay, k, cc)
        BY <2>1, <3>1 DEF IsReadBack
      <4>2. r.e.val[cc] = nested[cc].e
        BY <1>2, <2>7, <3>1 DEF Back
      <4>3. Inside(cc).err = "none"
        BY <1>3, <2>1, <3>1 DEF IsReadBack
      <4> QED BY <1>2, <3>1, <4>2, <4>3
    <3>2. CASE ~IsNested(S, cc)
      <4>1. IsSeveral(S, cc) => cc \notin DOMAIN stamped
        BY <3>2 DEF AreStamps
      <4> QED BY <1>3, <2>7, <3>2, <4>1 DEF Back, Sent
    <3> QED BY <3>1, <3>2
  <2>9. HasSame(S, v, e, stamped, r.e)
    BY <2>8 DEF HasSame
  <2>10. Wraps(S, v, e, pay)
    <3> SUFFICES ASSUME NEW cc \in Members(S, v), IsNested(S, cc)
                 PROVE  /\ Inside(cc).err = "none"
                        /\ \E k \in DOMAIN pay.sub : IsFirstOf(pay, k, cc) /\ pay.sub[k].pay = Inside(cc).pay
      BY DEF Wraps, Inside
    <3>1. cc \in DOMAIN streams /\ streams[cc] = Inside(cc)
      BY <1>3
    <3> QED BY <2>1, <3>1 DEF IsReadBack, Sent
  <2> QED BY <2>3, <2>7, <2>9, <2>10
<1>10. WriteEntity(S, v, e, e.journal, stamped) = w
  BY DEF WriteEntity, w, streams, Inside
<1> QED BY <1>5, <1>7, <1>9, <1>10 DEF r, pay, new


---------------------------------------------------------------------------
(* Reading and writing as the program asks for them.                        *)

Outcomes == {"none", "ChunkSizeMismatch", "ChunkTruncated", "ChunkMissing", "FormatVersionMismatch",
             "InvalidEntityState"}

LEMMA ReadIs ==
    ASSUME NEW S, NEW v, NEW pay, IsSchema(S), IsFile(S, pay)
    PROVE  LET r == Read(S, v, pay)
               q == ReadEntity(S, v, Fresh(S, v), pay)
           IN  /\ r = [err |-> r.err, e |-> r.e] /\ r.err \in Outcomes
               /\ IsWhole(S, v, r.e) /\ WholeHasAll(S, v, r.e)
               /\ r.err = "none" => q.err = "none" /\ q.e = r.e
               /\ q.err = "none" /\ RightVersion(S, q.e) => r = q
<1> DEFINE q == ReadEntity(S, v, Fresh(S, v), pay)
           r == Read(S, v, pay)
<1>1. /\ q = [err |-> q.err, e |-> q.e]
      /\ q.err \in ReadErrors /\ IsWhole(S, v, q.e) /\ WholeHasAll(S, v, q.e)
  BY ReadEntityIs
<1>2. r = IF q.err = "none" /\ ~RightVersion(S, q.e) THEN [q EXCEPT !.err = "FormatVersionMismatch"] ELSE q
  BY DEF Read, CheckMver
<1> HIDE DEF q, r
<1>3. CASE q.err = "none" /\ ~RightVersion(S, q.e)
  <2>1. r = [err |-> "FormatVersionMismatch", e |-> q.e]
    BY <1>1, <1>2, <1>3
  <2> QED BY <1>1, <1>3, <2>1 DEF Outcomes, q, r
<1>4. CASE ~(q.err = "none" /\ ~RightVersion(S, q.e))
  <2>1. r = q
    BY <1>2, <1>4
  <2> QED BY <1>1, <2>1 DEF Outcomes, ReadErrors, q, r
<1> QED BY <1>3, <1>4

\* What is stamped fits, and is what the file had if that was genuine.
LEMMA StampsAre ==
    ASSUME NEW S \in Schemas, NEW v \in Clients[S.name], NEW e
    PROVE  /\ AreStamps(S, v, PatchChunk(S, e))
           /\ S.name = "WMORoot" => /\ DOMAIN PatchChunk(S, e) = {"MOHD"}
                                    /\ PatchChunk(S, e)["MOHD"].err = "none"
                                    /\ "MOHD" \in Singles(S, v)
           /\ S.name # "WMORoot" => DOMAIN PatchChunk(S, e) = {}
<1>1. IsSchema(S) /\ IsLaidOut(S, v)
  BY SchemasAssumption
<1>2. CASE S.name # "WMORoot"
  <2>1. PatchChunk(S, e) = <<>> /\ DOMAIN <<>> = {}
    BY <1>2 DEF PatchChunk
  <2>2. DOMAIN PatchChunk(S, e) = {}
    BY <2>1
  <2> QED BY <1>2, <2>2 DEF AreStamps
<1>3. CASE S.name = "WMORoot"
  <2> DEFINE els == <<Len(e.val["MOGI"].els), Len(e.val["MOPT"].els), Len(e.val["MODS"].els),
                      e.val["MOHD"].els[4]>>
             stamps == PatchChunk(S, e)
  <2>1. Len(els) = 4
    OBVIOUS
  <2>2. stamps = [cc \in {"MOHD"} |-> [err |-> "none", pay |-> Bytes(els)]]
    BY <1>3 DEF PatchChunk
  <2> HIDE DEF els, stamps
  <2>3. DOMAIN stamps = {"MOHD"} /\ stamps["MOHD"] = [err |-> "none", pay |-> Bytes(els)]
    BY <2>2
  <2>4. "MOHD" \in Singles(S, v) /\ IsSized(S, "MOHD") /\ S.data["MOHD"] = 4
    BY <1>1, <1>3 DEF IsLaidOut
  <2>5. ~IsSeveral(S, "MOHD") /\ ~IsNested(S, "MOHD") /\ "MOHD" \in S.required
    BY <1>1, <2>4 DEF Singles, IsSchema, IsSchemaFlat, IsSized, IsSeveral, IsSlots
  <2>6. PayloadFits(S, "MOHD", stamps["MOHD"].pay)
    BY <2>1, <2>3, <2>4 DEF PayloadFits, Bytes
  <2>7. AreStamps(S, v, stamps)
    BY <2>3, <2>5, <2>6 DEF AreStamps
  <2> QED BY <1>3, <2>3, <2>4, <2>7 DEF stamps
<1> QED BY <1>2, <1>3

LEMMA GenuineAgrees ==
    ASSUME NEW S \in Schemas, NEW v \in Clients[S.name], NEW file, Genuine(S, v, file),
           ReadEntity(S, v, Fresh(S, v), file).err = "none"
    PROVE  LET e == ReadEntity(S, v, Fresh(S, v), file).e
           IN  StampsAgree(S, e, PatchChunk(S, e))
<1> DEFINE e == ReadEntity(S, v, Fresh(S, v), file).e
           stamps == PatchChunk(S, e)
<1>1. S.name = "WMORoot" => stamps["MOHD"].pay = e.val["MOHD"]
  BY DEF Genuine
<1>2. stamps = [cc \in DOMAIN stamps |-> stamps[cc]]
  BY DEF PatchChunk
<1>3. S.name = "WMORoot" => stamps["MOHD"] = [err |-> "none", pay |-> stamps["MOHD"].pay]
  BY DEF PatchChunk
<1>4. /\ S.name = "WMORoot" => DOMAIN stamps = {"MOHD"} /\ "MOHD" \in Singles(S, v)
      /\ S.name # "WMORoot" => DOMAIN stamps = {}
  BY StampsAre
<1> HIDE DEF e, stamps
<1>5. StampsAgree(S, e, stamps)
  BY <1>1, <1>3, <1>4 DEF StampsAgree, Singles
<1> QED BY <1>5 DEF e, stamps

\* What a program's save writes, of every entity but a WDL.
LEMMA WriteIs ==
    ASSUME NEW S \in Schemas, NEW v \in Clients[S.name], NEW e, S.name # "WDL", IsWhole(S, v, e)
    PROVE  LET w == Write(S, v, e)
               r == ReadEntity(S, v, Fresh(S, v), w.pay)
           IN  /\ w = [err |-> w.err, pay |-> w.pay] /\ w.err \in Outcomes
               /\ WholeHasAll(S, v, e) => w.err = "none"
               /\ w.err = "none" => /\ IsFile(S, w.pay) /\ Genuine(S, v, w.pay)
                                    /\ r.err = "none" /\ HasSame(S, v, e, PatchChunk(S, e), r.e)
                                    /\ Write(S, v, r.e) = w
<1> DEFINE stamps == PatchChunk(S, e)
           w == Write(S, v, e)
           r == ReadEntity(S, v, Fresh(S, v), w.pay)
<1>1. IsSchema(S) /\ IsLaidOut(S, v)
  BY SchemasAssumption
<1>2. w = WriteEntity(S, v, e, e.journal, stamps) /\ Write(S, v, r.e) = WriteEntity(S, v, r.e, r.e.journal, PatchChunk(S, r.e))
  BY DEF Write
<1>3. AreStamps(S, v, stamps)
  BY StampsAre
<1>4. /\ w = [err |-> w.err, pay |-> w.pay] /\ w.err \in {"none", "ChunkSizeMismatch"}
      /\ WholeHasAll(S, v, e) => w.err = "none"
      /\ w.err = "none" => IsFile(S, w.pay) /\ r.err = "none" /\ HasSame(S, v, e, stamps, r.e)
  BY <1>1, <1>2, <1>3, EntityReadsBack
<1>5. ASSUME w.err = "none" PROVE Genuine(S, v, w.pay)
  <2>1. CASE S.name # "WMORoot"
    BY <2>1 DEF Genuine
  <2>2. CASE S.name = "WMORoot"
    <3>1. /\ {"MOHD", "MOGI", "MOPT", "MODS"} \subseteq Members(S, v)
          /\ \A cc \in {"MOHD", "MOGI", "MOPT", "MODS"} : ~IsNested(S, cc)
      BY <1>1, <2>2 DEF IsLaidOut, Singles
    <3>2. DOMAIN stamps = {"MOHD"}
      BY <2>2, StampsAre
    <3>3. /\ r.e.val["MOHD"] = stamps["MOHD"].pay
          /\ r.e.val["MOGI"] = e.val["MOGI"] /\ r.e.val["MOPT"] = e.val["MOPT"] /\ r.e.val["MODS"] = e.val["MODS"]
      BY <1>4, <1>5, <3>1, <3>2 DEF HasSame, Sent
    <3> DEFINE Stamp(f) == Bytes(<<Len(f.val["MOGI"].els), Len(f.val["MOPT"].els), Len(f.val["MODS"].els),
                                   f.val["MOHD"].els[4]>>)
    <3>4. \A f : PatchChunk(S, f)["MOHD"].pay = Stamp(f)
      BY <2>2 DEF PatchChunk
    <3>5. r.e.val["MOHD"] = Stamp(e)
      BY <3>3, <3>4
    <3>6. r.e.val["MOHD"].els[4] = e.val["MOHD"].els[4]
      BY <3>5 DEF Bytes
    <3>7. Stamp(r.e) = Stamp(e)
      BY <3>3, <3>6
    <3>8. PatchChunk(S, r.e)["MOHD"].pay = r.e.val["MOHD"]
      BY <3>4, <3>5, <3>7
    <3> QED BY <2>2, <3>8 DEF Genuine
  <2> QED BY <2>1, <2>2
<1>6. ASSUME w.err = "none" PROVE Write(S, v, r.e) = w
  <2>1. IsFile(S, w.pay) /\ r.err = "none" /\ Genuine(S, v, w.pay)
    BY <1>4, <1>5, <1>6
  <2>2. StampsAgree(S, r.e, PatchChunk(S, r.e))
    BY <2>1, GenuineAgrees
  <2> HIDE DEF w
  <2>3. WriteEntity(S, v, r.e, r.e.journal, PatchChunk(S, r.e)) = [err |-> "none", pay |-> w.pay]
    BY <1>1, <2>1, <2>2, ReadIsWrittenBack
  <2> QED BY <1>2, <1>4, <1>6, <2>3
<1> HIDE DEF w, r, stamps
<1> QED BY <1>4, <1>5, <1>6 DEF w, r, stamps, Outcomes


---------------------------------------------------------------------------
(* Changing a member.                                                       *)

\* What the program may put into a member.
Allowed(S, cc, value) ==
    /\ IsSeveral(S, cc) => IsValues(S, cc, value)
    /\ ~IsSeveral(S, cc) /\ ~IsNested(S, cc) => PayloadFits(S, cc, value) /\ IsOwn(S, cc, value)

\* It takes nothing away.
KeepsAll(S, cc, old, value) == IsSeveral(S, cc) => Len(old) <= Len(value)

\* n is b with another value for cc.
IsWith(S, v, b, cc, value, n) ==
    /\ n = [head |-> b.head, val |-> n.val, journal |-> b.journal, unknown |-> b.unknown, rest |-> b.rest]
    /\ n.val = [x \in Members(S, v) |-> IF x = cc THEN value ELSE b.val[x]]

LEMMA WithIs ==
    ASSUME NEW S, NEW v, NEW b, NEW cc \in Members(S, v), NEW value, IsFlat(S, v, b)
    PROVE  IsWith(S, v, b, cc, value, [b EXCEPT !.val[cc] = value])
<1>1. b = [head |-> b.head, val |-> b.val, journal |-> b.journal, unknown |-> b.unknown, rest |-> b.rest]
  BY DEF IsFlat
<1> DEFINE val == [b.val EXCEPT ![cc] = value]
           n == [head |-> b.head, val |-> val, journal |-> b.journal, unknown |-> b.unknown, rest |-> b.rest]
<1>2. [b EXCEPT !.val[cc] = value] = n
  BY <1>1
<1>3. val = [x \in Members(S, v) |-> IF x = cc THEN value ELSE b.val[x]]
  BY DEF IsFlat
<1> HIDE DEF val
<1>4. n = [head |-> b.head, val |-> n.val, journal |-> b.journal, unknown |-> b.unknown, rest |-> b.rest] /\ n.val = val
  OBVIOUS
<1> HIDE DEF n
<1> QED BY <1>2, <1>3, <1>4 DEF IsWith

LEMMA WithIsSound ==
    ASSUME NEW S, NEW v, NEW b, NEW cc \in Members(S, v), NEW value, IsSound(S, v, b), Allowed(S, cc, value)
    PROVE  LET n == [b EXCEPT !.val[cc] = value]
           IN  /\ IsSound(S, v, n)
               /\ HasHead(S, b) => HasHead(S, n)
               /\ HasAll(S, v, b) /\ KeepsAll(S, cc, b.val[cc], value) => HasAll(S, v, n)
<1> DEFINE n == [b EXCEPT !.val[cc] = value]
<1>1. IsWith(S, v, b, cc, value, n)
  BY WithIs DEF IsSound
<1> HIDE DEF n
<1>2. /\ n.head = b.head /\ n.journal = b.journal /\ n.unknown = b.unknown /\ n.rest = b.rest
      /\ \A x \in Members(S, v) : n.val[x] = IF x = cc THEN value ELSE b.val[x]
  BY <1>1 DEF IsWith
<1>3. IsFlat(S, v, n)
  <2>1. n = [head |-> n.head, val |-> n.val, journal |-> n.journal, unknown |-> n.unknown, rest |-> n.rest]
    BY <1>1 DEF IsWith
  <2>2. n.val = [x \in Members(S, v) |-> n.val[x]]
    BY <1>1 DEF IsWith
  <2> QED BY <1>2, <2>1, <2>2 DEF IsSound, IsFlat
<1>4. \A i \in 1 .. Len(n.journal) : IsEntry(S, v, n, i)
  BY <1>2 DEF IsSound, IsEntry, UnknownEntry
<1>5. ASSUME NEW x \in Members(S, v) PROVE IsMember(S, n, x)
  <2>1. IsMember(S, b, x)
    BY DEF IsSound
  <2>2. CASE x = cc
    BY <1>2, <2>2 DEF IsMember, Allowed
  <2>3. CASE x # cc
    BY <1>2, <2>1, <2>3 DEF IsMember
  <2> QED BY <2>2, <2>3
<1>6. IsSound(S, v, n)
  BY <1>3, <1>4, <1>5 DEF IsSound
<1>7. HasHead(S, b) => HasHead(S, n)
  BY <1>2 DEF HasHead
<1>8. ASSUME HasAll(S, v, b), KeepsAll(S, cc, b.val[cc], value) PROVE HasAll(S, v, n)
  <2>1. ASSUME NEW x \in Members(S, v), IsSeveral(S, x)
        PROVE  Brought(n.journal, Len(n.journal), x) <= Len(n.val[x])
    <3>1. Brought(n.journal, Len(n.journal), x) <= Len(b.val[x])
      BY <1>2, <1>8, <2>1 DEF HasAll
    <3>2. CASE x # cc
      BY <1>2, <3>1, <3>2
    <3>3. CASE x = cc
      <4>1. Len(b.val[cc]) <= Len(value) /\ n.val[x] = value
        BY <1>2, <1>8, <2>1, <3>3 DEF KeepsAll
      <4>2. Len(b.val[cc]) \in Nat /\ Len(value) \in Nat
        <5>1. IsMember(S, b, cc)
          BY DEF IsSound
        <5> QED BY <2>1, <3>3, <5>1, SeqIs DEF IsMember, IsValues, Allowed
      <4>3. Brought(n.journal, Len(n.journal), x) \in Nat
        BY <1>2, BringingIsFinite, SeqIs DEF IsSound, IsFlat
      <4> HIDE DEF Brought
      <4> QED BY <3>1, <3>3, <4>1, <4>2, <4>3
    <3> QED BY <3>2, <3>3
  <2> QED BY <2>1 DEF HasAll
<1> QED BY <1>6, <1>7, <1>8 DEF n

\* The body of a group, or the entity itself, when the whole is sound.
LEMMA BodyIs ==
    ASSUME NEW S \in Schemas, NEW v \in Clients[S.name], NEW e, IsWhole(S, v, e)
    PROVE  /\ IsSound(Inner(S), v, Body(S, e)) /\ HasHead(Inner(S), Body(S, e))
           /\ WholeHasAll(S, v, e) => HasAll(Inner(S), v, Body(S, e))
           /\ \A cc : ~IsNested(Inner(S), cc)
           /\ \A cc : IsNested(S, cc) => cc = "MOGP" /\ cc \in Members(S, v) /\ ~IsSeveral(S, cc)
<1>1. IsSchema(S) /\ IsLaidOut(S, v)
  BY SchemasAssumption
<1>2. \A cc : IsNested(S, cc) => /\ cc = "MOGP" /\ cc \in Members(S, v) /\ ~IsSeveral(S, cc)
                                 /\ DOMAIN S.nested[cc].nested = {}
  BY <1>1 DEF IsLaidOut, IsSchema, IsNested
<1>3. CASE IsNested(S, "MOGP")
  <2>1. Inner(S) = S.nested["MOGP"] /\ Body(S, e) = e.val["MOGP"]
    BY <1>3 DEF Inner, Body
  <2>2. "MOGP" \in Members(S, v)
    BY <1>2, <1>3
  <2>3. \A cc : ~IsNested(Inner(S), cc)
    BY <1>2, <1>3, <2>1 DEF IsNested
  <2> QED BY <1>2, <1>3, <2>1, <2>2, <2>3 DEF IsWhole, WholeHasAll
<1>4. CASE ~IsNested(S, "MOGP")
  <2>1. Inner(S) = S /\ Body(S, e) = e
    BY <1>4 DEF Inner, Body
  <2>2. \A cc : ~IsNested(S, cc)
    BY <1>2, <1>4
  <2> QED BY <1>2, <2>1, <2>2 DEF IsWhole, WholeHasAll
<1> QED BY <1>3, <1>4

LEMMA HoldingIsWhole ==
    ASSUME NEW S \in Schemas, NEW v \in Clients[S.name], NEW e, NEW cc \in Members(Inner(S), v), NEW value,
           IsWhole(S, v, e), Allowed(Inner(S), cc, value)
    PROVE  LET b == Body(S, e)
               f == Holding(S, e, [b EXCEPT !.val[cc] = value])
           IN  /\ IsWhole(S, v, f)
               /\ WholeHasAll(S, v, e) /\ KeepsAll(Inner(S), cc, b.val[cc], value) => WholeHasAll(S, v, f)
<1> DEFINE b == Body(S, e)
           n == [b EXCEPT !.val[cc] = value]
           f == Holding(S, e, n)
<1>1. /\ IsSound(Inner(S), v, b) /\ HasHead(Inner(S), b)
      /\ WholeHasAll(S, v, e) => HasAll(Inner(S), v, b)
      /\ \A x : ~IsNested(Inner(S), x)
      /\ \A x : IsNested(S, x) => x = "MOGP" /\ x \in Members(S, v) /\ ~IsSeveral(S, x)
  BY BodyIs
<1>2. /\ IsSound(Inner(S), v, n) /\ HasHead(Inner(S), n)
      /\ HasAll(Inner(S), v, b) /\ KeepsAll(Inner(S), cc, b.val[cc], value) => HasAll(Inner(S), v, n)
  <2> HIDE DEF b
  <2> QED BY <1>1, WithIsSound
<1>3. CASE IsNested(S, "MOGP")
  <2>1. Inner(S) = S.nested["MOGP"] /\ f = [e EXCEPT !.val["MOGP"] = n]
    BY <1>3 DEF Inner, Holding
  <2>2. IsSound(S, v, e) /\ HasHead(S, e) /\ "MOGP" \in Members(S, v) /\ Allowed(S, "MOGP", n)
    BY <1>1, <1>3 DEF IsWhole, Allowed
  <2> HIDE DEF n
  <2>3. /\ IsSound(S, v, f) /\ HasHead(S, f)
        /\ HasAll(S, v, e) => HasAll(S, v, f)
    BY <1>1, <1>3, <2>1, <2>2, WithIsSound DEF KeepsAll
  <2>4. f.val["MOGP"] = n
    <3>1. IsWith(S, v, e, "MOGP", n, f)
      BY <2>1, <2>2, WithIs DEF IsSound
    <3> QED BY <2>2, <3>1 DEF IsWith
  <2> HIDE DEF f
  <2>5. IsWhole(S, v, f)
    BY <1>1, <1>2, <2>1, <2>3, <2>4 DEF IsWhole
  <2>6. WholeHasAll(S, v, e) /\ KeepsAll(Inner(S), cc, b.val[cc], value) => WholeHasAll(S, v, f)
    BY <1>1, <1>2, <2>1, <2>3, <2>4 DEF WholeHasAll
  <2> QED BY <2>5, <2>6 DEF f, n
<1>4. CASE ~IsNested(S, "MOGP")
  <2>1. Inner(S) = S /\ b = e /\ f = n
    BY <1>4 DEF Inner, Body, Holding
  <2>2. \A x : ~IsNested(S, x)
    BY <1>1, <1>4
  <2> HIDE DEF b, n, f
  <2>3. IsWhole(S, v, f)
    BY <1>2, <2>1, <2>2 DEF IsWhole
  <2>4. WholeHasAll(S, v, e) /\ KeepsAll(Inner(S), cc, b.val[cc], value) => WholeHasAll(S, v, f)
    BY <1>1, <1>2, <2>1, <2>2 DEF WholeHasAll
  <2> QED BY <2>3, <2>4 DEF f, n, b
<1> QED BY <1>3, <1>4

\* What the calls of a member leave in it is allowed.
LEMMA AssignedIsAllowed ==
    ASSUME NEW S, NEW cc, NEW pay \in Payloads, ~IsSeveral(S, cc), ~IsSized(S, cc)
    PROVE  Allowed(S, cc, pay)
<1>1. pay = Bytes(pay.els)
  BY PayloadsAssumption
<1>2. pay.rest = "none"
  BY <1>1 DEF Bytes
<1> QED BY <1>1, <1>2 DEF Allowed, PayloadFits, IsOwn

LEMMA FilledIsAllowed ==
    ASSUME NEW S, NEW cc, NEW old, NEW pay, IsSeveral(S, cc), IsValues(S, cc, old), PayloadFits(S, cc, pay)
    PROVE  /\ \A i \in DOMAIN old : /\ Allowed(S, cc, [old EXCEPT ![i] = pay])
                                    /\ KeepsAll(S, cc, old, [old EXCEPT ![i] = pay])
           /\ IsSchemaFlat(S) /\ (IsSlots(S, cc) => Len(old) < S.slots[cc])
              => Allowed(S, cc, Append(old, pay)) /\ KeepsAll(S, cc, old, Append(old, pay))
<1>1. Len(old) \in Nat /\ DOMAIN old = 1 .. Len(old) /\ IsSeq(old)
  BY SeqIs DEF IsValues
<1>2. ASSUME NEW i \in DOMAIN old
      PROVE  /\ Allowed(S, cc, [old EXCEPT ![i] = pay])
             /\ KeepsAll(S, cc, old, [old EXCEPT ![i] = pay])
  <2> DEFINE new == [old EXCEPT ![i] = pay]
  <2>1. new = [j \in 1 .. Len(old) |-> IF j = i THEN pay ELSE old[j]]
    BY <1>1 DEF IsSeq
  <2> HIDE DEF new
  <2>2. IsSeq(new) /\ Len(new) = Len(old)
    <3>1. \A j \in 1 .. Len(old) : new[j] \in Range(new)
      BY <2>1 DEF Range
    <3>2. new \in [1 .. Len(old) -> Range(new)]
      BY <2>1, <3>1
    <3>3. new \in Seq(Range(new)) /\ DOMAIN new = 1 .. Len(old)
      BY <1>1, <3>2
    <3> QED BY <1>1, <3>3 DEF IsSeq
  <2>3. \A j \in 1 .. Len(new) : PayloadFits(S, cc, new[j])
    BY <2>1, <2>2 DEF IsValues
  <2>4. IsValues(S, cc, new)
    BY <2>2, <2>3 DEF IsValues
  <2>5. Allowed(S, cc, new) /\ KeepsAll(S, cc, old, new)
    BY <1>1, <2>2, <2>4 DEF Allowed, KeepsAll
  <2> QED BY <2>5 DEF new
<1>3. ASSUME IsSchemaFlat(S), IsSlots(S, cc) => Len(old) < S.slots[cc]
      PROVE  Allowed(S, cc, Append(old, pay)) /\ KeepsAll(S, cc, old, Append(old, pay))
  <2> DEFINE new == Append(old, pay)
  <2>1. /\ IsSeq(new) /\ Len(new) = Len(old) + 1
        /\ \A i \in 1 .. Len(old) : new[i] = old[i]
        /\ new[Len(old) + 1] = pay
    BY <1>1, AppendIs
  <2> HIDE DEF new
  <2>2. \A j \in 1 .. Len(new) : PayloadFits(S, cc, new[j])
    BY <1>1, <2>1 DEF IsValues
  <2>3. IsSlots(S, cc) => Len(new) <= S.slots[cc]
    BY <1>1, <1>3, <2>1 DEF IsSlots, IsSchemaFlat
  <2>4. IsValues(S, cc, new)
    BY <2>1, <2>2, <2>3 DEF IsValues
  <2>5. Allowed(S, cc, new) /\ KeepsAll(S, cc, old, new)
    BY <1>1, <2>1, <2>4 DEF Allowed, KeepsAll
  <2> QED BY <2>5 DEF new
<1> QED BY <1>2, <1>3

LEMMA ClearedIsAllowed ==
    ASSUME NEW S, NEW cc, IsSchemaFlat(S), IsSeveral(S, cc)
    PROVE  Allowed(S, cc, <<>>)
BY EmptyIs DEF Allowed, IsValues, IsSlots, IsSchemaFlat

LEMMA ErasedIsAllowed ==
    ASSUME NEW S, NEW cc, NEW old, IsSchemaFlat(S), IsSeveral(S, cc), IsValues(S, cc, old), NEW i \in DOMAIN old
    PROVE  Allowed(S, cc, RemoveAt(old, i))
<1>1. Len(old) \in Nat /\ DOMAIN old = 1 .. Len(old) /\ IsSeq(old)
  BY SeqIs DEF IsValues
<1> DEFINE R == Range(old)
           new == RemoveAt(old, i)
           front == SubSeq(old, 1, i - 1)
           back == SubSeq(old, i + 1, Len(old))
<1>2. old \in Seq(R) /\ i \in 1 .. Len(old)
  BY <1>1 DEF IsSeq
<1> HIDE DEF R
<1>3. front \in Seq(R) /\ Len(front) = i - 1
  BY <1>2
<1>4. back \in Seq(R) /\ Len(back) = Len(old) - i
  BY <1>2
<1>5. new = front \o back
  BY DEF RemoveAt
<1> HIDE DEF front, back, new
<1>6. new \in Seq(R) /\ Len(new) = Len(old) - 1
  BY <1>2, <1>3, <1>4, <1>5
<1>7. \A j \in 1 .. Len(new) : new[j] \in R
  BY <1>6
<1>8. \A x \in R : PayloadFits(S, cc, x)
  <2>1. \A j \in 1 .. Len(old) : PayloadFits(S, cc, old[j])
    BY DEF IsValues
  <2> QED BY <1>1, <2>1 DEF R, Range
<1>9. IsSeq(new)
  <2>1. Len(new) \in Nat /\ new = [j \in 1 .. Len(new) |-> new[j]]
    BY <1>6
  <2>2. \A j \in 1 .. Len(new) : new[j] \in Range(new)
    BY <1>6 DEF Range
  <2>3. new \in [1 .. Len(new) -> Range(new)]
    BY <2>1, <2>2
  <2> QED BY <2>1, <2>3 DEF IsSeq
<1>10. IsSlots(S, cc) => Len(new) <= S.slots[cc]
  BY <1>1, <1>6 DEF IsValues, IsSlots, IsSchemaFlat
<1>11. IsValues(S, cc, new)
  BY <1>7, <1>8, <1>9, <1>10 DEF IsValues
<1> QED BY <1>11 DEF Allowed, new


---------------------------------------------------------------------------
(* The entity in the hands of a program.                                    *)

\* A file that writing relies on: nothing in it contradicts the rest of it.
IsGood(S, v, file) == IsFile(S, file) /\ Genuine(S, v, file)

\* The entity is what its source reads as.
IsAsRead(S, v, e, file) == Read(S, v, file).err = "none" /\ Read(S, v, file).e = e

InvBase ==
    /\ schema \in Schemas /\ client \in Clients[schema.name]
    /\ touched \subseteq Touchable

InvWhole ==
    schema.name # "WDL" =>
        /\ outcome \in Outcomes
        /\ IsWhole(schema, client, entity)
        /\ gone = FALSE => WholeHasAll(schema, client, entity)
        /\ disk = NoFile \/ IsGood(schema, client, disk)
        /\ source # NoFile /\ touched = {} => IsGood(schema, client, source)

InvUnmodified == source # NoFile /\ touched = {} => IsAsRead(schema, client, entity, source)

\* What is true of an entity throughout: it is sound, it has all its journal
\* tells of unless something was taken away, and unless something was changed
\* it is what its source reads as.
IInv == InvBase /\ gone \in BOOLEAN /\ InvWhole /\ InvUnmodified

LEMMA InitHolds == Init => IInv
<1> SUFFICES ASSUME Init PROVE IInv
  OBVIOUS
<1>1. IsSchema(schema) /\ schema \in Schemas /\ client \in Clients[schema.name]
  BY SchemasAssumption DEF Init
<1>2. /\ IsNew(schema, client, entity)
      /\ \A cc \in Members(schema, client) :
           IsNested(schema, cc) => entity.val[cc] = FreshFlat(schema.nested[cc], client)
  BY <1>1, FreshIsNew DEF Init
<1>3. ASSUME NEW cc \in Members(schema, client), IsNested(schema, cc)
      PROVE  IsNew(schema.nested[cc], client, entity.val[cc])
  <2>1. IsSchemaFlat(schema.nested[cc]) /\ DOMAIN schema.nested[cc].nested = {}
    BY <1>1, <1>3 DEF IsSchema, IsNested
  <2> QED BY <1>2, <1>3, <2>1, FreshFlatIsNew
<1>4. IsWhole(schema, client, entity) /\ WholeHasAll(schema, client, entity)
  <2>1. HasAll(schema, client, entity)
    BY <1>2, NewHasAll
  <2>2. \A cc \in Members(schema, client) :
          IsNested(schema, cc) => HasAll(schema.nested[cc], client, entity.val[cc])
    BY <1>3, NewHasAll
  <2> QED BY <1>2, <1>3, <2>1, <2>2 DEF IsWhole, WholeHasAll, IsNew
<1>5. outcome \in Outcomes /\ gone \in BOOLEAN
  BY DEF Init, Outcomes
<1> QED BY <1>1, <1>4, <1>5 DEF Init, IInv, InvBase, InvWhole, InvUnmodified

LEMMA TakeInHolds ==
    ASSUME IInv, UNCHANGED <<schema, client, disk>>, NEW file,
           schema.name # "WDL" => IsGood(schema, client, file),
           TakeIn(Read(schema, client, file), file)
    PROVE  IInv'
<1> DEFINE r == Read(schema, client, file)
<1>1. /\ entity' = r.e /\ outcome' = r.err
      /\ source' = IF r.err = "none" THEN file ELSE NoFile
      /\ touched' = {} /\ gone' = FALSE
      /\ schema' = schema /\ client' = client /\ disk' = disk
  BY DEF TakeIn
<1>2. IsSchema(schema)
  BY SchemasAssumption DEF IInv, InvBase
<1>3. schema.name # "WDL" => r.err \in Outcomes /\ IsWhole(schema, client, r.e) /\ WholeHasAll(schema, client, r.e)
  BY <1>2, ReadIs DEF IsGood
<1>4. source' # NoFile => source' = file /\ IsAsRead(schema, client, entity', file)
  BY <1>1 DEF IsAsRead
<1> HIDE DEF r
<1>5. InvBase'
  BY <1>1 DEF IInv, InvBase
<1>6. InvWhole'
  <2>1. schema.name # "WDL" => disk = NoFile \/ IsGood(schema, client, disk)
    BY DEF IInv, InvWhole
  <2> QED BY <1>1, <1>3, <1>4, <2>1 DEF InvWhole
<1>7. InvUnmodified'
  BY <1>1, <1>4 DEF InvUnmodified
<1>8. gone' \in BOOLEAN
  BY <1>1
<1> QED BY <1>5, <1>6, <1>7, <1>8 DEF IInv

LEMMA LoadHolds == IInv /\ Load => IInv'
<1> SUFFICES ASSUME IInv, Load PROVE IInv'
  OBVIOUS
<1>1. PICK file \in Files(schema, client) : TakeIn(Read(schema, client, file), file)
  BY DEF Load
<1>2. IsGood(schema, client, file)
  BY FilesAssumption DEF IInv, InvBase, IsGood
<1>3. UNCHANGED <<schema, client, disk>>
  BY DEF Load
<1> QED BY <1>1, <1>2, <1>3, TakeInHolds

LEMMA ReloadHolds == IInv /\ Reload => IInv'
<1> SUFFICES ASSUME IInv, Reload PROVE IInv'
  OBVIOUS
<1>1. TakeIn(Read(schema, client, disk), disk) /\ disk # NoFile /\ UNCHANGED <<schema, client, disk>>
  BY DEF Reload
<1>2. schema.name # "WDL" => IsGood(schema, client, disk)
  BY <1>1 DEF IInv, InvWhole
<1> QED BY <1>1, <1>2, TakeInHolds

LEMMA EditHolds ==
    ASSUME IInv, NEW cc \in Touchable, NEW value, NEW takes \in BOOLEAN, Edit(cc, value, takes),
           schema.name # "WDL" => Allowed(Inner(schema), cc, value),
           schema.name # "WDL" /\ takes = FALSE => KeepsAll(Inner(schema), cc, Now(cc), value)
    PROVE  IInv'
<1> DEFINE f == Holding(schema, entity, [Body(schema, entity) EXCEPT !.val[cc] = value])
<1>1. /\ entity' = f /\ cc \in Members(Inner(schema), client)
      /\ touched' = touched \cup {cc}
      /\ gone' = (gone \/ takes)
      /\ schema' = schema /\ client' = client /\ outcome' = outcome /\ disk' = disk /\ source' = source
  BY DEF Edit
<1>2. schema \in Schemas /\ client \in Clients[schema.name] /\ touched \subseteq Touchable /\ gone \in BOOLEAN
  BY DEF IInv, InvBase
<1>3. gone' \in BOOLEAN /\ (gone' = FALSE => gone = FALSE /\ takes = FALSE)
  BY <1>1, <1>2, Zenon
<1>4. schema.name # "WDL" => /\ IsWhole(schema, client, f)
                             /\ gone' = FALSE => WholeHasAll(schema, client, f)
  <2> SUFFICES ASSUME schema.name # "WDL"
               PROVE  IsWhole(schema, client, f) /\ (gone' = FALSE => WholeHasAll(schema, client, f))
    OBVIOUS
  <2>1. IsWhole(schema, client, entity) /\ (gone = FALSE => WholeHasAll(schema, client, entity))
    BY DEF IInv, InvWhole
  <2>2. Now(cc) = Body(schema, entity).val[cc]
    BY DEF Now
  <2>3. /\ IsWhole(schema, client, f)
        /\ WholeHasAll(schema, client, entity) /\ KeepsAll(Inner(schema), cc, Body(schema, entity).val[cc], value)
             => WholeHasAll(schema, client, f)
    BY <1>1, <1>2, <2>1, HoldingIsWhole
  <2> HIDE DEF f
  <2> QED BY <1>3, <2>1, <2>2, <2>3
<1> HIDE DEF f
<1>5. touched' # {} /\ touched' \subseteq Touchable
  BY <1>1, <1>2
<1>6. InvBase'
  BY <1>1, <1>2, <1>5 DEF InvBase
<1>7. InvWhole'
  BY <1>1, <1>4, <1>5 DEF IInv, InvWhole
<1>8. InvUnmodified'
  BY <1>1, <1>5 DEF IInv, InvUnmodified
<1> QED BY <1>3, <1>6, <1>7, <1>8 DEF IInv

\* What a member holds now.
LEMMA NowIs ==
    ASSUME IInv, schema.name # "WDL"
    PROVE  /\ IsSchemaFlat(Inner(schema))
           /\ \A cc \in Members(Inner(schema), client) :
                IsSeveral(Inner(schema), cc) => IsValues(Inner(schema), cc, Now(cc))
<1>1. schema \in Schemas /\ client \in Clients[schema.name] /\ IsWhole(schema, client, entity)
  BY DEF IInv, InvBase, InvWhole
<1>2. IsSound(Inner(schema), client, Body(schema, entity))
  BY <1>1, BodyIs
<1>3. IsSchemaFlat(Inner(schema))
  BY <1>1, SchemasAssumption DEF IsSchema, Inner, IsNested
<1> QED BY <1>2, <1>3 DEF IsSound, IsMember, Now

LEMMA AssignHolds == ASSUME IInv, NEW cc \in Touchable, Assign(cc) PROVE IInv'
<1>1. PICK pay \in Payloads : Edit(cc, pay, FALSE)
  BY DEF Assign
<1>2. ~IsSeveral(Inner(schema), cc) /\ ~IsSized(Inner(schema), cc)
  BY DEF Assign
<1>3. Allowed(Inner(schema), cc, pay)
  BY <1>2, AssignedIsAllowed
<1>4. KeepsAll(Inner(schema), cc, Now(cc), pay)
  BY <1>2 DEF KeepsAll
<1> QED BY <1>1, <1>3, <1>4, EditHolds

LEMMA FillHolds == ASSUME IInv, NEW cc \in Touchable, Fill(cc) PROVE IInv'
<1> DEFINE S == Inner(schema)
<1>1. PICK pay \in Payloads :
        /\ PayloadFits(S, cc, pay)
        /\ \/ \E i \in DOMAIN Now(cc) : Edit(cc, [Now(cc) EXCEPT ![i] = pay], FALSE)
           \/ /\ IsSlots(S, cc) => Len(Now(cc)) < S.slots[cc]
              /\ Edit(cc, Append(Now(cc), pay), FALSE)
  BY DEF Fill
<1>2. cc \in Members(S, client) /\ IsSeveral(S, cc)
  BY DEF Fill
<1>3. schema.name # "WDL" => IsSchemaFlat(S) /\ IsValues(S, cc, Now(cc))
  BY <1>2, NowIs
<1> HIDE DEF S
<1>4. CASE \E i \in DOMAIN Now(cc) : Edit(cc, [Now(cc) EXCEPT ![i] = pay], FALSE)
  <2>1. PICK i \in DOMAIN Now(cc) : Edit(cc, [Now(cc) EXCEPT ![i] = pay], FALSE)
    BY <1>4
  <2>2. schema.name # "WDL" => /\ Allowed(S, cc, [Now(cc) EXCEPT ![i] = pay])
                               /\ KeepsAll(S, cc, Now(cc), [Now(cc) EXCEPT ![i] = pay])
    BY <1>1, <1>2, <1>3, FilledIsAllowed
  <2> QED BY <2>1, <2>2, EditHolds DEF S
<1>5. CASE (IsSlots(S, cc) => Len(Now(cc)) < S.slots[cc]) /\ Edit(cc, Append(Now(cc), pay), FALSE)
  <2>1. schema.name # "WDL" => Allowed(S, cc, Append(Now(cc), pay)) /\ KeepsAll(S, cc, Now(cc), Append(Now(cc), pay))
    BY <1>1, <1>2, <1>3, <1>5, FilledIsAllowed
  <2> QED BY <1>5, <2>1, EditHolds DEF S
<1> QED BY <1>1, <1>4, <1>5

LEMMA TakeAwayHolds == ASSUME IInv, NEW cc \in Touchable, TakeAway(cc) PROVE IInv'
<1> DEFINE S == Inner(schema)
<1>1. cc \in Members(S, client)
  BY DEF TakeAway
<1>2. IsSeveral(S, cc) => (schema.name # "WDL" => IsSchemaFlat(S) /\ IsValues(S, cc, Now(cc)))
  BY <1>1, NowIs
<1>3. CASE IsSlots(S, cc) /\ Edit(cc, <<>>, TRUE)
  <2>1. schema.name # "WDL" => Allowed(S, cc, <<>>)
    BY <1>2, <1>3, ClearedIsAllowed DEF IsSeveral
  <2> QED BY <1>3, <2>1, EditHolds
<1>4. CASE cc \in S.repeating /\ \E i \in DOMAIN Now(cc) : Edit(cc, RemoveAt(Now(cc), i), TRUE)
  <2>1. PICK i \in DOMAIN Now(cc) : Edit(cc, RemoveAt(Now(cc), i), TRUE)
    BY <1>4
  <2>2. schema.name # "WDL" => Allowed(S, cc, RemoveAt(Now(cc), i))
    BY <1>2, <1>4, ErasedIsAllowed DEF IsSeveral
  <2> QED BY <2>1, <2>2, EditHolds
<1> QED BY <1>3, <1>4 DEF TakeAway

LEMMA SaveHolds == IInv /\ Save => IInv'
<1> SUFFICES ASSUME IInv, Save PROVE IInv'
  OBVIOUS
<1> DEFINE w == Write(schema, client, entity)
<1>1. /\ outcome' = w.err /\ disk' = (IF w.err = "none" THEN w.pay ELSE disk)
      /\ schema' = schema /\ client' = client /\ entity' = entity /\ source' = source
      /\ touched' = touched /\ gone' = gone
  BY DEF Save, PutOut
<1>2. schema.name # "WDL" => /\ w.err \in Outcomes
                             /\ w.err = "none" => IsGood(schema, client, w.pay)
  BY WriteIs DEF IInv, InvBase, InvWhole, IsGood
<1> HIDE DEF w
<1>3. InvBase'
  BY <1>1 DEF IInv, InvBase
<1>4. InvWhole'
  BY <1>1, <1>2 DEF IInv, InvWhole
<1>5. InvUnmodified'
  BY <1>1 DEF IInv, InvUnmodified
<1>6. gone' \in BOOLEAN
  BY <1>1, Zenon DEF IInv
<1> QED BY <1>3, <1>4, <1>5, <1>6 DEF IInv

LEMMA NextHolds == IInv /\ [Next]_vars => IInv'
<1> SUFFICES ASSUME IInv, [Next]_vars PROVE IInv'
  OBVIOUS
<1>1. CASE Load
  BY <1>1, LoadHolds
<1>2. CASE Reload
  BY <1>2, ReloadHolds
<1>3. CASE Save
  BY <1>3, SaveHolds
<1>4. ASSUME NEW cc \in Touchable, Assign(cc) \/ Fill(cc) \/ TakeAway(cc) PROVE IInv'
  BY <1>4, AssignHolds, FillHolds, TakeAwayHolds
<1>5. CASE UNCHANGED vars
  <2>1. /\ schema' = schema /\ client' = client /\ entity' = entity /\ source' = source /\ disk' = disk
        /\ outcome' = outcome /\ touched' = touched /\ gone' = gone
    BY <1>5 DEF vars
  <2>2. gone' \in BOOLEAN
    BY <2>1, Zenon DEF IInv
  <2> QED BY <2>1, <2>2 DEF IInv, InvBase, InvWhole, InvUnmodified
<1> QED BY <1>1, <1>2, <1>3, <1>4, <1>5 DEF Next

LEMMA AlwaysHolds == Spec => []IInv
<1>1. Init => IInv
  BY InitHolds
<1>2. IInv /\ [Next]_vars => IInv'
  BY NextHolds
<1> QED BY <1>1, <1>2, PTL DEF Spec


---------------------------------------------------------------------------
(* What follows.                                                            *)

\* The journal of an entity of the library points at members it has and at
\* preserved chunks that are there, and the outcome of a call is one of the
\* errors it can have (chunked_file.hpp: ChunkExtras, ChunkJournalEntry).
THEOREM TypeIsOK == Spec => [](schema.name # "WDL" => TypeOK)
<1>1. IInv => (schema.name # "WDL" => TypeOK)
  <2> SUFFICES ASSUME IInv, schema.name # "WDL" PROVE TypeOK
    OBVIOUS
  <2> DEFINE e == Body(schema, entity)
             S == Inner(schema)
  <2>1. outcome \in Outcomes /\ touched \subseteq Touchable
    BY DEF IInv, InvBase, InvWhole
  <2>2. IsSound(S, client, e)
    BY BodyIs DEF IInv, InvBase, InvWhole
  <2> HIDE DEF S, e
  <2>3. e.val = [cc \in Members(S, client) |-> e.val[cc]] /\ IsSeq(e.journal)
    BY <2>2 DEF IsSound, IsFlat
  <2>4. DOMAIN e.val = Members(S, client)
    BY <2>3
  <2>5. ASSUME NEW i \in DOMAIN e.journal
        PROVE  /\ e.journal[i].known => e.journal[i].cc \in DOMAIN e.val
               /\ ~e.journal[i].known => e.journal[i].at < Len(e.unknown)
    <3>1. IsEntry(S, client, e, i)
      BY <2>2, <2>3, SeqIs DEF IsSound
    <3>2. \/ e.journal[i].known = TRUE /\ e.journal[i].cc \in Members(S, client)
          \/ e.journal[i].known = FALSE /\ e.journal[i].at < Len(e.unknown)
      BY <3>1 DEF IsEntry, KnownEntry, UnknownEntry
    <3> QED BY <2>4, <3>2
  <2>6. gone \in BOOLEAN
    BY DEF IInv
  <2>7. /\ outcome \in {"none", "ChunkSizeMismatch", "ChunkTruncated", "ChunkMissing",
                        "FormatVersionMismatch", "InvalidEntityState"}
        /\ touched \subseteq Touchable
    BY <2>1 DEF Outcomes
  <2> QED BY <2>4, <2>5, <2>6, <2>7, Zenon DEF TypeOK, S, e
<1> QED BY <1>1, AlwaysHolds, PTL

\* What the tile machinery of a WDL does to an entity that is as it was read: nothing.
LEMMA WdlIs ==
    /\ Wdl.repeating = TileChunks /\ "MVER" \in Wdl.required /\ DOMAIN Wdl.nested = {}
    /\ Wdl.name = "WDL"
BY DEF Wdl, Plain, TileChunks

LEMMA JournalIsCurrent ==
    ASSUME NEW v, NEW e, NEW file, IsSchema(Wdl), IsSound(Wdl, v, e), "MVER" \in Members(Wdl, v),
           IsCopy(Wdl, v, Fresh(Wdl, v), file, Containers(Wdl, v, Fresh(Wdl, v), file), e)
    PROVE  ResequencedJournal(v, e) = [err |-> "none", journal |-> e.journal]
<1>1. IsSeq(e.journal) /\ Len(e.journal) \in Nat /\ DOMAIN e.journal = 1 .. Len(e.journal)
  BY SeqIs DEF IsSound, IsFlat
<1>2. \A cc : Journaled(e, cc) = Brought(e.journal, Len(e.journal), cc)
  BY <1>1 DEF Journaled, Brought, Bringing
<1>3. ASSUME NEW cc \in TileChunks PROVE Journaled(e, cc) = Count(v, e, cc)
  <2>1. CASE cc \in Members(Wdl, v)
    <3>1. IsSeveral(Wdl, cc)
      BY WdlIs DEF IsSeveral
    <3> QED BY <1>2, <2>1, <3>1 DEF IsCopy, Count
  <2>2. CASE cc \notin Members(Wdl, v)
    <3>1. \A i \in 1 .. Len(e.journal) : e.journal[i].known => e.journal[i].cc # cc
      <4> TAKE i \in 1 .. Len(e.journal)
      <4>1. IsEntry(Wdl, v, e, i)
        BY DEF IsSound
      <4>2. \/ e.journal[i].cc \in Members(Wdl, v)
            \/ e.journal[i].known = FALSE
        BY <4>1 DEF IsEntry, KnownEntry, UnknownEntry
      <4> QED BY <2>2, <4>2
    <3>2. Bringing(e.journal, Len(e.journal), cc) = {}
      BY <3>1 DEF Bringing
    <3>3. Journaled(e, cc) = 0
      BY <1>2, <3>2, FS_EmptySet DEF Brought
    <3> QED BY <2>2, <3>3 DEF Count
  <2> QED BY <2>1, <2>2
<1>4. e.journal # <<>>
  <2>1. Brought(e.journal, Len(e.journal), "MVER") # 0
    BY WdlIs DEF IsCopy
  <2> QED BY <2>1, EmptyIs, NothingBrought
<1>5. e.journal # <<>> /\ \A cc \in TileChunks : Journaled(e, cc) = Count(v, e, cc)
  BY <1>3, <1>4
<1> QED BY ONLY <1>5, Zenon DEF ResequencedJournal

LEMMA WdlIsWrittenBack ==
    ASSUME NEW v \in Clients["WDL"], NEW file \in Files(Wdl, v), NEW e, Wdl \in Schemas,
           IsAsRead(Wdl, v, e, file)
    PROVE  WriteWdl(v, e) = [err |-> "none", pay |-> file]
<1>1. IsSchema(Wdl) /\ IsLaidOut(Wdl, v) /\ IsFile(Wdl, file) /\ Genuine(Wdl, v, file)
  BY WdlIs, SchemasAssumption, FilesAssumption
<1>2. "MVER" \in Members(Wdl, v)
  BY <1>1, WdlIs DEF IsLaidOut, Singles, Versioned
<1>3. /\ IsWhole(Wdl, v, e) /\ ReadEntity(Wdl, v, Fresh(Wdl, v), file).err = "none"
      /\ ReadEntity(Wdl, v, Fresh(Wdl, v), file).e = e
  BY <1>1, ReadIs DEF IsAsRead
<1>4. IsSound(Wdl, v, e) /\ IsCopy(Wdl, v, Fresh(Wdl, v), file, Containers(Wdl, v, Fresh(Wdl, v), file), e)
  BY <1>1, <1>3, ReadEntityIs DEF IsWhole
<1>5. ResequencedJournal(v, e) = [err |-> "none", journal |-> e.journal]
  BY <1>1, <1>2, <1>4, JournalIsCurrent
<1>6. WriteEntity(Wdl, v, e, e.journal, <<>>) = [err |-> "none", pay |-> file]
  <2>1. StampsAgree(Wdl, e, <<>>)
    BY DEF StampsAgree
  <2> QED BY <1>1, <1>3, <2>1, ReadIsWrittenBack
<1>7. PatchFile(file) = [err |-> "none", pay |-> file]
  BY <1>1, WdlIs DEF Genuine
<1> DEFINE order == ResequencedJournal(v, e)
           written == WriteEntity(Wdl, v, e, order.journal, <<>>)
<1>8. WriteWdl(v, e) = IF order.err # "none" THEN [err |-> order.err, pay |-> NoBytes] ELSE Patched(written)
  BY DEF WriteWdl, Sequenced
<1>9. order.err = "none" /\ order.journal = e.journal
  BY <1>5
<1> HIDE DEF order
<1>10. written = [err |-> "none", pay |-> file]
  BY <1>6, <1>9
<1> HIDE DEF written
<1>11. Patched(written) = PatchFile(file)
  BY <1>10 DEF Patched
<1> QED BY <1>7, <1>8, <1>9, <1>11

LEMMA UnmodifiedFollows ==
    IInv => (schema.name # "WDL" \/ source \in Files(schema, client) => UnmodifiedIsVerbatim)
<1> SUFFICES ASSUME IInv, schema.name # "WDL" \/ source \in Files(schema, client),
                    source # NoFile, touched = {}
             PROVE  Write(schema, client, entity) = [err |-> "none", pay |-> source]
  BY DEF UnmodifiedIsVerbatim, Loaded, Saved
<1>1. schema \in Schemas /\ client \in Clients[schema.name]
  BY DEF IInv, InvBase
<1>2. IsAsRead(schema, client, entity, source)
  BY DEF IInv, InvUnmodified
<1>3. CASE schema.name # "WDL"
  <2>1. IsSchema(schema) /\ IsFile(schema, source) /\ Genuine(schema, client, source)
    BY <1>1, <1>3, SchemasAssumption DEF IInv, InvWhole, IsGood
  <2>2. /\ ReadEntity(schema, client, Fresh(schema, client), source).err = "none"
        /\ ReadEntity(schema, client, Fresh(schema, client), source).e = entity
    BY <1>2, <2>1, ReadIs DEF IsAsRead
  <2>3. StampsAgree(schema, entity, PatchChunk(schema, entity))
    BY <1>1, <2>1, <2>2, GenuineAgrees
  <2>4. WriteEntity(schema, client, entity, entity.journal, PatchChunk(schema, entity))
          = [err |-> "none", pay |-> source]
    BY <2>1, <2>2, <2>3, ReadIsWrittenBack
  <2> QED BY <1>3, <2>4 DEF Write
<1>4. CASE schema.name = "WDL"
  <2>1. schema = Wdl /\ source \in Files(Wdl, client)
    BY <1>1, <1>4, SchemasAssumption DEF IsLaidOut
  <2>2. WriteWdl(client, entity) = [err |-> "none", pay |-> source]
    BY <1>1, <1>2, <1>4, <2>1, WdlIsWrittenBack
  <2> QED BY <1>4, <2>2 DEF Write
<1> QED BY <1>3, <1>4

\* A file that was loaded and not changed is saved as it was, whatever was
\* saved, loaded and changed before: of a WDL the files there were, of every
\* other entity also those the program wrote (chunked_file.hpp: readEntity,
\* writeEntity; wdl.hpp: resequencedJournal leaves a current journal alone).
THEOREM UnmodifiedStaysVerbatim ==
    Spec => [](schema.name # "WDL" \/ source \in Files(schema, client) => UnmodifiedIsVerbatim)
BY AlwaysHolds, UnmodifiedFollows, PTL

LEMMA SavesFollows == IInv => (schema.name # "WDL" => SavesAndReadsBack)
<1> SUFFICES ASSUME IInv, schema.name # "WDL" PROVE SavesAndReadsBack
  OBVIOUS
<1> DEFINE S == schema
           v == client
           e == entity
           w == Write(S, v, e)
           q == ReadEntity(S, v, Fresh(S, v), w.pay)
           r == Read(S, v, w.pay)
           stamps == PatchChunk(S, e)
           Told(f) == [cc \in Members(Inner(S), v) \ {"MAOF", "MOHD"} |-> Body(S, f).val[cc]]
<1>1. S \in Schemas /\ v \in Clients[S.name] /\ IsWhole(S, v, e) /\ (gone = FALSE => WholeHasAll(S, v, e))
      /\ gone \in BOOLEAN
  BY DEF IInv, InvBase, InvWhole
<1>2. IsSchema(S) /\ IsLaidOut(S, v)
  BY <1>1, SchemasAssumption
<1>3. /\ WholeHasAll(S, v, e) => w.err = "none"
      /\ w.err = "none" => /\ IsFile(S, w.pay) /\ q.err = "none" /\ HasSame(S, v, e, stamps, q.e)
                           /\ Write(S, v, q.e) = w
  BY <1>1, WriteIs
<1>4. SaveFailsForLostSlotsOnly
  <2>1. w.err # "none" => gone = TRUE
    BY <1>1, <1>3, Zenon
  <2> QED BY <2>1, Zenon DEF SaveFailsForLostSlotsOnly, Saved
<1>5. ASSUME RightVersion(S, e), w.err = "none"
      PROVE  r.err = "none" /\ Told(r.e) = Told(e) /\ Write(S, v, r.e) = w
  <2>1. /\ DOMAIN stamps \subseteq {"MOHD"}
        /\ \A cc \in Members(S, v) : ~IsNested(S, cc) /\ cc # "MOHD" => q.e.val[cc] = e.val[cc]
    <3>1. DOMAIN stamps \subseteq {"MOHD"}
      BY <1>1, StampsAre
    <3> HIDE DEF q, w, stamps
    <3> QED BY <1>3, <1>5, <3>1 DEF HasSame, Sent
  <2>2. RightVersion(S, q.e)
    <3>1. S.name \in Versioned => "MVER" \in Members(S, v) /\ ~IsNested(S, "MVER")
      BY <1>2 DEF IsLaidOut, Singles
    <3>2. S.name \in Versioned => q.e.val["MVER"] = e.val["MVER"]
      BY <2>1, <3>1
    <3> QED BY <1>5, <3>2 DEF RightVersion
  <2>3. r = q
    BY <1>2, <1>3, <1>5, <2>2, ReadIs
  <2>4. ASSUME NEW cc \in Members(Inner(S), v), cc # "MOHD" PROVE Body(S, q.e).val[cc] = Body(S, e).val[cc]
    <3>1. \A x : IsNested(S, x) => x = "MOGP" /\ x \in Members(S, v)
      BY <1>1, BodyIs
    <3> HIDE DEF q, w, stamps
    <3>2. CASE IsNested(S, "MOGP")
      <4>1. Inner(S) = S.nested["MOGP"] /\ Body(S, q.e) = q.e.val["MOGP"] /\ Body(S, e) = e.val["MOGP"]
        BY <3>2 DEF Inner, Body
      <4> QED BY <1>3, <1>5, <2>4, <3>1, <3>2, <4>1 DEF HasSame
    <3>3. CASE ~IsNested(S, "MOGP")
      <4>1. Inner(S) = S /\ Body(S, q.e) = q.e /\ Body(S, e) = e
        BY <3>3 DEF Inner, Body
      <4> QED BY <2>1, <2>4, <3>1, <3>3, <4>1
    <3> QED BY <3>2, <3>3
  <2>5. Told(q.e) = Told(e)
    <3> HIDE DEF q
    <3> QED BY <2>4
  <2> HIDE DEF q, r, w, Told
  <2> QED BY <1>3, <1>5, <2>3, <2>5
<1>6. SavedReadsBack
  BY <1>5 DEF SavedReadsBack, Saved
<1> QED BY <1>4, <1>6 DEF SavesAndReadsBack

\* Whatever was loaded, changed and saved, a save of an entity whose occurrences
\* are all still there succeeds, and what a save writes can be read, holds the
\* same members and is written as the same file again (chunked_file.hpp:
\* writeEntity, then readEntity).
THEOREM SavedComesBack == Spec => [](schema.name # "WDL" => SavesAndReadsBack)
BY AlwaysHolds, SavesFollows, PTL


---------------------------------------------------------------------------
(* What is written of an entity that was changed: the rest stays in place.  *)

\* e is o but for the members in changed.
Alike(S, v, e, o, changed) ==
    /\ e.head = o.head /\ e.rest = o.rest
    /\ e.journal = o.journal /\ e.unknown = o.unknown
    /\ \A cc \in Members(S, v) : cc \notin changed => e.val[cc] = o.val[cc]

\* Where nothing changed, what is not the member itself is what the file had there.
StreamsKeep(S, o, sub, streams, changed) ==
    \A j \in 1 .. Len(sub) : o.journal[j].known = TRUE /\ sub[j].cc \notin changed =>
        /\ IsNested(S, sub[j].cc) => sub[j].cc \in DOMAIN streams
        /\ sub[j].cc \in DOMAIN streams => /\ ~IsSeveral(S, sub[j].cc)
                                           /\ streams[sub[j].cc] = [err |-> "none", pay |-> sub[j].pay]

\* The first j chunks are where they were, and unless they were changed, as they were.
InPlace(sub, changed, w, j) ==
    \A k \in 1 .. j : w.out[k].cc = sub[k].cc /\ (w.out[k] = sub[k] \/ sub[k].cc \in changed)

\* Written as far as the j-th entry of the journal, and n chunks in all.
Placed(S, v, o, sub, changed, w, j, n) ==
    /\ IsWriting(S, v, w)
    /\ w.written \in [Members(S, v) -> Nat]
    /\ IsSeq(w.out) /\ Len(w.out) = n /\ j <= n
    /\ InPlace(sub, changed, w, j)
    /\ \A k \in j + 1 .. n : w.out[k].cc \in changed
    /\ \A cc \in Members(S, v) : cc \notin changed => w.written[cc] = Brought(o.journal, j, cc)

LEMMA ReplayStays ==
    ASSUME NEW S, NEW v, NEW e, NEW o, NEW new, NEW pay, NEW nested, NEW streams, NEW w, NEW changed,
           NEW i \in Nat, IsSound(S, v, o), IsCopy(S, v, new, pay, nested, o), Alike(S, v, e, o, changed),
           StreamsKeep(S, o, pay.sub, streams, changed),
           i + 1 \in 1 .. Len(pay.sub), ChunkOf(S, pay.sub[i + 1]),
           w.err = "none" => Placed(S, v, o, pay.sub, changed, w, i, i),
           Replay(S, e, w, o.journal[i + 1], streams).err = "none"
    PROVE  Placed(S, v, o, pay.sub, changed, Replay(S, e, w, o.journal[i + 1], streams), i + 1, i + 1)
<1> DEFINE j == i + 1
           c == pay.sub[j]
           entry == o.journal[j]
           x == Replay(S, e, w, entry, streams)
<1>1. Tells(S, o, pay.sub, j, nested) /\ entry.cc = c.cc /\ Len(o.journal) = Len(pay.sub)
  BY DEF IsCopy, Tells
<1>2. IsEntry(S, v, o, j)
  BY <1>1 DEF IsSound
<1>3. j - 1 = i /\ c = [cc |-> c.cc, pay |-> c.pay]
  BY DEF ChunkOf
<1>4. w.err = "none"
  BY DEF Replay, Emit
<1>5. /\ w = [err |-> w.err, out |-> w.out, written |-> w.written]
      /\ w.written \in [Members(S, v) -> Nat]
      /\ IsSeq(w.out) /\ Len(w.out) = i /\ InPlace(pay.sub, changed, w, i)
      /\ \A cc \in Members(S, v) : cc \notin changed => w.written[cc] = Brought(o.journal, i, cc)
  BY <1>4 DEF Placed, IsWriting
<1>6. \A cc : Brought(o.journal, j, cc) = IF entry.known /\ entry.cc = cc THEN Brought(o.journal, i, cc) + 1
                                          ELSE Brought(o.journal, i, cc)
  BY OneMoreBrought
<1>7. KnownEntry(S, v, entry, Brought(o.journal, i, c.cc)) \/ UnknownEntry(S, v, o, entry, Brought(o.journal, i, c.cc))
  BY <1>1, <1>2, <1>3 DEF IsEntry
<1>8. entry.known = TRUE \/ entry.known = FALSE
  BY <1>7 DEF KnownEntry, UnknownEntry
<1> HIDE DEF c, j, entry
<1>9. ASSUME NEW d, x.out = Append(w.out, d), d.cc = c.cc, d = c \/ c.cc \in changed
      PROVE  IsSeq(x.out) /\ Len(x.out) = j /\ InPlace(pay.sub, changed, x, j)
  <2> HIDE DEF x
  <2>1. /\ IsSeq(x.out) /\ Len(x.out) = i + 1 /\ x.out[i + 1] = d
        /\ \A k \in 1 .. i : x.out[k] = w.out[k]
    BY <1>5, <1>9, AppendIs
  <2>2. \A k \in 1 .. i + 1 : k \in 1 .. i \/ k = i + 1
    OBVIOUS
  <2> QED BY <1>5, <1>9, <2>1, <2>2 DEF c, j, InPlace
<1>10. CASE entry.known = TRUE
  <2>1. entry.at = Brought(o.journal, i, c.cc) /\ c.cc \in Members(S, v)
    BY <1>1, <1>7, <1>10 DEF KnownEntry, UnknownEntry
  <2>2. x = Emit(S, e, w, c.cc, entry.at, streams)
    BY <1>1, <1>10 DEF Replay
  <2> DEFINE own == IF IsSeveral(S, c.cc) THEN e.val[c.cc][entry.at + 1] ELSE e.val[c.cc]
             out == IF c.cc \in DOMAIN streams THEN streams[c.cc] ELSE [err |-> "none", pay |-> own]
             d == [cc |-> c.cc, pay |-> out.pay]
  <2>3. ~(IsSeveral(S, c.cc) /\ entry.at >= Len(e.val[c.cc]))
    <3> SUFFICES ASSUME IsSeveral(S, c.cc) /\ entry.at >= Len(e.val[c.cc]) PROVE FALSE
      OBVIOUS
    <3>1. x = [w EXCEPT !.err = "ChunkSizeMismatch"]
      BY <1>4, <2>2 DEF Emit
    <3>2. x.err = "ChunkSizeMismatch"
      BY <1>5, <3>1
    <3> QED BY <3>2 DEF x, j, entry
  <2>4. x = [err |-> out.err, out |-> Append(w.out, d),
             written |-> [w.written EXCEPT ![c.cc] = w.written[c.cc] + 1]]
    BY <1>4, <2>2, <2>3 DEF Emit
  <2>5. c.cc \notin changed => out = [err |-> "none", pay |-> c.pay]
    <3> SUFFICES ASSUME c.cc \notin changed PROVE out = [err |-> "none", pay |-> c.pay]
      OBVIOUS
    <3>1. /\ IsNested(S, c.cc) => c.cc \in DOMAIN streams
          /\ c.cc \in DOMAIN streams => ~IsSeveral(S, c.cc) /\ streams[c.cc] = [err |-> "none", pay |-> c.pay]
      BY <1>10 DEF StreamsKeep, c, j, entry
    <3>2. e.val[c.cc] = o.val[c.cc]
      BY <2>1 DEF Alike
    <3>3. /\ IsSeveral(S, c.cc) => o.val[c.cc][entry.at + 1] = c.pay
          /\ ~IsSeveral(S, c.cc) /\ ~IsNested(S, c.cc) => o.val[c.cc] = c.pay
      BY <1>1, <1>10 DEF Tells, c, j, entry
    <3> QED BY <3>1, <3>2, <3>3
  <2> HIDE DEF out, x
  <2>6. d.cc = c.cc /\ (d = c \/ c.cc \in changed)
    BY <1>3, <2>5
  <2> HIDE DEF d
  <2>7. /\ x = [err |-> x.err, out |-> x.out, written |-> x.written]
        /\ x.out = Append(w.out, d) /\ x.written = [w.written EXCEPT ![c.cc] = w.written[c.cc] + 1]
    BY <2>4
  <2>8. /\ x.written = [cc \in Members(S, v) |-> x.written[cc]]
        /\ x.written \in [Members(S, v) -> Nat]
        /\ x.written[c.cc] = w.written[c.cc] + 1
        /\ \A cc \in Members(S, v) : cc # c.cc => x.written[cc] = w.written[cc]
    <3> DEFINE M == Members(S, v)
               before == w.written
               after == x.written
    <3>1. before \in [M -> Nat] /\ c.cc \in M /\ after = [before EXCEPT ![c.cc] = before[c.cc] + 1]
      BY <1>5, <2>1, <2>7
    <3> HIDE DEF M, before, after
    <3>2. /\ after \in [M -> Nat] /\ after[c.cc] = before[c.cc] + 1
          /\ \A cc \in M : cc # c.cc => after[cc] = before[cc]
      BY <3>1
    <3>3. after = [cc \in M |-> after[cc]]
      BY <3>2
    <3> QED BY <3>2, <3>3 DEF M, before, after
  <2>9. \A cc \in Members(S, v) : cc \notin changed => x.written[cc] = Brought(o.journal, j, cc)
    BY <1>1, <1>5, <1>6, <1>10, <2>1, <2>8
  <2>10. IsSeq(x.out) /\ Len(x.out) = j /\ InPlace(pay.sub, changed, x, j)
    BY <1>9, <2>6, <2>7
  <2>11. IsWriting(S, v, x)
    BY <2>7, <2>8 DEF IsWriting
  <2>12. j <= j /\ \A k \in j + 1 .. j : FALSE
    BY DEF j
  <2>13. Placed(S, v, o, pay.sub, changed, x, j, j)
    BY <2>8, <2>9, <2>10, <2>11, <2>12 DEF Placed
  <2> QED BY <2>13 DEF x, entry, j
<1>11. CASE entry.known = FALSE
  <2>1. e.unknown[entry.at + 1] = c
    BY <1>1, <1>11 DEF Alike, Tells, c, j, entry
  <2>2. ~(entry.at >= Len(e.unknown))
    <3> SUFFICES ASSUME entry.at >= Len(e.unknown) PROVE FALSE
      OBVIOUS
    <3>1. x = [w EXCEPT !.err = "ChunkSizeMismatch"]
      BY <1>4, <1>11 DEF Replay
    <3>2. x.err = "ChunkSizeMismatch"
      BY <1>5, <3>1
    <3> QED BY <3>2 DEF x, j, entry
  <2>3. x = [w EXCEPT !.out = Append(w.out, c)]
    BY <1>4, <1>11, <2>1, <2>2 DEF Replay
  <2> HIDE DEF x
  <2>4. /\ x = [err |-> x.err, out |-> x.out, written |-> x.written]
        /\ x.out = Append(w.out, c) /\ x.written = w.written
    BY <1>5, <2>3
  <2>5. \A cc \in Members(S, v) : cc \notin changed => x.written[cc] = Brought(o.journal, j, cc)
    BY <1>5, <1>6, <1>11, <2>4
  <2>6. IsSeq(x.out) /\ Len(x.out) = j /\ InPlace(pay.sub, changed, x, j)
    BY <1>9, <2>4
  <2>7. x.written = [cc \in Members(S, v) |-> x.written[cc]]
    BY <1>5, <2>4
  <2>8. Placed(S, v, o, pay.sub, changed, x, j, j)
    BY <1>5, <2>4, <2>5, <2>6, <2>7 DEF Placed, IsWriting, j
  <2> QED BY <2>8 DEF x, entry, j
<1> QED BY <1>8, <1>10, <1>11


\* What every writing is, also one that failed.
IsShaped(S, v, w) == IsWriting(S, v, w) /\ w.written \in [Members(S, v) -> Nat]

LEMMA EmitIsShaped ==
    ASSUME NEW S, NEW v, NEW e, NEW w, NEW cc \in Members(S, v), NEW at, NEW streams, IsShaped(S, v, w)
    PROVE  IsShaped(S, v, Emit(S, e, w, cc, at, streams))
<1> DEFINE x == Emit(S, e, w, cc, at, streams)
           own == IF IsSeveral(S, cc) THEN e.val[cc][at + 1] ELSE e.val[cc]
           out == IF cc \in DOMAIN streams THEN streams[cc] ELSE [err |-> "none", pay |-> own]
           d == [cc |-> cc, pay |-> out.pay]
           M == Members(S, v)
           before == w.written
<1>1. w = [err |-> w.err, out |-> w.out, written |-> before] /\ before \in [M -> Nat]
  BY DEF IsShaped, IsWriting
<1>2. CASE w.err # "none"
  BY <1>2 DEF Emit
<1>3. CASE w.err = "none" /\ IsSeveral(S, cc) /\ at >= Len(e.val[cc])
  <2>1. x = [w EXCEPT !.err = "ChunkSizeMismatch"]
    BY <1>3 DEF Emit
  <2> HIDE DEF x, before
  <2>2. x = [err |-> "ChunkSizeMismatch", out |-> w.out, written |-> before]
    BY <1>1, <2>1
  <2>3. x = [err |-> x.err, out |-> x.out, written |-> x.written] /\ x.written = before
    BY <2>2
  <2>4. before = [y \in M |-> before[y]]
    BY <1>1
  <2> HIDE DEF M
  <2>5. IsShaped(S, v, x)
    BY <1>1, <2>3, <2>4 DEF IsShaped, IsWriting, M
  <2> QED BY <2>5 DEF x
<1>4. CASE w.err = "none" /\ ~(IsSeveral(S, cc) /\ at >= Len(e.val[cc]))
  <2>1. x = [err |-> out.err, out |-> Append(w.out, d), written |-> [before EXCEPT ![cc] = before[cc] + 1]]
    BY <1>4 DEF Emit
  <2> HIDE DEF x, out, d, before
  <2>2. /\ x = [err |-> x.err, out |-> x.out, written |-> x.written]
        /\ x.written = [before EXCEPT ![cc] = before[cc] + 1]
    BY <2>1
  <2>3. cc \in M
    OBVIOUS
  <2> DEFINE after == x.written
  <2> HIDE DEF M, after
  <2>4. after \in [M -> Nat]
    BY <1>1, <2>2, <2>3 DEF after
  <2>5. after = [y \in M |-> after[y]]
    BY <2>4
  <2>6. IsShaped(S, v, x)
    BY <2>2, <2>4, <2>5 DEF IsShaped, IsWriting, M, after
  <2> QED BY <2>6 DEF x
<1> QED BY <1>2, <1>3, <1>4

LEMMA ReplayIsShaped ==
    ASSUME NEW S, NEW v, NEW e, NEW w, NEW entry, NEW streams, IsShaped(S, v, w),
           entry.known => entry.cc \in Members(S, v)
    PROVE  IsShaped(S, v, Replay(S, e, w, entry, streams))
<1> DEFINE x == Replay(S, e, w, entry, streams)
           before == w.written
<1>1. w = [err |-> w.err, out |-> w.out, written |-> before] /\ IsShaped(S, v, w)
  BY DEF IsShaped, IsWriting
<1>2. CASE entry.known
  BY <1>2, EmitIsShaped DEF Replay
<1>3. CASE ~entry.known /\ w.err # "none"
  BY <1>3 DEF Replay
<1>4. CASE ~entry.known /\ w.err = "none"
  <2> DEFINE c == e.unknown[entry.at + 1]
  <2>1. \/ x = [w EXCEPT !.err = "ChunkSizeMismatch"]
        \/ x = [w EXCEPT !.out = Append(w.out, c)]
    BY <1>4 DEF Replay
  <2> HIDE DEF x, before, c
  <2>2. \/ x = [err |-> "ChunkSizeMismatch", out |-> w.out, written |-> before]
        \/ x = [err |-> w.err, out |-> Append(w.out, c), written |-> before]
    BY <1>1, <2>1
  <2>3. x = [err |-> x.err, out |-> x.out, written |-> x.written] /\ x.written = before
    BY <2>2
  <2>4. IsShaped(S, v, x)
    BY <2>3 DEF IsShaped, IsWriting, before
  <2> QED BY <2>4 DEF x
<1> QED BY <1>2, <1>3, <1>4

\* w has all of the journal where it was, if it did not fail.
IsPlaced(S, v, o, sub, changed, w) ==
    /\ IsShaped(S, v, w)
    /\ w.err = "none" => Placed(S, v, o, sub, changed, w, Len(sub), Len(w.out))

LEMMA ReplaysStay ==
    ASSUME NEW S, NEW v, NEW e, NEW o, NEW new, NEW pay, NEW nested, NEW streams, NEW changed,
           IsSound(S, v, o), IsCopy(S, v, new, pay, nested, o), Alike(S, v, e, o, changed),
           StreamsKeep(S, o, pay.sub, streams, changed),
           \A i \in 1 .. Len(pay.sub) : ChunkOf(S, pay.sub[i])
    PROVE  LET start == [err |-> "none", out |-> <<>>, written |-> [cc \in Members(S, v) |-> 0]]
           IN  IsPlaced(S, v, o, pay.sub, changed, Replays(S, e, start, o.journal, streams)[Len(o.journal)])
<1> DEFINE start == [err |-> "none", out |-> <<>>, written |-> [cc \in Members(S, v) |-> 0]]
           n == Len(o.journal)
           r == Replays(S, e, start, o.journal, streams)
           T == {i \in 0 .. n : /\ IsShaped(S, v, r[i])
                                /\ r[i].err = "none" => Placed(S, v, o, pay.sub, changed, r[i], i, i)}
<1>1. n \in Nat /\ n = Len(pay.sub)
  BY SeqIs DEF IsCopy, IsSound, IsFlat
<1>2. r[0] = start /\ \A i \in 1 .. n : r[i] = Replay(S, e, r[i - 1], o.journal[i], streams)
  BY <1>1, ReplaysAre
<1>3. IsShaped(S, v, start)
  BY DEF IsShaped, IsWriting
<1>4. Placed(S, v, o, pay.sub, changed, start, 0, 0)
  <2>1. \A cc \in Members(S, v) : start.written[cc] = Brought(o.journal, 0, cc)
    BY NothingBrought
  <2>2. start.out = <<>> /\ IsSeq(start.out) /\ Len(start.out) = 0
    BY EmptyIs
  <2> HIDE DEF start
  <2> QED BY <1>3, <2>1, <2>2 DEF Placed, IsShaped, InPlace
<1> HIDE DEF start, r
<1>5. 0 \in T
  BY <1>1, <1>2, <1>3, <1>4
<1>6. ASSUME NEW i \in 0 .. n - 1, i \in T PROVE i + 1 \in T
  <2>1. i + 1 \in 1 .. n /\ i \in Nat /\ (i + 1) - 1 = i /\ i + 1 \in 0 .. n
    BY <1>1
  <2>2. r[i + 1] = Replay(S, e, r[i], o.journal[i + 1], streams)
    BY <1>2, <2>1
  <2>3. IsShaped(S, v, r[i]) /\ (r[i].err = "none" => Placed(S, v, o, pay.sub, changed, r[i], i, i))
    BY <1>6
  <2>4. o.journal[i + 1].known => o.journal[i + 1].cc \in Members(S, v)
    <3>1. IsEntry(S, v, o, i + 1)
      BY <2>1 DEF IsSound
    <3> QED BY <3>1 DEF IsEntry, KnownEntry, UnknownEntry
  <2>5. IsShaped(S, v, r[i + 1])
    BY <2>2, <2>3, <2>4, ReplayIsShaped
  <2>6. ChunkOf(S, pay.sub[i + 1]) /\ i + 1 \in 1 .. Len(pay.sub)
    BY <1>1, <2>1
  <2>7. r[i + 1].err = "none" => Placed(S, v, o, pay.sub, changed, r[i + 1], i + 1, i + 1)
    BY <2>1, <2>2, <2>3, <2>6, ReplayStays
  <2> QED BY <2>1, <2>5, <2>7
<1>7. \A i \in 0 .. n : i \in T
  <2> HIDE DEF T, n
  <2> QED BY <1>1, <1>5, <1>6, CountUp
<1>8. IsShaped(S, v, r[n]) /\ (r[n].err = "none" => Placed(S, v, o, pay.sub, changed, r[n], n, n))
  BY <1>1, <1>7
<1>9. IsPlaced(S, v, o, pay.sub, changed, r[n])
  <2>1. r[n].err = "none" => Len(r[n].out) = n
    BY <1>8 DEF Placed
  <2> QED BY <1>1, <1>8, <2>1 DEF IsPlaced
<1> QED BY <1>9 DEF start, r

LEMMA EmitStays ==
    ASSUME NEW S, NEW v, NEW e, NEW o, NEW sub, NEW streams, NEW changed, NEW w, NEW at,
           NEW cc \in Members(S, v), cc \in changed, Len(sub) \in Nat,
           IsPlaced(S, v, o, sub, changed, w)
    PROVE  IsPlaced(S, v, o, sub, changed, Emit(S, e, w, cc, at, streams))
<1> DEFINE x == Emit(S, e, w, cc, at, streams)
           n == Len(sub)
           k == Len(w.out)
           own == IF IsSeveral(S, cc) THEN e.val[cc][at + 1] ELSE e.val[cc]
           out == IF cc \in DOMAIN streams THEN streams[cc] ELSE [err |-> "none", pay |-> own]
           d == [cc |-> cc, pay |-> out.pay]
<1>1. IsShaped(S, v, x)
  BY EmitIsShaped DEF IsPlaced
<1>2. ASSUME x.err = "none" PROVE Placed(S, v, o, sub, changed, x, n, Len(x.out))
  <2>1. w.err = "none" /\ Placed(S, v, o, sub, changed, w, n, k)
    BY <1>2 DEF Emit, IsPlaced
  <2>2. w = [err |-> w.err, out |-> w.out, written |-> w.written] /\ w.written \in [Members(S, v) -> Nat]
    BY <2>1 DEF Placed, IsWriting
  <2>3. ~(IsSeveral(S, cc) /\ at >= Len(e.val[cc]))
    <3> SUFFICES ASSUME IsSeveral(S, cc) /\ at >= Len(e.val[cc]) PROVE FALSE
      OBVIOUS
    <3>1. x = [w EXCEPT !.err = "ChunkSizeMismatch"]
      BY <2>1 DEF Emit
    <3> HIDE DEF x
    <3>2. x.err = "ChunkSizeMismatch"
      BY <2>2, <3>1
    <3> QED BY <1>2, <3>2
  <2>4. x = [err |-> out.err, out |-> Append(w.out, d), written |-> [w.written EXCEPT ![cc] = w.written[cc] + 1]]
    BY <2>1, <2>3 DEF Emit
  <2> HIDE DEF x, out
  <2>5. d.cc \in changed
    OBVIOUS
  <2> HIDE DEF d
  <2>6. x.out = Append(w.out, d) /\ x.written = [w.written EXCEPT ![cc] = w.written[cc] + 1]
    BY <2>4
  <2>7. \A y \in Members(S, v) : y # cc => x.written[y] = w.written[y]
    BY <2>2, <2>6
  <2>8. k \in Nat /\ n <= k /\ IsSeq(w.out) /\ InPlace(sub, changed, w, n)
        /\ \A j \in n + 1 .. k : w.out[j].cc \in changed
    BY <2>1, SeqIs DEF Placed
  <2>9. /\ IsSeq(x.out) /\ Len(x.out) = k + 1 /\ x.out[k + 1] = d
        /\ \A j \in 1 .. k : x.out[j] = w.out[j]
    BY <2>6, <2>8, AppendIs
  <2> HIDE DEF n, k
  <2>10. InPlace(sub, changed, x, n)
    BY <2>8, <2>9 DEF InPlace, n
  <2>11. \A j \in n + 1 .. k + 1 : x.out[j].cc \in changed
    <3> TAKE j \in n + 1 .. k + 1
    <3>1. n \in Nat
      BY DEF n
    <3>2. j \in n + 1 .. k \/ j = k + 1
      BY <2>8, <3>1
    <3>3. j \in n + 1 .. k => j \in 1 .. k
      BY <2>8, <3>1
    <3> QED BY <2>5, <2>8, <2>9, <3>2, <3>3
  <2>12. \A y \in Members(S, v) : y \notin changed => x.written[y] = Brought(o.journal, n, y)
    BY <2>1, <2>7 DEF Placed
  <2>13. n <= k + 1
    BY <2>8 DEF n
  <2> QED BY <1>1, <2>9, <2>10, <2>11, <2>12, <2>13 DEF Placed, IsShaped
<1> HIDE DEF x
<1>3. IsPlaced(S, v, o, sub, changed, x)
  BY <1>1, <1>2 DEF IsPlaced
<1> QED BY <1>3 DEF x

LEMMA AddStays ==
    ASSUME NEW S, NEW v, NEW e, NEW o, NEW new, NEW pay, NEW nested, NEW streams, NEW changed, NEW w,
           NEW cc \in Range(S.order), IsSchema(S), IsSound(S, v, o), IsSound(S, v, e), IsNew(S, v, new),
           IsCopy(S, v, new, pay, nested, o), Alike(S, v, e, o, changed),
           IsPlaced(S, v, o, pay.sub, changed, w)
    PROVE  IsPlaced(S, v, o, pay.sub, changed, AddUnjournaled(S, v, e, w, cc, streams))
<1> DEFINE further == Further(S, e, w, cc)
           m == Len(further)
           p == Emissions(S, e, w, cc, further, streams)
           x == AddUnjournaled(S, v, e, w, cc, streams)
           T == {i \in 0 .. m : IsPlaced(S, v, o, pay.sub, changed, p[i])}
<1>0. Len(pay.sub) \in Nat /\ Len(pay.sub) = Len(o.journal)
  BY SeqIs DEF IsCopy, IsSound, IsFlat
<1>1. CASE cc \notin Members(S, v)
  <2>1. ~Active(S, v, cc)
    BY <1>1 DEF Members
  <2> QED BY <2>1 DEF AddUnjournaled
<1>2. CASE cc \in Members(S, v) /\ cc \in changed
  <2>1. w.written[cc] \in Nat
    BY <1>2 DEF IsPlaced, IsShaped
  <2>2. IsSeveral(S, cc) => Len(e.val[cc]) \in Nat
    BY <1>2, SeqIs DEF IsSound, IsMember, IsValues
  <2>3. m \in Nat
    BY <2>1, <2>2, FurtherIs
  <2>4. p[0] = w /\ \A i \in 1 .. m : p[i] = Emit(S, e, p[i - 1], cc, further[i], streams)
    BY <2>3, EmissionsAre
  <2>5. x = p[m] \/ x = w
    BY DEF AddUnjournaled
  <2> HIDE DEF p, m, further, x
  <2>6. 0 \in T
    BY <2>3, <2>4
  <2>7. ASSUME NEW i \in 0 .. m - 1, i \in T PROVE i + 1 \in T
    <3>1. i + 1 \in 1 .. m /\ (i + 1) - 1 = i /\ i + 1 \in 0 .. m
      BY <2>3
    <3>2. p[i + 1] = Emit(S, e, p[i], cc, further[i + 1], streams)
      BY <2>4, <3>1
    <3>3. IsPlaced(S, v, o, pay.sub, changed, p[i])
      BY <2>7
    <3>4. IsPlaced(S, v, o, pay.sub, changed, p[i + 1])
      BY <1>0, <1>2, <3>2, <3>3, EmitStays
    <3> QED BY <3>1, <3>4
  <2>8. \A i \in 0 .. m : i \in T
    <3> HIDE DEF T
    <3> QED BY <2>3, <2>6, <2>7, CountUp
  <2>9. IsPlaced(S, v, o, pay.sub, changed, p[m])
    BY <2>3, <2>8
  <2>10. IsPlaced(S, v, o, pay.sub, changed, x)
    BY <2>5, <2>9
  <2> QED BY <2>10 DEF x
<1>3. CASE cc \in Members(S, v) /\ cc \notin changed /\ w.err = "none"
  <2>1. e.val[cc] = o.val[cc]
    BY <1>3 DEF Alike
  <2>2. w.written[cc] = Brought(o.journal, Len(o.journal), cc)
    BY <1>0, <1>3 DEF IsPlaced, Placed
  <2>3. x = w
    BY <2>1, <2>2, NothingToAdd
  <2> QED BY <2>3
<1>4. CASE cc \in Members(S, v) /\ w.err # "none"
  <2>1. w.written[cc] \in Nat /\ IsShaped(S, v, w)
    BY <1>4 DEF IsPlaced, IsShaped
  <2>2. IsSeveral(S, cc) => Len(e.val[cc]) \in Nat
    BY <1>4, SeqIs DEF IsSound, IsMember, IsValues
  <2>3. m \in Nat
    BY <2>1, <2>2, FurtherIs
  <2>4. p[0] = w /\ \A i \in 1 .. m : p[i] = Emit(S, e, p[i - 1], cc, further[i], streams)
    BY <2>3, EmissionsAre
  <2>5. x = p[m] \/ x = w
    BY DEF AddUnjournaled
  <2> DEFINE U == {i \in 0 .. m : p[i] = w}
  <2> HIDE DEF p, m, further, x
  <2>6. 0 \in U
    BY <2>3, <2>4
  <2>7. ASSUME NEW i \in 0 .. m - 1, i \in U PROVE i + 1 \in U
    <3>1. i + 1 \in 1 .. m /\ (i + 1) - 1 = i /\ i + 1 \in 0 .. m
      BY <2>3
    <3>2. p[i + 1] = Emit(S, e, w, cc, further[i + 1], streams)
      BY <2>4, <2>7, <3>1
    <3>3. p[i + 1] = w
      BY <1>4, <3>2 DEF Emit
    <3> QED BY <3>1, <3>3
  <2>8. \A i \in 0 .. m : i \in U
    <3> HIDE DEF U
    <3> QED BY <2>3, <2>6, <2>7, CountUp
  <2>9. x = w
    BY <2>3, <2>5, <2>8
  <2> QED BY <2>9 DEF x
<1> QED BY <1>1, <1>2, <1>3, <1>4

\* A stream of what was changed is the stream that was read, but for the changes.
LEMMA StreamStays ==
    ASSUME NEW S, NEW v, NEW e, NEW o, NEW new, NEW pay, NEW nested, NEW streams, NEW changed,
           IsSchema(S), IsSound(S, v, o), IsSound(S, v, e), IsNew(S, v, new),
           IsCopy(S, v, new, pay, nested, o), Alike(S, v, e, o, changed),
           StreamsKeep(S, o, pay.sub, streams, changed),
           \A i \in 1 .. Len(pay.sub) : ChunkOf(S, pay.sub[i])
    PROVE  LET w == WriteStream(S, v, e, e.journal, streams)
           IN  w.err = "none" => Stays(pay, w.pay, changed)
<1> DEFINE start == [err |-> "none", out |-> <<>>, written |-> [cc \in Members(S, v) |-> 0]]
           n == Len(o.journal)
           r == Replays(S, e, start, o.journal, streams)
           m == Len(S.order)
           q == Completions(S, v, e, r[n], streams)
           w == WriteStream(S, v, e, e.journal, streams)
           U == {i \in 0 .. m : IsPlaced(S, v, o, pay.sub, changed, q[i])}
<1>1. IsPlaced(S, v, o, pay.sub, changed, r[n])
  BY ReplaysStay
<1>2. m \in Nat /\ \A i \in 1 .. m : S.order[i] \in Range(S.order)
  <2>1. IsSeq(S.order)
    BY DEF IsSchema, IsSchemaFlat, IsSeq
  <2> QED BY <2>1, SeqIs DEF Range
<1>3. q[0] = r[n] /\ \A i \in 1 .. m : q[i] = AddUnjournaled(S, v, e, q[i - 1], S.order[i], streams)
  BY <1>2, CompletionsAre
<1>4. w = Finished(e, q[m])
  BY DEF WriteStream, Alike
<1> HIDE DEF start, r, q, n, w
<1>5. 0 \in U
  BY <1>1, <1>2, <1>3
<1>6. ASSUME NEW i \in 0 .. m - 1, i \in U PROVE i + 1 \in U
  <2>1. i + 1 \in 1 .. m /\ (i + 1) - 1 = i /\ i + 1 \in 0 .. m
    BY <1>2
  <2>2. q[i + 1] = AddUnjournaled(S, v, e, q[i], S.order[i + 1], streams) /\ S.order[i + 1] \in Range(S.order)
    BY <1>2, <1>3, <2>1
  <2>3. IsPlaced(S, v, o, pay.sub, changed, q[i])
    BY <1>6
  <2>4. IsPlaced(S, v, o, pay.sub, changed, q[i + 1])
    BY <2>2, <2>3, AddStays
  <2> QED BY <2>1, <2>4
<1>7. \A i \in 0 .. m : i \in U
  <2> HIDE DEF U, m
  <2> QED BY <1>2, <1>5, <1>6, CountUp
<1>8. IsPlaced(S, v, o, pay.sub, changed, q[m])
  BY <1>2, <1>7
<1>9. ASSUME w.err = "none" PROVE Stays(pay, w.pay, changed)
  <2>1. /\ q[m].err = "none" /\ w.pay.sub = q[m].out /\ w.pay.els = e.head /\ w.pay.rest = e.rest
    BY <1>4, <1>9 DEF Finished
  <2>2. Placed(S, v, o, pay.sub, changed, q[m], Len(pay.sub), Len(w.pay.sub))
    BY <1>8, <2>1 DEF IsPlaced
  <2>3. w.pay.els = pay.els /\ w.pay.rest = pay.rest
    BY <2>1 DEF Alike, IsCopy
  <2> QED BY <2>1, <2>2, <2>3 DEF Placed, InPlace, Stays
<1> QED BY <1>9 DEF w


---------------------------------------------------------------------------
(* An edit changes the member it is made to, and no other.                  *)

\* e is o, with the members in changed edited: those of the body, of a group.
IsEdited(S, v, e, o, changed) ==
    /\ Alike(Inner(S), v, Body(S, e), Body(S, o), changed)
    /\ IsNested(S, "MOGP") => Alike(S, v, e, o, {"MOGP"})

LEMMA HoldingIsEdited ==
    ASSUME NEW S \in Schemas, NEW v \in Clients[S.name], NEW e, NEW o, NEW changed,
           NEW cc \in Members(Inner(S), v), NEW value, IsWhole(S, v, e), IsEdited(S, v, e, o, changed)
    PROVE  LET f == Holding(S, e, [Body(S, e) EXCEPT !.val[cc] = value])
           IN  IsEdited(S, v, f, o, changed \cup {cc})
<1> DEFINE b == Body(S, e)
           n == [b EXCEPT !.val[cc] = value]
           f == Holding(S, e, n)
<1>1. IsSound(Inner(S), v, b) /\ \A x : IsNested(S, x) => x = "MOGP" /\ x \in Members(S, v)
  BY BodyIs
<1>2. IsWith(Inner(S), v, b, cc, value, n)
  <2> HIDE DEF b
  <2> QED BY <1>1, WithIs DEF IsSound
<1> HIDE DEF n, b
<1>3. Alike(Inner(S), v, n, Body(S, o), changed \cup {cc})
  <2>1. /\ n.head = b.head /\ n.journal = b.journal /\ n.unknown = b.unknown /\ n.rest = b.rest
        /\ \A x \in Members(Inner(S), v) : x # cc => n.val[x] = b.val[x]
    BY <1>2 DEF IsWith
  <2>2. Alike(Inner(S), v, b, Body(S, o), changed)
    BY DEF IsEdited, b
  <2> QED BY <2>1, <2>2 DEF Alike
<1>4. CASE IsNested(S, "MOGP")
  <2>1. f = [e EXCEPT !.val["MOGP"] = n] /\ "MOGP" \in Members(S, v)
    BY <1>1, <1>4 DEF Holding
  <2>2. IsWith(S, v, e, "MOGP", n, f)
    BY <2>1, WithIs DEF IsWhole, IsSound
  <2> HIDE DEF f
  <2>3. Body(S, f) = n
    BY <1>4, <2>1, <2>2 DEF IsWith, Body
  <2>4. Alike(S, v, f, o, {"MOGP"})
    <3>1. /\ f.head = e.head /\ f.journal = e.journal /\ f.unknown = e.unknown /\ f.rest = e.rest
          /\ \A x \in Members(S, v) : x # "MOGP" => f.val[x] = e.val[x]
      BY <2>2 DEF IsWith
    <3>2. Alike(S, v, e, o, {"MOGP"})
      BY <1>4 DEF IsEdited
    <3> QED BY <3>1, <3>2 DEF Alike
  <2> QED BY <1>3, <2>3, <2>4 DEF IsEdited, f, n, b
<1>5. CASE ~IsNested(S, "MOGP")
  <2>1. f = n
    BY <1>5 DEF Holding
  <2>2. Body(S, f) = n
    BY <1>5, <2>1 DEF Body
  <2> HIDE DEF f
  <2> QED BY <1>3, <1>5, <2>2 DEF IsEdited, f, n, b
<1> QED BY <1>4, <1>5

\* The entity is what its source reads as, but for what was changed since.
InvEdited ==
    schema.name # "WDL" /\ source # NoFile =>
        /\ IsGood(schema, client, source)
        /\ Read(schema, client, source).err = "none"
        /\ IsEdited(schema, client, entity, Read(schema, client, source).e, touched)

LEMMA TakeInEdits ==
    ASSUME IInv, UNCHANGED <<schema, client, disk>>, NEW file,
           schema.name # "WDL" => IsGood(schema, client, file),
           TakeIn(Read(schema, client, file), file)
    PROVE  InvEdited'
<1> DEFINE r == Read(schema, client, file)
<1>1. /\ entity' = r.e /\ source' = IF r.err = "none" THEN file ELSE NoFile
      /\ touched' = {} /\ schema' = schema /\ client' = client
  BY DEF TakeIn
<1>2. IsEdited(schema, client, r.e, r.e, {})
  BY DEF IsEdited, Alike
<1>3. source' # NoFile => source' = file /\ r.err = "none"
  BY <1>1
<1>4. ASSUME schema.name # "WDL", source' # NoFile
      PROVE  /\ IsGood(schema', client', source')
             /\ Read(schema', client', source').err = "none"
             /\ IsEdited(schema', client', entity', Read(schema', client', source').e, touched')
  <2>1. source' = file /\ r.err = "none" /\ IsGood(schema, client, file)
    BY <1>3, <1>4
  <2>2. Read(schema', client', source') = r
    BY <1>1, <2>1
  <2> HIDE DEF r
  <2> QED BY <1>1, <1>2, <2>1, <2>2
<1> QED BY <1>1, <1>4 DEF InvEdited

LEMMA EditEdits ==
    ASSUME IInv, InvEdited, NEW cc, NEW value, NEW takes, Edit(cc, value, takes)
    PROVE  InvEdited'
<1> DEFINE f == Holding(schema, entity, [Body(schema, entity) EXCEPT !.val[cc] = value])
<1>1. /\ entity' = f /\ cc \in Members(Inner(schema), client)
      /\ touched' = touched \cup {cc}
      /\ schema' = schema /\ client' = client /\ source' = source
  BY DEF Edit
<1>2. ASSUME schema.name # "WDL", source # NoFile
      PROVE  IsEdited(schema, client, f, Read(schema, client, source).e, touched \cup {cc})
  <2>1. /\ schema \in Schemas /\ client \in Clients[schema.name]
        /\ IsWhole(schema, client, entity)
        /\ IsEdited(schema, client, entity, Read(schema, client, source).e, touched)
    BY <1>2 DEF IInv, InvBase, InvWhole, InvEdited
  <2> QED BY <1>1, <2>1, HoldingIsEdited
<1> HIDE DEF f
<1> QED BY <1>1, <1>2 DEF InvEdited

LEMMA StaysEdited ==
    ASSUME IInv, InvEdited, [Next]_vars
    PROVE  InvEdited'
<1>1. CASE Load
  <2>1. PICK file \in Files(schema, client) : TakeIn(Read(schema, client, file), file)
    BY <1>1 DEF Load
  <2>2. IsGood(schema, client, file)
    BY FilesAssumption DEF IInv, InvBase, IsGood
  <2>3. UNCHANGED <<schema, client, disk>>
    BY <1>1 DEF Load
  <2> QED BY <2>1, <2>2, <2>3, TakeInEdits
<1>2. CASE Reload
  <2>1. TakeIn(Read(schema, client, disk), disk) /\ disk # NoFile /\ UNCHANGED <<schema, client, disk>>
    BY <1>2 DEF Reload
  <2>2. schema.name # "WDL" => IsGood(schema, client, disk)
    BY <2>1 DEF IInv, InvWhole
  <2> QED BY <2>1, <2>2, TakeInEdits
<1>3. CASE Save
  <2>1. schema' = schema /\ client' = client /\ entity' = entity /\ source' = source /\ touched' = touched
    BY <1>3 DEF Save
  <2> QED BY <2>1 DEF InvEdited
<1>4. ASSUME NEW cc \in Touchable, Assign(cc) \/ Fill(cc) \/ TakeAway(cc) PROVE InvEdited'
  <2>1. CASE Assign(cc)
    BY <2>1, EditEdits DEF Assign
  <2>2. CASE Fill(cc)
    BY <2>2, EditEdits DEF Fill
  <2>3. CASE TakeAway(cc)
    BY <2>3, EditEdits DEF TakeAway
  <2> QED BY <1>4, <2>1, <2>2, <2>3
<1>5. CASE UNCHANGED vars
  <2>1. schema' = schema /\ client' = client /\ entity' = entity /\ source' = source /\ touched' = touched
    BY <1>5 DEF vars
  <2> QED BY <2>1 DEF InvEdited
<1> QED BY <1>1, <1>2, <1>3, <1>4, <1>5 DEF Next

LEMMA AlwaysEdited == Spec => []InvEdited
<1>1. Init => InvEdited
  BY DEF Init, InvEdited
<1>2. IInv /\ InvEdited /\ [Next]_vars => InvEdited'
  BY StaysEdited
<1> QED BY <1>1, <1>2, AlwaysHolds, PTL DEF Spec


---------------------------------------------------------------------------
(* So what was not changed is in the file, and where it was.                *)

\* The container of a file that was read, and the body that was read of it.
LEMMA BodyIsCopy ==
    ASSUME NEW S \in Schemas, NEW v \in Clients[S.name], NEW file, IsFile(S, file), IsNested(S, "MOGP"),
           ReadEntity(S, v, Fresh(S, v), file).err = "none"
    PROVE  LET body  == S.nested["MOGP"]
               inner == Contained(file, "MOGP")
           IN  /\ IsSchemaFlat(body) /\ DOMAIN body.nested = {} /\ IsStream(inner)
               /\ IsCopy(body, v, FreshFlat(body, v), inner, <<>>,
                         ReadEntity(S, v, Fresh(S, v), file).e.val["MOGP"])
<1> DEFINE new == Fresh(S, v)
           o == ReadEntity(S, v, new, file).e
           nested == Containers(S, v, new, file)
           body == S.nested["MOGP"]
           first == FreshFlat(body, v)
<1>1. IsSchema(S) /\ IsLaidOut(S, v)
  BY SchemasAssumption
<1>2. IsSound(S, v, o) /\ IsCopy(S, v, new, file, nested, o)
  BY <1>1, ReadEntityIs DEF IsWhole
<1>3. /\ "MOGP" \in Members(S, v) /\ "MOGP" \in S.required
      /\ IsSchemaFlat(body) /\ DOMAIN body.nested = {}
  BY <1>1 DEF IsLaidOut, IsSchema, IsNested
<1>4. new.val["MOGP"] = first
  BY <1>1, <1>3, FreshIsNew
<1>5. IsStream(file) /\ Len(file.sub) \in Nat /\ DOMAIN file.sub = 1 .. Len(file.sub)
  BY DEF IsFile, IsStream
<1> HIDE DEF new, o
<1>6. PICK j \in 1 .. Len(file.sub) : o.journal[j].known /\ o.journal[j].cc = "MOGP"
  <2>1. Brought(o.journal, Len(o.journal), "MOGP") # 0 /\ Len(o.journal) = Len(file.sub)
    BY <1>2, <1>3 DEF IsCopy
  <2>2. Bringing(o.journal, Len(o.journal), "MOGP") # {}
    BY <2>1, FS_EmptySet DEF Brought
  <2> QED BY <2>1, <2>2 DEF Bringing
<1>7. o.journal[j].known = TRUE
  <2>1. IsEntry(S, v, o, j) /\ Len(o.journal) = Len(file.sub)
    BY <1>2 DEF IsSound, IsCopy
  <2>2. o.journal[j].known = TRUE \/ o.journal[j].known = FALSE
    BY <2>1 DEF IsEntry, KnownEntry, UnknownEntry
  <2> QED BY ONLY <1>6, <2>2
<1>8. Tells(S, o, file.sub, j, nested)
  BY <1>2 DEF IsCopy
<1>9. file.sub[j].cc = "MOGP"
  BY <1>6, <1>8 DEF Tells
<1>10. nested["MOGP"].err = "none" /\ o.val["MOGP"] = nested["MOGP"].e /\ IsFirstOf(file, j, "MOGP")
  BY <1>7, <1>8, <1>9 DEF Tells, IsFirstOf
<1> DEFINE inner == file.sub[j].pay
           r == ReadStream(body, v, first, inner, <<>>)
<1>11. FirstOf(file, "MOGP") = inner
  BY <1>5, <1>10, FirstIsUnique
<1>12. Contained(file, "MOGP") = inner
  BY <1>11 DEF Contained, FirstOf, IsFirstOf
<1>13. IsStream(inner)
  BY <1>5, <1>9 DEF IsFile, IsNested
<1>14. nested["MOGP"] = r
  BY <1>4, <1>5, <1>9, <1>11 DEF Containers, IsNested, ReadFlat
<1>15. IsCopy(body, v, first, inner, <<>>, r.e)
  <2>1. IsSchema(body) /\ IsNew(body, v, first)
    BY <1>3, FreshFlatIsNew DEF IsSchema
  <2>2. \A i \in 1 .. Len(inner.sub) : ChunkOf(body, inner.sub[i]) /\ NestedErrs(body, v, <<>>, inner.sub[i].cc)
    BY <1>3, <1>13 DEF IsStream, ChunkOf, NestedErrs, IsNested
  <2>3. r.err = "none"
    BY <1>10, <1>14
  <2> HIDE DEF first, inner, body
  <2> QED BY <1>13, <2>1, <2>2, <2>3, ReadStreamIs
<1> HIDE DEF r, nested
<1> QED BY <1>3, <1>10, <1>12, <1>13, <1>14, <1>15 DEF o, new

LEMMA AlikeButFor ==
    ASSUME NEW S, NEW v, NEW e, NEW o, NEW changed, NEW more, Alike(S, v, e, o, changed)
    PROVE  Alike(S, v, e, o, changed \cup more)
BY DEF Alike

\* The streams that are not members are of a container, or of the struct that is stamped.
LEMMA OuterStays ==
    ASSUME NEW S \in Schemas, NEW v \in Clients[S.name], NEW e, NEW file, NEW changed,
           S.name # "WDL", IsFile(S, file), ReadEntity(S, v, Fresh(S, v), file).err = "none",
           IsWhole(S, v, e), Alike(S, v, e, ReadEntity(S, v, Fresh(S, v), file).e, changed),
           DOMAIN S.nested \subseteq changed, Derived \subseteq changed
    PROVE  LET w == Write(S, v, e) IN w.err = "none" => Stays(file, w.pay, changed)
<1> DEFINE new == Fresh(S, v)
           o == ReadEntity(S, v, new, file).e
           nested == Containers(S, v, new, file)
           stamps == PatchChunk(S, e)
           streams == [cc \in DOMAIN S.nested \cup DOMAIN stamps |->
                         IF cc \in DOMAIN S.nested THEN WriteFlat(S.nested[cc], v, e.val[cc]) ELSE stamps[cc]]
<1>1. IsSchema(S)
  BY SchemasAssumption
<1>2. IsSound(S, v, o) /\ IsCopy(S, v, new, file, nested, o)
  BY <1>1, ReadEntityIs DEF IsWhole
<1>3. IsNew(S, v, new)
  BY <1>1, FreshIsNew
<1>4. DOMAIN streams \subseteq changed
  <2>1. DOMAIN stamps \subseteq {"MOHD"}
    BY StampsAre
  <2>2. DOMAIN streams = DOMAIN S.nested \cup DOMAIN stamps
    OBVIOUS
  <2> HIDE DEF streams, stamps
  <2> QED BY <2>1, <2>2 DEF Derived
<1>5. Write(S, v, e) = WriteStream(S, v, e, e.journal, streams)
  BY DEF Write, WriteEntity
<1>6. \A i \in 1 .. Len(file.sub) : ChunkOf(S, file.sub[i])
  BY DEF IsFile, IsStream, ChunkOf
<1>7. IsSound(S, v, e) /\ Alike(S, v, e, o, changed)
  BY DEF IsWhole
<1> HIDE DEF streams, new, o, nested
<1>8. StreamsKeep(S, o, file.sub, streams, changed)
  BY <1>4 DEF StreamsKeep, IsNested
<1> QED BY <1>1, <1>2, <1>3, <1>5, <1>6, <1>7, <1>8, StreamStays

LEMMA InnerStays ==
    ASSUME NEW S \in Schemas, NEW v \in Clients[S.name], NEW e, NEW file, NEW changed,
           S.name # "WDL", IsFile(S, file), ReadEntity(S, v, Fresh(S, v), file).err = "none",
           IsNested(S, "MOGP"), IsWhole(S, v, e),
           Alike(S.nested["MOGP"], v, e.val["MOGP"], ReadEntity(S, v, Fresh(S, v), file).e.val["MOGP"], changed)
    PROVE  LET w == Write(S, v, e)
           IN  w.err = "none" => Stays(Contained(file, "MOGP"), Contained(w.pay, "MOGP"), changed)
<1> DEFINE body == S.nested["MOGP"]
           inner == Contained(file, "MOGP")
           b == e.val["MOGP"]
           c == ReadEntity(S, v, Fresh(S, v), file).e.val["MOGP"]
           first == FreshFlat(body, v)
           w == Write(S, v, e)
           x == WriteStream(body, v, b, b.journal, <<>>)
<1>1. IsSchema(S) /\ IsLaidOut(S, v)
  BY SchemasAssumption
<1>2. "MOGP" \in Members(S, v)
  BY <1>1 DEF IsLaidOut, IsNested
<1>3. /\ IsSchemaFlat(body) /\ DOMAIN body.nested = {} /\ IsStream(inner)
      /\ IsCopy(body, v, first, inner, <<>>, c)
  BY BodyIsCopy
<1>4. IsSchema(body) /\ IsNew(body, v, first)
  BY <1>3, FreshFlatIsNew DEF IsSchema
<1>5. IsSound(body, v, b) /\ IsSound(body, v, c)
  <2>1. IsWhole(S, v, ReadEntity(S, v, Fresh(S, v), file).e)
    BY <1>1, ReadEntityIs
  <2> QED BY <1>2, <2>1 DEF IsWhole
<1>6. Alike(body, v, b, c, changed)
  OBVIOUS
<1>7. \A i \in 1 .. Len(inner.sub) : ChunkOf(body, inner.sub[i])
  BY <1>3 DEF IsStream, ChunkOf
<1>8. ASSUME w.err = "none"
      PROVE  x.err = "none" /\ Contained(w.pay, "MOGP") = x.pay
  <2>1. w = WriteEntity(S, v, e, e.journal, PatchChunk(S, e)) /\ AreStamps(S, v, PatchChunk(S, e))
    BY StampsAre DEF Write
  <2> HIDE DEF w
  <2>2. IsFile(S, w.pay) /\ Wraps(S, v, e, w.pay)
    BY <1>1, <1>8, <2>1, EntityReadsBack
  <2>3. x = WriteFlat(S.nested["MOGP"], v, e.val["MOGP"])
    BY DEF WriteFlat
  <2> HIDE DEF x
  <2>4. PICK k \in DOMAIN w.pay.sub : IsFirstOf(w.pay, k, "MOGP") /\ w.pay.sub[k].pay = x.pay
    BY <1>2, <2>2, <2>3 DEF Wraps
  <2>5. FirstOf(w.pay, "MOGP") = x.pay
    BY <2>2, <2>4, FirstIsUnique DEF IsFile
  <2>6. Contained(w.pay, "MOGP") = FirstOf(w.pay, "MOGP")
    BY DEF Contained, FirstOf, IsFirstOf
  <2>7. x.err = "none"
    BY <1>2, <2>2, <2>3 DEF Wraps
  <2> QED BY <2>5, <2>6, <2>7
<1>9. StreamsKeep(body, c, inner.sub, <<>>, changed)
  BY <1>3 DEF StreamsKeep, IsNested
<1> HIDE DEF body, inner, b, c, first, w
<1>10. x.err = "none" => Stays(inner, x.pay, changed)
  BY <1>3, <1>4, <1>5, <1>6, <1>7, <1>9, StreamStays
<1> HIDE DEF x
<1>11. w.err = "none" => Stays(inner, Contained(w.pay, "MOGP"), changed)
  BY <1>8, <1>10
<1> QED BY <1>11 DEF inner, w

LEMMA SurvivalFollows == IInv /\ InvEdited => (schema.name # "WDL" => UntouchedSurvive)
<1> SUFFICES ASSUME IInv, InvEdited, schema.name # "WDL", source # NoFile,
                    Write(schema, client, entity).err = "none"
             PROVE  Survive(Write(schema, client, entity).pay)
  BY DEF UntouchedSurvive, Loaded, Saved
<1> DEFINE S == schema
           v == client
           new == Write(S, v, entity).pay
           o == ReadEntity(S, v, Fresh(S, v), source).e
<1>1. S \in Schemas /\ v \in Clients[S.name] /\ IsWhole(S, v, entity)
  BY DEF IInv, InvBase, InvWhole
<1>2. IsFile(S, source) /\ Read(S, v, source).err = "none"
      /\ IsEdited(S, v, entity, Read(S, v, source).e, touched)
  BY DEF InvEdited, IsGood
<1>3. IsSchema(S) /\ IsLaidOut(S, v)
  BY <1>1, SchemasAssumption
<1>4. ReadEntity(S, v, Fresh(S, v), source).err = "none" /\ IsEdited(S, v, entity, o, touched)
  BY <1>2, <1>3, ReadIs
<1> HIDE DEF o, new
<1>5. CASE IsNested(S, "MOGP")
  <2>1. Alike(S, v, entity, o, {"MOGP"} \cup Derived)
    BY <1>4, <1>5, AlikeButFor DEF IsEdited
  <2>2. DOMAIN S.nested \subseteq {"MOGP"} \cup Derived
    BY <1>3 DEF IsLaidOut
  <2>3. Stays(source, new, {"MOGP"} \cup Derived)
    BY <1>1, <1>2, <1>4, <2>1, <2>2, OuterStays DEF o, new
  <2>4. Alike(S.nested["MOGP"], v, entity.val["MOGP"], o.val["MOGP"], touched)
    BY <1>4, <1>5 DEF IsEdited, Inner, Body
  <2>5. Stays(Contained(source, "MOGP"), Contained(new, "MOGP"), touched)
    BY <1>1, <1>2, <1>4, <1>5, <2>4, InnerStays DEF o, new
  <2> QED BY <1>5, <2>3, <2>5 DEF Survive, new
<1>6. CASE ~IsNested(S, "MOGP")
  <2>1. Alike(S, v, entity, o, touched \cup Derived)
    <3>1. Alike(S, v, entity, o, touched)
      BY <1>4, <1>6 DEF IsEdited, Inner, Body
    <3> QED BY <3>1, AlikeButFor
  <2>2. DOMAIN S.nested = {}
    BY <1>3, <1>6 DEF IsLaidOut, IsNested
  <2>3. Stays(source, new, touched \cup Derived)
    BY <1>1, <1>2, <1>4, <2>1, <2>2, OuterStays DEF o, new
  <2> QED BY <1>6, <2>3 DEF Survive, new
<1> QED BY <1>5, <1>6

\* Whatever was changed since an entity was loaded, a save keeps every chunk
\* that was not: in its place, with its content, with the header prelude and the
\* stray bytes, and what is new comes after; in the body of a group too
\* (chunked_file.hpp: the journal of ChunkExtras, writeEntity).
THEOREM UntouchedStay == Spec => [](schema.name # "WDL" => UntouchedSurvive)
BY AlwaysHolds, AlwaysEdited, SurvivalFollows, PTL
=============================================================================
