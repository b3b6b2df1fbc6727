---------------------------- MODULE TablesProofs ----------------------------
(***************************************************************************)
(* Of a table of the fixed-stride formats: that a written file reads back  *)
(* as its rows, that one nobody edited is written as it was, and that the  *)
(* offsets of its strings stay; of every table, that a call which fails    *)
(* has changed nothing of it, and that what it keeps for its encrypted     *)
(* sections is the file it was last read from.                             *)
(*                                                                         *)
(* From the bytes up: runs and blocks of strings, a block laid out and read*)
(* again, the texts of a table resolved one by one, the order of texts in  *)
(* the records, cells, rows, files; at the end the calls of a table.       *)
(***************************************************************************)
EXTENDS Tables, WellFoundedInduction, TLAPS

Less == {p \in Nat \X Nat : p[1] < p[2]}

LEMMA LessIsWellFounded == IsWellFoundedOn(Less, Nat)
BY NatLessThanWellFounded DEF OpToRel, Less

LEMMA NoneIsLess ==
    ASSUME NEW a \in Nat, NEW b \in Nat, ~ (<<a, b>> \in Less)
    PROVE  b <= a
<1>1. SUFFICES ASSUME a < b PROVE FALSE
  OBVIOUS
<1>2. <<a, b>> \in Nat \X Nat /\ <<a, b>>[1] = a /\ <<a, b>>[2] = b
  OBVIOUS
<1>3. <<a, b>> \in Less
  BY <1>1, <1>2 DEF Less
<1> QED
  BY <1>3

\* Of a set of positions, the least is a member.
LEMMA LeastPosition ==
    ASSUME NEW n \in Nat, NEW S \in SUBSET (1 .. n), S # {}
    PROVE  Min(S) \in S /\ \A i \in S : Min(S) <= i
<1>1. S \subseteq Nat
  OBVIOUS
<1>2. PICK m \in S : \A i \in S : ~ (<<i, m>> \in Less)
  BY <1>1, LessIsWellFounded, WFMin
<1>3. \A i \in S : m <= i
  BY <1>1, <1>2, NoneIsLess
<1> QED
  BY <1>3 DEF Min

\* And so is the greatest: it is the least when one counts down.
LEMMA GreatestPosition ==
    ASSUME NEW n \in Nat, NEW S \in SUBSET (1 .. n), S # {}
    PROVE  Max(S) \in S /\ \A i \in S : Max(S) >= i
<1> DEFINE D == {d \in 0 .. n : n - d \in S}
<1>1. PICK s \in S : TRUE
  OBVIOUS
<1>2. n - s \in 0 .. n /\ n - (n - s) = s
  OBVIOUS
<1>3. D \subseteq Nat /\ n - s \in D
  BY <1>2
<1>4. PICK d \in D : \A e \in D : ~ (<<e, d>> \in Less)
  <2>1. D # {}
    BY <1>3
  <2> QED
    BY <1>3, <2>1, LessIsWellFounded, WFMin
<1>5. n - d \in S
  OBVIOUS
<1>6. \A i \in S : n - d >= i
  <2>1. TAKE i \in S
  <2>2. i \in 1 .. n /\ n - i \in 0 .. n /\ n - (n - i) = i
    OBVIOUS
  <2>3. n - i \in D
    BY <2>2
  <2>4. d <= n - i
    BY <1>3, <1>4, <2>3, NoneIsLess
  <2> QED
    BY <2>2, <2>4
<1> QED
  BY <1>5, <1>6 DEF Max

LEMMA Elements ==
    ASSUME NEW T, NEW s \in Seq(T)
    PROVE  Len(s) \in Nat /\ DOMAIN s = 1 .. Len(s) /\ \A i \in 1 .. Len(s) : s[i] \in T
OBVIOUS

\* An entry reads, at its own offset, as its text.
LEMMA EntryReads ==
    ASSUME NEW block, IsBlock(block), NEW m \in DOMAIN block.entries
    PROVE  At(block, block.entries[m].offset) = block.entries[m].value
<1> DEFINE n == Len(block.entries)
           o == block.entries[m].offset
           S == AtOrBefore(block, o)
<1>1. /\ n \in Nat /\ DOMAIN block.entries = 1 .. n
      /\ \A i \in 1 .. n : block.entries[i] \in [offset : Nat, value : Seq(Nat)]
  <2>1. block.entries \in Seq([offset : Nat, value : Seq(Nat)])
    BY DEF IsBlock
  <2> HIDE DEF n
  <2> QED
    BY <2>1, Elements DEF n
<1>2. m \in S /\ S \in SUBSET (1 .. n)
  BY <1>1 DEF AtOrBefore
<1>3. \A i \in S : i <= m
  <2>1. SUFFICES ASSUME NEW i \in S, m < i PROVE FALSE
    BY <1>1, <1>2
  <2>2. block.entries[m].offset < block.entries[i].offset
    BY <1>1, <1>2, <2>1 DEF IsBlock
  <2>3. block.entries[i].offset <= o
    BY <2>1 DEF AtOrBefore
  <2>4. block.entries[i].offset \in Nat /\ o \in Nat
    BY <1>1, <1>2, <2>1
  <2> QED
    BY <2>2, <2>3, <2>4
<1>4. Max(S) = m
  <2>1. Max(S) \in S /\ Max(S) >= m
    BY <1>1, <1>2, GreatestPosition
  <2> QED
    BY <1>1, <1>2, <1>3, <2>1
<1>5. At(block, o) = SubSeq(block.entries[m].value, o - o + 1, Len(block.entries[m].value))
  BY <1>2, <1>4 DEF At
<1>6. o - o + 1 = 1 /\ block.entries[m].value \in Seq(Nat)
  BY <1>1
<1>7. SubSeq(block.entries[m].value, 1, Len(block.entries[m].value)) = block.entries[m].value
  BY <1>6
<1> QED
  BY <1>5, <1>6, <1>7

LEMMA AddedEntries ==
    ASSUME NEW block, IsBlock(block), NEW text \in Seq(Nat)
    PROVE  LET new == Add(block, text)
               n   == Len(block.entries)
           IN  /\ n \in Nat /\ DOMAIN block.entries = 1 .. n
               /\ block.size \in Nat /\ new.size \in Nat /\ new.size > block.size
               /\ new.entries \in Seq([offset : Nat, value : Seq(Nat)])
               /\ DOMAIN new.entries = 1 .. n + 1
               /\ \A i \in 1 .. n : new.entries[i] = block.entries[i]
               /\ new.entries[n + 1] = [offset |-> block.size, value |-> text]
               /\ \A i \in 1 .. n : block.entries[i].offset \in Nat /\ block.entries[i].offset < block.size
<1> DEFINE entry == [offset |-> block.size, value |-> text]
           T     == [offset : Nat, value : Seq(Nat)]
           n     == Len(block.entries)
<1>1. block.entries \in Seq(T) /\ block.size \in Nat
  BY DEF IsBlock
<1>2. n \in Nat /\ DOMAIN block.entries = 1 .. n /\ \A i \in 1 .. n : block.entries[i] \in T
  <2> HIDE DEF T, n
  <2> QED
    BY <1>1, Elements DEF n
<1>3. entry \in T
  BY <1>1
<1>4. Add(block, text).entries = Append(block.entries, entry) /\ Add(block, text).size = block.size + Len(text) + 1
  BY DEF Add
<1>5. /\ Append(block.entries, entry) \in Seq(T)
      /\ DOMAIN Append(block.entries, entry) = 1 .. n + 1
      /\ \A i \in 1 .. n : Append(block.entries, entry)[i] = block.entries[i]
      /\ Append(block.entries, entry)[n + 1] = entry
  <2> HIDE DEF T, entry
  <2> QED
    BY <1>1, <1>2, <1>3
<1>6. Len(text) \in Nat
  OBVIOUS
<1>7. \A i \in 1 .. n : block.entries[i].offset \in Nat
  BY <1>2
<1>8. \A i \in 1 .. n : block.entries[i].offset < block.size
  BY <1>2 DEF IsBlock
<1>9. Add(block, text).size \in Nat /\ Add(block, text).size > block.size
  BY <1>1, <1>4, <1>6
<1> QED
  <2>1. \A i \in 1 .. n : Add(block, text).entries[i] = block.entries[i]
    BY <1>4, <1>5, Zenon
  <2>2. /\ Add(block, text).entries \in Seq(T)
        /\ DOMAIN Add(block, text).entries = 1 .. n + 1
        /\ Add(block, text).entries[n + 1] = entry
    BY <1>4, <1>5, Zenon
  <2> QED
    BY <1>1, <1>2, <1>7, <1>8, <1>9, <2>1, <2>2, Zenon

LEMMA AddKeepsBlock ==
    ASSUME NEW block, IsBlock(block), NEW text \in Seq(Nat)
    PROVE  IsBlock(Add(block, text))
<1> DEFINE new == Add(block, text)
           n   == Len(block.entries)
<1>0. /\ n \in Nat /\ DOMAIN block.entries = 1 .. n
      /\ block.size \in Nat /\ new.size \in Nat /\ new.size > block.size
      /\ DOMAIN new.entries = 1 .. n + 1
      /\ \A i \in 1 .. n : new.entries[i] = block.entries[i]
      /\ new.entries[n + 1] = [offset |-> block.size, value |-> text]
      /\ \A i \in 1 .. n : block.entries[i].offset \in Nat /\ block.entries[i].offset < block.size
  BY AddedEntries
<1> HIDE DEF new, n
<1>1. new \in [entries : Seq([offset : Nat, value : Seq(Nat)]), size : Nat]
  BY AddedEntries DEF Add, new
<1>2. \A i \in 1 .. n + 1 : new.entries[i].offset < new.size
  <2>1. TAKE i \in 1 .. n + 1
  <2>2. CASE i \in 1 .. n
    BY <1>0, <2>2
  <2>3. CASE i = n + 1
    BY <1>0, <2>3
  <2> QED
    BY <1>0, <2>2, <2>3
<1>3. \A i, j \in 1 .. n + 1 : i < j => new.entries[i].offset < new.entries[j].offset
  <2>1. SUFFICES ASSUME NEW i \in 1 .. n + 1, NEW j \in 1 .. n + 1, i < j
                 PROVE  new.entries[i].offset < new.entries[j].offset
    OBVIOUS
  <2>2. i \in 1 .. n
    BY <1>0, <2>1
  <2>3. CASE j \in 1 .. n
    BY <1>0, <2>1, <2>2, <2>3 DEF IsBlock
  <2>4. CASE j = n + 1
    BY <1>0, <2>2, <2>4
  <2> QED
    BY <1>0, <2>3, <2>4
<1> QED
  BY <1>0, <1>1, <1>2, <1>3 DEF IsBlock, new

\* StringBlock::add moves nothing: every offset into the block reads, in the
\* block with one more text, what it read before; and the text is at its end.
THEOREM AddMovesNothing ==
    ASSUME NEW block, IsBlock(block), NEW text \in Seq(Nat)
    PROVE  /\ IsBlock(Add(block, text))
           /\ \A offset \in 0 .. block.size - 1 : At(Add(block, text), offset) = At(block, offset)
           /\ At(Add(block, text), block.size) = text
<1> DEFINE new == Add(block, text)
           n   == Len(block.entries)
<1>0. /\ n \in Nat /\ DOMAIN block.entries = 1 .. n
      /\ block.size \in Nat /\ new.size \in Nat /\ new.size > block.size
      /\ DOMAIN new.entries = 1 .. n + 1
      /\ \A i \in 1 .. n : new.entries[i] = block.entries[i]
      /\ new.entries[n + 1] = [offset |-> block.size, value |-> text]
      /\ \A i \in 1 .. n : block.entries[i].offset \in Nat /\ block.entries[i].offset < block.size
  BY AddedEntries
<1> HIDE DEF new, n
<1>1. IsBlock(new)
  BY AddKeepsBlock DEF new
<1>2. \A offset \in 0 .. block.size - 1 : At(new, offset) = At(block, offset)
  <2>1. TAKE offset \in 0 .. block.size - 1
  <2>2. AtOrBefore(new, offset) = AtOrBefore(block, offset)
    <3>1. n + 1 \notin AtOrBefore(new, offset)
      BY <1>0 DEF AtOrBefore
    <3>2. \A i \in 1 .. n : i \in AtOrBefore(new, offset) <=> i \in AtOrBefore(block, offset)
      BY <1>0 DEF AtOrBefore
    <3>3. AtOrBefore(new, offset) \subseteq 1 .. n + 1 /\ AtOrBefore(block, offset) \subseteq 1 .. n
      BY <1>0 DEF AtOrBefore
    <3>4. \A i \in 1 .. n + 1 : i \in 1 .. n \/ i = n + 1
      BY <1>0
    <3>5. AtOrBefore(new, offset) \subseteq AtOrBefore(block, offset)
      BY <3>1, <3>2, <3>3, <3>4, Zenon
    <3>6. AtOrBefore(block, offset) \subseteq AtOrBefore(new, offset)
      BY <3>2, <3>3, Zenon
    <3> QED
      BY <3>5, <3>6
  <2>3. CASE AtOrBefore(block, offset) = {}
    BY <2>2, <2>3 DEF At
  <2>4. CASE AtOrBefore(block, offset) # {}
    <3>1. AtOrBefore(block, offset) \in SUBSET (1 .. n)
      BY <1>0 DEF AtOrBefore
    <3>2. Max(AtOrBefore(block, offset)) \in 1 .. n
      BY <1>0, <2>4, <3>1, GreatestPosition
    <3>3. new.entries[Max(AtOrBefore(block, offset))] = block.entries[Max(AtOrBefore(block, offset))]
      BY <1>0, <3>2
    <3> QED
      BY <2>2, <2>4, <3>3 DEF At
  <2> QED
    BY <2>3, <2>4
<1>3. At(new, block.size) = text
  <2>1. n + 1 \in DOMAIN new.entries /\ new.entries[n + 1].offset = block.size /\ new.entries[n + 1].value = text
    BY <1>0
  <2> QED
    BY <1>1, <2>1, EntryReads
<1> QED
  BY <1>1, <1>2, <1>3 DEF new

\* StringPool::resolve: the offset it gives reads, in the pool it leaves, as the
\* text; and whatever was in the pool reads as it did.
THEOREM ResolveIsFaithful ==
    ASSUME NEW pool, IsBlock(pool), NEW text \in Seq(Nat), NEW slot, NEW journal
    PROVE  LET r == Resolve(pool, text, slot, journal)
           IN  /\ IsBlock(r.pool)
               /\ At(r.pool, r.offset) = text
               /\ \A offset \in 0 .. pool.size - 1 : At(r.pool, offset) = At(pool, offset)
<1> DEFINE r == Resolve(pool, text, slot, journal)
<1>1. CASE slot \in DOMAIN journal /\ At(pool, journal[slot]) = text
  <2>1. r = [pool |-> pool, offset |-> journal[slot]]
    BY <1>1 DEF Resolve
  <2> QED
    BY <1>1, <2>1
<1>2. CASE ~ (slot \in DOMAIN journal /\ At(pool, journal[slot]) = text) /\ Holding(pool, text) # {}
  <2>1. r = [pool |-> pool, offset |-> pool.entries[Min(Holding(pool, text))].offset]
    BY <1>2 DEF Resolve
  <2>2. Holding(pool, text) \in SUBSET (1 .. Len(pool.entries))
    BY AddedEntries DEF Holding
  <2>3. Min(Holding(pool, text)) \in Holding(pool, text)
    BY <1>2, <2>2, AddedEntries, LeastPosition
  <2>4. /\ Min(Holding(pool, text)) \in DOMAIN pool.entries
        /\ pool.entries[Min(Holding(pool, text))].value = text
    BY <2>3 DEF Holding
  <2>5. At(pool, pool.entries[Min(Holding(pool, text))].offset) = text
    BY <2>4, EntryReads
  <2> QED
    BY <2>1, <2>5
<1>3. CASE ~ (slot \in DOMAIN journal /\ At(pool, journal[slot]) = text) /\ Holding(pool, text) = {}
  <2>1. r = [pool |-> Add(pool, text), offset |-> pool.size]
    BY <1>3 DEF Resolve
  <2> QED
    BY <2>1, AddMovesNothing
<1> QED
  BY <1>1, <1>2, <1>3
-----------------------------------------------------------------------------
(* Counting up, and pieces of sequences.                                     *)

\* What holds at first and is passed on holds of all.
LEMMA CountUp ==
    ASSUME NEW n \in Nat, NEW T, 0 \in T, \A i \in 0 .. n - 1 : i \in T => i + 1 \in T
    PROVE  \A i \in 0 .. n : i \in T
<1> DEFINE Out == {i \in 0 .. n : i \notin T}
<1> SUFFICES ASSUME Out # {} PROVE FALSE
  OBVIOUS
<1>1. Out \subseteq Nat
  OBVIOUS
<1>2. PICK i \in Out : \A j \in Out : ~ (<<j, i>> \in Less)
  BY <1>1, LessIsWellFounded, WFMin
<1>3. i # 0 /\ i \in 1 .. n /\ i - 1 \in 0 .. n - 1
  OBVIOUS
<1>4. i - 1 \notin Out
  <2> SUFFICES ASSUME i - 1 \in Out PROVE FALSE
    OBVIOUS
  <2>1. i - 1 \in Nat /\ i \in Nat
    BY <1>3
  <2> HIDE DEF Out
  <2>2. i <= i - 1
    BY <1>2, <2>1, NoneIsLess
  <2> QED BY <2>1, <2>2
<1>5. i - 1 \in T
  BY <1>3, <1>4
<1>6. (i - 1) + 1 \in T
  BY <1>3, <1>5
<1> QED BY <1>3, <1>6

LEMMA SubSeqIs ==
    ASSUME NEW T, NEW s \in Seq(T), NEW a \in Nat, NEW b \in Nat, a >= 1, b <= Len(s), a <= b + 1
    PROVE  /\ SubSeq(s, a, b) \in Seq(T) /\ Len(SubSeq(s, a, b)) = b - a + 1
           /\ \A i \in 1 .. b - a + 1 : SubSeq(s, a, b)[i] = s[a + i - 1]
OBVIOUS

LEMMA AppendIs ==
    ASSUME NEW T, NEW s \in Seq(T), NEW x \in T
    PROVE  /\ Append(s, x) \in Seq(T) /\ Len(Append(s, x)) = Len(s) + 1
           /\ \A i \in 1 .. Len(s) : Append(s, x)[i] = s[i]
           /\ Append(s, x)[Len(s) + 1] = x
OBVIOUS

LEMMA SeqsAreEqual ==
    ASSUME NEW T, NEW s \in Seq(T), NEW t \in Seq(T), Len(s) = Len(t), \A i \in 1 .. Len(s) : s[i] = t[i]
    PROVE  s = t
OBVIOUS

-----------------------------------------------------------------------------
(* Runs of bytes, and the block they are read as.                            *)

\* From p to e is all there is of the run from p.
IsRun(bytes, p, e) ==
    /\ e \in p .. Len(bytes) /\ \A q \in p .. e : bytes[q] # NUL
    /\ e = Len(bytes) \/ bytes[e + 1] = NUL

LEMMA RunFromIs ==
    ASSUME NEW bytes \in Seq(Nat), NEW p \in 1 .. Len(bytes), bytes[p] # NUL
    PROVE  \E e : IsRun(bytes, p, e) /\ RunFrom(bytes, p) = SubSeq(bytes, p, e)
<1> DEFINE n == Len(bytes)
           S == {e \in p .. n : \A q \in p .. e : bytes[q] # NUL}
           m == Max(S)
<1>1. n \in Nat /\ S \in SUBSET (1 .. n) /\ p \in S
  OBVIOUS
<1>2. m \in S /\ \A i \in S : m >= i
  <2> HIDE DEF S
  <2> QED BY <1>1, GreatestPosition
<1>3. m = n \/ bytes[m + 1] = NUL
  <2> SUFFICES ASSUME m # n, bytes[m + 1] # NUL PROVE FALSE
    OBVIOUS
  <2> HIDE DEF m
  <2>1. m + 1 \in S
    BY <1>1, <1>2
  <2> QED BY <1>2, <2>1
<1>4. RunFrom(bytes, p) = SubSeq(bytes, p, m)
  BY DEF RunFrom
<1> HIDE DEF m
<1> QED BY <1>2, <1>3, <1>4 DEF IsRun

LEMMA RunIsOne ==
    ASSUME NEW bytes \in Seq(Nat), NEW p \in 1 .. Len(bytes), NEW q \in 1 .. Len(bytes), NEW e, NEW f,
           IsRun(bytes, p, e), IsRun(bytes, q, f), p <= q, q <= e
    PROVE  e = f
<1>1. e \in Nat /\ f \in Nat /\ Len(bytes) \in Nat
  BY DEF IsRun
<1>2. ~(e < f)
  <2> SUFFICES ASSUME e < f PROVE FALSE
    OBVIOUS
  <2>1. e + 1 \in q .. f /\ e # Len(bytes)
    BY <1>1 DEF IsRun
  <2> QED BY <2>1 DEF IsRun
<1>3. ~(f < e)
  <2> SUFFICES ASSUME f < e PROVE FALSE
    OBVIOUS
  <2>1. f + 1 \in p .. e /\ f # Len(bytes)
    BY <1>1 DEF IsRun
  <2> QED BY <2>1 DEF IsRun
<1> QED BY <1>1, <1>2, <1>3

\* A byte that is not zero is in a run, which begins somewhere.
LEMMA RunBegins ==
    ASSUME NEW bytes \in Seq(Nat), NEW p \in 1 .. Len(bytes), bytes[p] # NUL
    PROVE  \E s \in RunStarts(bytes) : s <= p /\ \A q \in s .. p : bytes[q] # NUL
<1> DEFINE n == Len(bytes)
           S == {s \in 1 .. p : \A q \in s .. p : bytes[q] # NUL}
           m == Min(S)
<1>1. n \in Nat /\ S \in SUBSET (1 .. n) /\ p \in S
  OBVIOUS
<1>2. m \in S /\ \A i \in S : m <= i
  <2> HIDE DEF S
  <2> QED BY <1>1, LeastPosition
<1> HIDE DEF m
<1>3. m = 1 \/ bytes[m - 1] = NUL
  <2> SUFFICES ASSUME m # 1, bytes[m - 1] # NUL PROVE FALSE
    OBVIOUS
  <2>1. m - 1 \in S
    BY <1>1, <1>2
  <2> QED BY <1>2, <2>1
<1>4. m \in RunStarts(bytes)
  BY <1>1, <1>2, <1>3 DEF RunStarts
<1> QED BY <1>2, <1>4

IsRunsUpTo(f, bytes, n) ==
    f = [p \in 0 .. n |->
            IF p = 0 THEN <<>>
            ELSE IF p \in RunStarts(bytes)
            THEN Append(f[p - 1], [offset |-> p - 1, value |-> RunFrom(bytes, p)])
            ELSE f[p - 1]]

OneRunMore(f, bytes, p) ==
    IF p \in RunStarts(bytes)
    THEN Append(f, [offset |-> p - 1, value |-> RunFrom(bytes, p)])
    ELSE f

LEMMA RunsExist ==
    ASSUME NEW bytes, NEW n \in Nat
    PROVE  \E f : IsRunsUpTo(f, bytes, n)
<1> DEFINE T == {i \in 0 .. n : \E f : IsRunsUpTo(f, bytes, i)}
<1>1. 0 \in T
  <2>1. IsRunsUpTo([p \in 0 .. 0 |-> <<>>], bytes, 0)
    BY DEF IsRunsUpTo
  <2> QED BY <2>1
<1>2. ASSUME NEW i \in 0 .. n - 1, i \in T PROVE i + 1 \in T
  <2>1. PICK f : IsRunsUpTo(f, bytes, i)
    BY <1>2
  <2> DEFINE g == [j \in 0 .. i + 1 |-> IF j = i + 1 THEN OneRunMore(f[i], bytes, i + 1) ELSE f[j]]
  <2>2. \A j \in 0 .. i : g[j] = f[j]
    OBVIOUS
  <2>3. \A j \in 0 .. i : f[j] = IF j = 0 THEN <<>> ELSE OneRunMore(f[j - 1], bytes, j)
    BY <2>1 DEF IsRunsUpTo, OneRunMore
  <2>4. ASSUME NEW j \in 0 .. i + 1
        PROVE  g[j] = IF j = 0 THEN <<>> ELSE OneRunMore(g[j - 1], bytes, j)
    <3>1. CASE j \in 0 .. i
      <4>1. j # 0 => j - 1 \in 0 .. i
        BY <3>1
      <4> HIDE DEF g
      <4> QED BY <2>2, <2>3, <3>1, <4>1
    <3>2. CASE j = i + 1
      <4>1. g[j] = OneRunMore(f[i], bytes, i + 1) /\ g[i] = f[i] /\ j - 1 = i /\ j # 0
        BY <2>2, <3>2
      <4> HIDE DEF g
      <4> QED BY <3>2, <4>1
    <3> QED BY <3>1, <3>2
  <2>5. g = [j \in 0 .. i + 1 |-> g[j]]
    OBVIOUS
  <2>6. IsRunsUpTo(g, bytes, i + 1)
    <3> HIDE DEF g
    <3> QED BY <2>4, <2>5 DEF IsRunsUpTo, OneRunMore
  <2> QED BY <2>6
<1>3. \A i \in 0 .. n : i \in T
  <2> HIDE DEF T
  <2> QED BY <1>1, <1>2, CountUp
<1> QED BY <1>3

LEMMA RunsAre ==
    ASSUME NEW bytes, Len(bytes) \in Nat
    PROVE  LET r == RunsUpTo(bytes)
           IN  /\ r[0] = <<>>
               /\ \A p \in 1 .. Len(bytes) : r[p] = OneRunMore(r[p - 1], bytes, p)
<1> DEFINE r == RunsUpTo(bytes)
<1>1. \E f : IsRunsUpTo(f, bytes, Len(bytes))
  BY RunsExist
<1>2. r = CHOOSE f : IsRunsUpTo(f, bytes, Len(bytes))
  BY DEF RunsUpTo, IsRunsUpTo
<1>3. IsRunsUpTo(r, bytes, Len(bytes))
  <2> HIDE DEF r
  <2> QED BY <1>1, <1>2
<1> HIDE DEF r
<1>4. \A p \in 0 .. Len(bytes) : r[p] = IF p = 0 THEN <<>> ELSE OneRunMore(r[p - 1], bytes, p)
  BY <1>3 DEF IsRunsUpTo, OneRunMore
<1> QED BY <1>4 DEF r

Entries == [offset : Nat, value : Seq(Nat)]

\* The runs that begin up to p, in their order.
IsRunList(es, bytes, p) ==
    /\ es \in Seq(Entries)
    /\ \A i \in 1 .. Len(es) : /\ es[i].offset + 1 \in RunStarts(bytes) /\ es[i].offset < p
                               /\ es[i].value = RunFrom(bytes, es[i].offset + 1)
    /\ \A i, j \in 1 .. Len(es) : i < j => es[i].offset < es[j].offset
    /\ \A q \in RunStarts(bytes) : q <= p => \E i \in 1 .. Len(es) : es[i].offset = q - 1

LEMMA RunListGrows ==
    ASSUME NEW bytes \in Seq(Nat), NEW p \in 1 .. Len(bytes), NEW es, IsRunList(es, bytes, p - 1)
    PROVE  IsRunList(OneRunMore(es, bytes, p), bytes, p)
<1>1. es \in Seq(Entries) /\ Len(es) \in Nat /\ DOMAIN es = 1 .. Len(es) /\ p \in Nat
  BY DEF IsRunList
<1>2. \A i \in 1 .. Len(es) : es[i].offset \in Nat /\ es[i].offset < p - 1
  <2>1. \A i \in 1 .. Len(es) : es[i] \in Entries
    BY <1>1
  <2> QED BY <2>1 DEF IsRunList, Entries
<1>3. CASE p \notin RunStarts(bytes)
  <2>1. OneRunMore(es, bytes, p) = es
    BY <1>3 DEF OneRunMore
  <2>2. \A i \in 1 .. Len(es) : es[i].offset < p
    BY <1>1, <1>2
  <2>3. \A q \in RunStarts(bytes) : q <= p => q <= p - 1
    BY <1>1, <1>3 DEF RunStarts
  <2> QED BY <2>1, <2>2, <2>3 DEF IsRunList
<1>4. CASE p \in RunStarts(bytes)
  <2> DEFINE x == [offset |-> p - 1, value |-> RunFrom(bytes, p)]
             f == Append(es, x)
             n == Len(es)
  <2>1. OneRunMore(es, bytes, p) = f
    BY <1>4 DEF OneRunMore
  <2>2. RunFrom(bytes, p) \in Seq(Nat)
    <3>1. bytes[p] # NUL
      BY <1>4 DEF RunStarts
    <3>2. PICK e : IsRun(bytes, p, e) /\ RunFrom(bytes, p) = SubSeq(bytes, p, e)
      BY <3>1, RunFromIs
    <3>3. e \in p .. Len(bytes)
      BY <3>2 DEF IsRun
    <3> QED BY <3>2, <3>3, SubSeqIs
  <2>3. x \in Entries /\ x.offset = p - 1 /\ x.value = RunFrom(bytes, p)
    BY <1>1, <2>2 DEF Entries
  <2> HIDE DEF x
  <2>4. f \in Seq(Entries) /\ Len(f) = n + 1 /\ (\A i \in 1 .. n : f[i] = es[i]) /\ f[n + 1] = x
    BY <1>1, <2>3, AppendIs
  <2> HIDE DEF f
  <2>5. \A i \in 1 .. n + 1 : i \in 1 .. n \/ i = n + 1
    BY <1>1
  <2>6. ASSUME NEW i \in 1 .. n + 1
        PROVE  /\ f[i].offset + 1 \in RunStarts(bytes) /\ f[i].offset < p
               /\ f[i].value = RunFrom(bytes, f[i].offset + 1)
    <3>1. CASE i \in 1 .. n
      <4>1. f[i] = es[i] /\ es[i].offset < p
        BY <1>1, <1>2, <2>4, <3>1
      <4> QED BY <3>1, <4>1 DEF IsRunList
    <3>2. CASE i = n + 1
      <4>1. f[i].offset + 1 = p /\ f[i].offset < p /\ f[i].value = RunFrom(bytes, p)
        BY <1>1, <2>3, <2>4, <3>2
      <4> QED BY <1>4, <4>1
    <3> QED BY <2>5, <3>1, <3>2
  <2>7. ASSUME NEW i \in 1 .. n + 1, NEW j \in 1 .. n + 1, i < j PROVE f[i].offset < f[j].offset
    <3>1. i \in 1 .. n
      BY <1>1, <2>7
    <3>2. CASE j \in 1 .. n
      BY <2>4, <2>7, <3>1, <3>2 DEF IsRunList
    <3>3. CASE j = n + 1
      BY <1>1, <1>2, <2>3, <2>4, <3>1, <3>3
    <3> QED BY <2>5, <3>2, <3>3
  <2>8. ASSUME NEW q \in RunStarts(bytes), q <= p PROVE \E i \in 1 .. n + 1 : f[i].offset = q - 1
    <3>1. q \in Nat
      BY DEF RunStarts
    <3>2. CASE q <= p - 1
      <4>1. PICK i \in 1 .. n : es[i].offset = q - 1
        BY <3>2 DEF IsRunList
      <4> QED BY <1>1, <2>4, <4>1
    <3>3. CASE q = p
      BY <1>1, <2>3, <2>4, <3>3
    <3> QED BY <1>1, <2>8, <3>1, <3>2, <3>3
  <2> HIDE DEF n
  <2>9. IsRunList(f, bytes, p)
    BY <2>4, <2>6, <2>7, <2>8 DEF IsRunList
  <2> QED BY <2>1, <2>9
<1> QED BY <1>3, <1>4

\* What a block was read as: the runs of its bytes.
LEMMA ReadBlockIs ==
    ASSUME NEW bytes \in Seq(Nat)
    PROVE  LET block == ReadBlock(bytes)
           IN  /\ IsRunList(block.entries, bytes, Len(bytes)) /\ block.size = Len(bytes)
               /\ block = [entries |-> block.entries, size |-> block.size]
<1> DEFINE n == Len(bytes)
           r == RunsUpTo(bytes)
           T == {p \in 0 .. n : IsRunList(r[p], bytes, p)}
<1>1. n \in Nat /\ r[0] = <<>> /\ \A p \in 1 .. n : r[p] = OneRunMore(r[p - 1], bytes, p)
  BY RunsAre
<1>2. 0 \in T
  <2>1. \A q \in RunStarts(bytes) : ~(q <= 0)
    BY DEF RunStarts
  <2>2. <<>> \in Seq(Entries) /\ Len(<<>>) = 0
    OBVIOUS
  <2>3. IsRunList(<<>>, bytes, 0)
    BY <2>1, <2>2 DEF IsRunList
  <2> HIDE DEF r
  <2> QED BY <1>1, <2>3
<1>3. ASSUME NEW p \in 0 .. n - 1, p \in T PROVE p + 1 \in T
  <2>1. p + 1 \in 1 .. n /\ (p + 1) - 1 = p
    BY <1>1
  <2> HIDE DEF r
  <2>2. r[p + 1] = OneRunMore(r[p], bytes, p + 1)
    BY <1>1, <2>1
  <2>3. IsRunList(OneRunMore(r[p], bytes, p + 1), bytes, p + 1)
    BY <1>3, <2>1, RunListGrows
  <2> QED BY <1>1, <2>1, <2>2, <2>3
<1>4. IsRunList(r[n], bytes, n)
  <2>1. \A p \in 0 .. n : p \in T
    <3> HIDE DEF T
    <3> QED BY <1>1, <1>2, <1>3, CountUp
  <2> QED BY <1>1, <2>1
<1> QED BY <1>4 DEF ReadBlock

\* An entry of a block that was read: its run.
LEMMA EntryIsRun ==
    ASSUME NEW bytes \in Seq(Nat), NEW i \in DOMAIN ReadBlock(bytes).entries
    PROVE  LET entry == ReadBlock(bytes).entries[i]
               s     == entry.offset + 1
           IN  /\ entry \in Entries /\ s \in RunStarts(bytes) /\ s \in 1 .. Len(bytes) /\ bytes[s] # NUL
               /\ \E e : /\ IsRun(bytes, s, e) /\ entry.value = SubSeq(bytes, s, e)
                         /\ Len(entry.value) = e - s + 1
                         /\ \A k \in 1 .. Len(entry.value) : entry.value[k] = bytes[s + k - 1]
<1> DEFINE block == ReadBlock(bytes)
           entry == block.entries[i]
           s == entry.offset + 1
<1>1. IsRunList(block.entries, bytes, Len(bytes))
  BY ReadBlockIs
<1> HIDE DEF block
<1>2. block.entries \in Seq(Entries) /\ i \in 1 .. Len(block.entries) /\ entry \in Entries
  BY <1>1 DEF IsRunList, block
<1>3. s \in RunStarts(bytes) /\ entry.value = RunFrom(bytes, s)
  BY <1>1, <1>2 DEF IsRunList
<1>4. s \in 1 .. Len(bytes) /\ bytes[s] # NUL
  BY <1>3 DEF RunStarts
<1>5. PICK e : IsRun(bytes, s, e) /\ RunFrom(bytes, s) = SubSeq(bytes, s, e)
  BY <1>4, RunFromIs
<1>6. e \in s .. Len(bytes)
  BY <1>5 DEF IsRun
<1> HIDE DEF entry, s
<1>7. Len(entry.value) = e - s + 1 /\ \A k \in 1 .. e - s + 1 : entry.value[k] = bytes[s + k - 1]
  BY <1>3, <1>4, <1>5, <1>6, SubSeqIs
<1> QED BY <1>2, <1>3, <1>4, <1>5, <1>7 DEF entry, s, block

LEMMA ReadIsBlock ==
    ASSUME NEW bytes \in Seq(Nat)
    PROVE  IsBlock(ReadBlock(bytes))
<1> DEFINE block == ReadBlock(bytes)
<1>1. /\ IsRunList(block.entries, bytes, Len(bytes)) /\ block.size = Len(bytes)
      /\ block = [entries |-> block.entries, size |-> block.size]
  BY ReadBlockIs
<1> HIDE DEF block
<1>2. block \in [entries : Seq([offset : Nat, value : Seq(Nat)]), size : Nat]
  BY <1>1 DEF IsRunList, Entries
<1>3. DOMAIN block.entries = 1 .. Len(block.entries)
  BY <1>1 DEF IsRunList
<1> QED BY <1>1, <1>2, <1>3 DEF IsBlock, IsRunList, block

\* What an offset into the bytes leads to.
RunAt(bytes, offset) ==
    IF offset + 1 <= Len(bytes) /\ bytes[offset + 1] # NUL THEN RunFrom(bytes, offset + 1) ELSE <<>>

LEMMA EmptyPiece ==
    ASSUME NEW s \in Seq(Nat), NEW a \in Nat, NEW b \in Nat, a > b
    PROVE  SubSeq(s, a, b) = <<>>
OBVIOUS

\* The run of a byte that is not zero is an entry, at or before it.
LEMMA RunIsEntry ==
    ASSUME NEW bytes \in Seq(Nat), NEW p \in 1 .. Len(bytes), bytes[p] # NUL
    PROVE  \E i \in DOMAIN ReadBlock(bytes).entries :
               /\ ReadBlock(bytes).entries[i].offset \in 0 .. p - 1
               /\ \A q \in ReadBlock(bytes).entries[i].offset + 1 .. p : bytes[q] # NUL
<1>1. PICK s \in RunStarts(bytes) : s <= p /\ \A q \in s .. p : bytes[q] # NUL
  BY RunBegins
<1>2. s \in 1 .. Len(bytes) /\ Len(bytes) \in Nat
  BY DEF RunStarts
<1> DEFINE entries == ReadBlock(bytes).entries
<1>3. IsRunList(entries, bytes, Len(bytes))
  BY ReadBlockIs
<1> HIDE DEF entries
<1>4. PICK i \in 1 .. Len(entries) : entries[i].offset = s - 1
  BY <1>2, <1>3 DEF IsRunList
<1>5. DOMAIN entries = 1 .. Len(entries)
  BY <1>3 DEF IsRunList
<1>6. entries[i].offset \in 0 .. p - 1 /\ entries[i].offset + 1 = s
  BY <1>1, <1>2, <1>4
<1> QED BY <1>1, <1>5, <1>6 DEF entries

\* StringBlock::at of a block that was read: the run from there, in the bytes.
LEMMA ReadAt ==
    ASSUME NEW bytes \in Seq(Nat), NEW offset \in Nat
    PROVE  At(ReadBlock(bytes), offset) = RunAt(bytes, offset)
<1> DEFINE n == Len(bytes)
           block == ReadBlock(bytes)
           S == AtOrBefore(block, offset)
<1>1. n \in Nat /\ IsRunList(block.entries, bytes, n)
  BY ReadBlockIs
<1>2. /\ Len(block.entries) \in Nat /\ DOMAIN block.entries = 1 .. Len(block.entries)
      /\ S \in SUBSET (1 .. Len(block.entries))
  BY <1>1 DEF IsRunList, AtOrBefore
<1>3. CASE S = {}
  <2>1. ~(offset + 1 <= n /\ bytes[offset + 1] # NUL)
    <3> SUFFICES ASSUME offset + 1 <= n, bytes[offset + 1] # NUL PROVE FALSE
      OBVIOUS
    <3>1. offset + 1 \in 1 .. n /\ (offset + 1) - 1 = offset
      BY <1>1
    <3>2. PICK i \in DOMAIN block.entries : block.entries[i].offset \in 0 .. offset
      BY <3>1, RunIsEntry
    <3>3. i \in S
      BY <3>2 DEF AtOrBefore
    <3> QED BY <1>3, <3>3
  <2> QED BY <1>3, <2>1 DEF At, RunAt
<1>4. CASE S # {}
  <2> DEFINE m == Max(S)
             entry == block.entries[m]
             s == entry.offset + 1
  <2>1. m \in S /\ \A i \in S : m >= i
    BY <1>2, <1>4, GreatestPosition
  <2>2. m \in DOMAIN block.entries /\ entry.offset <= offset
    BY <2>1 DEF AtOrBefore
  <2>3. At(block, offset) = SubSeq(entry.value, offset - entry.offset + 1, Len(entry.value))
    BY <1>4 DEF At
  <2> HIDE DEF m
  <2>4. /\ entry \in Entries /\ s \in 1 .. n /\ bytes[s] # NUL
        /\ \E e : /\ IsRun(bytes, s, e) /\ Len(entry.value) = e - s + 1
                  /\ \A k \in 1 .. Len(entry.value) : entry.value[k] = bytes[s + k - 1]
    BY <2>2, EntryIsRun
  <2>5. PICK e : /\ IsRun(bytes, s, e) /\ Len(entry.value) = e - s + 1
                 /\ \A k \in 1 .. Len(entry.value) : entry.value[k] = bytes[s + k - 1]
    BY <2>4
  <2>6. /\ e \in Nat /\ e >= s /\ e <= n /\ entry.value \in Seq(Nat) /\ entry.offset \in Nat
        /\ Len(entry.value) \in Nat
    <3>1. e \in s .. n /\ entry.value \in Seq(Nat) /\ entry.offset \in Nat
      BY <2>4, <2>5 DEF IsRun, Entries
    <3> HIDE DEF entry
    <3> QED BY <1>1, <3>1
  <2>9. Len(entry.value) = e - entry.offset /\ entry.offset <= offset
    <3>1. Len(entry.value) = e - (entry.offset + 1)  + 1
      BY <2>5
    <3> HIDE DEF entry
    <3> QED BY <2>2, <2>6, <3>1 DEF entry
  <2> HIDE DEF entry
  <2>7. CASE offset + 1 <= e
    <3>1. offset + 1 \in s .. e /\ offset + 1 \in 1 .. n
      BY <1>1, <2>2, <2>6, <2>7
    <3>2. bytes[offset + 1] # NUL
      BY <2>5, <3>1 DEF IsRun
    <3>3. PICK f : IsRun(bytes, offset + 1, f) /\ RunFrom(bytes, offset + 1) = SubSeq(bytes, offset + 1, f)
      BY <3>1, <3>2, RunFromIs
    <3>4. e = f
      BY <2>4, <2>5, <3>1, <3>3, RunIsOne
    <3>5. RunAt(bytes, offset) = SubSeq(bytes, offset + 1, e)
      BY <3>1, <3>2, <3>3, <3>4 DEF RunAt
    <3> DEFINE w == offset - entry.offset
    <3>6. w \in Nat /\ w + 1 \in Nat /\ Len(entry.value) \in Nat /\ w + 1 <= Len(entry.value) + 1
      <4>1. offset \in Nat /\ e \in Nat /\ entry.offset \in Nat
        BY <2>6
      <4>2. entry.offset <= offset /\ offset + 1 <= e /\ Len(entry.value) = e - entry.offset
        BY <2>7, <2>9
      <4>3. w \in Nat /\ w + 1 \in Nat
        BY <4>1, <4>2
      <4>4. w + 1 <= e - entry.offset + 1
        BY <4>1, <4>2
      <4>5. w + 1 <= Len(entry.value) + 1
        BY <4>2, <4>4, Zenon
      <4>6. Len(entry.value) \in Nat
        BY <2>6
      <4>7. QED
        BY <4>3, <4>5, <4>6, Zenon
    <3> DEFINE a == SubSeq(entry.value, offset - entry.offset + 1, Len(entry.value))
               b == SubSeq(bytes, offset + 1, e)
    <3>7. /\ a \in Seq(Nat) /\ Len(a) = e - offset
          /\ \A k \in 1 .. e - offset : a[k] = entry.value[w + k]
      <4>1. /\ a \in Seq(Nat) /\ Len(a) = Len(entry.value) - (w + 1) + 1
            /\ \A k \in 1 .. Len(entry.value) - (w + 1) + 1 : a[k] = entry.value[(w + 1) + k - 1]
        <5>1. /\ a = SubSeq(entry.value, w + 1, Len(entry.value)) /\ w + 1 >= 1
              /\ Len(entry.value) <= Len(entry.value)
          BY <3>6
        <5> HIDE DEF a, w
        <5> QED BY <2>6, <3>6, <5>1, SubSeqIs
      <4>2. Len(entry.value) - (w + 1) + 1 = e - offset
        BY <2>6, <2>9
      <4>3. \A k \in 1 .. e - offset : (w + 1) + k - 1 = w + k
        BY <3>6
      <4> HIDE DEF a, w
      <4> QED BY <4>1, <4>2, <4>3
    <3>8. /\ b \in Seq(Nat) /\ Len(b) = e - offset
          /\ \A k \in 1 .. e - offset : b[k] = bytes[offset + k]
      <4>1. /\ b \in Seq(Nat) /\ Len(b) = e - (offset + 1) + 1
            /\ \A k \in 1 .. e - (offset + 1) + 1 : b[k] = bytes[(offset + 1) + k - 1]
        <5>1. offset + 1 \in Nat /\ offset + 1 >= 1 /\ e \in Nat /\ e <= Len(bytes) /\ offset + 1 <= e + 1
          BY <2>6, <2>7
        <5> QED BY <5>1, SubSeqIs
      <4>2. e - (offset + 1) + 1 = e - offset /\ \A k \in 1 .. e - offset : (offset + 1) + k - 1 = offset + k
        BY <2>6
      <4> HIDE DEF b
      <4> QED BY <4>1, <4>2
    <3>9. \A k \in 1 .. e - offset : entry.value[w + k] = bytes[offset + k]
      <4> TAKE k \in 1 .. e - offset
      <4>1. w + k \in 1 .. Len(entry.value) /\ s + (w + k) - 1 = offset + k
        <5>1. k \in Nat /\ 1 <= k /\ k <= e - offset
          BY <2>6
        <5>2. w + k = k + offset - entry.offset /\ w + k \in Int
          BY <2>6, <5>1
        <5>3. 1 <= w + k /\ w + k <= Len(entry.value)
          BY <2>6, <2>9, <5>1, <5>2
        <5>4. s + (w + k) - 1 = offset + k
          BY <2>6, <5>1
        <5> HIDE DEF w, s
        <5> QED BY <2>6, <5>2, <5>3, <5>4
      <4> HIDE DEF w, entry
      <4> QED BY <2>5, <4>1
    <3> HIDE DEF a, b
    <3>10. a = b
      BY <3>7, <3>8, <3>9, SeqsAreEqual
    <3> QED BY <2>3, <3>5, <3>10 DEF a, b
  <2>8. CASE offset + 1 > e
    <3>1. offset - entry.offset + 1 > Len(entry.value) /\ offset - entry.offset + 1 \in Nat
      BY <2>6, <2>8, <2>9
    <3>2. At(block, offset) = <<>>
      BY <2>3, <2>6, <3>1, EmptyPiece
    <3>3. ~(offset + 1 <= n /\ bytes[offset + 1] # NUL)
      <4> SUFFICES ASSUME offset + 1 <= n, bytes[offset + 1] # NUL PROVE FALSE
        OBVIOUS
      <4>1. offset + 1 \in 1 .. n /\ (offset + 1) - 1 = offset
        BY <1>1
      <4>2. PICK i \in DOMAIN block.entries :
                /\ block.entries[i].offset \in 0 .. offset
                /\ \A q \in block.entries[i].offset + 1 .. offset + 1 : bytes[q] # NUL
        BY <4>1, RunIsEntry
      <4>3. i \in S
        BY <4>2 DEF AtOrBefore
      <4> USE DEF entry
      <4>4. block.entries[i].offset <= entry.offset
        <5>1. i <= m
          BY <1>2, <2>1, <4>3
        <5>2. CASE i = m
          BY <4>2, <5>2
        <5>3. CASE i < m
          <6>1. block.entries[i].offset < block.entries[m].offset
            BY <1>1, <1>2, <2>2, <5>3 DEF IsRunList
          <6> QED BY <2>6, <4>2, <6>1
        <5> QED BY <1>2, <2>2, <5>1, <5>2, <5>3
      <4> HIDE DEF entry, block
      <4>5. e + 1 \in block.entries[i].offset + 1 .. offset + 1 /\ e # n
        BY <1>1, <2>6, <2>8, <4>1, <4>2, <4>4
      <4>6. bytes[e + 1] # NUL
        BY <4>2, <4>5
      <4> QED BY <2>5, <4>5, <4>6 DEF IsRun
    <3> QED BY <3>2, <3>3 DEF RunAt
  <2> QED BY <2>6, <2>7, <2>8
<1> QED BY <1>3, <1>4

\* StringBlock::write of a block that was read gives its bytes.
LEMMA WriteGivesRead ==
    ASSUME NEW bytes \in Seq(Nat)
    PROVE  WriteBlock(ReadBlock(bytes)) = bytes
<1> DEFINE n == Len(bytes)
           block == ReadBlock(bytes)
           out(p) == IF LaidOver(block, p) = {} THEN NUL
                     ELSE block.entries[Max(LaidOver(block, p))].value[p - block.entries[Max(LaidOver(block, p))].offset]
<1>1. n \in Nat /\ IsRunList(block.entries, bytes, n) /\ block.size = n
  BY ReadBlockIs
<1>2. Len(block.entries) \in Nat /\ DOMAIN block.entries = 1 .. Len(block.entries)
  BY <1>1 DEF IsRunList
<1>3. ASSUME NEW p \in 1 .. n PROVE out(p) = bytes[p]
  <2> DEFINE S == LaidOver(block, p)
  <2>1. S \in SUBSET (1 .. Len(block.entries))
    BY <1>2 DEF LaidOver
  <2>2. CASE S = {}
    <3>1. bytes[p] = NUL
      <4> SUFFICES ASSUME bytes[p] # NUL PROVE FALSE
        OBVIOUS
      <4>1. PICK i \in DOMAIN block.entries :
                /\ block.entries[i].offset \in 0 .. p - 1
                /\ \A q \in block.entries[i].offset + 1 .. p : bytes[q] # NUL
        BY RunIsEntry
      <4> DEFINE entry == block.entries[i]
                 s == entry.offset + 1
      <4>2. /\ s \in 1 .. n
            /\ \E e : IsRun(bytes, s, e) /\ Len(entry.value) = e - s + 1
        BY EntryIsRun
      <4>3. PICK e : IsRun(bytes, s, e) /\ Len(entry.value) = e - s + 1
        BY <4>2
      <4>4. e \in s .. n
        BY <4>3 DEF IsRun
      <4>5. p <= e
        <5> SUFFICES ASSUME e < p PROVE FALSE
          BY <4>4
        <5>1. e + 1 \in s .. p /\ e # n
          BY <1>1, <4>2, <4>4
        <5>2. bytes[e + 1] # NUL
          BY <4>1, <5>1
        <5> QED BY <4>3, <5>1, <5>2 DEF IsRun
      <4>6. p - 1 - entry.offset \in 0 .. Len(entry.value) - 1
        BY <4>1, <4>3, <4>4, <4>5
      <4>7. i \in S
        BY <4>6 DEF LaidOver
      <4> QED BY <2>2, <4>7
    <3> QED BY <2>2, <3>1
  <2>3. CASE S # {}
    <3> DEFINE m == Max(S)
               entry == block.entries[m]
               s == entry.offset + 1
    <3>1. m \in S
      BY <1>2, <2>1, <2>3, GreatestPosition
    <3>2. m \in DOMAIN block.entries /\ p - 1 - entry.offset \in 0 .. Len(entry.value) - 1
      BY <3>1 DEF LaidOver
    <3>3. out(p) = entry.value[p - entry.offset]
      BY <2>3
    <3> HIDE DEF m
    <3>4. /\ entry \in Entries /\ \A k \in 1 .. Len(entry.value) : entry.value[k] = bytes[s + k - 1]
      BY <3>2, EntryIsRun
    <3>5. entry.offset \in Nat /\ Len(entry.value) \in Nat
      BY <3>4 DEF Entries
    <3> HIDE DEF entry, out
    <3>6. p - entry.offset \in 1 .. Len(entry.value) /\ s + (p - entry.offset) - 1 = p
      BY <3>2, <3>5
    <3> QED BY <3>3, <3>4, <3>6
  <2> QED BY <2>2, <2>3
<1>4. WriteBlock(block) = [p \in 1 .. n |-> out(p)]
  BY <1>1 DEF WriteBlock
<1>5. bytes = [p \in 1 .. n |-> bytes[p]]
  OBVIOUS
<1> HIDE DEF out, block
<1>6. WriteBlock(block) = bytes
  BY <1>3, <1>4, <1>5
<1> QED BY <1>6 DEF block

-----------------------------------------------------------------------------
(* Blocks that grow, and the bytes they are written as.                      *)

\* All that is known of a block, in plain terms.
LEMMA BlockIs ==
    ASSUME NEW block, IsBlock(block)
    PROVE  /\ block.entries \in Seq(Entries) /\ block.size \in Nat
           /\ Len(block.entries) \in Nat /\ DOMAIN block.entries = 1 .. Len(block.entries)
           /\ \A i \in 1 .. Len(block.entries) :
                 /\ block.entries[i] \in Entries /\ block.entries[i].offset \in Nat
                 /\ block.entries[i].value \in Seq(Nat) /\ Len(block.entries[i].value) \in Nat
                 /\ block.entries[i].offset < block.size
<1>1. block.entries \in Seq(Entries) /\ block.size \in Nat
  BY DEF IsBlock, Entries
<1>2. /\ Len(block.entries) \in Nat /\ DOMAIN block.entries = 1 .. Len(block.entries)
      /\ \A i \in 1 .. Len(block.entries) : block.entries[i] \in Entries
  BY <1>1, Elements
<1>3. \A i \in 1 .. Len(block.entries) :
         block.entries[i].offset \in Nat /\ block.entries[i].value \in Seq(Nat)
  BY <1>2 DEF Entries
<1>4. \A i \in 1 .. Len(block.entries) : Len(block.entries[i].value) \in Nat
  BY <1>3
<1>5. \A i \in 1 .. Len(block.entries) : block.entries[i].offset < block.size
  BY <1>2 DEF IsBlock
<1> QED BY <1>1, <1>2, <1>3, <1>4, <1>5

\* The byte a block is written with at a place.
ByteAt(block, p) ==
    IF LaidOver(block, p) = {} THEN NUL
    ELSE block.entries[Max(LaidOver(block, p))].value[p - block.entries[Max(LaidOver(block, p))].offset]

LEMMA TopEntry ==
    ASSUME NEW block, IsBlock(block), NEW p \in 1 .. block.size, LaidOver(block, p) # {}
    PROVE  LET m == Max(LaidOver(block, p))
           IN  /\ m \in 1 .. Len(block.entries) /\ m \in LaidOver(block, p)
               /\ \A i \in LaidOver(block, p) : m >= i
               /\ p - block.entries[m].offset \in 1 .. Len(block.entries[m].value)
               /\ ByteAt(block, p) = block.entries[m].value[p - block.entries[m].offset]
<1> DEFINE S == LaidOver(block, p)
           m == Max(S)
<1>1. /\ Len(block.entries) \in Nat /\ DOMAIN block.entries = 1 .. Len(block.entries) /\ block.size \in Nat
      /\ \A i \in 1 .. Len(block.entries) :
            block.entries[i].offset \in Nat /\ Len(block.entries[i].value) \in Nat
  BY BlockIs
<1>2. S \in SUBSET (1 .. Len(block.entries))
  BY <1>1 DEF LaidOver
<1>3. m \in S /\ \A i \in S : m >= i
  <2> HIDE DEF S
  <2>1. S # {}
    BY DEF S
  <2> QED BY <1>1, <1>2, <2>1, GreatestPosition
<1>4. p - 1 - block.entries[m].offset \in 0 .. Len(block.entries[m].value) - 1
  BY <1>3 DEF LaidOver
<1>5. ByteAt(block, p) = block.entries[m].value[p - block.entries[m].offset]
  BY DEF ByteAt
<1> HIDE DEF m, S
<1>6. p - block.entries[m].offset \in 1 .. Len(block.entries[m].value)
  BY <1>1, <1>2, <1>3, <1>4
<1> QED BY <1>2, <1>3, <1>5, <1>6 DEF m, S

LEMMA WriteIs ==
    ASSUME NEW block, IsBlock(block)
    PROVE  /\ WriteBlock(block) \in Seq(Nat) /\ Len(WriteBlock(block)) = block.size
           /\ \A p \in 1 .. block.size : WriteBlock(block)[p] = ByteAt(block, p)
<1>1. block.size \in Nat
  BY BlockIs
<1>2. WriteBlock(block) = [p \in 1 .. block.size |-> ByteAt(block, p)]
  BY DEF WriteBlock, ByteAt
<1>3. ASSUME NEW p \in 1 .. block.size PROVE ByteAt(block, p) \in Nat
  <2>1. CASE LaidOver(block, p) = {}
    BY <2>1 DEF ByteAt, NUL
  <2>2. CASE LaidOver(block, p) # {}
    <3> DEFINE m == Max(LaidOver(block, p))
    <3>1. /\ m \in 1 .. Len(block.entries) /\ p - block.entries[m].offset \in 1 .. Len(block.entries[m].value)
          /\ ByteAt(block, p) = block.entries[m].value[p - block.entries[m].offset]
      BY <2>2, TopEntry
    <3> HIDE DEF m
    <3>2. block.entries[m].value \in Seq(Nat)
      BY <3>1, BlockIs
    <3> QED BY <3>1, <3>2, Elements
  <2> QED BY <2>1, <2>2
<1> QED BY <1>1, <1>2, <1>3

\* More than a block: its entries, and others behind all of it.
Extends(block, more) ==
    /\ IsBlock(block) /\ IsBlock(more)
    /\ block.size <= more.size
    /\ \A i \in DOMAIN block.entries : i \in DOMAIN more.entries /\ more.entries[i] = block.entries[i]
    /\ \A i \in DOMAIN more.entries : i \in DOMAIN block.entries \/ more.entries[i].offset >= block.size

LEMMA ExtendsItself == ASSUME NEW block, IsBlock(block) PROVE Extends(block, block)
<1>1. block.size \in Nat
  BY BlockIs
<1> QED BY <1>1 DEF Extends

LEMMA ExtendsOn ==
    ASSUME NEW a, NEW b, NEW c, Extends(a, b), Extends(b, c)
    PROVE  Extends(a, c)
<1>1. IsBlock(a) /\ IsBlock(b) /\ IsBlock(c) /\ a.size <= b.size /\ b.size <= c.size
  BY DEF Extends
<1>2. a.size \in Nat /\ b.size \in Nat /\ c.size \in Nat
  BY <1>1, BlockIs
<1>3. \A i \in DOMAIN a.entries : i \in DOMAIN c.entries /\ c.entries[i] = a.entries[i]
  BY DEF Extends
<1>4. ASSUME NEW i \in DOMAIN c.entries, i \notin DOMAIN a.entries PROVE c.entries[i].offset >= a.size
  <2>1. CASE i \in DOMAIN b.entries
    <3>1. c.entries[i] = b.entries[i] /\ b.entries[i].offset >= a.size
      BY <1>4, <2>1 DEF Extends
    <3> QED BY <3>1
  <2>2. CASE i \notin DOMAIN b.entries
    <3>1. c.entries[i].offset >= b.size
      BY <2>2 DEF Extends
    <3>2. c.entries[i].offset \in Nat
      BY <1>1, BlockIs
    <3> QED BY <1>1, <1>2, <3>1, <3>2
  <2> QED BY <2>1, <2>2
<1>5. a.size <= c.size
  BY <1>1, <1>2
<1> QED BY <1>1, <1>3, <1>4, <1>5 DEF Extends

LEMMA AddExtends ==
    ASSUME NEW block, IsBlock(block), NEW text \in Seq(Nat)
    PROVE  Extends(block, Add(block, text))
<1> DEFINE new == Add(block, text)
           n   == Len(block.entries)
<1>1. /\ n \in Nat /\ DOMAIN block.entries = 1 .. n
      /\ block.size \in Nat /\ new.size \in Nat /\ new.size > block.size
      /\ DOMAIN new.entries = 1 .. n + 1
      /\ \A i \in 1 .. n : new.entries[i] = block.entries[i]
      /\ new.entries[n + 1] = [offset |-> block.size, value |-> text]
  BY AddedEntries
<1>2. IsBlock(new)
  BY AddKeepsBlock
<1> HIDE DEF new, n
<1>3. \A i \in DOMAIN block.entries : i \in DOMAIN new.entries /\ new.entries[i] = block.entries[i]
  BY <1>1
<1>4. \A i \in DOMAIN new.entries : i \in DOMAIN block.entries \/ i = n + 1
  BY <1>1
<1>5. new.entries[n + 1].offset >= block.size /\ block.size <= new.size
  BY <1>1
<1>6. \A i \in DOMAIN new.entries : i \in DOMAIN block.entries \/ new.entries[i].offset >= block.size
  BY <1>4, <1>5
<1> QED BY <1>2, <1>3, <1>5, <1>6 DEF Extends, new

\* What is added lies behind what was written.
LEMMA ExtendsWrites ==
    ASSUME NEW block, NEW more, Extends(block, more), NEW p \in 1 .. block.size
    PROVE  ByteAt(more, p) = ByteAt(block, p)
<1>1. IsBlock(block) /\ IsBlock(more) /\ block.size \in Nat /\ more.size \in Nat /\ p \in 1 .. more.size
  <2>1. IsBlock(block) /\ IsBlock(more) /\ block.size <= more.size
    BY DEF Extends
  <2>2. block.size \in Nat /\ more.size \in Nat
    BY <2>1, BlockIs
  <2> QED BY <2>1, <2>2
<1>2. \A i \in DOMAIN more.entries \ DOMAIN block.entries : i \notin LaidOver(more, p)
  <2>1. TAKE i \in DOMAIN more.entries \ DOMAIN block.entries
  <2>2. more.entries[i].offset >= block.size /\ more.entries[i].offset \in Nat
    BY <1>1, BlockIs DEF Extends
  <2>3. ~(p - 1 - more.entries[i].offset >= 0)
    BY <1>1, <2>2
  <2> QED BY <2>3 DEF LaidOver
<1>3. LaidOver(more, p) = LaidOver(block, p)
  BY <1>2 DEF LaidOver, Extends
<1>4. CASE LaidOver(block, p) = {}
  BY <1>3, <1>4 DEF ByteAt
<1>5. CASE LaidOver(block, p) # {}
  <2>1. Max(LaidOver(block, p)) \in LaidOver(block, p)
    BY <1>1, <1>5, TopEntry
  <2>2. more.entries[Max(LaidOver(block, p))] = block.entries[Max(LaidOver(block, p))]
    BY <2>1 DEF LaidOver, Extends
  <2> QED BY <1>3, <1>5, <2>2 DEF ByteAt
<1> QED BY <1>4, <1>5

\* Bytes that go on behind a terminator lead to the same texts.
LEMMA SameRuns ==
    ASSUME NEW a \in Seq(Nat), NEW b \in Seq(Nat), Len(a) <= Len(b), Len(a) > 0, a[Len(a)] = NUL,
           \A p \in 1 .. Len(a) : b[p] = a[p], NEW offset \in 0 .. Len(a) - 1
    PROVE  RunAt(b, offset) = RunAt(a, offset)
<1> DEFINE p == offset + 1
<1>1. p \in 1 .. Len(a) /\ p \in 1 .. Len(b) /\ b[p] = a[p] /\ Len(a) \in Nat /\ Len(b) \in Nat
  <2>1. Len(a) \in Nat /\ Len(b) \in Nat
    OBVIOUS
  <2>2. p \in 1 .. Len(a) /\ p \in 1 .. Len(b)
    BY <2>1
  <2> HIDE DEF p
  <2> QED BY <2>1, <2>2
<1>2. CASE a[p] = NUL
  BY <1>1, <1>2 DEF RunAt
<1>3. CASE a[p] # NUL
  <2> HIDE DEF p
  <2>1. PICK e : IsRun(a, p, e) /\ RunFrom(a, p) = SubSeq(a, p, e)
    BY <1>1, <1>3, RunFromIs
  <2>2. PICK f : IsRun(b, p, f) /\ RunFrom(b, p) = SubSeq(b, p, f)
    BY <1>1, <1>3, RunFromIs
  <2>3. e \in p .. Len(a) /\ e # Len(a) /\ a[e + 1] = NUL /\ \A q \in p .. e : a[q] # NUL
    <3>1. e \in p .. Len(a) /\ (e = Len(a) \/ a[e + 1] = NUL) /\ \A q \in p .. e : a[q] # NUL
      BY <2>1 DEF IsRun
    <3>2. e # Len(a)
      <4> SUFFICES ASSUME e = Len(a) PROVE FALSE
        OBVIOUS
      <4>1. Len(a) \in p .. e
        BY <1>1, <3>1
      <4> QED BY <3>1, <4>1
    <3> QED BY <3>1, <3>2
  <2>4. IsRun(b, p, e)
    <3>1. e \in p .. Len(b) /\ e + 1 \in 1 .. Len(a) /\ \A q \in p .. e : q \in 1 .. Len(a)
      BY <1>1, <2>3
    <3>2. b[e + 1] = NUL /\ \A q \in p .. e : b[q] # NUL
      BY <2>3, <3>1
    <3> QED BY <3>1, <3>2 DEF IsRun
  <2>5. e = f
    <3>1. p <= p /\ p <= e
      BY <1>1, <2>3
    <3> QED BY <1>1, <2>2, <2>4, <3>1, RunIsOne
  <2>6. SubSeq(b, p, e) = SubSeq(a, p, e)
    <3> DEFINE x == SubSeq(a, p, e)
               y == SubSeq(b, p, e)
    <3>1. p \in Nat /\ e \in Nat /\ p >= 1 /\ e <= Len(a) /\ e <= Len(b) /\ p <= e + 1
      BY <1>1, <2>3
    <3>2. x \in Seq(Nat) /\ Len(x) = e - p + 1 /\ \A i \in 1 .. e - p + 1 : x[i] = a[p + i - 1]
      BY <3>1, SubSeqIs
    <3>3. y \in Seq(Nat) /\ Len(y) = e - p + 1 /\ \A i \in 1 .. e - p + 1 : y[i] = b[p + i - 1]
      BY <3>1, SubSeqIs
    <3>4. \A i \in 1 .. e - p + 1 : p + i - 1 \in 1 .. Len(a)
      BY <3>1
    <3> HIDE DEF x, y
    <3>5. \A i \in 1 .. Len(x) : y[i] = x[i]
      BY <3>2, <3>3, <3>4
    <3> HIDE DEF x, y
    <3>6. y = x
      BY <3>2, <3>3, <3>5, SeqsAreEqual
    <3> QED BY <3>6 DEF x, y
  <2>7. RunAt(b, offset) = RunFrom(b, p) /\ RunAt(a, offset) = RunFrom(a, p)
    BY <1>1, <1>3 DEF RunAt, p
  <2> QED BY <2>1, <2>2, <2>5, <2>6, <2>7
<1> QED BY <1>2, <1>3

\* A terminated block that was read, and was added to, is written to bytes in
\* which every offset into it leads to the text it led to.
LEMMA WrittenOffsetsStay ==
    ASSUME NEW bytes \in Seq(Nat), NEW more, Extends(ReadBlock(bytes), more),
           Terminated(ReadBlock(bytes)), NEW offset \in 0 .. ReadBlock(bytes).size - 1
    PROVE  At(ReadBlock(WriteBlock(more)), offset) = At(ReadBlock(bytes), offset)
<1> DEFINE block == ReadBlock(bytes)
           out   == WriteBlock(more)
<1>1. block.size = Len(bytes) /\ Len(bytes) \in Nat
  BY ReadBlockIs
<1>2. IsBlock(block) /\ IsBlock(more) /\ block.size <= more.size
  BY DEF Extends
<1>3. out \in Seq(Nat) /\ Len(out) = more.size /\ \A p \in 1 .. more.size : out[p] = ByteAt(more, p)
  BY <1>2, WriteIs
<1>4. WriteBlock(block) = bytes /\ \A p \in 1 .. block.size : WriteBlock(block)[p] = ByteAt(block, p)
  BY <1>2, WriteIs, WriteGivesRead
<1>5. more.size \in Nat
  BY <1>2, BlockIs
<1>6. offset \in Nat /\ offset \in 0 .. Len(bytes) - 1 /\ Len(bytes) > 0
  BY <1>1
<1> HIDE DEF out
<1>7. ASSUME NEW p \in 1 .. Len(bytes) PROVE out[p] = bytes[p]
  <2>1. p \in 1 .. more.size /\ p \in 1 .. block.size
    BY <1>1, <1>2, <1>5
  <2>2. ByteAt(more, p) = ByteAt(block, p)
    BY <2>1, ExtendsWrites
  <2> QED BY <1>3, <1>4, <2>1, <2>2
<1>8. bytes[Len(bytes)] = NUL
  BY <1>1, <1>4, <1>6 DEF Terminated
<1>9. RunAt(out, offset) = RunAt(bytes, offset)
  <2>1. Len(bytes) <= Len(out)
    BY <1>1, <1>2, <1>3
  <2> QED BY <1>3, <1>6, <1>7, <1>8, <2>1, SameRuns
<1> QED BY <1>3, <1>6, <1>9, ReadAt DEF out

-----------------------------------------------------------------------------
(* The texts of a table, through one pool.                                   *)

IsResolutions(f, block, texts, journal, n) ==
    f = [k \in 0 .. n |->
            IF k = 0 THEN [pool |-> Pool(block), offsets |-> <<>>]
            ELSE Extend(f[k - 1], texts[k], journal)]

LEMMA ResolutionsExist ==
    ASSUME NEW block, NEW texts, NEW journal, NEW n \in Nat
    PROVE  \E f : IsResolutions(f, block, texts, journal, n)
<1> DEFINE T == {i \in 0 .. n : \E f : IsResolutions(f, block, texts, journal, i)}
           first == [pool |-> Pool(block), offsets |-> <<>>]
<1>1. 0 \in T
  <2>1. IsResolutions([k \in 0 .. 0 |-> first], block, texts, journal, 0)
    BY DEF IsResolutions
  <2> QED BY <2>1
<1>2. ASSUME NEW i \in 0 .. n - 1, i \in T PROVE i + 1 \in T
  <2>1. PICK f : IsResolutions(f, block, texts, journal, i)
    BY <1>2
  <2> DEFINE g == [j \in 0 .. i + 1 |-> IF j = i + 1 THEN Extend(f[i], texts[i + 1], journal) ELSE f[j]]
  <2>2. \A j \in 0 .. i : g[j] = f[j]
    OBVIOUS
  <2> HIDE DEF first
  <2>3. \A j \in 0 .. i : f[j] = IF j = 0 THEN first ELSE Extend(f[j - 1], texts[j], journal)
    BY <2>1 DEF IsResolutions, first
  <2>4. ASSUME NEW j \in 0 .. i + 1
        PROVE  g[j] = IF j = 0 THEN first ELSE Extend(g[j - 1], texts[j], journal)
    <3>1. CASE j \in 0 .. i
      <4>1. j # 0 => j - 1 \in 0 .. i
        BY <3>1
      <4> HIDE DEF g
      <4> QED BY <2>2, <2>3, <3>1, <4>1
    <3>2. CASE j = i + 1
      <4>1. g[j] = Extend(f[i], texts[j], journal) /\ g[i] = f[i] /\ j - 1 = i /\ j # 0
        BY <2>2, <3>2
      <4> HIDE DEF g
      <4> QED BY <3>2, <4>1
    <3> QED BY <3>1, <3>2
  <2>5. g = [j \in 0 .. i + 1 |-> g[j]]
    OBVIOUS
  <2>6. IsResolutions(g, block, texts, journal, i + 1)
    <3> HIDE DEF g
    <3> QED BY <2>4, <2>5 DEF IsResolutions, first
  <2> QED BY <2>6
<1>3. \A i \in 0 .. n : i \in T
  <2> HIDE DEF T
  <2> QED BY <1>1, <1>2, CountUp
<1> QED BY <1>3

LEMMA ResolutionsAre ==
    ASSUME NEW block, NEW texts, NEW journal, Len(texts) \in Nat
    PROVE  LET after == Resolutions(block, texts, journal)
           IN  /\ after[0] = [pool |-> Pool(block), offsets |-> <<>>]
               /\ \A k \in 1 .. Len(texts) : after[k] = Extend(after[k - 1], texts[k], journal)
<1> DEFINE after == Resolutions(block, texts, journal)
           n == Len(texts)
           first == [pool |-> Pool(block), offsets |-> <<>>]
<1>1. \E f : IsResolutions(f, block, texts, journal, n)
  BY ResolutionsExist
<1>2. after = CHOOSE f : IsResolutions(f, block, texts, journal, n)
  BY DEF Resolutions, IsResolutions
<1>3. IsResolutions(after, block, texts, journal, n)
  <2> HIDE DEF after
  <2> QED BY <1>1, <1>2
<1> HIDE DEF after, first
<1>4. \A k \in 0 .. n : after[k] = IF k = 0 THEN first ELSE Extend(after[k - 1], texts[k], journal)
  BY <1>3 DEF IsResolutions, first
<1> QED BY <1>4 DEF after, first

\* One text through the pool: the pool grows, and the offset is in it.
LEMMA ResolveGrows ==
    ASSUME NEW pool, IsBlock(pool), NEW text \in Seq(Nat), NEW slot, NEW journal,
           slot \in DOMAIN journal => journal[slot] \in 0 .. pool.size - 1
    PROVE  LET r == Resolve(pool, text, slot, journal)
           IN  Extends(pool, r.pool) /\ r.offset \in 0 .. r.pool.size - 1
<1> DEFINE r == Resolve(pool, text, slot, journal)
           found == slot \in DOMAIN journal /\ At(pool, journal[slot]) = text
<1>1. CASE found
  <2>1. r = [pool |-> pool, offset |-> journal[slot]]
    BY <1>1 DEF Resolve
  <2> QED BY <1>1, <2>1, ExtendsItself
<1>2. CASE ~found /\ Holding(pool, text) # {}
  <2>1. r = [pool |-> pool, offset |-> pool.entries[Min(Holding(pool, text))].offset]
    BY <1>2 DEF Resolve
  <2>2. Holding(pool, text) \in SUBSET (1 .. Len(pool.entries)) /\ Len(pool.entries) \in Nat
    BY BlockIs DEF Holding
  <2>3. Min(Holding(pool, text)) \in 1 .. Len(pool.entries)
    BY <1>2, <2>2, LeastPosition
  <2>4. pool.entries[Min(Holding(pool, text))].offset \in 0 .. pool.size - 1
    <3>1. /\ pool.entries[Min(Holding(pool, text))].offset \in Nat /\ pool.size \in Nat
          /\ pool.entries[Min(Holding(pool, text))].offset < pool.size
      BY <2>3, BlockIs
    <3> QED BY <3>1
  <2> QED BY <2>1, <2>4, ExtendsItself
<1>3. CASE ~found /\ Holding(pool, text) = {}
  <2>1. r = [pool |-> Add(pool, text), offset |-> pool.size]
    BY <1>3 DEF Resolve
  <2>2. pool.size \in Nat /\ Add(pool, text).size \in Nat /\ Add(pool, text).size > pool.size
    BY AddedEntries
  <2>3. r.offset \in 0 .. r.pool.size - 1
    BY <2>1, <2>2
  <2> QED BY <2>1, <2>3, AddExtends
<1> QED BY <1>1, <1>2, <1>3

\* The pool after some of the texts.
ResolvedSo(done, k, block, texts) ==
    /\ Extends(Pool(block), done.pool)
    /\ done.offsets \in Seq(Nat) /\ Len(done.offsets) = k
    /\ \A j \in 1 .. k : done.offsets[j] < done.pool.size /\ At(done.pool, done.offsets[j]) = texts[j]

\* The offsets a table journals lie in its block.
JournalIn(journal, block) == \A slot \in DOMAIN journal : journal[slot] \in 0 .. Pool(block).size - 1

LEMMA PoolIsBlock ==
    ASSUME NEW block, IsBlock(block)
    PROVE  IsBlock(Pool(block)) /\ Pool(block).size > 0 /\ Pool(block).size \in Nat
<1>1. <<>> \in Seq(Nat)
  OBVIOUS
<1>2. IsBlock(Pool(block))
  BY <1>1, AddKeepsBlock DEF Pool
<1>3. block.size \in Nat /\ Add(block, <<>>).size > block.size
  BY <1>1, AddedEntries
<1>4. Pool(block).size \in Nat
  BY <1>2, BlockIs
<1> QED BY <1>2, <1>3, <1>4 DEF Pool

LEMMA ExtendResolves ==
    ASSUME NEW block, IsBlock(block), NEW texts \in Seq(Seq(Nat)), NEW journal, JournalIn(journal, block),
           NEW k \in 0 .. Len(texts) - 1, NEW done, ResolvedSo(done, k, block, texts)
    PROVE  ResolvedSo(Extend(done, texts[k + 1], journal), k + 1, block, texts)
<1> DEFINE r == Resolve(done.pool, texts[k + 1], Len(done.offsets) + 1, journal)
           after == Extend(done, texts[k + 1], journal)
<1>1. after = [pool |-> r.pool, offsets |-> Append(done.offsets, r.offset)]
  BY DEF Extend
<1>2. /\ Extends(Pool(block), done.pool) /\ done.offsets \in Seq(Nat) /\ Len(done.offsets) = k
      /\ \A j \in 1 .. k : done.offsets[j] < done.pool.size /\ At(done.pool, done.offsets[j]) = texts[j]
  BY DEF ResolvedSo
<1>3. k \in Nat /\ k + 1 \in 1 .. Len(texts) /\ texts[k + 1] \in Seq(Nat)
  OBVIOUS
<1>4. IsBlock(done.pool) /\ Pool(block).size <= done.pool.size /\ IsBlock(Pool(block))
  BY <1>2 DEF Extends
<1>5. done.pool.size \in Nat /\ Pool(block).size \in Nat
  BY <1>4, BlockIs
<1>6. \A slot \in DOMAIN journal : journal[slot] \in 0 .. done.pool.size - 1
  BY <1>4, <1>5 DEF JournalIn
<1>7. Extends(done.pool, r.pool) /\ r.offset \in 0 .. r.pool.size - 1
  BY <1>3, <1>4, <1>6, ResolveGrows
<1>8. /\ At(r.pool, r.offset) = texts[k + 1]
      /\ \A offset \in 0 .. done.pool.size - 1 : At(r.pool, offset) = At(done.pool, offset)
  BY <1>3, <1>4, ResolveIsFaithful
<1> HIDE DEF r, after
<1>9. Extends(Pool(block), r.pool)
  BY <1>2, <1>7, ExtendsOn
<1>10. r.pool.size \in Nat /\ r.offset \in Nat /\ r.offset < r.pool.size /\ done.pool.size <= r.pool.size
  <2>1. IsBlock(r.pool) /\ done.pool.size <= r.pool.size
    BY <1>7 DEF Extends
  <2>2. r.pool.size \in Nat
    BY <2>1, BlockIs
  <2> QED BY <1>7, <2>1, <2>2
<1>11. /\ after.offsets \in Seq(Nat) /\ Len(after.offsets) = k + 1
       /\ \A j \in 1 .. k : after.offsets[j] = done.offsets[j]
       /\ after.offsets[k + 1] = r.offset
  BY <1>1, <1>2, <1>10, AppendIs
<1>12. ASSUME NEW j \in 1 .. k + 1
       PROVE  after.offsets[j] < after.pool.size /\ At(after.pool, after.offsets[j]) = texts[j]
  <2>1. CASE j \in 1 .. k
    <3>1. done.offsets[j] \in Nat /\ done.offsets[j] < done.pool.size /\ At(done.pool, done.offsets[j]) = texts[j]
      BY <1>2, <2>1
    <3>2. done.offsets[j] \in 0 .. done.pool.size - 1 /\ done.offsets[j] < r.pool.size
      BY <1>5, <1>10, <3>1
    <3> QED BY <1>1, <1>8, <1>11, <2>1, <3>1, <3>2
  <2>2. CASE j = k + 1
    BY <1>1, <1>8, <1>10, <1>11, <2>2
  <2> QED BY <1>3, <2>1, <2>2
<1> QED BY <1>1, <1>9, <1>11, <1>12 DEF ResolvedSo, after

\* StringPool::resolve over a whole table: the block only grew, and every offset
\* lies in it and reads as its text.
LEMMA AllResolved ==
    ASSUME NEW block, IsBlock(block), NEW texts \in Seq(Seq(Nat)), NEW journal, JournalIn(journal, block)
    PROVE  ResolvedSo(ResolveAll(block, texts, journal), Len(texts), block, texts)
<1> DEFINE after == Resolutions(block, texts, journal)
           T == {k \in 0 .. Len(texts) : ResolvedSo(after[k], k, block, texts)}
<1>1. Len(texts) \in Nat
  OBVIOUS
<1>2. /\ after[0] = [pool |-> Pool(block), offsets |-> <<>>]
      /\ \A k \in 1 .. Len(texts) : after[k] = Extend(after[k - 1], texts[k], journal)
  BY <1>1, ResolutionsAre
<1> HIDE DEF after
<1>3. 0 \in T
  <2>1. Extends(Pool(block), Pool(block))
    BY PoolIsBlock, ExtendsItself
  <2>2. after[0].pool = Pool(block) /\ after[0].offsets = <<>>
    BY <1>2
  <2>3. <<>> \in Seq(Nat) /\ Len(<<>>) = 0
    OBVIOUS
  <2>4. ResolvedSo(after[0], 0, block, texts)
    BY <2>1, <2>2, <2>3 DEF ResolvedSo
  <2> QED BY <1>1, <2>4
<1>4. ASSUME NEW k \in 0 .. Len(texts) - 1, k \in T PROVE k + 1 \in T
  <2>1. k + 1 \in 1 .. Len(texts) /\ k + 1 \in 0 .. Len(texts) /\ (k + 1) - 1 = k
    BY <1>1
  <2>2. ResolvedSo(Extend(after[k], texts[k + 1], journal), k + 1, block, texts)
    BY <1>4, ExtendResolves
  <2>3. after[k + 1] = Extend(after[k], texts[k + 1], journal)
    BY <1>2, <2>1
  <2> QED BY <2>1, <2>2, <2>3
<1>5. \A k \in 0 .. Len(texts) : k \in T
  <2> HIDE DEF T
  <2> QED BY <1>1, <1>3, <1>4, CountUp
<1>6. ResolvedSo(after[Len(texts)], Len(texts), block, texts)
  BY <1>1, <1>5
<1> QED BY <1>6 DEF ResolveAll, after

-----------------------------------------------------------------------------
(* Sequences laid end to end.                                                *)

IsFlatten(f, ss, n) == f = [i \in 1 .. n |-> IF i = 1 THEN ss[i] ELSE f[i - 1] \o ss[i]]

LEMMA FlattenExists ==
    ASSUME NEW ss, NEW n \in Nat
    PROVE  \E f : IsFlatten(f, ss, n)
<1> DEFINE T == {i \in 0 .. n : \E f : IsFlatten(f, ss, i)}
<1>1. 0 \in T
  <2>1. IsFlatten([i \in 1 .. 0 |-> 0], ss, 0)
    BY DEF IsFlatten
  <2> QED BY <2>1
<1>2. ASSUME NEW i \in 0 .. n - 1, i \in T PROVE i + 1 \in T
  <2>1. PICK f : IsFlatten(f, ss, i)
    BY <1>2
  <2> DEFINE last == IF i = 0 THEN ss[1] ELSE f[i] \o ss[i + 1]
             g == [j \in 1 .. i + 1 |-> IF j = i + 1 THEN last ELSE f[j]]
  <2>2. \A j \in 1 .. i : g[j] = f[j]
    OBVIOUS
  <2>3. \A j \in 1 .. i : f[j] = IF j = 1 THEN ss[j] ELSE f[j - 1] \o ss[j]
    BY <2>1 DEF IsFlatten
  <2>4. ASSUME NEW j \in 1 .. i + 1
        PROVE  g[j] = IF j = 1 THEN ss[j] ELSE g[j - 1] \o ss[j]
    <3>1. CASE j \in 1 .. i
      <4>1. j # 1 => j - 1 \in 1 .. i
        BY <3>1
      <4> HIDE DEF g
      <4> QED BY <2>2, <2>3, <3>1, <4>1
    <3>2. CASE j = i + 1 /\ i = 0
      BY <3>2
    <3>3. CASE j = i + 1 /\ i # 0
      <4>1. last = f[i] \o ss[i + 1] /\ j - 1 = i /\ j # 1 /\ i \in 1 .. i
        <5>1. last = f[i] \o ss[i + 1]
          BY <3>3, Zenon
        <5> HIDE DEF last, g
        <5>2. j - 1 = i /\ j # 1 /\ i \in 1 .. i
          BY <3>3
        <5> QED BY <5>1, <5>2
      <4> HIDE DEF last
      <4>2. g[j] = last
        BY <3>3
      <4> HIDE DEF g
      <4>3. g[j] = f[i] \o ss[j] /\ g[i] = f[i]
        BY <2>2, <3>3, <4>1, <4>2
      <4> HIDE DEF g
      <4> QED BY <4>1, <4>3
    <3> QED BY <3>1, <3>2, <3>3
  <2>5. g = [j \in 1 .. i + 1 |-> g[j]]
    OBVIOUS
  <2>6. IsFlatten(g, ss, i + 1)
    <3> HIDE DEF g
    <3> QED BY <2>4, <2>5 DEF IsFlatten
  <2> QED BY <2>6
<1>3. \A i \in 0 .. n : i \in T
  <2> HIDE DEF T
  <2> QED BY <1>1, <1>2, CountUp
<1> QED BY <1>3

\* The first k of the sequences end to end, when the i-th begins behind
\* starts[i - 1]: every element has its place, and no place is left over.
EndToEnd(all, ss, starts, k) ==
    /\ Len(all) = starts[k]
    /\ \A i \in 1 .. k : \A e \in 1 .. Len(ss[i]) :
          starts[i - 1] + e \in 1 .. Len(all) /\ all[starts[i - 1] + e] = ss[i][e]
    /\ \A p \in 1 .. Len(all) : \E i \in 1 .. k : \E e \in 1 .. Len(ss[i]) : p = starts[i - 1] + e

StartsOf(starts, ss, n) ==
    /\ \A i \in 0 .. n : starts[i] \in Nat
    /\ starts[0] = 0
    /\ \A i \in 1 .. n : starts[i] = starts[i - 1] + Len(ss[i])

LEMMA OneMoreEndToEnd ==
    ASSUME NEW T, NEW n \in Nat, NEW ss, \A i \in 1 .. n : ss[i] \in Seq(T),
           NEW starts, StartsOf(starts, ss, n), NEW k \in 0 .. n - 1,
           NEW all \in Seq(T), EndToEnd(all, ss, starts, k)
    PROVE  (all \o ss[k + 1]) \in Seq(T) /\ EndToEnd(all \o ss[k + 1], ss, starts, k + 1)
<1> DEFINE s == ss[k + 1]
           more == all \o s
<1>1. k \in Nat /\ k + 1 \in 1 .. n /\ (k + 1) - 1 = k /\ k \in 0 .. n /\ s \in Seq(T)
  OBVIOUS
<1>2. starts[k + 1] = starts[k] + Len(s) /\ starts[k] \in Nat /\ Len(all) = starts[k]
  BY <1>1 DEF StartsOf, EndToEnd
<1>3. Len(all) \in Nat /\ Len(s) \in Nat
  BY <1>1
<1> HIDE DEF s
<1>4. /\ more \in Seq(T) /\ Len(more) = Len(all) + Len(s)
      /\ \A p \in 1 .. Len(all) : more[p] = all[p]
      /\ \A p \in 1 .. Len(s) : more[Len(all) + p] = s[p]
  BY <1>1
<1> HIDE DEF more
<1>5. Len(more) = starts[k + 1]
  BY <1>2, <1>4
<1>6. ASSUME NEW i \in 1 .. k + 1, NEW e \in 1 .. Len(ss[i])
      PROVE  starts[i - 1] + e \in 1 .. Len(more) /\ more[starts[i - 1] + e] = ss[i][e]
  <2>1. CASE i \in 1 .. k
    <3>1. starts[i - 1] + e \in 1 .. Len(all) /\ all[starts[i - 1] + e] = ss[i][e]
      BY <2>1 DEF EndToEnd
    <3>2. \A p \in 1 .. Len(all) : p \in 1 .. Len(more)
      BY <1>3, <1>4
    <3> QED BY <1>4, <3>1, <3>2
  <2>2. CASE i = k + 1
    <3>1. starts[i - 1] = Len(all) /\ ss[i] = s /\ e \in 1 .. Len(s)
      BY <1>1, <1>2, <2>2 DEF s
    <3>2. Len(all) + e \in 1 .. Len(more)
      BY <1>3, <1>4, <3>1
    <3> QED BY <1>4, <3>1, <3>2
  <2> QED BY <1>1, <2>1, <2>2
<1>7. ASSUME NEW p \in 1 .. Len(more)
      PROVE  \E i \in 1 .. k + 1 : \E e \in 1 .. Len(ss[i]) : p = starts[i - 1] + e
  <2>1. CASE p \in 1 .. Len(all)
    <3>1. PICK i \in 1 .. k : \E e \in 1 .. Len(ss[i]) : p = starts[i - 1] + e
      BY <2>1 DEF EndToEnd
    <3>2. i \in 1 .. k + 1
      BY <1>1
    <3> QED BY <3>1, <3>2
  <2>2. CASE p \notin 1 .. Len(all)
    <3>1. p - Len(all) \in 1 .. Len(s) /\ p = Len(all) + (p - Len(all))
      BY <1>3, <1>4, <2>2
    <3>2. k + 1 \in 1 .. k + 1 /\ starts[(k + 1) - 1] = Len(all)
      BY <1>1, <1>2
    <3> QED BY <3>1, <3>2 DEF s
  <2> QED BY <2>1, <2>2
<1> QED BY <1>4, <1>5, <1>6, <1>7 DEF EndToEnd, more, s

LEMMA Flattened ==
    ASSUME NEW T, NEW n \in Nat, NEW ss, ss = [i \in 1 .. n |-> ss[i]], \A i \in 1 .. n : ss[i] \in Seq(T),
           NEW starts, StartsOf(starts, ss, n)
    PROVE  FlattenSeq(ss) \in Seq(T) /\ EndToEnd(FlattenSeq(ss), ss, starts, n)
<1>1. Len(ss) = n /\ ss \in Seq(Seq(T))
  <2>1. ss \in [1 .. n -> Seq(T)]
    OBVIOUS
  <2> QED BY <2>1
<1>2. EndToEnd(<<>>, ss, starts, 0) /\ <<>> \in Seq(T)
  BY DEF EndToEnd, StartsOf
<1>3. CASE n = 0
  <2>1. ss = <<>>
    BY <1>1, <1>3
  <2>2. FlattenSeq(ss) = ss
    BY <1>1, <1>3 DEF FlattenSeq
  <2> QED BY <1>2, <1>3, <2>1, <2>2
<1>4. CASE n # 0
  <2> DEFINE f == CHOOSE g : IsFlatten(g, ss, n)
             U == {k \in 0 .. n : k # 0 => f[k] \in Seq(T) /\ EndToEnd(f[k], ss, starts, k)}
  <2>1. FlattenSeq(ss) = f[n]
    BY <1>1, <1>4 DEF FlattenSeq, IsFlatten
  <2>2. \E g : IsFlatten(g, ss, n)
    BY FlattenExists
  <2>3. IsFlatten(f, ss, n)
    BY <2>2
  <2> HIDE DEF f
  <2>4. \A i \in 1 .. n : f[i] = IF i = 1 THEN ss[i] ELSE f[i - 1] \o ss[i]
    BY <2>3 DEF IsFlatten
  <2>5. 0 \in U
    OBVIOUS
  <2>6. ASSUME NEW k \in 0 .. n - 1, k \in U PROVE k + 1 \in U
    <3>1. k + 1 \in 1 .. n /\ k + 1 \in 0 .. n /\ (k + 1) - 1 = k /\ k \in Nat /\ ss[k + 1] \in Seq(T)
      <4>1. k + 1 \in 1 .. n /\ k + 1 \in 0 .. n /\ (k + 1) - 1 = k /\ k \in Nat
        OBVIOUS
      <4> QED BY <4>1
    <3>2. CASE k = 0
      <4>1. f[1] = ss[1] /\ ss[1] = <<>> \o ss[1]
        BY <2>4, <3>1, <3>2
      <4>2. (<<>> \o ss[k + 1]) \in Seq(T) /\ EndToEnd(<<>> \o ss[k + 1], ss, starts, k + 1)
        BY <1>2, <3>2, OneMoreEndToEnd
      <4>3. f[k + 1] = <<>> \o ss[k + 1]
        BY <3>2, <4>1
      <4> QED BY <3>1, <4>2, <4>3
    <3>3. CASE k # 0
      <4>1. f[k] \in Seq(T) /\ EndToEnd(f[k], ss, starts, k)
        BY <2>6, <3>3
      <4>2. (f[k] \o ss[k + 1]) \in Seq(T) /\ EndToEnd(f[k] \o ss[k + 1], ss, starts, k + 1)
        BY <4>1, OneMoreEndToEnd
      <4>3. f[k + 1] = f[k] \o ss[k + 1]
        <5>1. k + 1 # 1
          BY <3>1, <3>3
        <5>2. f[k + 1] = f[(k + 1) - 1] \o ss[k + 1]
          BY <2>4, <3>1, <5>1
        <5> QED BY <3>1, <5>2
      <4> QED BY <3>1, <4>2, <4>3
    <3> QED BY <3>2, <3>3
  <2>7. \A k \in 0 .. n : k \in U
    <3> HIDE DEF U
    <3> QED BY <2>5, <2>6, CountUp
  <2>8. n \in 0 .. n
    OBVIOUS
  <2> QED BY <1>4, <2>1, <2>7, <2>8
<1> QED BY <1>3, <1>4

\* What holds of each two elements in the same place holds end to end.
LEMMA FlattenedPairs ==
    ASSUME NEW R, NEW n \in Nat, NEW ss, NEW tt, NEW starts, NEW all, NEW other,
           \A i \in 1 .. n : /\ Len(ss[i]) = Len(tt[i])
                             /\ \A e \in 1 .. Len(ss[i]) : <<ss[i][e], tt[i][e]>> \in R,
           EndToEnd(all, ss, starts, n), EndToEnd(other, tt, starts, n)
    PROVE  Len(all) = Len(other) /\ \A p \in 1 .. Len(all) : <<all[p], other[p]>> \in R
<1>1. Len(all) = Len(other)
  BY DEF EndToEnd
<1>2. ASSUME NEW p \in 1 .. Len(all) PROVE <<all[p], other[p]>> \in R
  <2>1. PICK i \in 1 .. n : \E e \in 1 .. Len(ss[i]) : p = starts[i - 1] + e
    BY DEF EndToEnd
  <2>2. PICK e \in 1 .. Len(ss[i]) : p = starts[i - 1] + e
    BY <2>1
  <2>3. e \in 1 .. Len(tt[i]) /\ <<ss[i][e], tt[i][e]>> \in R
    OBVIOUS
  <2>4. all[p] = ss[i][e] /\ other[p] = tt[i][e]
    BY <2>2, <2>3 DEF EndToEnd
  <2> QED BY <2>3, <2>4
<1> QED BY <1>1, <1>2

-----------------------------------------------------------------------------
(* The texts of a table, row by row and column by column.                    *)

LEMMA SchemaIs ==
    ASSUME NEW sch, IsSchema(sch)
    PROVE  /\ Len(sch) \in Nat /\ DOMAIN sch = 1 .. Len(sch)
           /\ \A c \in 1 .. Len(sch) : IsColumn(sch[c]) /\ sch[c].slots \in Nat /\ StringSlots(sch[c]) \in Nat
<1>1. Len(sch) \in Nat /\ DOMAIN sch = 1 .. Len(sch)
  BY DEF IsSchema
<1>2. \A c \in 1 .. Len(sch) : IsColumn(sch[c]) /\ sch[c].slots \in Nat
  BY <1>1 DEF IsSchema, IsColumn
<1> QED BY <1>1, <1>2 DEF StringSlots

IsTextsUpTo(f, sch, n) ==
    f = [c \in 0 .. n |-> IF c = 0 THEN 0 ELSE f[c - 1] + StringSlots(sch[c])]

LEMMA TextsUpToExists ==
    ASSUME NEW sch, NEW n \in Nat
    PROVE  \E f : IsTextsUpTo(f, sch, n)
<1> DEFINE T == {i \in 0 .. n : \E f : IsTextsUpTo(f, sch, i)}
<1>1. 0 \in T
  <2>1. IsTextsUpTo([c \in 0 .. 0 |-> 0], sch, 0)
    BY DEF IsTextsUpTo
  <2> QED BY <2>1
<1>2. ASSUME NEW i \in 0 .. n - 1, i \in T PROVE i + 1 \in T
  <2>1. PICK f : IsTextsUpTo(f, sch, i)
    BY <1>2
  <2> DEFINE g == [j \in 0 .. i + 1 |-> IF j = i + 1 THEN f[i] + StringSlots(sch[i + 1]) ELSE f[j]]
  <2>2. \A j \in 0 .. i : g[j] = f[j]
    OBVIOUS
  <2>3. \A j \in 0 .. i : f[j] = IF j = 0 THEN 0 ELSE f[j - 1] + StringSlots(sch[j])
    BY <2>1 DEF IsTextsUpTo
  <2>4. ASSUME NEW j \in 0 .. i + 1
        PROVE  g[j] = IF j = 0 THEN 0 ELSE g[j - 1] + StringSlots(sch[j])
    <3>1. CASE j \in 0 .. i
      <4>1. j # 0 => j - 1 \in 0 .. i
        BY <3>1
      <4> HIDE DEF g
      <4> QED BY <2>2, <2>3, <3>1, <4>1
    <3>2. CASE j = i + 1
      <4>1. g[j] = f[i] + StringSlots(sch[j]) /\ g[i] = f[i] /\ j - 1 = i /\ j # 0
        BY <2>2, <3>2
      <4> HIDE DEF g
      <4> QED BY <3>2, <4>1
    <3> QED BY <3>1, <3>2
  <2>5. g = [j \in 0 .. i + 1 |-> g[j]]
    OBVIOUS
  <2>6. IsTextsUpTo(g, sch, i + 1)
    <3> HIDE DEF g
    <3> QED BY <2>4, <2>5 DEF IsTextsUpTo
  <2> QED BY <2>6
<1>3. \A i \in 0 .. n : i \in T
  <2> HIDE DEF T
  <2> QED BY <1>1, <1>2, CountUp
<1> QED BY <1>3

LEMMA TextsUpToIs ==
    ASSUME NEW sch, IsSchema(sch)
    PROVE  LET upTo == TextsUpTo(sch)
           IN  /\ upTo[0] = 0 /\ \A c \in 0 .. Len(sch) : upTo[c] \in Nat
               /\ \A c \in 1 .. Len(sch) : upTo[c] = upTo[c - 1] + StringSlots(sch[c])
<1> DEFINE upTo == TextsUpTo(sch)
           n == Len(sch)
           T == {c \in 0 .. n : upTo[c] \in Nat}
<1>1. n \in Nat /\ \A c \in 1 .. n : StringSlots(sch[c]) \in Nat
  BY SchemaIs
<1>2. \E f : IsTextsUpTo(f, sch, n)
  BY <1>1, TextsUpToExists
<1>3. upTo = CHOOSE f : IsTextsUpTo(f, sch, n)
  BY DEF TextsUpTo, IsTextsUpTo
<1>4. IsTextsUpTo(upTo, sch, n)
  <2> HIDE DEF upTo
  <2> QED BY <1>2, <1>3
<1> HIDE DEF upTo, n
<1>5. \A c \in 0 .. n : upTo[c] = IF c = 0 THEN 0 ELSE upTo[c - 1] + StringSlots(sch[c])
  BY <1>4 DEF IsTextsUpTo
<1>6. upTo[0] = 0 /\ \A c \in 1 .. n : upTo[c] = upTo[c - 1] + StringSlots(sch[c])
  BY <1>1, <1>5
<1>7. 0 \in T
  BY <1>1, <1>6
<1>8. ASSUME NEW c \in 0 .. n - 1, c \in T PROVE c + 1 \in T
  <2>1. c + 1 \in 1 .. n /\ (c + 1) - 1 = c /\ c + 1 \in 0 .. n
    BY <1>1
  <2>2. upTo[c + 1] = upTo[c] + StringSlots(sch[c + 1])
    BY <1>6, <2>1
  <2> QED BY <1>1, <1>8, <2>1, <2>2
<1>9. \A c \in 0 .. n : c \in T
  <2> HIDE DEF T
  <2> QED BY <1>1, <1>7, <1>8, CountUp
<1> QED BY <1>6, <1>9 DEF upTo, n

\* Of the cells of a table, the leading elements of each column, laid end to end.
IsGrid(g, sch, n) ==
    /\ g = [r \in 1 .. n |-> [c \in DOMAIN sch |-> g[r][c]]]
    /\ \A r \in 1 .. n, c \in DOMAIN sch : Len(g[r][c]) = StringSlots(sch[c])
LinesOf(g, n) == [r \in 1 .. n |-> FlattenSeq(g[r])]
LineStarts(sch, n) == [r \in 0 .. n |-> r * TextsPerRow(sch)]
IsLaidOut(flat, g, sch, n) ==
    /\ EndToEnd(flat, LinesOf(g, n), LineStarts(sch, n), n)
    /\ \A r \in 1 .. n : /\ EndToEnd(LinesOf(g, n)[r], g[r], TextsUpTo(sch), Len(sch))
                         /\ Len(LinesOf(g, n)[r]) = TextsPerRow(sch)

LEMMA GridIsLaidOut ==
    ASSUME NEW T, NEW sch, IsSchema(sch), NEW n \in Nat, NEW g, IsGrid(g, sch, n),
           \A r \in 1 .. n, c \in DOMAIN sch : g[r][c] \in Seq(T)
    PROVE  FlattenSeq(LinesOf(g, n)) \in Seq(T) /\ IsLaidOut(FlattenSeq(LinesOf(g, n)), g, sch, n)
<1> DEFINE upTo  == TextsUpTo(sch)
           m     == Len(sch)
           width == TextsPerRow(sch)
           lines == LinesOf(g, n)
           starts == LineStarts(sch, n)
<1>1. m \in Nat /\ DOMAIN sch = 1 .. m
  BY SchemaIs
<1>2. /\ upTo[0] = 0 /\ \A c \in 0 .. m : upTo[c] \in Nat
      /\ \A c \in 1 .. m : upTo[c] = upTo[c - 1] + StringSlots(sch[c])
  BY TextsUpToIs
<1>3. width \in Nat /\ width = upTo[m]
  BY <1>1, <1>2 DEF TextsPerRow
<1> HIDE DEF upTo, m, width
<1>4. ASSUME NEW r \in 1 .. n
      PROVE  FlattenSeq(g[r]) \in Seq(T) /\ EndToEnd(FlattenSeq(g[r]), g[r], upTo, m)
  <2>1. g[r] = [c \in 1 .. m |-> g[r][c]]
    BY <1>1 DEF IsGrid
  <2>2. \A c \in 1 .. m : g[r][c] \in Seq(T) /\ Len(g[r][c]) = StringSlots(sch[c])
    BY <1>1 DEF IsGrid
  <2>3. StartsOf(upTo, g[r], m)
    BY <1>2, <2>2 DEF StartsOf
  <2> QED BY <1>1, <2>1, <2>2, <2>3, Flattened
<1>5. lines = [r \in 1 .. n |-> lines[r]] /\ \A r \in 1 .. n : lines[r] = FlattenSeq(g[r])
  BY DEF LinesOf
<1> HIDE DEF lines
<1>6. \A r \in 1 .. n : lines[r] \in Seq(T) /\ Len(lines[r]) = width
  BY <1>3, <1>4, <1>5 DEF EndToEnd
<1>7. StartsOf(starts, lines, n)
  <2>1. \A r \in 0 .. n : starts[r] = r * width /\ r * width \in Nat
    BY <1>3 DEF LineStarts, width
  <2>2. \A r \in 1 .. n : r - 1 \in 0 .. n /\ r \in 0 .. n /\ r * width = (r - 1) * width + width
    BY <1>3
  <2>3. starts[0] = 0
    <3>1. 0 * width = 0 /\ 0 \in 0 .. n
      BY <1>3
    <3> QED BY <2>1, <3>1
  <2> HIDE DEF starts
  <2>4. \A r \in 1 .. n : starts[r] = starts[r - 1] + Len(lines[r])
    BY <1>6, <2>1, <2>2
  <2> QED BY <2>1, <2>3, <2>4 DEF StartsOf
<1>8. FlattenSeq(lines) \in Seq(T) /\ EndToEnd(FlattenSeq(lines), lines, starts, n)
  <2> HIDE DEF starts
  <2> QED BY <1>5, <1>6, <1>7, Flattened
<1> QED BY <1>4, <1>5, <1>6, <1>8 DEF IsLaidOut, lines, upTo, m, width

\* Where an element is, and that every place is one.
Place(sch, r, c, e) == (r - 1) * TextsPerRow(sch) + (TextsUpTo(sch)[c - 1] + e)

LEMMA PlaceInGrid ==
    ASSUME NEW sch, IsSchema(sch), NEW n \in Nat, NEW g, IsGrid(g, sch, n), NEW flat, IsLaidOut(flat, g, sch, n),
           NEW r \in 1 .. n, NEW c \in DOMAIN sch, NEW e \in 1 .. StringSlots(sch[c])
    PROVE  /\ TextsUpTo(sch)[c - 1] + e \in 1 .. TextsPerRow(sch)
           /\ Place(sch, r, c, e) \in 1 .. Len(flat) /\ flat[Place(sch, r, c, e)] = g[r][c][e]
<1> DEFINE lines == LinesOf(g, n)
           q == TextsUpTo(sch)[c - 1] + e
<1>1. c \in 1 .. Len(sch) /\ e \in 1 .. Len(g[r][c])
  BY SchemaIs DEF IsGrid
<1>2. EndToEnd(lines[r], g[r], TextsUpTo(sch), Len(sch)) /\ Len(lines[r]) = TextsPerRow(sch)
  BY DEF IsLaidOut
<1>3. q \in 1 .. Len(lines[r]) /\ lines[r][q] = g[r][c][e]
  BY <1>1, <1>2 DEF EndToEnd
<1> HIDE DEF lines, q
<1>4. EndToEnd(flat, lines, LineStarts(sch, n), n)
  BY DEF IsLaidOut, lines
<1>5. LineStarts(sch, n)[r - 1] + q \in 1 .. Len(flat) /\ flat[LineStarts(sch, n)[r - 1] + q] = lines[r][q]
  BY <1>3, <1>4 DEF EndToEnd
<1>6. LineStarts(sch, n)[r - 1] = (r - 1) * TextsPerRow(sch)
  BY DEF LineStarts
<1> QED BY <1>2, <1>3, <1>5, <1>6 DEF Place, q

\* Two tables of the same columns, laid out alike.
LEMMA GridPairs ==
    ASSUME NEW R, NEW sch, IsSchema(sch), NEW n \in Nat,
           NEW g, IsGrid(g, sch, n), NEW flat, IsLaidOut(flat, g, sch, n),
           NEW h, IsGrid(h, sch, n), NEW other, IsLaidOut(other, h, sch, n),
           \A r \in 1 .. n, c \in DOMAIN sch : \A e \in 1 .. StringSlots(sch[c]) : <<g[r][c][e], h[r][c][e]>> \in R
    PROVE  Len(flat) = Len(other) /\ \A p \in 1 .. Len(flat) : <<flat[p], other[p]>> \in R
<1> DEFINE x == LinesOf(g, n)
           y == LinesOf(h, n)
<1>1. ASSUME NEW r \in 1 .. n
      PROVE  Len(x[r]) = Len(y[r]) /\ \A p \in 1 .. Len(x[r]) : <<x[r][p], y[r][p]>> \in R
  <2>1. EndToEnd(x[r], g[r], TextsUpTo(sch), Len(sch)) /\ EndToEnd(y[r], h[r], TextsUpTo(sch), Len(sch))
    BY DEF IsLaidOut
  <2>2. \A c \in 1 .. Len(sch) : /\ Len(g[r][c]) = Len(h[r][c])
                                 /\ \A e \in 1 .. Len(g[r][c]) : <<g[r][c][e], h[r][c][e]>> \in R
    <3>1. DOMAIN sch = 1 .. Len(sch)
      BY SchemaIs
    <3>2. \A c \in 1 .. Len(sch) : Len(g[r][c]) = StringSlots(sch[c]) /\ Len(h[r][c]) = StringSlots(sch[c])
      BY <3>1 DEF IsGrid
    <3> QED BY <3>1, <3>2
  <2>3. Len(sch) \in Nat
    BY SchemaIs
  <2> HIDE DEF x, y
  <2> QED BY <2>1, <2>2, <2>3, FlattenedPairs
<1>2. EndToEnd(flat, x, LineStarts(sch, n), n) /\ EndToEnd(other, y, LineStarts(sch, n), n)
  BY DEF IsLaidOut
<1> HIDE DEF x, y
<1> QED BY <1>1, <1>2, FlattenedPairs

-----------------------------------------------------------------------------
(* Cells, and the words they are stored as.                                  *)

LEMMA LeadingOf ==
    ASSUME NEW T, NEW s \in Seq(T), NEW m \in 0 .. Len(s)
    PROVE  SubSeq(s, 1, m) = [e \in 1 .. m |-> s[e]] /\ Len(SubSeq(s, 1, m)) = m
<1> DEFINE x == SubSeq(s, 1, m)
<1>1. 1 \in Nat /\ m \in Nat /\ 1 >= 1 /\ m <= Len(s) /\ 1 <= m + 1
  OBVIOUS
<1>2. x \in Seq(T) /\ Len(x) = m - 1 + 1 /\ \A i \in 1 .. m - 1 + 1 : x[i] = s[1 + i - 1]
  BY <1>1, SubSeqIs
<1> HIDE DEF x
<1>3. m - 1 + 1 = m /\ \A i \in 1 .. m : 1 + i - 1 = i
  BY <1>1
<1>4. Len(x) = m /\ \A i \in 1 .. m : x[i] = s[i]
  BY <1>2, <1>3
<1>5. x = [i \in 1 .. m |-> x[i]]
  BY <1>2, <1>4
<1>6. x = [i \in 1 .. m |-> s[i]]
  BY <1>4, <1>5
<1> QED BY <1>4, <1>6 DEF x

LEMMA FunctionIsSeq ==
    ASSUME NEW n \in Nat, NEW s, s = [e \in 1 .. n |-> s[e]]
    PROVE  \E T : s \in Seq(T) /\ Len(s) = n
<1> DEFINE T == {s[e] : e \in 1 .. n}
<1>1. s \in [1 .. n -> T]
  OBVIOUS
<1> HIDE DEF T
<1> QED BY <1>1

\* A piece of a function on 1 .. n, from its first element.
LEMMA LeadingPiece ==
    ASSUME NEW n \in Nat, NEW s, s = [e \in 1 .. n |-> s[e]], NEW m \in 0 .. n
    PROVE  SubSeq(s, 1, m) = [e \in 1 .. m |-> s[e]] /\ Len(SubSeq(s, 1, m)) = m
<1>1. PICK T : s \in Seq(T) /\ Len(s) = n
  BY FunctionIsSeq
<1>2. m \in 0 .. Len(s)
  BY <1>1
<1> QED BY <1>1, <1>2, LeadingOf

LEMMA AtIsText ==
    ASSUME NEW block, IsBlock(block), NEW offset \in Nat
    PROVE  At(block, offset) \in Seq(Nat)
<1> DEFINE S == AtOrBefore(block, offset)
           m == Max(S)
<1>1. /\ Len(block.entries) \in Nat /\ DOMAIN block.entries = 1 .. Len(block.entries)
      /\ \A i \in 1 .. Len(block.entries) :
            /\ block.entries[i].offset \in Nat /\ block.entries[i].value \in Seq(Nat)
            /\ Len(block.entries[i].value) \in Nat
  BY BlockIs
<1>2. S \in SUBSET (1 .. Len(block.entries))
  BY <1>1 DEF AtOrBefore
<1>3. CASE S = {}
  BY <1>3 DEF At
<1>4. CASE S # {}
  <2>1. m \in S
    <3> HIDE DEF S
    <3> QED BY <1>1, <1>2, <1>4, GreatestPosition
  <2>2. block.entries[m].offset <= offset
    BY <2>1 DEF AtOrBefore
  <2>3. At(block, offset) = SubSeq(block.entries[m].value, offset - block.entries[m].offset + 1,
                                   Len(block.entries[m].value))
    BY <1>4 DEF At
  <2> DEFINE v == block.entries[m].value
             a == offset - block.entries[m].offset + 1
  <2> HIDE DEF m, S
  <2>4. v \in Seq(Nat) /\ Len(v) \in Nat /\ a \in Nat /\ a >= 1
    BY <1>1, <1>2, <2>1, <2>2
  <2>5. At(block, offset) = SubSeq(v, a, Len(v))
    BY <2>3
  <2> HIDE DEF v, a
  <2>6. CASE a <= Len(v)
    BY <2>4, <2>5, <2>6, SubSeqIs
  <2>7. CASE a > Len(v)
    BY <2>4, <2>5, <2>7, EmptyPiece
  <2> QED BY <2>4, <2>6, <2>7
<1> QED BY <1>3, <1>4

\* A cell of a column: its elements, numbers that fit, texts.
IsCell(col, cell) ==
    CASE col.type = "int" -> /\ cell \in [1 .. col.slots -> Int]
                             /\ \A e \in 1 .. col.slots : Truncated(col, cell[e]) = cell[e]
      [] col.type = "float" -> cell = [e \in 1 .. col.slots |-> cell[e]]
      [] col.type = "string" -> cell \in [1 .. col.slots -> Seq(Nat)]
      [] col.type = "locstring" -> /\ cell = [e \in 1 .. col.slots + 1 |-> cell[e]]
                                   /\ \A e \in 1 .. col.slots : cell[e] \in Seq(Nat)

LEMMA FitIs ==
    ASSUME NEW w, NEW b, NEW s
    PROVE  Fit(w, b, s) = w \/ Fit(w, b, s) = w - 2^b
BY DEF Fit

\* What is stored of a number is the number, and storing it again changes nothing.
LEMMA NumbersFit ==
    ASSUME NEW col, IsColumn(col), col.type = "int"
    PROVE  /\ \A v \in Int : /\ Low(v, col.bits) \in 0 .. 2^col.bits - 1
                             /\ Truncated(col, v) \in Int /\ Truncated(col, Truncated(col, v)) = Truncated(col, v)
           /\ \A w \in 0 .. 2^col.bits - 1 :
                 /\ Fit(w, col.bits, col.isSigned) \in Int /\ Low(Fit(w, col.bits, col.isSigned), col.bits) = w
                 /\ Truncated(col, Fit(w, col.bits, col.isSigned)) = Fit(w, col.bits, col.isSigned)
<1> DEFINE p == 2^col.bits
           fit(w) == Fit(w, col.bits, col.isSigned)
<1>1. p \in Nat /\ p > 0
  BY DEF IsColumn
<1>2. \A w : fit(w) = w \/ fit(w) = w - p
  BY FitIs
<1>3. \A v : Low(v, col.bits) = v % p
  BY DEF Low
<1>4. \A v \in Int : Truncated(col, v) = fit(Low(v, col.bits))
  BY DEF Truncated
<1> HIDE DEF p, fit
<1>5. \A v \in Int : v % p \in 0 .. p - 1
  BY <1>1
<1>6. \A w \in 0 .. p - 1 : w % p = w /\ (w - p) % p = w
  BY <1>1
<1>7. \A w \in 0 .. p - 1 : fit(w) \in Int /\ Low(fit(w), col.bits) = w
  <2>1. TAKE w \in 0 .. p - 1
  <2>2. w \in Int /\ w - p \in Int /\ w % p = w /\ (w - p) % p = w
    BY <1>1, <1>6
  <2>3. Low(fit(w), col.bits) = fit(w) % p
    BY <1>3
  <2>4. fit(w) = w \/ fit(w) = w - p
    BY <1>2
  <2> QED BY <2>2, <2>3, <2>4
<1>8. \A v \in Int : Low(v, col.bits) \in 0 .. p - 1
  BY <1>3, <1>5
<1>9. \A v \in Int : Truncated(col, v) \in Int /\ Truncated(col, Truncated(col, v)) = Truncated(col, v)
  <2>1. TAKE v \in Int
  <2> DEFINE w == Low(v, col.bits)
  <2>2. w \in 0 .. p - 1 /\ Truncated(col, v) = fit(w)
    BY <1>4, <1>8
  <2> HIDE DEF w
  <2>3. fit(w) \in Int /\ Low(fit(w), col.bits) = w
    BY <1>7, <2>2
  <2>4. Truncated(col, fit(w)) = fit(w)
    BY <1>4, <2>3
  <2> QED BY <2>2, <2>3, <2>4
<1>10. \A w \in 0 .. p - 1 : Truncated(col, fit(w)) = fit(w)
  BY <1>4, <1>7
<1> QED BY <1>7, <1>8, <1>9, <1>10 DEF p, fit

LEMMA FreshCellIs ==
    ASSUME NEW col, IsColumn(col)
    PROVE  IsCell(col, FreshCell(col))
<1>1. col.slots \in Nat /\ col.type \in {"int", "float", "string", "locstring"}
  BY DEF IsColumn
<1>2. CASE col.type = "int"
  <2>1. FreshCell(col) = [e \in 1 .. col.slots |-> 0]
    BY <1>2 DEF FreshCell
  <2>2. 2^col.bits \in Nat \ {0} /\ 2^(col.bits - 1) \in Nat \ {0}
    BY <1>2 DEF IsColumn
  <2>3. Low(0, col.bits) = 0
    <3>1. 0 % 2^col.bits = 0
      BY <2>2
    <3> QED BY <3>1 DEF Low
  <2>4. ~(0 >= 2^(col.bits - 1))
    BY <2>2
  <2>5. Fit(0, col.bits, col.isSigned) = 0
    BY <2>4 DEF Fit
  <2>6. Truncated(col, 0) = 0
    BY <2>3, <2>5 DEF Truncated
  <2>7. \A e \in 1 .. col.slots : FreshCell(col)[e] = 0
    BY <2>1
  <2>8. FreshCell(col) \in [1 .. col.slots -> Int]
    BY <2>1
  <2> QED BY <1>2, <2>6, <2>7, <2>8 DEF IsCell
<1>3. CASE col.type = "float"
  <2>1. FreshCell(col) = [e \in 1 .. col.slots |-> 0]
    BY <1>3 DEF FreshCell
  <2> QED BY <1>3, <2>1 DEF IsCell
<1>4. CASE col.type = "string"
  <2>1. FreshCell(col) = [e \in 1 .. col.slots |-> <<>>] /\ <<>> \in Seq(Nat)
    BY <1>4 DEF FreshCell
  <2> QED BY <1>4, <2>1 DEF IsCell
<1>5. CASE col.type = "locstring"
  <2> DEFINE texts == [e \in 1 .. col.slots |-> <<>>]
             T == Seq(Nat) \cup Nat
  <2>1. FreshCell(col) = Append(texts, 0)
    BY <1>5 DEF FreshCell
  <2>2. texts \in Seq(T) /\ Len(texts) = col.slots
    <3>1. <<>> \in T
      OBVIOUS
    <3> HIDE DEF T
    <3>2. texts \in [1 .. col.slots -> T]
      BY <3>1
    <3> QED BY <1>1, <3>2
  <2>3. 0 \in T /\ \A e \in 1 .. col.slots : texts[e] \in Seq(Nat)
    OBVIOUS
  <2> HIDE DEF T, texts
  <2> DEFINE cell == Append(texts, 0)
  <2>4. cell \in Seq(T) /\ Len(cell) = col.slots + 1 /\ \A e \in 1 .. col.slots : cell[e] = texts[e]
    BY <2>2, <2>3, AppendIs
  <2> HIDE DEF cell
  <2>5. cell = [e \in 1 .. col.slots + 1 |-> cell[e]]
    BY <1>1, <2>4
  <2>6. IsCell(col, cell)
    BY <1>5, <2>3, <2>4, <2>5 DEF IsCell
  <2> QED BY <2>1, <2>6 DEF cell
<1> QED BY <1>1, <1>2, <1>3, <1>4, <1>5

\* The texts of a cell.
LEMMA TextsOfCell ==
    ASSUME NEW col, IsColumn(col), NEW cell, IsCell(col, cell)
    PROVE  /\ TextsOf(col, cell) \in Seq(Seq(Nat)) /\ Len(TextsOf(col, cell)) = StringSlots(col)
           /\ \A e \in 1 .. StringSlots(col) : TextsOf(col, cell)[e] = cell[e]
<1> DEFINE m == StringSlots(col)
<1>1. col.slots \in Nat /\ col.type \in {"int", "float", "string", "locstring"}
  BY DEF IsColumn
<1>2. \E n \in Nat : cell = [e \in 1 .. n |-> cell[e]] /\ m \in 0 .. n
  <2>1. CASE col.type = "locstring"
    <3>1. cell = [e \in 1 .. col.slots + 1 |-> cell[e]]
      BY <2>1 DEF IsCell
    <3>2. m \in 0 .. col.slots + 1 /\ col.slots + 1 \in Nat
      BY <1>1 DEF StringSlots
    <3> QED BY <3>1, <3>2
  <2>2. CASE col.type # "locstring"
    <3>1. cell = [e \in 1 .. col.slots |-> cell[e]]
      BY <1>1, <2>2 DEF IsCell
    <3>2. m \in 0 .. col.slots
      BY <1>1 DEF StringSlots
    <3> QED BY <1>1, <3>1, <3>2
  <2> QED BY <2>1, <2>2
<1>3. TextsOf(col, cell) = [e \in 1 .. m |-> cell[e]] /\ Len(TextsOf(col, cell)) = m
  BY <1>2, LeadingPiece DEF TextsOf
<1>4. \A e \in 1 .. m : cell[e] \in Seq(Nat)
  <2>1. CASE col.type = "string"
    BY <1>1, <2>1 DEF StringSlots, IsCell
  <2>2. CASE col.type = "locstring"
    BY <1>1, <2>2 DEF StringSlots, IsCell
  <2>3. CASE col.type \notin {"string", "locstring"}
    BY <2>3 DEF StringSlots
  <2> QED BY <2>1, <2>2, <2>3
<1>5. m \in Nat
  BY <1>1 DEF StringSlots
<1> HIDE DEF m
<1>6. TextsOf(col, cell) \in [1 .. m -> Seq(Nat)]
  BY <1>3, <1>4
<1> QED BY <1>3, <1>5, <1>6 DEF m

\* The offsets among the words of a column.
LEMMA OffsetsOfWords ==
    ASSUME NEW col, IsColumn(col), NEW size \in Nat, NEW words, IsWords(col, words, size)
    PROVE  /\ SubSeq(words, 1, StringSlots(col)) \in Seq(0 .. size - 1)
           /\ Len(SubSeq(words, 1, StringSlots(col))) = StringSlots(col)
           /\ \A e \in 1 .. StringSlots(col) :
                 SubSeq(words, 1, StringSlots(col))[e] = words[e] /\ words[e] \in 0 .. size - 1
<1> DEFINE m == StringSlots(col)
           offsets == SubSeq(words, 1, m)
<1>1. col.slots \in Nat /\ col.type \in {"int", "float", "string", "locstring"}
  BY DEF IsColumn
<1>2. \E n \in Nat : words = [e \in 1 .. n |-> words[e]] /\ m \in 0 .. n
  <2>1. CASE col.noninline
    <3>1. words = <<>> /\ m = 0
      BY <2>1 DEF IsWords, StringSlots
    <3>2. words = [e \in 1 .. 0 |-> words[e]]
      BY <3>1
    <3> QED BY <3>1, <3>2
  <2>2. CASE ~col.noninline /\ col.type = "locstring"
    <3>1. words = [e \in 1 .. col.slots + 1 |-> words[e]]
      BY <2>2 DEF IsWords
    <3>2. m \in 0 .. col.slots + 1 /\ col.slots + 1 \in Nat
      BY <1>1 DEF StringSlots
    <3> QED BY <3>1, <3>2
  <2>3. CASE ~col.noninline /\ col.type # "locstring"
    <3>1. words = [e \in 1 .. col.slots |-> words[e]]
      BY <1>1, <2>3 DEF IsWords
    <3>2. m \in 0 .. col.slots
      BY <1>1 DEF StringSlots
    <3> QED BY <1>1, <3>1, <3>2
  <2> QED BY <2>1, <2>2, <2>3
<1>3. offsets = [e \in 1 .. m |-> words[e]] /\ Len(offsets) = m
  BY <1>2, LeadingPiece
<1>4. \A e \in 1 .. m : words[e] \in 0 .. size - 1
  <2>1. CASE col.noninline
    BY <2>1 DEF StringSlots
  <2>2. CASE ~col.noninline /\ col.type = "string"
    BY <1>1, <2>2 DEF StringSlots, IsWords
  <2>3. CASE ~col.noninline /\ col.type = "locstring"
    BY <1>1, <2>3 DEF StringSlots, IsWords
  <2>4. CASE col.type \notin {"string", "locstring"}
    BY <2>4 DEF StringSlots
  <2> QED BY <2>1, <2>2, <2>3, <2>4
<1>5. m \in Nat
  BY <1>1 DEF StringSlots
<1> HIDE DEF m, offsets
<1>6. offsets \in [1 .. m -> 0 .. size - 1]
  BY <1>3, <1>4
<1> QED BY <1>3, <1>4, <1>5, <1>6 DEF m, offsets

\* What the writer appends to a cell's texts, or offsets: the flags.
LEMMA AppendedIs ==
    ASSUME NEW n \in Nat, NEW s, s = [e \in 1 .. n |-> s[e]], NEW x
    PROVE  /\ Append(s, x) = [e \in 1 .. n + 1 |-> Append(s, x)[e]]
           /\ \A e \in 1 .. n : Append(s, x)[e] = s[e]
           /\ Append(s, x)[n + 1] = x
<1> DEFINE T == {s[e] : e \in 1 .. n} \cup {x}
           t == Append(s, x)
<1>1. s \in [1 .. n -> T] /\ x \in T
  OBVIOUS
<1> HIDE DEF T
<1>2. s \in Seq(T) /\ Len(s) = n
  BY <1>1
<1>3. t \in Seq(T) /\ Len(t) = n + 1 /\ (\A i \in 1 .. n : t[i] = s[i]) /\ t[n + 1] = x
  BY <1>1, <1>2, AppendIs
<1> HIDE DEF t
<1>4. t = [e \in 1 .. n + 1 |-> t[e]]
  BY <1>3
<1> QED BY <1>3, <1>4 DEF t

\* decodeInlineRecord gives cells.
LEMMA DecodeCellIs ==
    ASSUME NEW col, IsColumn(col), NEW size \in Nat, NEW words, IsWords(col, words, size),
           NEW block, IsBlock(block)
    PROVE  /\ IsCell(col, DecodeCell(col, words, block))
           /\ ~col.noninline => \A e \in 1 .. StringSlots(col) :
                  DecodeCell(col, words, block)[e] = At(block, words[e])
<1> DEFINE cell == DecodeCell(col, words, block)
<1>1. col.slots \in Nat /\ col.type \in {"int", "float", "string", "locstring"}
  BY DEF IsColumn
<1>2. CASE col.noninline
  BY <1>2, FreshCellIs DEF DecodeCell
<1>3. CASE ~col.noninline /\ col.type = "int"
  <2>1. cell = [e \in 1 .. col.slots |-> Fit(words[e], col.bits, col.isSigned)] /\ StringSlots(col) = 0
    BY <1>3 DEF DecodeCell, StringSlots
  <2>2. \A e \in 1 .. col.slots : words[e] \in 0 .. 2^col.bits - 1
    BY <1>3 DEF IsWords
  <2> HIDE DEF cell
  <2>3. \A e \in 1 .. col.slots : cell[e] \in Int /\ Truncated(col, cell[e]) = cell[e]
    BY <1>3, <2>1, <2>2, NumbersFit
  <2>4. cell \in [1 .. col.slots -> Int]
    BY <2>1, <2>3
  <2>5. IsCell(col, cell)
    BY <1>3, <2>3, <2>4 DEF IsCell
  <2> QED BY <2>1, <2>5 DEF cell
<1>4. CASE ~col.noninline /\ col.type = "float"
  <2>1. cell = words /\ StringSlots(col) = 0
    BY <1>4 DEF DecodeCell, StringSlots
  <2>2. words = [e \in 1 .. col.slots |-> words[e]]
    BY <1>4 DEF IsWords
  <2>3. IsCell(col, words)
    BY <1>4, <2>2 DEF IsCell
  <2> QED BY <2>1, <2>3
<1>5. CASE ~col.noninline /\ col.type = "string"
  <2>1. cell = [e \in 1 .. col.slots |-> At(block, words[e])] /\ StringSlots(col) = col.slots
    BY <1>5 DEF DecodeCell, StringSlots
  <2>2. \A e \in 1 .. col.slots : words[e] \in Nat
    BY <1>5 DEF IsWords
  <2> HIDE DEF cell
  <2>3. \A e \in 1 .. col.slots : cell[e] = At(block, words[e]) /\ cell[e] \in Seq(Nat)
    BY <2>1, <2>2, AtIsText
  <2>4. cell \in [1 .. col.slots -> Seq(Nat)]
    BY <2>1, <2>3
  <2>5. IsCell(col, cell)
    BY <1>5, <2>4 DEF IsCell
  <2> QED BY <2>1, <2>3, <2>5 DEF cell
<1>6. CASE ~col.noninline /\ col.type = "locstring"
  <2> DEFINE s == [e \in 1 .. col.slots |-> At(block, words[e])]
  <2>1. cell = Append(s, words[col.slots + 1]) /\ StringSlots(col) = col.slots
    BY <1>6 DEF DecodeCell, StringSlots
  <2>2. \A e \in 1 .. col.slots : words[e] \in Nat
    BY <1>6 DEF IsWords
  <2>3. s = [e \in 1 .. col.slots |-> s[e]] /\ \A e \in 1 .. col.slots : s[e] = At(block, words[e])
    OBVIOUS
  <2> HIDE DEF cell, s
  <2>4. /\ cell = [e \in 1 .. col.slots + 1 |-> cell[e]]
        /\ \A e \in 1 .. col.slots : cell[e] = s[e]
    BY <1>1, <2>1, <2>3, AppendedIs
  <2>5. \A e \in 1 .. col.slots : cell[e] = At(block, words[e]) /\ cell[e] \in Seq(Nat)
    BY <2>2, <2>3, <2>4, AtIsText
  <2>6. IsCell(col, cell)
    BY <1>6, <2>4, <2>5 DEF IsCell
  <2> QED BY <2>1, <2>5, <2>6 DEF cell
<1> QED BY <1>1, <1>2, <1>3, <1>4, <1>5, <1>6

\* encodeInlineRecord gives words, and offsets that lie in the block.
LEMMA EncodeCellIs ==
    ASSUME NEW col, IsColumn(col), NEW size \in Nat, NEW cell, IsCell(col, cell), NEW offsets,
           offsets = [e \in 1 .. StringSlots(col) |-> offsets[e]],
           \A e \in 1 .. StringSlots(col) : offsets[e] \in 0 .. size - 1
    PROVE  IsWords(col, EncodeCell(col, cell, offsets), size)
<1> DEFINE words == EncodeCell(col, cell, offsets)
<1>1. col.slots \in Nat /\ col.type \in {"int", "float", "string", "locstring"}
  BY DEF IsColumn
<1>2. CASE col.noninline
  BY <1>2 DEF EncodeCell, IsWords
<1>3. CASE ~col.noninline /\ col.type = "int"
  <2>1. words = [e \in 1 .. col.slots |-> Low(cell[e], col.bits)]
    BY <1>3 DEF EncodeCell
  <2>2. \A e \in 1 .. col.slots : cell[e] \in Int
    BY <1>3 DEF IsCell
  <2>3. \A e \in 1 .. col.slots : Low(cell[e], col.bits) \in 0 .. 2^col.bits - 1
    BY <1>3, <2>2, NumbersFit
  <2> HIDE DEF words
  <2>4. words \in [1 .. col.slots -> 0 .. 2^col.bits - 1]
    BY <2>1, <2>3
  <2>5. IsWords(col, words, size)
    BY <1>3, <2>4 DEF IsWords
  <2> QED BY <2>5 DEF words
<1>4. CASE ~col.noninline /\ col.type = "float"
  BY <1>4 DEF EncodeCell, IsCell, IsWords
<1>5. CASE ~col.noninline /\ col.type = "string"
  <2>1. words = offsets /\ StringSlots(col) = col.slots
    BY <1>5 DEF EncodeCell, StringSlots
  <2>2. offsets \in [1 .. col.slots -> 0 .. size - 1]
    BY <2>1
  <2>3. IsWords(col, offsets, size)
    BY <1>5, <2>2 DEF IsWords
  <2> QED BY <2>1, <2>3
<1>6. CASE ~col.noninline /\ col.type = "locstring"
  <2>1. words = Append(offsets, cell[col.slots + 1]) /\ StringSlots(col) = col.slots
    BY <1>6 DEF EncodeCell, StringSlots
  <2> HIDE DEF words
  <2>2. /\ words = [e \in 1 .. col.slots + 1 |-> words[e]]
        /\ \A e \in 1 .. col.slots : words[e] = offsets[e]
    BY <1>1, <2>1, AppendedIs
  <2>3. \A e \in 1 .. col.slots : words[e] \in 0 .. size - 1
    BY <2>1, <2>2
  <2>4. IsWords(col, words, size)
    BY <1>6, <2>2, <2>3 DEF IsWords
  <2> QED BY <2>4 DEF words
<1> QED BY <1>1, <1>2, <1>3, <1>4, <1>5, <1>6

\* A cell that is written reads back, where its offsets read as its texts.
\* Offsets that read as the texts of a cell.
ReadAs(col, cell, offsets, block) ==
    /\ IsColumn(col) /\ ~col.noninline /\ IsCell(col, cell)
    /\ offsets = [e \in 1 .. StringSlots(col) |-> offsets[e]]
    /\ \A e \in 1 .. StringSlots(col) : At(block, offsets[e]) = cell[e]

LEMMA DecodeEncoded ==
    ASSUME NEW col, NEW cell, NEW offsets, NEW block, ReadAs(col, cell, offsets, block)
    PROVE  DecodeCell(col, EncodeCell(col, cell, offsets), block) = cell
<1> SUFFICES ASSUME IsColumn(col), ~col.noninline, IsCell(col, cell),
                    offsets = [e \in 1 .. StringSlots(col) |-> offsets[e]],
                    \A e \in 1 .. StringSlots(col) : At(block, offsets[e]) = cell[e]
             PROVE  DecodeCell(col, EncodeCell(col, cell, offsets), block) = cell
  BY DEF ReadAs
<1> DEFINE words == EncodeCell(col, cell, offsets)
           again == DecodeCell(col, words, block)
<1>1. col.slots \in Nat /\ col.type \in {"int", "float", "string", "locstring"}
  BY DEF IsColumn
<1>2. CASE col.type = "int"
  <2>1. words = [e \in 1 .. col.slots |-> Low(cell[e], col.bits)]
    BY <1>2 DEF EncodeCell
  <2> HIDE DEF words
  <2>2. again = [e \in 1 .. col.slots |-> Fit(words[e], col.bits, col.isSigned)]
    BY <1>2 DEF DecodeCell
  <2>3. cell \in [1 .. col.slots -> Int] /\ \A e \in 1 .. col.slots : Truncated(col, cell[e]) = cell[e]
    BY <1>2 DEF IsCell
  <2>4. \A e \in 1 .. col.slots : Fit(words[e], col.bits, col.isSigned) = cell[e]
    BY <2>1, <2>3 DEF Truncated
  <2> HIDE DEF again
  <2>5. again = cell
    BY <2>2, <2>3, <2>4
  <2> QED BY <2>5 DEF again, words
<1>3. CASE col.type = "float"
  BY <1>3 DEF EncodeCell, DecodeCell
<1>4. CASE col.type = "string"
  <2>1. words = offsets /\ StringSlots(col) = col.slots
    BY <1>4 DEF EncodeCell, StringSlots
  <2> HIDE DEF words
  <2>2. again = [e \in 1 .. col.slots |-> At(block, words[e])]
    BY <1>4 DEF DecodeCell
  <2>3. cell = [e \in 1 .. col.slots |-> cell[e]]
    BY <1>4 DEF IsCell
  <2> HIDE DEF again
  <2>4. again = cell
    BY <2>1, <2>2, <2>3
  <2> QED BY <2>4 DEF again, words
<1>5. CASE col.type = "locstring"
  <2>1. words = Append(offsets, cell[col.slots + 1]) /\ StringSlots(col) = col.slots
    BY <1>5 DEF EncodeCell, StringSlots
  <2> HIDE DEF words
  <2>2. /\ \A e \in 1 .. col.slots : words[e] = offsets[e]
        /\ words[col.slots + 1] = cell[col.slots + 1]
    BY <1>1, <2>1, AppendedIs
  <2> DEFINE s == [e \in 1 .. col.slots |-> At(block, words[e])]
  <2>3. again = Append(s, words[col.slots + 1])
    BY <1>5 DEF DecodeCell
  <2>4. s = [e \in 1 .. col.slots |-> s[e]] /\ \A e \in 1 .. col.slots : s[e] = cell[e]
    BY <2>1, <2>2
  <2>5. cell = [e \in 1 .. col.slots + 1 |-> cell[e]]
    BY <1>5 DEF IsCell
  <2> HIDE DEF s, again
  <2>6. /\ again = [e \in 1 .. col.slots + 1 |-> again[e]]
        /\ (\A e \in 1 .. col.slots : again[e] = s[e]) /\ again[col.slots + 1] = cell[col.slots + 1]
    BY <1>1, <2>2, <2>3, <2>4, AppendedIs
  <2>7. \A e \in 1 .. col.slots + 1 : again[e] = cell[e]
    <3>1. \A e \in 1 .. col.slots + 1 : e \in 1 .. col.slots \/ e = col.slots + 1
      BY <1>1
    <3> QED BY <2>4, <2>6, <3>1
  <2>8. again = cell
    BY <2>5, <2>6, <2>7
  <2> QED BY <2>8 DEF again, words
<1> QED BY <1>1, <1>2, <1>3, <1>4, <1>5

\* Words that were read are written again, with the offsets that were journalled.
LEMMA EncodeDecoded ==
    ASSUME NEW col, IsColumn(col), NEW size \in Nat, NEW words, IsWords(col, words, size), NEW block, NEW offsets,
           offsets = [e \in 1 .. StringSlots(col) |-> words[e]]
    PROVE  EncodeCell(col, DecodeCell(col, words, block), offsets) = words
<1> DEFINE cell  == DecodeCell(col, words, block)
           again == EncodeCell(col, cell, offsets)
<1>1. col.slots \in Nat /\ col.type \in {"int", "float", "string", "locstring"}
  BY DEF IsColumn
<1>2. CASE col.noninline
  BY <1>2 DEF EncodeCell, IsWords
<1>3. CASE ~col.noninline /\ col.type = "int"
  <2>1. cell = [e \in 1 .. col.slots |-> Fit(words[e], col.bits, col.isSigned)]
    BY <1>3 DEF DecodeCell
  <2> HIDE DEF cell
  <2>2. again = [e \in 1 .. col.slots |-> Low(cell[e], col.bits)]
    BY <1>3 DEF EncodeCell
  <2>3. words \in [1 .. col.slots -> 0 .. 2^col.bits - 1]
    BY <1>3 DEF IsWords
  <2>4. \A e \in 1 .. col.slots : words[e] \in 0 .. 2^col.bits - 1
    BY <2>3
  <2>5. \A e \in 1 .. col.slots : Low(cell[e], col.bits) = words[e]
    BY <1>3, <2>1, <2>4, NumbersFit
  <2> HIDE DEF again
  <2>6. again = words
    BY <2>2, <2>3, <2>5
  <2> QED BY <2>6 DEF again, cell
<1>4. CASE ~col.noninline /\ col.type = "float"
  BY <1>4 DEF EncodeCell, DecodeCell
<1>5. CASE ~col.noninline /\ col.type = "string"
  <2>1. again = offsets /\ StringSlots(col) = col.slots
    BY <1>5 DEF EncodeCell, StringSlots
  <2>2. words = [e \in 1 .. col.slots |-> words[e]]
    BY <1>5 DEF IsWords
  <2> HIDE DEF again
  <2>3. again = words
    BY <2>1, <2>2
  <2> QED BY <2>3 DEF again
<1>6. CASE ~col.noninline /\ col.type = "locstring"
  <2> DEFINE s == [e \in 1 .. col.slots |-> At(block, words[e])]
  <2>1. cell = Append(s, words[col.slots + 1]) /\ StringSlots(col) = col.slots
    BY <1>6 DEF DecodeCell, StringSlots
  <2>2. s = [e \in 1 .. col.slots |-> s[e]]
    OBVIOUS
  <2> HIDE DEF cell, s
  <2>3. cell[col.slots + 1] = words[col.slots + 1]
    BY <1>1, <2>1, <2>2, AppendedIs
  <2>4. again = Append(offsets, cell[col.slots + 1])
    BY <1>6 DEF EncodeCell
  <2> HIDE DEF again
  <2>5. offsets = [e \in 1 .. col.slots |-> offsets[e]] /\ \A e \in 1 .. col.slots : offsets[e] = words[e]
    BY <2>1
  <2>6. /\ again = [e \in 1 .. col.slots + 1 |-> again[e]]
        /\ (\A e \in 1 .. col.slots : again[e] = offsets[e]) /\ again[col.slots + 1] = words[col.slots + 1]
    <3> DEFINE x == cell[col.slots + 1]
               o == offsets
    <3>1. again = Append(o, x) /\ x = words[col.slots + 1]
      BY <2>3, <2>4
    <3>2. o = [e \in 1 .. col.slots |-> o[e]]
      BY <2>5
    <3> HIDE DEF x, o
    <3>3. /\ Append(o, x) = [e \in 1 .. col.slots + 1 |-> Append(o, x)[e]]
          /\ \A e \in 1 .. col.slots : Append(o, x)[e] = o[e]
          /\ Append(o, x)[col.slots + 1] = x
      BY <1>1, <3>2, AppendedIs
    <3> QED BY <3>1, <3>3 DEF o
  <2>7. \A e \in 1 .. col.slots + 1 : again[e] = words[e]
    <3>1. \A e \in 1 .. col.slots + 1 : e \in 1 .. col.slots \/ e = col.slots + 1
      BY <1>1
    <3> QED BY <2>5, <2>6, <3>1
  <2>8. words = [e \in 1 .. col.slots + 1 |-> words[e]]
    BY <1>6 DEF IsWords
  <2>9. again = words
    BY <2>6, <2>7, <2>8
  <2> QED BY <2>9 DEF again, cell
<1> QED BY <1>1, <1>2, <1>3, <1>4, <1>5, <1>6

-----------------------------------------------------------------------------
(* Rows, and the records they are stored as.                                 *)

IsRows(sch, rs) ==
    /\ Len(rs) \in Nat /\ rs = [r \in 1 .. Len(rs) |-> [c \in DOMAIN sch |-> rs[r][c]]]
    /\ \A r \in 1 .. Len(rs), c \in DOMAIN sch : IsCell(sch[c], rs[r][c])
IsRecords(sch, records, size) ==
    /\ Len(records) \in Nat /\ records = [r \in 1 .. Len(records) |-> [c \in DOMAIN sch |-> records[r][c]]]
    /\ \A r \in 1 .. Len(records), c \in DOMAIN sch : IsWords(sch[c], records[r][c], size)
DecodeRows(sch, records, block) == [r \in DOMAIN records |-> DecodeRow(sch, records[r], block)]

TextGrid(sch, rs) == [r \in 1 .. Len(rs) |-> [c \in DOMAIN sch |-> TextsOf(sch[c], rs[r][c])]]
JournalGrid(sch, records) ==
    [r \in 1 .. Len(records) |-> [c \in DOMAIN sch |-> SubSeq(records[r][c], 1, StringSlots(sch[c]))]]

LEMMA TextsAre ==
    ASSUME NEW sch, IsSchema(sch), NEW rs, IsRows(sch, rs)
    PROVE  /\ Texts(sch, rs) \in Seq(Seq(Nat))
           /\ IsGrid(TextGrid(sch, rs), sch, Len(rs))
           /\ IsLaidOut(Texts(sch, rs), TextGrid(sch, rs), sch, Len(rs))
           /\ \A r \in 1 .. Len(rs), c \in DOMAIN sch : \A e \in 1 .. StringSlots(sch[c]) :
                  TextGrid(sch, rs)[r][c][e] = rs[r][c][e]
<1> DEFINE g == TextGrid(sch, rs)
           n == Len(rs)
<1>1. n \in Nat /\ DOMAIN rs = 1 .. n
  BY DEF IsRows
<1>2. g = [r \in 1 .. n |-> [c \in DOMAIN sch |-> g[r][c]]]
      /\ \A r \in 1 .. n, c \in DOMAIN sch : g[r][c] = TextsOf(sch[c], rs[r][c])
  BY DEF TextGrid
<1>3. ASSUME NEW r \in 1 .. n, NEW c \in DOMAIN sch
      PROVE  /\ g[r][c] \in Seq(Seq(Nat)) /\ Len(g[r][c]) = StringSlots(sch[c])
             /\ \A e \in 1 .. StringSlots(sch[c]) : g[r][c][e] = rs[r][c][e]
  <2>1. IsColumn(sch[c]) /\ IsCell(sch[c], rs[r][c])
    BY DEF IsSchema, IsRows
  <2> HIDE DEF g
  <2> QED BY <1>2, <2>1, TextsOfCell
<1> HIDE DEF n
<1>4. Texts(sch, rs) = FlattenSeq(LinesOf(g, n))
  BY <1>1 DEF Texts, RowTexts, LinesOf, TextGrid, n
<1> HIDE DEF g
<1>5. IsGrid(g, sch, n)
  BY <1>2, <1>3 DEF IsGrid
<1>6. FlattenSeq(LinesOf(g, n)) \in Seq(Seq(Nat)) /\ IsLaidOut(FlattenSeq(LinesOf(g, n)), g, sch, n)
  BY <1>1, <1>3, <1>5, GridIsLaidOut
<1> QED BY <1>3, <1>4, <1>5, <1>6 DEF g, n

LEMMA JournalIs ==
    ASSUME NEW sch, IsSchema(sch), NEW size \in Nat, NEW records, IsRecords(sch, records, size)
    PROVE  /\ Journal(sch, records) \in Seq(0 .. size - 1)
           /\ IsGrid(JournalGrid(sch, records), sch, Len(records))
           /\ IsLaidOut(Journal(sch, records), JournalGrid(sch, records), sch, Len(records))
           /\ \A r \in 1 .. Len(records), c \in DOMAIN sch : \A e \in 1 .. StringSlots(sch[c]) :
                  JournalGrid(sch, records)[r][c][e] = records[r][c][e]
<1> DEFINE g == JournalGrid(sch, records)
           n == Len(records)
<1>1. n \in Nat /\ DOMAIN records = 1 .. n
  BY DEF IsRecords
<1>2. g = [r \in 1 .. n |-> [c \in DOMAIN sch |-> g[r][c]]]
      /\ \A r \in 1 .. n, c \in DOMAIN sch : g[r][c] = SubSeq(records[r][c], 1, StringSlots(sch[c]))
  BY DEF JournalGrid
<1>3. ASSUME NEW r \in 1 .. n, NEW c \in DOMAIN sch
      PROVE  /\ g[r][c] \in Seq(0 .. size - 1) /\ Len(g[r][c]) = StringSlots(sch[c])
             /\ \A e \in 1 .. StringSlots(sch[c]) : g[r][c][e] = records[r][c][e]
  <2>1. IsColumn(sch[c]) /\ IsWords(sch[c], records[r][c], size)
    BY DEF IsSchema, IsRecords
  <2> HIDE DEF g
  <2> DEFINE words == records[r][c]
             m == StringSlots(sch[c])
             x == SubSeq(words, 1, m)
  <2>2. g[r][c] = x
    BY <1>2
  <2> HIDE DEF words
  <2>3. x \in Seq(0 .. size - 1) /\ Len(x) = m /\ \A e \in 1 .. m : x[e] = words[e]
    BY <2>1, OffsetsOfWords DEF words
  <2> HIDE DEF x, m
  <2> QED BY <2>2, <2>3 DEF words, m
<1> HIDE DEF n
<1>4. Journal(sch, records) = FlattenSeq(LinesOf(g, n))
  BY <1>1 DEF Journal, LinesOf, JournalGrid, n
<1> HIDE DEF g
<1>5. IsGrid(g, sch, n)
  BY <1>2, <1>3 DEF IsGrid
<1>6. FlattenSeq(LinesOf(g, n)) \in Seq(0 .. size - 1) /\ IsLaidOut(FlattenSeq(LinesOf(g, n)), g, sch, n)
  <2> DEFINE T == 0 .. size - 1
  <2>1. \A r \in 1 .. n, c \in DOMAIN sch : g[r][c] \in Seq(T)
    BY <1>3
  <2> HIDE DEF T
  <2>2. FlattenSeq(LinesOf(g, n)) \in Seq(T) /\ IsLaidOut(FlattenSeq(LinesOf(g, n)), g, sch, n)
    BY <1>1, <1>5, <2>1, GridIsLaidOut
  <2> QED BY <2>2 DEF T
<1> QED BY <1>3, <1>4, <1>5, <1>6 DEF g, n

\* What the readers make of the records are rows.
LEMMA DecodedRows ==
    ASSUME NEW sch, IsSchema(sch), NEW size \in Nat, NEW records, IsRecords(sch, records, size),
           NEW block, IsBlock(block)
    PROVE  LET rs == DecodeRows(sch, records, block)
           IN  /\ IsRows(sch, rs) /\ Len(rs) = Len(records)
               /\ \A r \in 1 .. Len(records), c \in DOMAIN sch :
                     /\ rs[r][c] = DecodeCell(sch[c], records[r][c], block)
                     /\ \A e \in 1 .. StringSlots(sch[c]) : rs[r][c][e] = At(block, records[r][c][e])
<1> DEFINE rs == DecodeRows(sch, records, block)
           n == Len(records)
<1>1. n \in Nat /\ DOMAIN records = 1 .. n
  BY DEF IsRecords
<1>2. rs = [r \in 1 .. n |-> [c \in DOMAIN sch |-> DecodeCell(sch[c], records[r][c], block)]]
  BY <1>1 DEF DecodeRows, DecodeRow
<1>3. Len(rs) = n
  <2> HIDE DEF rs
  <2>1. \E T : rs \in Seq(T) /\ Len(rs) = n
    <3>1. rs = [r \in 1 .. n |-> rs[r]]
      BY <1>2
    <3> HIDE DEF n
    <3> QED BY <1>1, <3>1, FunctionIsSeq
  <2> QED BY <2>1
<1> HIDE DEF rs
<1>4. \A r \in 1 .. n, c \in DOMAIN sch : rs[r][c] = DecodeCell(sch[c], records[r][c], block)
  BY <1>2
<1>5. rs = [r \in 1 .. n |-> [c \in DOMAIN sch |-> rs[r][c]]]
  BY <1>2
<1>6. ASSUME NEW r \in 1 .. n, NEW c \in DOMAIN sch
      PROVE  /\ IsCell(sch[c], rs[r][c])
             /\ \A e \in 1 .. StringSlots(sch[c]) : rs[r][c][e] = At(block, records[r][c][e])
  <2>1. IsColumn(sch[c]) /\ IsWords(sch[c], records[r][c], size)
    BY DEF IsSchema, IsRecords
  <2>2. /\ IsCell(sch[c], rs[r][c])
        /\ ~sch[c].noninline => \A e \in 1 .. StringSlots(sch[c]) : rs[r][c][e] = At(block, records[r][c][e])
    BY <1>4, <2>1, DecodeCellIs
  <2>3. sch[c].noninline => StringSlots(sch[c]) = 0
    BY DEF StringSlots
  <2> QED BY <2>2, <2>3
<1> QED BY <1>1, <1>3, <1>4, <1>5, <1>6 DEF IsRows, rs

\* The end of a line lies in the whole.
LEMMA LineEnds ==
    ASSUME NEW sch, IsSchema(sch), NEW n \in Nat, NEW g, NEW flat, IsLaidOut(flat, g, sch, n), NEW r \in 1 .. n,
           Len(flat) \in Nat
    PROVE  /\ TextsPerRow(sch) \in Nat
           /\ (r - 1) * TextsPerRow(sch) \in Nat
           /\ r * TextsPerRow(sch) = (r - 1) * TextsPerRow(sch) + TextsPerRow(sch)
           /\ r * TextsPerRow(sch) <= Len(flat)
<1> DEFINE width == TextsPerRow(sch)
           lines == LinesOf(g, n)
<1>1. width \in Nat
  BY TextsUpToIs, SchemaIs DEF TextsPerRow
<1>2. EndToEnd(flat, lines, LineStarts(sch, n), n) /\ Len(lines[r]) = width
  BY DEF IsLaidOut
<1>3. LineStarts(sch, n)[r - 1] = (r - 1) * width
  BY DEF LineStarts
<1> HIDE DEF width, lines
<1>4. r * width = (r - 1) * width + width /\ (r - 1) * width \in Nat
  BY <1>1
<1>5. CASE width = 0
  <2>1. r * width = 0
    BY <1>5
  <2> QED BY <1>1, <1>4, <2>1 DEF width
<1>6. CASE width # 0
  <2>1. width \in 1 .. Len(lines[r])
    BY <1>1, <1>2, <1>6
  <2>2. (r - 1) * width + width \in 1 .. Len(flat)
    BY <1>2, <1>3, <2>1 DEF EndToEnd
  <2> QED BY <1>1, <1>4, <2>2 DEF width
<1> QED BY <1>5, <1>6

\* The offsets a column of a row is written with.
CellOffsets(sch, offsets, r, c) == [e \in 1 .. StringSlots(sch[c]) |-> offsets[Place(sch, r, c, e)]]

LEMMA OffsetsOfCell ==
    ASSUME NEW sch, IsSchema(sch), NEW n \in Nat, NEW g, IsGrid(g, sch, n), NEW flat, IsLaidOut(flat, g, sch, n),
           NEW offsets \in Seq(Nat), Len(offsets) = Len(flat), NEW r \in 1 .. n, NEW c \in DOMAIN sch
    PROVE  LET first == TextsBefore(sch, c)
               width == TextsPerRow(sch)
           IN  SubSeq(SubSeq(offsets, (r - 1) * width + 1, r * width), first + 1, first + StringSlots(sch[c]))
                   = CellOffsets(sch, offsets, r, c)
<1> DEFINE first == TextsBefore(sch, c)
           width == TextsPerRow(sch)
           base  == (r - 1) * width
           m     == StringSlots(sch[c])
           line  == SubSeq(offsets, (r - 1) * width + 1, r * width)
           part  == SubSeq(line, first + 1, first + m)
<1>1. Len(flat) \in Nat
  BY Elements
<1>2. width \in Nat /\ base \in Nat /\ r * width = base + width /\ base + width <= Len(offsets)
  BY <1>1, LineEnds
<1>3. m \in Nat /\ first \in Nat /\ first = TextsUpTo(sch)[c - 1]
  <2>1. c \in 1 .. Len(sch) /\ Len(sch) \in Nat /\ m \in Nat
    BY SchemaIs
  <2>2. c - 1 \in 0 .. Len(sch)
    BY <2>1
  <2> QED BY <2>1, <2>2, TextsUpToIs DEF TextsBefore
<1>4. m > 0 => first + m <= width
  <2>1. SUFFICES ASSUME m > 0 PROVE first + m <= width
    OBVIOUS
  <2>2. m \in 1 .. m
    BY <1>3, <2>1
  <2>3. first + m \in 1 .. width
    BY <1>3, <2>2, PlaceInGrid
  <2> QED BY <2>3
<1>5. \A e \in 1 .. m : Place(sch, r, c, e) = base + (first + e)
  BY <1>3 DEF Place
<1>6. CellOffsets(sch, offsets, r, c) = [e \in 1 .. m |-> offsets[base + (first + e)]]
  BY <1>5 DEF CellOffsets
<1> HIDE DEF base, width, first, m
<1>7. /\ line \in Seq(Nat) /\ Len(line) = width
      /\ \A i \in 1 .. width : line[i] = offsets[base + i]
  <2>1. line = SubSeq(offsets, base + 1, base + width)
    BY <1>2 DEF base
  <2>2. base + 1 \in Nat /\ base + width \in Nat /\ base + 1 >= 1 /\ base + 1 <= (base + width) + 1
    BY <1>2
  <2> HIDE DEF line
  <2>3. /\ line \in Seq(Nat) /\ Len(line) = (base + width) - (base + 1) + 1
        /\ \A i \in 1 .. (base + width) - (base + 1) + 1 : line[i] = offsets[(base + 1) + i - 1]
    BY <1>2, <2>1, <2>2, SubSeqIs
  <2>4. (base + width) - (base + 1) + 1 = width /\ \A i \in 1 .. width : (base + 1) + i - 1 = base + i
    BY <1>2
  <2> QED BY <2>3, <2>4
<1> HIDE DEF line
<1>8. CASE m = 0
  <2>1. first + 1 \in Nat /\ first + m \in Nat /\ first + 1 > first + m
    BY <1>3, <1>8
  <2>2. part = <<>>
    BY <1>7, <2>1, EmptyPiece
  <2>3. <<>> = [e \in 1 .. m |-> offsets[base + (first + e)]]
    BY <1>8
  <2> QED BY <1>6, <2>2, <2>3 DEF line, base, width, first, m
<1>9. CASE m > 0
  <2>1. /\ first + 1 \in Nat /\ first + m \in Nat /\ first + 1 >= 1 /\ first + m <= Len(line)
        /\ first + 1 <= (first + m) + 1
    BY <1>3, <1>4, <1>7, <1>9
  <2>2. /\ part \in Seq(Nat) /\ Len(part) = (first + m) - (first + 1) + 1
        /\ \A i \in 1 .. (first + m) - (first + 1) + 1 : part[i] = line[(first + 1) + i - 1]
    BY <1>7, <2>1, SubSeqIs
  <2>3. (first + m) - (first + 1) + 1 = m /\ \A i \in 1 .. m : (first + 1) + i - 1 = first + i
    BY <1>3
  <2> HIDE DEF part
  <2>4. Len(part) = m /\ \A i \in 1 .. m : part[i] = line[first + i]
    BY <2>2, <2>3
  <2>5. \A i \in 1 .. m : first + i \in 1 .. width
    BY <1>2, <1>3, <1>4, <1>9
  <2>6. \A i \in 1 .. m : part[i] = offsets[base + (first + i)]
    BY <1>7, <2>4, <2>5
  <2>7. part = [i \in 1 .. m |-> part[i]]
    BY <2>2, <2>4
  <2>8. part = [e \in 1 .. m |-> offsets[base + (first + e)]]
    BY <2>6, <2>7
  <2> QED BY <1>6, <2>8 DEF part, line, base, width, first, m
<1>10. m = 0 \/ m > 0
  BY <1>3
<1> QED BY <1>8, <1>9, <1>10, Zenon

-----------------------------------------------------------------------------
(* Blocks whose texts are kept apart: what they are written as reads as them.*)

Apart(block, i, j) ==
    i < j => block.entries[i].offset + Len(block.entries[i].value) < block.entries[j].offset
Separated(block) ==
    /\ IsBlock(block)
    /\ \A i \in DOMAIN block.entries :
          /\ \A k \in 1 .. Len(block.entries[i].value) : block.entries[i].value[k] # NUL
          /\ block.entries[i].offset + Len(block.entries[i].value) < block.size
    /\ \A i, j \in DOMAIN block.entries : Apart(block, i, j)

\* One entry lies over a byte at most, and none over the byte behind an entry.
LEMMA OneLiesOver ==
    ASSUME NEW block, Separated(block), NEW i \in 1 .. Len(block.entries)
    PROVE  LET entry == block.entries[i]
           IN  /\ \A k \in 1 .. Len(entry.value) :
                     /\ entry.offset + k \in 1 .. block.size
                     /\ WriteBlock(block)[entry.offset + k] = entry.value[k]
               /\ entry.offset + Len(entry.value) + 1 \in 1 .. block.size
               /\ WriteBlock(block)[entry.offset + Len(entry.value) + 1] = NUL
<1> DEFINE n == Len(block.entries)
           off(j) == block.entries[j].offset
           len(j) == Len(block.entries[j].value)
           b == WriteBlock(block)
<1>1. IsBlock(block)
  BY DEF Separated
<1>2. /\ n \in Nat /\ DOMAIN block.entries = 1 .. n /\ block.size \in Nat
      /\ \A j \in 1 .. n : off(j) \in Nat /\ len(j) \in Nat
  BY <1>1, BlockIs
<1>3. /\ \A j \in 1 .. n : off(j) + len(j) < block.size
      /\ \A j, k \in 1 .. n : j < k => off(j) + len(j) < off(k)
  BY <1>2 DEF Separated, Apart
<1>4. \A q \in 1 .. block.size : b[q] = ByteAt(block, q)
  BY <1>1, WriteIs
<1>5. \A q, j : j \in LaidOver(block, q) <=> j \in 1 .. n /\ q - 1 - off(j) \in 0 .. len(j) - 1
  BY <1>2 DEF LaidOver
<1>6. \A q, j : j \in LaidOver(block, q) => j \in 1 .. n
  BY <1>5
<1> HIDE DEF off, len, n, b
<1>7. ASSUME NEW k \in 1 .. len(i)
      PROVE  off(i) + k \in 1 .. block.size /\ b[off(i) + k] = block.entries[i].value[k]
  <2> DEFINE q == off(i) + k
  <2>1. i \in 1 .. n /\ off(i) \in Nat /\ len(i) \in Nat /\ off(i) + len(i) < block.size
    BY <1>2, <1>3 DEF n
  <2>2. q \in 1 .. block.size /\ q \in Nat /\ off(i) < q /\ q <= off(i) + len(i)
    BY <1>2, <2>1
  <2> HIDE DEF q
  <2>3. q - 1 - off(i) \in 0 .. len(i) - 1
    BY <2>1, <2>2
  <2>4. i \in LaidOver(block, q)
    BY <1>5, <2>1, <2>3
  <2>5. ASSUME NEW j \in 1 .. n, j # i, j \in LaidOver(block, q) PROVE FALSE
    <3>1. off(j) \in Nat /\ len(j) \in Nat /\ q - 1 - off(j) \in 0 .. len(j) - 1
      BY <1>2, <1>5, <2>5
    <3>2. off(j) < q /\ q <= off(j) + len(j)
      BY <2>2, <3>1
    <3>3. CASE j < i
      <4>1. off(j) + len(j) < off(i)
        BY <1>3, <2>1, <3>3
      <4> QED BY <2>1, <2>2, <3>1, <3>2, <4>1
    <3>4. CASE i < j
      <4>1. off(i) + len(i) < off(j)
        BY <1>3, <2>1, <3>4
      <4> QED BY <2>1, <2>2, <3>1, <3>2, <4>1
    <3> QED BY <1>2, <2>1, <2>5, <3>3, <3>4
  <2>6. LaidOver(block, q) # {} /\ Max(LaidOver(block, q)) \in LaidOver(block, q)
        /\ ByteAt(block, q) = block.entries[Max(LaidOver(block, q))].value[q - block.entries[Max(LaidOver(block, q))].offset]
    BY <1>1, <2>2, <2>4, TopEntry
  <2>7. Max(LaidOver(block, q)) = i
    BY <1>6, <2>5, <2>6
  <2>8. ByteAt(block, q) = block.entries[i].value[q - off(i)]
    BY <2>6, <2>7 DEF off
  <2>9. q - off(i) = k
    BY <2>1 DEF q
  <2>10. b[q] = block.entries[i].value[k]
    BY <1>4, <2>2, <2>8, <2>9
  <2> QED BY <2>2, <2>10 DEF q
<1>8. off(i) + len(i) + 1 \in 1 .. block.size /\ b[off(i) + len(i) + 1] = NUL
  <2> DEFINE q == off(i) + len(i) + 1
  <2>1. i \in 1 .. n /\ off(i) \in Nat /\ len(i) \in Nat /\ off(i) + len(i) < block.size
    BY <1>2, <1>3 DEF n
  <2>2. q \in 1 .. block.size /\ q \in Nat /\ q = off(i) + len(i) + 1
    BY <1>2, <2>1
  <2> HIDE DEF q
  <2>3. ASSUME NEW j \in 1 .. n, j \in LaidOver(block, q) PROVE FALSE
    <3>1. off(j) \in Nat /\ len(j) \in Nat /\ q - 1 - off(j) \in 0 .. len(j) - 1
      BY <1>2, <1>5, <2>3
    <3>2. off(j) < q /\ q <= off(j) + len(j)
      BY <2>2, <3>1
    <3>3. CASE j < i
      <4>1. off(j) + len(j) < off(i)
        BY <1>3, <2>1, <3>3
      <4> QED BY <2>1, <2>2, <3>1, <3>2, <4>1
    <3>4. CASE i < j
      <4>1. off(i) + len(i) < off(j)
        BY <1>3, <2>1, <3>4
      <4> QED BY <2>1, <2>2, <3>1, <3>2, <4>1
    <3>5. CASE i = j
      BY <2>1, <2>2, <3>2, <3>5
    <3> QED BY <1>2, <2>1, <3>3, <3>4, <3>5
  <2>4. LaidOver(block, q) = {}
    BY <1>6, <2>3
  <2>5. b[q] = NUL
    BY <1>4, <2>2, <2>4 DEF ByteAt
  <2> QED BY <2>2, <2>5 DEF q
<1> QED BY <1>7, <1>8 DEF off, len, b

\* A byte that is not zero has an entry over it.
LEMMA SomeLiesOver ==
    ASSUME NEW block, IsBlock(block), NEW p \in 1 .. block.size, WriteBlock(block)[p] # NUL
    PROVE  \E i \in 1 .. Len(block.entries) :
               block.entries[i].offset < p /\ p <= block.entries[i].offset + Len(block.entries[i].value)
<1>1. LaidOver(block, p) # {}
  BY WriteIs DEF ByteAt
<1>2. PICK i \in LaidOver(block, p) : TRUE
  BY <1>1
<1>3. /\ DOMAIN block.entries = 1 .. Len(block.entries) /\ block.size \in Nat
      /\ \A j \in 1 .. Len(block.entries) : block.entries[j].offset \in Nat /\ Len(block.entries[j].value) \in Nat
  BY BlockIs
<1>4. i \in 1 .. Len(block.entries) /\ p - 1 - block.entries[i].offset \in 0 .. Len(block.entries[i].value) - 1
  BY <1>3 DEF LaidOver
<1>5. block.entries[i].offset \in Nat /\ Len(block.entries[i].value) \in Nat
  BY <1>3, <1>4
<1> DEFINE o == block.entries[i].offset
           l == Len(block.entries[i].value)
<1> HIDE DEF o, l
<1>6. o < p /\ p <= o + l
  <2>1. o \in Nat /\ l \in Nat /\ p - 1 - o \in 0 .. l - 1 /\ p \in Nat
    BY <1>3, <1>4, <1>5 DEF o, l
  <2> QED BY <2>1
<1> QED BY <1>4, <1>6 DEF o, l

\* The rest of a text, in the bytes it lies in.
LEMMA SamePiece ==
    ASSUME NEW v \in Seq(Nat), NEW b \in Seq(Nat), NEW off \in Nat, NEW p \in Nat, off < p,
           p <= off + Len(v), off + Len(v) <= Len(b), \A k \in 1 .. Len(v) : b[off + k] = v[k]
    PROVE  SubSeq(b, p, off + Len(v)) = SubSeq(v, p - off, Len(v))
<1> DEFINE n == Len(v)
           e == off + n
           a == p - off
           x == SubSeq(b, p, e)
           y == SubSeq(v, a, n)
<1>1. n \in Nat /\ e \in Nat /\ a \in Nat /\ a >= 1 /\ a <= n + 1 /\ p >= 1 /\ p <= e + 1 /\ e <= Len(b) /\ n <= Len(v)
  OBVIOUS
<1>2. x \in Seq(Nat) /\ Len(x) = e - p + 1 /\ \A i \in 1 .. e - p + 1 : x[i] = b[p + i - 1]
  <2> HIDE DEF e
  <2> QED BY <1>1, SubSeqIs
<1>3. y \in Seq(Nat) /\ Len(y) = n - a + 1 /\ \A i \in 1 .. n - a + 1 : y[i] = v[a + i - 1]
  <2> HIDE DEF n, a
  <2> QED BY <1>1, SubSeqIs
<1> HIDE DEF x, y, n
<1>4. n - a + 1 = e - p + 1
  BY <1>1
<1>5. ASSUME NEW i \in 1 .. e - p + 1 PROVE x[i] = y[i]
  <2>1. a + i - 1 \in 1 .. n /\ off + (a + i - 1) = p + i - 1
    BY <1>1
  <2>2. b[off + (a + i - 1)] = v[a + i - 1]
    BY <2>1 DEF n
  <2> HIDE DEF a, e
  <2> QED BY <1>2, <1>3, <1>4, <2>1, <2>2
<1> HIDE DEF a, e
<1>6. \A i \in 1 .. Len(x) : x[i] = y[i]
  BY <1>2, <1>5
<1>7. x = y
  BY <1>2, <1>3, <1>4, <1>6, SeqsAreEqual
<1> QED BY <1>7 DEF x, y, a, e, n

\* Every offset leads, in the bytes, to what it leads to in the block.
LEMMA SeparatedReads ==
    ASSUME NEW block, Separated(block), NEW offset \in Nat
    PROVE  RunAt(WriteBlock(block), offset) = At(block, offset)
<1> DEFINE b == WriteBlock(block)
           n == Len(block.entries)
           p == offset + 1
           S == AtOrBefore(block, offset)
<1>1. IsBlock(block)
  BY DEF Separated
<1>2. /\ n \in Nat /\ DOMAIN block.entries = 1 .. n /\ block.size \in Nat
      /\ \A i \in 1 .. n : /\ block.entries[i].offset \in Nat /\ Len(block.entries[i].value) \in Nat
                           /\ block.entries[i].value \in Seq(Nat)
  BY <1>1, BlockIs
<1>3. b \in Seq(Nat) /\ Len(b) = block.size
  BY <1>1, WriteIs
<1>4. S \in SUBSET (1 .. n)
  BY <1>2 DEF AtOrBefore
<1>5. CASE S = {}
  <2>1. ~(p <= Len(b) /\ b[p] # NUL)
    <3> SUFFICES ASSUME p <= Len(b), b[p] # NUL PROVE FALSE
      OBVIOUS
    <3>1. p \in 1 .. block.size
      BY <1>2, <1>3
    <3>2. PICK i \in 1 .. n : block.entries[i].offset < p
      BY <1>1, <3>1, SomeLiesOver
    <3>3. block.entries[i].offset <= offset
      BY <1>2, <3>2
    <3>4. i \in S
      BY <1>2, <3>3 DEF AtOrBefore
    <3> QED BY <1>5, <3>4
  <2> QED BY <1>5, <2>1 DEF At, RunAt
<1>6. CASE S # {}
  <2> DEFINE m == Max(S)
             o == block.entries[m].offset
             v == block.entries[m].value
             l == Len(v)
  <2>1. m \in S /\ \A i \in S : m >= i
    BY <1>2, <1>4, <1>6, GreatestPosition
  <2>2. m \in 1 .. n /\ o <= offset
    BY <1>2, <2>1 DEF AtOrBefore
  <2>3. At(block, offset) = SubSeq(v, offset - o + 1, l)
    BY <1>6 DEF At
  <2> HIDE DEF m
  <2>4. /\ \A k \in 1 .. l : o + k \in 1 .. block.size /\ b[o + k] = v[k]
        /\ o + l + 1 \in 1 .. block.size /\ b[o + l + 1] = NUL
    BY <2>2, OneLiesOver
  <2>5. o \in Nat /\ v \in Seq(Nat) /\ l \in Nat
    BY <1>2, <2>2
  <2>6. \A k \in 1 .. l : v[k] # NUL
    BY <1>2, <2>2 DEF Separated
  <2> HIDE DEF o, v
  <2>7. CASE p <= o + l
    <3>1. p \in 1 .. Len(b) /\ o < p /\ o + l <= Len(b) /\ p \in Nat /\ offset - o + 1 = p - o
      BY <1>2, <1>3, <2>2, <2>4, <2>5, <2>7
    <3>2. SubSeq(b, p, o + l) = SubSeq(v, p - o, l)
      <4> HIDE DEF b, p
      <4> QED BY <1>3, <2>4, <2>5, <2>7, <3>1, SamePiece
    <3>3. IsRun(b, p, o + l)
      <4>1. \A q \in p .. o + l : b[q] # NUL
        <5>1. TAKE q \in p .. o + l
        <5>2. q - o \in 1 .. l /\ o + (q - o) = q
          BY <2>5, <3>1
        <5> QED BY <2>4, <2>6, <5>2
      <4>2. o + l \in p .. Len(b)
        BY <1>2, <1>3, <2>4, <2>5, <2>7, <3>1
      <4> QED BY <2>4, <4>1, <4>2 DEF IsRun
    <3>4. b[p] # NUL
      <4>1. p \in p .. o + l
        BY <2>5, <2>7, <3>1
      <4> QED BY <3>3, <4>1 DEF IsRun
    <3>5. PICK f : IsRun(b, p, f) /\ RunFrom(b, p) = SubSeq(b, p, f)
      BY <1>3, <3>1, <3>4, RunFromIs
    <3>6. o + l = f
      <4>1. p <= p /\ p <= o + l
        BY <2>7
      <4> HIDE DEF b, p
      <4> QED BY <1>3, <3>1, <3>3, <3>5, <4>1, RunIsOne
    <3>7. RunAt(b, offset) = RunFrom(b, p)
      BY <3>1, <3>4 DEF RunAt
    <3> QED BY <2>3, <3>1, <3>2, <3>5, <3>6, <3>7
  <2>8. CASE p > o + l
    <3>1. offset - o + 1 \in Nat /\ offset - o + 1 > l
      BY <2>2, <2>5, <2>8
    <3>2. At(block, offset) = <<>>
      BY <2>3, <2>5, <3>1, EmptyPiece
    <3>3. ~(p <= Len(b) /\ b[p] # NUL)
      <4> SUFFICES ASSUME p <= Len(b), b[p] # NUL PROVE FALSE
        OBVIOUS
      <4>1. p \in 1 .. block.size
        BY <1>2, <1>3
      <4>2. PICK i \in 1 .. n :
                block.entries[i].offset < p /\ p <= block.entries[i].offset + Len(block.entries[i].value)
        BY <1>1, <4>1, SomeLiesOver
      <4> DEFINE oi == block.entries[i].offset
                 li == Len(block.entries[i].value)
      <4>3. oi \in Nat /\ li \in Nat /\ oi < p /\ p <= oi + li
        BY <1>2, <4>2
      <4>4. i \in S /\ i <= m
        <5>1. oi <= offset
          BY <4>3
        <5>2. i \in S
          BY <1>2, <5>1 DEF AtOrBefore
        <5> QED BY <2>1, <5>2, <1>2, <2>2
      <4>5. CASE i = m
        BY <2>5, <2>8, <4>3, <4>5 DEF o, v
      <4>6. CASE i < m
        <5>1. oi + li < o
          BY <1>2, <2>2, <4>6 DEF Separated, Apart, o
        <5> HIDE DEF oi, li
        <5> QED BY <2>2, <2>5, <4>3, <5>1
      <4> QED BY <2>2, <4>4, <4>5, <4>6
    <3> QED BY <3>2, <3>3 DEF RunAt
  <2> QED BY <2>5, <2>7, <2>8
<1> QED BY <1>5, <1>6

NulFree(text) == \A k \in 1 .. Len(text) : text[k] # NUL

LEMMA AddKeepsApart ==
    ASSUME NEW block, Separated(block), NEW text \in Seq(Nat), NulFree(text)
    PROVE  Separated(Add(block, text))
<1> DEFINE new == Add(block, text)
           n   == Len(block.entries)
<1>1. IsBlock(block)
  BY DEF Separated
<1>2. /\ n \in Nat /\ DOMAIN block.entries = 1 .. n
      /\ block.size \in Nat /\ new.size \in Nat /\ new.size > block.size
      /\ DOMAIN new.entries = 1 .. n + 1
      /\ \A i \in 1 .. n : new.entries[i] = block.entries[i]
      /\ new.entries[n + 1] = [offset |-> block.size, value |-> text]
  BY <1>1, AddedEntries
<1>3. IsBlock(new)
  BY <1>1, AddKeepsBlock
<1>4. new.size = block.size + Len(text) + 1 /\ Len(text) \in Nat
  BY DEF Add
<1>5. \A i \in 1 .. n : /\ NulFree(block.entries[i].value)
                        /\ block.entries[i].offset + Len(block.entries[i].value) < block.size
  BY <1>2 DEF Separated, NulFree
<1>6. \A i \in 1 .. n : block.entries[i].offset \in Nat /\ Len(block.entries[i].value) \in Nat
  BY <1>1, BlockIs
<1> HIDE DEF new, n
<1>7. \A i \in 1 .. n + 1 : i \in 1 .. n \/ i = n + 1
  BY <1>2
<1>8. new.entries[n + 1].offset = block.size /\ new.entries[n + 1].value = text
  BY <1>2
<1>9. ASSUME NEW i \in 1 .. n + 1
      PROVE  NulFree(new.entries[i].value) /\ new.entries[i].offset + Len(new.entries[i].value) < new.size
  <2>1. CASE i \in 1 .. n
    <3>1. new.entries[i] = block.entries[i]
      BY <1>2, <2>1
    <3>2. block.entries[i].offset + Len(block.entries[i].value) < new.size
      BY <1>2, <1>5, <1>6, <2>1
    <3> QED BY <1>5, <2>1, <3>1, <3>2
  <2>2. CASE i = n + 1
    BY <1>2, <1>4, <1>8, <2>2
  <2> QED BY <1>7, <2>1, <2>2
<1>10. ASSUME NEW i \in 1 .. n + 1, NEW j \in 1 .. n + 1, i < j
       PROVE  new.entries[i].offset + Len(new.entries[i].value) < new.entries[j].offset
  <2>1. i \in 1 .. n /\ new.entries[i] = block.entries[i]
    BY <1>2, <1>10
  <2>2. CASE j \in 1 .. n
    <3>1. new.entries[j] = block.entries[j]
      BY <1>2, <2>2
    <3>2. Apart(block, i, j)
      BY <1>2, <2>1, <2>2 DEF Separated
    <3> QED BY <1>10, <2>1, <3>1, <3>2 DEF Apart
  <2>3. CASE j = n + 1
    BY <1>5, <1>8, <2>1, <2>3
  <2> QED BY <1>7, <2>2, <2>3
<1> QED BY <1>2, <1>3, <1>9, <1>10 DEF Separated, Apart, NulFree, new

LEMMA NoStringsIs == IsBlock(NoStrings) /\ Separated(NoStrings)
<1>1. NoStrings.entries = <<>> /\ NoStrings.size = 0 /\ DOMAIN NoStrings.entries = {}
  BY DEF NoStrings
<1>2. NoStrings \in [entries : Seq([offset : Nat, value : Seq(Nat)]), size : Nat]
  BY DEF NoStrings
<1> QED BY <1>1, <1>2 DEF IsBlock, Separated

\* The runs of terminated bytes end in a zero byte.
LEMMA ReadIsApart ==
    ASSUME NEW bytes \in Seq(Nat), Terminated(ReadBlock(bytes))
    PROVE  Separated(ReadBlock(bytes))
<1> DEFINE block == ReadBlock(bytes)
           n == Len(block.entries)
           size == Len(bytes)
<1>1. IsBlock(block) /\ block.size = size /\ size \in Nat /\ WriteBlock(block) = bytes
  BY ReadIsBlock, ReadBlockIs, WriteGivesRead
<1>2. DOMAIN block.entries = 1 .. n /\ n \in Nat
  BY <1>1, BlockIs
<1>3. size = 0 \/ bytes[size] = NUL
  BY <1>1 DEF Terminated
<1>4. ASSUME NEW i \in 1 .. n
      PROVE  LET entry == block.entries[i]
                 e     == entry.offset + Len(entry.value)
             IN  /\ entry.offset \in Nat /\ Len(entry.value) \in Nat
                 /\ NulFree(entry.value) /\ e < size /\ bytes[e + 1] = NUL
                 /\ \A q \in entry.offset + 1 .. e : bytes[q] # NUL
  <2> DEFINE entry == block.entries[i]
             o == entry.offset
             v == entry.value
             s == o + 1
  <2>1. /\ entry \in Entries /\ s \in 1 .. size
        /\ \E e : /\ IsRun(bytes, s, e) /\ Len(v) = e - s + 1
                  /\ \A k \in 1 .. Len(v) : v[k] = bytes[s + k - 1]
    BY <1>2, EntryIsRun
  <2>2. PICK e : /\ IsRun(bytes, s, e) /\ Len(v) = e - s + 1
                 /\ \A k \in 1 .. Len(v) : v[k] = bytes[s + k - 1]
    BY <2>1
  <2>3. o \in Nat /\ v \in Seq(Nat)
    BY <2>1 DEF Entries
  <2>4. Len(v) \in Nat
    BY <2>3
  <2>5. e \in s .. size /\ (\A q \in s .. e : bytes[q] # NUL) /\ (e = size \/ bytes[e + 1] = NUL)
    BY <2>2 DEF IsRun
  <2> HIDE DEF o, v
  <2>6. e \in Nat /\ e = o + Len(v) /\ e <= size /\ e >= s
    BY <1>1, <2>2, <2>3, <2>4, <2>5
  <2>7. e # size
    <3> SUFFICES ASSUME e = size PROVE FALSE
      OBVIOUS
    <3>1. e \in s .. e /\ size # 0
      BY <2>3, <2>6
    <3> QED BY <1>3, <2>5, <3>1
  <2>8. NulFree(v)
    <3>1. ASSUME NEW k \in 1 .. Len(v) PROVE v[k] # NUL
      <4>1. s + k - 1 \in s .. e /\ v[k] = bytes[s + k - 1]
        BY <2>2, <2>3, <2>4, <2>6
      <4> QED BY <2>5, <4>1
    <3> QED BY <3>1 DEF NulFree
  <2>9. e < size /\ bytes[e + 1] = NUL
    BY <1>1, <2>5, <2>6, <2>7
  <2> QED BY <2>3, <2>4, <2>5, <2>6, <2>8, <2>9 DEF o, v
<1>5. ASSUME NEW i \in 1 .. n, NEW j \in 1 .. n PROVE Apart(block, i, j)
  <2> DEFINE o == block.entries[i].offset
             l == Len(block.entries[i].value)
             t == block.entries[j].offset
  <2> SUFFICES ASSUME i < j PROVE o + l < t
    BY DEF Apart
  <2>1. o < t /\ o \in Nat /\ l \in Nat /\ t \in Nat
    <3>1. o < t
      BY <1>1, <1>2 DEF IsBlock
    <3> QED BY <1>4, <3>1
  <2>2. \A q \in o + 1 .. o + l : bytes[q] # NUL
    BY <1>4
  <2>3. t + 1 \in RunStarts(bytes)
    BY <1>2, EntryIsRun
  <2> HIDE DEF o, l, t
  <2>4. bytes[t] = NUL
    <3>1. t + 1 # 1 /\ (t + 1) - 1 = t
      BY <2>1
    <3> QED BY <2>3, <3>1 DEF RunStarts
  <2>5. ~(t <= o + l)
    <3> SUFFICES ASSUME t <= o + l PROVE FALSE
      OBVIOUS
    <3>1. t \in o + 1 .. o + l
      BY <2>1
    <3> QED BY <2>2, <2>4, <3>1
  <2> QED BY <2>1, <2>5
<1> HIDE DEF block, n
<1>6. \A i \in 1 .. n : /\ NulFree(block.entries[i].value)
                        /\ block.entries[i].offset + Len(block.entries[i].value) < block.size
  BY <1>1, <1>4
<1> QED BY <1>1, <1>2, <1>5, <1>6 DEF Separated, NulFree, block

\* A table's texts without zero bytes leave a pool that is kept apart.
LEMMA AllApart ==
    ASSUME NEW block, Separated(block), NEW texts \in Seq(Seq(Nat)), NEW journal,
           \A j \in 1 .. Len(texts) : NulFree(texts[j])
    PROVE  Separated(ResolveAll(block, texts, journal).pool)
<1> DEFINE after == Resolutions(block, texts, journal)
           T == {k \in 0 .. Len(texts) : Separated(after[k].pool)}
<1>1. Len(texts) \in Nat
  OBVIOUS
<1>2. /\ after[0] = [pool |-> Pool(block), offsets |-> <<>>]
      /\ \A k \in 1 .. Len(texts) : after[k] = Extend(after[k - 1], texts[k], journal)
  BY <1>1, ResolutionsAre
<1> HIDE DEF after
<1>3. 0 \in T
  <2>1. NulFree(<<>>) /\ <<>> \in Seq(Nat)
    BY DEF NulFree
  <2>2. Separated(Pool(block))
    BY <2>1, AddKeepsApart DEF Pool
  <2> QED BY <1>1, <1>2, <2>2
<1>4. ASSUME NEW k \in 0 .. Len(texts) - 1, k \in T PROVE k + 1 \in T
  <2>1. k + 1 \in 1 .. Len(texts) /\ k + 1 \in 0 .. Len(texts) /\ (k + 1) - 1 = k
    BY <1>1
  <2> DEFINE pool == after[k].pool
             r == Resolve(pool, texts[k + 1], Len(after[k].offsets) + 1, journal)
  <2>2. after[k + 1] = Extend(after[k], texts[k + 1], journal)
    BY <1>2, <2>1
  <2>3. after[k + 1].pool = r.pool
    BY <2>2 DEF Extend
  <2>4. r.pool = pool \/ r.pool = Add(pool, texts[k + 1])
    BY DEF Resolve
  <2>5. Separated(pool) /\ texts[k + 1] \in Seq(Nat) /\ NulFree(texts[k + 1])
    BY <1>4, <2>1
  <2> HIDE DEF r, pool
  <2>6. Separated(r.pool)
    BY <2>4, <2>5, AddKeepsApart
  <2> QED BY <2>1, <2>3, <2>6
<1>5. \A k \in 0 .. Len(texts) : k \in T
  <2> HIDE DEF T
  <2> QED BY <1>1, <1>3, <1>4, CountUp
<1>6. Separated(after[Len(texts)].pool)
  BY <1>1, <1>5
<1> QED BY <1>6 DEF ResolveAll, after

\* What is resolved reads, in the bytes written, as the texts.
LEMMA ResolvedReads ==
    ASSUME NEW block, Separated(block), NEW texts \in Seq(Seq(Nat)), NEW journal, JournalIn(journal, block),
           \A j \in 1 .. Len(texts) : NulFree(texts[j])
    PROVE  LET resolved == ResolveAll(block, texts, journal)
           IN  \A j \in 1 .. Len(texts) : At(ReadBlock(WriteBlock(resolved.pool)), resolved.offsets[j]) = texts[j]
<1> DEFINE resolved == ResolveAll(block, texts, journal)
           b == WriteBlock(resolved.pool)
<1>1. IsBlock(block)
  BY DEF Separated
<1>2. ResolvedSo(resolved, Len(texts), block, texts)
  BY <1>1, AllResolved
<1>3. Separated(resolved.pool) /\ IsBlock(resolved.pool)
  BY AllApart DEF Separated
<1>4. b \in Seq(Nat)
  BY <1>3, WriteIs
<1> HIDE DEF b
<1> HIDE DEF resolved
<1>5. ASSUME NEW j \in 1 .. Len(texts) PROVE At(ReadBlock(b), resolved.offsets[j]) = texts[j]
  <2>1. resolved.offsets[j] \in Nat /\ At(resolved.pool, resolved.offsets[j]) = texts[j]
    BY <1>2 DEF ResolvedSo
  <2>2. At(ReadBlock(b), resolved.offsets[j]) = RunAt(b, resolved.offsets[j])
    BY <1>4, <2>1, ReadAt
  <2>3. RunAt(b, resolved.offsets[j]) = At(resolved.pool, resolved.offsets[j])
    BY <1>3, <2>1, SeparatedReads DEF b
  <2> QED BY <2>1, <2>2, <2>3
<1> QED BY <1>5 DEF resolved, b

\* Texts that are what the journal leads to resolve to the journal.
LEMMA ResolvesVerbatim ==
    ASSUME NEW block, NEW texts, Len(texts) \in Nat, NEW journal \in Seq(Nat), Len(journal) = Len(texts),
           \A j \in 1 .. Len(texts) : At(Pool(block), journal[j]) = texts[j]
    PROVE  ResolveAll(block, texts, journal) = [pool |-> Pool(block), offsets |-> journal]
<1> DEFINE after == Resolutions(block, texts, journal)
           n == Len(texts)
           T == {k \in 0 .. n : /\ after[k] = [pool |-> Pool(block), offsets |-> after[k].offsets]
                                /\ after[k].offsets \in Seq(Nat) /\ Len(after[k].offsets) = k
                                /\ \A j \in 1 .. k : after[k].offsets[j] = journal[j]}
<1>1. /\ after[0] = [pool |-> Pool(block), offsets |-> <<>>]
      /\ \A k \in 1 .. n : after[k] = Extend(after[k - 1], texts[k], journal)
  BY ResolutionsAre
<1> HIDE DEF after, n
<1>2. n \in Nat /\ n = Len(journal) /\ DOMAIN journal = 1 .. n /\ \A j \in 1 .. n : journal[j] \in Nat
  BY DEF n
<1>3. 0 \in T
  <2> DEFINE offs == after[0].offsets
  <2>1. offs = <<>> /\ after[0] = [pool |-> Pool(block), offsets |-> offs]
    BY <1>1
  <2> HIDE DEF offs
  <2>2. offs \in Seq(Nat) /\ Len(offs) = 0 /\ 0 \in 0 .. n
    BY <1>2, <2>1
  <2>3. \A j \in 1 .. 0 : offs[j] = journal[j]
    OBVIOUS
  <2> QED BY <2>1, <2>2, <2>3, Zenon DEF offs
<1>4. ASSUME NEW k \in 0 .. n - 1, k \in T PROVE k + 1 \in T
  <2> DEFINE done == after[k]
             next == after[k + 1]
             offs == done.offsets
  <2>1. k + 1 \in 1 .. n /\ k + 1 \in 0 .. n /\ (k + 1) - 1 = k /\ k \in Nat
    BY <1>2
  <2>2. /\ done = [pool |-> Pool(block), offsets |-> offs] /\ offs \in Seq(Nat) /\ Len(offs) = k
        /\ \A j \in 1 .. k : offs[j] = journal[j]
    BY <1>4
  <2>3. next = Extend(done, texts[k + 1], journal)
    BY <1>1, <2>1
  <2> HIDE DEF done, next, offs
  <2>4. done.pool = Pool(block) /\ done.offsets = offs /\ Len(done.offsets) + 1 = k + 1
    BY <2>2
  <2>5. Resolve(done.pool, texts[k + 1], Len(done.offsets) + 1, journal) = [pool |-> Pool(block), offset |-> journal[k + 1]]
    <3>1. k + 1 \in DOMAIN journal /\ At(Pool(block), journal[k + 1]) = texts[k + 1]
      BY <1>2, <2>1 DEF n
    <3> QED BY <2>4, <3>1 DEF Resolve
  <2>6. next = [pool |-> Pool(block), offsets |-> Append(offs, journal[k + 1])]
    <3> DEFINE r == Resolve(done.pool, texts[k + 1], Len(done.offsets) + 1, journal)
    <3>1. next = [pool |-> r.pool, offsets |-> Append(done.offsets, r.offset)]
      BY <2>3 DEF Extend
    <3>2. r.pool = Pool(block) /\ r.offset = journal[k + 1]
      BY <2>5
    <3> HIDE DEF r
    <3> QED BY <2>4, <3>1, <3>2
  <2>7. journal[k + 1] \in Nat
    BY <1>2, <2>1
  <2>8. /\ Append(offs, journal[k + 1]) \in Seq(Nat) /\ Len(Append(offs, journal[k + 1])) = k + 1
        /\ \A j \in 1 .. k : Append(offs, journal[k + 1])[j] = offs[j]
        /\ Append(offs, journal[k + 1])[k + 1] = journal[k + 1]
    BY <2>2, <2>7, AppendIs
  <2>9. next.offsets = Append(offs, journal[k + 1]) /\ next = [pool |-> Pool(block), offsets |-> next.offsets]
    BY <2>6
  <2>10. \A j \in 1 .. k + 1 : j \in 1 .. k \/ j = k + 1
    BY <2>1
  <2>11. \A j \in 1 .. k + 1 : next.offsets[j] = journal[j]
    BY <2>2, <2>8, <2>9, <2>10
  <2> QED BY <2>1, <2>8, <2>9, <2>11 DEF next
<1>5. \A k \in 0 .. n : k \in T
  <2> HIDE DEF T
  <2> QED BY <1>2, <1>3, <1>4, CountUp
<1>6. n \in T
  BY <1>2, <1>5
<1>7. after[n].offsets = journal
  <2> DEFINE offs == after[n].offsets
  <2>1. offs \in Seq(Nat) /\ Len(offs) = n /\ \A j \in 1 .. n : offs[j] = journal[j]
    BY <1>6
  <2> HIDE DEF offs
  <2>2. offs = journal
    BY <1>2, <2>1, SeqsAreEqual
  <2> QED BY <2>2 DEF offs
<1> QED BY <1>6, <1>7 DEF ResolveAll, after, n

-----------------------------------------------------------------------------
(* A table written, and read again.                                          *)

LEMMA EncodedRows ==
    ASSUME NEW sch, IsSchema(sch), NEW rs, IsRows(sch, rs), NEW g, IsGrid(g, sch, Len(rs)),
           NEW flat, IsLaidOut(flat, g, sch, Len(rs)), NEW offsets \in Seq(Nat), Len(offsets) = Len(flat)
    PROVE  LET records == EncodeRows(sch, rs, offsets)
           IN  /\ Len(records) = Len(rs) /\ records = [r \in 1 .. Len(rs) |-> [c \in DOMAIN sch |-> records[r][c]]]
               /\ \A r \in 1 .. Len(rs), c \in DOMAIN sch :
                     records[r][c] = EncodeCell(sch[c], rs[r][c], CellOffsets(sch, offsets, r, c))
<1> DEFINE records == EncodeRows(sch, rs, offsets)
           n == Len(rs)
<1>1. n \in Nat /\ DOMAIN rs = 1 .. n
  BY DEF IsRows
<1>2. ASSUME NEW r \in 1 .. n, NEW c \in DOMAIN sch
      PROVE  EncodeRow(sch, rs[r], SubSeq(offsets, (r - 1) * TextsPerRow(sch) + 1, r * TextsPerRow(sch)))[c]
                 = EncodeCell(sch[c], rs[r][c], CellOffsets(sch, offsets, r, c))
  <2> DEFINE line == SubSeq(offsets, (r - 1) * TextsPerRow(sch) + 1, r * TextsPerRow(sch))
             first == TextsBefore(sch, c)
  <2>1. EncodeRow(sch, rs[r], line)[c] = EncodeCell(sch[c], rs[r][c], SubSeq(line, first + 1, first + StringSlots(sch[c])))
    BY DEF EncodeRow
  <2>2. SubSeq(line, first + 1, first + StringSlots(sch[c])) = CellOffsets(sch, offsets, r, c)
    BY <1>1, OffsetsOfCell
  <2> HIDE DEF first, line
  <2>3. EncodeRow(sch, rs[r], line)[c] = EncodeCell(sch[c], rs[r][c], CellOffsets(sch, offsets, r, c))
    BY <2>1, <2>2
  <2> QED BY <2>3 DEF line
<1>3. \A r \in 1 .. n : \A line : EncodeRow(sch, rs[r], line) = [c \in DOMAIN sch |-> EncodeRow(sch, rs[r], line)[c]]
  BY DEF EncodeRow
<1>4. records = [r \in 1 .. n |->
                   EncodeRow(sch, rs[r], SubSeq(offsets, (r - 1) * TextsPerRow(sch) + 1, r * TextsPerRow(sch)))]
  BY <1>1 DEF EncodeRows
<1> HIDE DEF records, n
<1>5. \A r \in 1 .. n :
        /\ records[r] = [c \in DOMAIN sch |-> records[r][c]]
        /\ \A c \in DOMAIN sch : records[r][c] = EncodeCell(sch[c], rs[r][c], CellOffsets(sch, offsets, r, c))
  BY <1>2, <1>3, <1>4
<1>6. records = [r \in 1 .. n |-> records[r]]
  BY <1>4
<1>7. records = [r \in 1 .. n |-> [c \in DOMAIN sch |-> records[r][c]]]
  BY <1>5, <1>6
<1>8. Len(records) = n
  BY <1>1, <1>6, FunctionIsSeq
<1> QED BY <1>5, <1>7, <1>8 DEF records, n

\* Offsets are as many as texts, and every column has its own.
LEMMA OffsetsPlaced ==
    ASSUME NEW sch, IsSchema(sch), NEW rs, IsRows(sch, rs), NEW offsets \in Seq(Nat),
           Len(offsets) = Len(Texts(sch, rs))
    PROVE  /\ LET records == EncodeRows(sch, rs, offsets)
              IN  /\ Len(records) = Len(rs) /\ records = [r \in 1 .. Len(rs) |-> [c \in DOMAIN sch |-> records[r][c]]]
                  /\ \A r \in 1 .. Len(rs), c \in DOMAIN sch :
                        records[r][c] = EncodeCell(sch[c], rs[r][c], CellOffsets(sch, offsets, r, c))
           /\ \A r \in 1 .. Len(rs), c \in DOMAIN sch : \A e \in 1 .. StringSlots(sch[c]) :
                 /\ Place(sch, r, c, e) \in 1 .. Len(offsets)
                 /\ CellOffsets(sch, offsets, r, c)[e] = offsets[Place(sch, r, c, e)]
                 /\ Texts(sch, rs)[Place(sch, r, c, e)] = rs[r][c][e]
<1> DEFINE g == TextGrid(sch, rs)
           texts == Texts(sch, rs)
<1>1. /\ IsGrid(g, sch, Len(rs)) /\ IsLaidOut(texts, g, sch, Len(rs)) /\ Len(rs) \in Nat
      /\ \A r \in 1 .. Len(rs), c \in DOMAIN sch : \A e \in 1 .. StringSlots(sch[c]) : g[r][c][e] = rs[r][c][e]
  <2>1. Len(rs) \in Nat
    BY DEF IsRows
  <2>2. /\ IsGrid(g, sch, Len(rs)) /\ IsLaidOut(texts, g, sch, Len(rs))
        /\ \A r \in 1 .. Len(rs), c \in DOMAIN sch : \A e \in 1 .. StringSlots(sch[c]) : g[r][c][e] = rs[r][c][e]
    BY TextsAre
  <2> HIDE DEF g, texts
  <2> QED BY <2>1, <2>2
<1> HIDE DEF g, texts
<1>2. LET records == EncodeRows(sch, rs, offsets)
      IN  /\ Len(records) = Len(rs) /\ records = [r \in 1 .. Len(rs) |-> [c \in DOMAIN sch |-> records[r][c]]]
          /\ \A r \in 1 .. Len(rs), c \in DOMAIN sch :
                records[r][c] = EncodeCell(sch[c], rs[r][c], CellOffsets(sch, offsets, r, c))
  <2>1. Len(offsets) = Len(texts)
    BY DEF texts
  <2> QED BY <1>1, <2>1, EncodedRows
<1>3. ASSUME NEW r \in 1 .. Len(rs), NEW c \in DOMAIN sch, NEW e \in 1 .. StringSlots(sch[c])
      PROVE  /\ Place(sch, r, c, e) \in 1 .. Len(offsets)
             /\ CellOffsets(sch, offsets, r, c)[e] = offsets[Place(sch, r, c, e)]
             /\ texts[Place(sch, r, c, e)] = rs[r][c][e]
  <2>1. Place(sch, r, c, e) \in 1 .. Len(texts) /\ texts[Place(sch, r, c, e)] = g[r][c][e]
    BY <1>1, PlaceInGrid
  <2>2. CellOffsets(sch, offsets, r, c)[e] = offsets[Place(sch, r, c, e)]
    BY DEF CellOffsets
  <2>3. Len(offsets) = Len(texts)
    BY DEF texts
  <2> QED BY <1>1, <2>1, <2>2, <2>3
<1> QED BY <1>2, <1>3 DEF texts

\* What is written are records whose offsets lie in the block.
LEMMA RecordsAreWritten ==
    ASSUME NEW sch, IsSchema(sch), NEW rs, IsRows(sch, rs), NEW size \in Nat, NEW offsets \in Seq(Nat),
           Len(offsets) = Len(Texts(sch, rs)), \A j \in 1 .. Len(offsets) : offsets[j] < size
    PROVE  IsRecords(sch, EncodeRows(sch, rs, offsets), size)
<1> DEFINE records == EncodeRows(sch, rs, offsets)
<1>1. /\ Len(records) = Len(rs) /\ records = [r \in 1 .. Len(rs) |-> [c \in DOMAIN sch |-> records[r][c]]]
      /\ \A r \in 1 .. Len(rs), c \in DOMAIN sch :
            records[r][c] = EncodeCell(sch[c], rs[r][c], CellOffsets(sch, offsets, r, c))
  BY OffsetsPlaced
<1> HIDE DEF records
<1>2. ASSUME NEW r \in 1 .. Len(rs), NEW c \in DOMAIN sch PROVE IsWords(sch[c], records[r][c], size)
  <2> DEFINE o == CellOffsets(sch, offsets, r, c)
             m == StringSlots(sch[c])
  <2>1. IsColumn(sch[c]) /\ IsCell(sch[c], rs[r][c])
    BY DEF IsSchema, IsRows
  <2>2. o = [e \in 1 .. m |-> o[e]]
    BY DEF CellOffsets
  <2>3. \A e \in 1 .. m : o[e] = offsets[Place(sch, r, c, e)] /\ Place(sch, r, c, e) \in 1 .. Len(offsets)
    BY OffsetsPlaced
  <2> HIDE DEF o, m
  <2>4. \A e \in 1 .. m : o[e] \in 0 .. size - 1
    <3>1. \A j \in 1 .. Len(offsets) : offsets[j] \in 0 .. size - 1
      OBVIOUS
    <3> QED BY <2>3, <3>1
  <2>5. IsWords(sch[c], EncodeCell(sch[c], rs[r][c], o), size)
    BY <2>1, <2>2, <2>4, EncodeCellIs DEF m
  <2> QED BY <1>1, <2>5 DEF o
<1> QED BY <1>1, <1>2 DEF IsRecords, IsRows, records

\* Rows that are written read back, where every offset reads as its text.
LEMMA RowsReadBack ==
    ASSUME NEW sch, IsSchema(sch), \A c \in DOMAIN sch : ~sch[c].noninline, NEW rs, IsRows(sch, rs),
           NEW offsets \in Seq(Nat), Len(offsets) = Len(Texts(sch, rs)), NEW block,
           \A j \in 1 .. Len(offsets) : At(block, offsets[j]) = Texts(sch, rs)[j]
    PROVE  DecodeRows(sch, EncodeRows(sch, rs, offsets), block) = rs
<1> DEFINE records == EncodeRows(sch, rs, offsets)
           again == DecodeRows(sch, records, block)
<1>1. /\ Len(records) = Len(rs) /\ records = [r \in 1 .. Len(rs) |-> [c \in DOMAIN sch |-> records[r][c]]]
      /\ \A r \in 1 .. Len(rs), c \in DOMAIN sch :
            records[r][c] = EncodeCell(sch[c], rs[r][c], CellOffsets(sch, offsets, r, c))
  BY OffsetsPlaced
<1> HIDE DEF records
<1>2. DOMAIN records = 1 .. Len(rs)
  BY <1>1
<1>3. ASSUME NEW r \in 1 .. Len(rs), NEW c \in DOMAIN sch
      PROVE  DecodeCell(sch[c], records[r][c], block) = rs[r][c]
  <2> DEFINE o == CellOffsets(sch, offsets, r, c)
             m == StringSlots(sch[c])
  <2>1. IsColumn(sch[c]) /\ IsCell(sch[c], rs[r][c]) /\ ~sch[c].noninline
    BY DEF IsSchema, IsRows
  <2>2. o = [e \in 1 .. m |-> o[e]]
    BY DEF CellOffsets
  <2>3. \A e \in 1 .. m : /\ o[e] = offsets[Place(sch, r, c, e)] /\ Place(sch, r, c, e) \in 1 .. Len(offsets)
                          /\ Texts(sch, rs)[Place(sch, r, c, e)] = rs[r][c][e]
    BY OffsetsPlaced
  <2> HIDE DEF o, m
  <2>4. \A e \in 1 .. m : At(block, o[e]) = rs[r][c][e]
    BY <2>3
  <2> DEFINE col == sch[c]
             cell == rs[r][c]
  <2>5. ReadAs(col, cell, o, block)
    BY <2>1, <2>2, <2>4 DEF m, ReadAs
  <2> HIDE DEF col, cell
  <2>6. DecodeCell(col, EncodeCell(col, cell, o), block) = cell
    BY <2>5, DecodeEncoded
  <2> QED BY <1>1, <2>6 DEF o, col, cell
<1>4. again = [r \in 1 .. Len(rs) |-> [c \in DOMAIN sch |-> DecodeCell(sch[c], records[r][c], block)]]
  BY <1>2 DEF DecodeRows, DecodeRow
<1>5. again = [r \in 1 .. Len(rs) |-> [c \in DOMAIN sch |-> rs[r][c]]]
  BY <1>3, <1>4
<1>6. rs = [r \in 1 .. Len(rs) |-> [c \in DOMAIN sch |-> rs[r][c]]]
  BY DEF IsRows
<1> QED BY <1>5, <1>6 DEF again, records

\* Records that were read, and journalled, are written again.
LEMMA RecordsAreVerbatim ==
    ASSUME NEW sch, IsSchema(sch), NEW size \in Nat, NEW records, IsRecords(sch, records, size),
           NEW block, IsBlock(block)
    PROVE  /\ EncodeRows(sch, DecodeRows(sch, records, block), Journal(sch, records)) = records
           /\ Len(Journal(sch, records)) = Len(Texts(sch, DecodeRows(sch, records, block)))
           /\ \A j \in 1 .. Len(Journal(sch, records)) :
                 At(block, Journal(sch, records)[j]) = Texts(sch, DecodeRows(sch, records, block))[j]
<1> DEFINE rs == DecodeRows(sch, records, block)
           n == Len(records)
           journal == Journal(sch, records)
           texts == Texts(sch, rs)
           g == TextGrid(sch, rs)
           h == JournalGrid(sch, records)
<1>1. /\ IsRows(sch, rs) /\ Len(rs) = n
      /\ \A r \in 1 .. n, c \in DOMAIN sch :
            /\ rs[r][c] = DecodeCell(sch[c], records[r][c], block)
            /\ \A e \in 1 .. StringSlots(sch[c]) : rs[r][c][e] = At(block, records[r][c][e])
  BY DecodedRows
<1> HIDE DEF rs
<1>2. /\ texts \in Seq(Seq(Nat)) /\ IsGrid(g, sch, n) /\ IsLaidOut(texts, g, sch, n)
      /\ \A r \in 1 .. n, c \in DOMAIN sch : \A e \in 1 .. StringSlots(sch[c]) : g[r][c][e] = rs[r][c][e]
  <2>1. /\ texts \in Seq(Seq(Nat)) /\ IsGrid(g, sch, Len(rs)) /\ IsLaidOut(texts, g, sch, Len(rs))
        /\ \A r \in 1 .. Len(rs), c \in DOMAIN sch : \A e \in 1 .. StringSlots(sch[c]) : g[r][c][e] = rs[r][c][e]
    BY <1>1, TextsAre
  <2> HIDE DEF g, texts, n
  <2> QED BY <1>1, <2>1
<1>3. /\ journal \in Seq(0 .. size - 1) /\ IsGrid(h, sch, n) /\ IsLaidOut(journal, h, sch, n)
      /\ \A r \in 1 .. n, c \in DOMAIN sch : \A e \in 1 .. StringSlots(sch[c]) : h[r][c][e] = records[r][c][e]
  BY JournalIs
<1>4. n \in Nat /\ records = [r \in 1 .. n |-> [c \in DOMAIN sch |-> records[r][c]]]
  BY DEF IsRecords
<1> DEFINE R == {x \in (Seq(Nat)) \X (0 .. size - 1) : x[1] = At(block, x[2])}
<1>5. \A r \in 1 .. n, c \in DOMAIN sch : \A e \in 1 .. StringSlots(sch[c]) : <<g[r][c][e], h[r][c][e]>> \in R
  <2>1. SUFFICES ASSUME NEW r \in 1 .. n, NEW c \in DOMAIN sch, NEW e \in 1 .. StringSlots(sch[c])
                 PROVE  <<g[r][c][e], h[r][c][e]>> \in R
    OBVIOUS
  <2>2. IsColumn(sch[c]) /\ IsWords(sch[c], records[r][c], size)
    BY DEF IsSchema, IsRecords
  <2>3. records[r][c][e] \in 0 .. size - 1
    BY <2>2, OffsetsOfWords
  <2>4. g[r][c][e] = At(block, records[r][c][e]) /\ h[r][c][e] = records[r][c][e]
    BY <1>1, <1>2, <1>3
  <2> DEFINE w == records[r][c][e]
  <2>5. At(block, w) \in Seq(Nat)
    <3>1. w \in Nat
      BY <2>3
    <3> HIDE DEF w
    <3> QED BY <3>1, AtIsText
  <2> HIDE DEF g, h
  <2> QED BY <2>3, <2>4, <2>5
<1> HIDE DEF g, h, journal, texts, n
<1>6. Len(texts) = Len(journal) /\ \A p \in 1 .. Len(texts) : <<texts[p], journal[p]>> \in R
  <2> HIDE DEF R
  <2> QED BY <1>2, <1>3, <1>4, <1>5, GridPairs
<1>7. \A j \in 1 .. Len(journal) : At(block, journal[j]) = texts[j]
  <2>1. TAKE j \in 1 .. Len(journal)
  <2>2. <<texts[j], journal[j]>> \in R
    BY <1>6
  <2> QED BY <2>2
<1>8. journal \in Seq(Nat)
  BY <1>3
<1> DEFINE again == EncodeRows(sch, rs, journal)
<1>9. /\ Len(again) = Len(rs) /\ again = [r \in 1 .. Len(rs) |-> [c \in DOMAIN sch |-> again[r][c]]]
      /\ \A r \in 1 .. Len(rs), c \in DOMAIN sch :
            again[r][c] = EncodeCell(sch[c], rs[r][c], CellOffsets(sch, journal, r, c))
  BY <1>1, <1>6, <1>8, OffsetsPlaced DEF texts
<1> HIDE DEF again
<1>10. ASSUME NEW r \in 1 .. n, NEW c \in DOMAIN sch PROVE again[r][c] = records[r][c]
  <2> DEFINE o == CellOffsets(sch, journal, r, c)
             m == StringSlots(sch[c])
  <2>1. IsColumn(sch[c]) /\ IsWords(sch[c], records[r][c], size)
    BY DEF IsSchema, IsRecords, n
  <2>2. \A e \in 1 .. m : journal[Place(sch, r, c, e)] = records[r][c][e]
    <3>1. \A e \in 1 .. m : journal[Place(sch, r, c, e)] = h[r][c][e]
      BY <1>3, <1>4, PlaceInGrid
    <3> QED BY <1>3, <3>1
  <2>3. o = [e \in 1 .. m |-> records[r][c][e]]
    BY <2>2 DEF CellOffsets
  <2> HIDE DEF o, m
  <2> DEFINE col == sch[c]
             words == records[r][c]
  <2>4. IsColumn(col) /\ IsWords(col, words, size) /\ o = [e \in 1 .. StringSlots(col) |-> words[e]]
    BY <2>1, <2>3 DEF m
  <2> HIDE DEF col, words
  <2>5. EncodeCell(col, DecodeCell(col, words, block), o) = words
    BY <2>4, EncodeDecoded
  <2> QED BY <1>1, <1>9, <2>5 DEF o, col, words
<1>11. again = records
  BY <1>1, <1>4, <1>9, <1>10
<1> QED BY <1>6, <1>7, <1>11 DEF again, rs, journal, texts

-----------------------------------------------------------------------------
(* Rows, edited.                                                             *)

IsRow(sch, row) ==
    /\ row = [c \in DOMAIN sch |-> row[c]]
    /\ \A c \in DOMAIN sch : IsCell(sch[c], row[c])

LEMMA FunctionInSeq ==
    ASSUME NEW n \in Nat, NEW T, NEW s, s = [i \in 1 .. n |-> s[i]], \A i \in 1 .. n : s[i] \in T
    PROVE  s \in Seq(T)
OBVIOUS

LEMMA SomeRows ==
    ASSUME NEW sch, NEW T, \A x \in T : IsRow(sch, x), NEW rs \in Seq(T)
    PROVE  IsRows(sch, rs)
<1>1. Len(rs) \in Nat /\ rs = [r \in 1 .. Len(rs) |-> rs[r]] /\ \A r \in 1 .. Len(rs) : rs[r] \in T
  OBVIOUS
<1>2. \A r \in 1 .. Len(rs) : /\ rs[r] = [c \in DOMAIN sch |-> rs[r][c]]
                              /\ \A c \in DOMAIN sch : IsCell(sch[c], rs[r][c])
  BY <1>1 DEF IsRow
<1>3. rs = [r \in 1 .. Len(rs) |-> [c \in DOMAIN sch |-> rs[r][c]]]
  BY <1>1, <1>2
<1> QED BY <1>1, <1>2, <1>3 DEF IsRows

LEMMA RowsAreSome ==
    ASSUME NEW sch, NEW rs, IsRows(sch, rs)
    PROVE  \E T : rs \in Seq(T) /\ \A x \in T : IsRow(sch, x)
<1> DEFINE n == Len(rs)
           T == {rs[r] : r \in 1 .. n}
<1>1. n \in Nat /\ rs = [r \in 1 .. n |-> [c \in DOMAIN sch |-> rs[r][c]]]
      /\ \A r \in 1 .. n, c \in DOMAIN sch : IsCell(sch[c], rs[r][c])
  BY DEF IsRows
<1> HIDE DEF n
<1>2. \A r \in 1 .. n : rs[r] = [c \in DOMAIN sch |-> rs[r][c]]
  BY <1>1
<1>3. \A r \in 1 .. n : IsRow(sch, rs[r])
  BY <1>1, <1>2 DEF IsRow
<1>4. rs = [r \in 1 .. n |-> rs[r]]
  BY <1>1
<1>5. rs \in Seq(T)
  <2>1. \A r \in 1 .. n : rs[r] \in T
    OBVIOUS
  <2> HIDE DEF T
  <2> QED BY <1>1, <1>4, <2>1
<1> QED BY <1>3, <1>5

LEMMA NoRows == ASSUME NEW sch PROVE IsRows(sch, <<>>)
<1>1. <<>> \in Seq({}) /\ \A x \in {} : IsRow(sch, x)
  OBVIOUS
<1> QED BY <1>1, SomeRows

LEMMA OneRowMore ==
    ASSUME NEW sch, IsSchema(sch), NEW rs, IsRows(sch, rs)
    PROVE  IsRows(sch, Append(rs, FreshRow(sch)))
<1> DEFINE row == FreshRow(sch)
<1>1. row = [c \in DOMAIN sch |-> FreshCell(sch[c])]
  BY DEF FreshRow
<1>2. \A c \in DOMAIN sch : IsCell(sch[c], FreshCell(sch[c]))
  <2>1. SUFFICES ASSUME NEW c \in DOMAIN sch PROVE IsCell(sch[c], FreshCell(sch[c]))
    OBVIOUS
  <2> DEFINE col == sch[c]
  <2>2. IsColumn(col)
    BY DEF IsSchema
  <2> HIDE DEF col
  <2>3. IsCell(col, FreshCell(col))
    BY <2>2, FreshCellIs
  <2> QED BY <2>3 DEF col
<1> HIDE DEF row
<1>3. IsRow(sch, row)
  BY <1>1, <1>2 DEF IsRow
<1>4. PICK T : rs \in Seq(T) /\ \A x \in T : IsRow(sch, x)
  BY RowsAreSome
<1> DEFINE U == T \cup {row}
<1>5. (\A x \in U : IsRow(sch, x)) /\ Append(rs, row) \in Seq(U)
  <2>1. rs \in Seq(U) /\ row \in U
    BY <1>4
  <2>2. \A x \in U : IsRow(sch, x)
    BY <1>3, <1>4
  <2> HIDE DEF U
  <2> QED BY <2>1, <2>2
<1> HIDE DEF U
<1>6. IsRows(sch, Append(rs, row))
  BY <1>5, SomeRows
<1> QED BY <1>6 DEF row

LEMMA OneRowLess ==
    ASSUME NEW sch, NEW rs, IsRows(sch, rs), NEW r \in DOMAIN rs
    PROVE  IsRows(sch, RemoveAt(rs, r))
<1>1. PICK T : rs \in Seq(T) /\ \A x \in T : IsRow(sch, x)
  BY RowsAreSome
<1>2. r \in 1 .. Len(rs) /\ Len(rs) \in Nat
  BY <1>1
<1>3. SubSeq(rs, 1, r - 1) \in Seq(T) /\ SubSeq(rs, r + 1, Len(rs)) \in Seq(T)
  <2>1. SubSeq(rs, 1, r - 1) \in Seq(T)
    BY <1>1, <1>2, SubSeqIs
  <2>2. SubSeq(rs, r + 1, Len(rs)) \in Seq(T)
    BY <1>1, <1>2, SubSeqIs
  <2> QED BY <2>1, <2>2
<1>4. RemoveAt(rs, r) \in Seq(T)
  BY <1>3 DEF RemoveAt
<1> QED BY <1>1, <1>4, SomeRows

LEMMA OneCellElse ==
    ASSUME NEW sch, NEW rs, IsRows(sch, rs), NEW r \in DOMAIN rs, NEW c \in DOMAIN sch, NEW e, NEW v,
           IsCell(sch[c], [rs[r][c] EXCEPT ![e] = v])
    PROVE  IsRows(sch, [rs EXCEPT ![r][c][e] = v])
<1> DEFINE n == Len(rs)
           cell == [rs[r][c] EXCEPT ![e] = v]
           new == [rs EXCEPT ![r][c][e] = v]
<1>1. n \in Nat /\ rs = [q \in 1 .. n |-> [d \in DOMAIN sch |-> rs[q][d]]]
      /\ \A q \in 1 .. n, d \in DOMAIN sch : IsCell(sch[d], rs[q][d])
  BY DEF IsRows
<1>2. new = [rs EXCEPT ![r] = [rs[r] EXCEPT ![c] = cell]]
  OBVIOUS
<1> HIDE DEF n, cell
<1>3. r \in 1 .. n /\ rs = [q \in 1 .. n |-> rs[q]]
  BY <1>1
<1>4. \A q \in 1 .. n : rs[q] = [d \in DOMAIN sch |-> rs[q][d]]
  BY <1>1
<1>5. new[r] = [rs[r] EXCEPT ![c] = cell] /\ \A q \in 1 .. n : q # r => new[q] = rs[q]
  BY <1>2, <1>3
<1>6. new = [q \in 1 .. n |-> new[q]]
  BY <1>2, <1>3
<1> HIDE DEF new
<1>7. new[r] = [d \in DOMAIN sch |-> new[r][d]] /\ new[r][c] = cell /\ \A d \in DOMAIN sch : d # c => new[r][d] = rs[r][d]
  BY <1>3, <1>4, <1>5
<1>8. ASSUME NEW q \in 1 .. n PROVE IsRow(sch, new[q])
  <2>1. CASE q # r
    BY <1>1, <1>4, <1>5, <2>1 DEF IsRow
  <2>2. CASE q = r
    <3>1. \A d \in DOMAIN sch : IsCell(sch[d], new[r][d])
      BY <1>1, <1>3, <1>7 DEF cell
    <3> QED BY <1>7, <2>2, <3>1 DEF IsRow
  <2> QED BY <2>1, <2>2
<1> DEFINE T == {new[q] : q \in 1 .. n}
<1>9. new \in Seq(T)
  <2>1. \A q \in 1 .. n : new[q] \in T
    OBVIOUS
  <2> HIDE DEF T
  <2> QED BY <1>1, <1>6, <2>1, FunctionInSeq
<1>10. \A x \in T : IsRow(sch, x)
  BY <1>8
<1> HIDE DEF T
<1>11. IsRows(sch, new)
  BY <1>9, <1>10, SomeRows
<1> QED BY <1>11 DEF new

\* What setInt, setFloat, setString and setLocstringFlags leave is a cell.
LEMMA CellSet ==
    ASSUME NEW col, IsColumn(col), NEW cell, IsCell(col, cell), NEW e \in Nat, NEW v,
           \/ col.type = "int" /\ e \in 1 .. col.slots /\ v \in Int /\ Truncated(col, v) = v
           \/ col.type = "float" /\ e \in 1 .. col.slots
           \/ col.type \in {"string", "locstring"} /\ e \in 1 .. col.slots /\ v \in Seq(Nat)
           \/ col.type = "locstring" /\ e = col.slots + 1
    PROVE  IsCell(col, [cell EXCEPT ![e] = v])
<1> DEFINE new == [cell EXCEPT ![e] = v]
<1>1. col.slots \in Nat /\ col.type \in {"int", "float", "string", "locstring"}
  BY DEF IsColumn
<1>2. CASE col.type = "int"
  <2>1. cell \in [1 .. col.slots -> Int] /\ \A i \in 1 .. col.slots : Truncated(col, cell[i]) = cell[i]
    BY <1>2 DEF IsCell
  <2>2. e \in 1 .. col.slots /\ v \in Int /\ Truncated(col, v) = v
    BY <1>2
  <2>3. new \in [1 .. col.slots -> Int] /\ \A i \in 1 .. col.slots : Truncated(col, new[i]) = new[i]
    BY <2>1, <2>2
  <2> QED BY <1>2, <2>3 DEF IsCell
<1>3. CASE col.type = "float"
  <2>1. cell = [i \in 1 .. col.slots |-> cell[i]]
    BY <1>3 DEF IsCell
  <2>2. new = [i \in 1 .. col.slots |-> new[i]]
    BY <2>1
  <2> QED BY <1>3, <2>2 DEF IsCell
<1>4. CASE col.type = "string"
  <2>1. cell \in [1 .. col.slots -> Seq(Nat)]
    BY <1>4 DEF IsCell
  <2>2. new \in [1 .. col.slots -> Seq(Nat)]
    BY <1>4, <2>1
  <2> QED BY <1>4, <2>2 DEF IsCell
<1>5. CASE col.type = "locstring"
  <2>1. cell = [i \in 1 .. col.slots + 1 |-> cell[i]] /\ \A i \in 1 .. col.slots : cell[i] \in Seq(Nat)
    BY <1>5 DEF IsCell
  <2>2. e \in 1 .. col.slots => v \in Seq(Nat)
    BY <1>1, <1>5
  <2>3. new = [i \in 1 .. col.slots + 1 |-> new[i]] /\ \A i \in 1 .. col.slots + 1 : new[i] = IF i = e THEN v ELSE cell[i]
    BY <2>1
  <2>4. \A i \in 1 .. col.slots : i \in 1 .. col.slots + 1
    BY <1>1
  <2> HIDE DEF new
  <2>5. \A i \in 1 .. col.slots : new[i] \in Seq(Nat)
    BY <2>1, <2>2, <2>3, <2>4
  <2> QED BY <1>5, <2>3, <2>5 DEF IsCell, new
<1> QED BY <1>1, <1>2, <1>3, <1>4, <1>5

-----------------------------------------------------------------------------
(* Files of the fixed-stride formats, and what a table remembers of them.    *)

FixedMagics == {"WDBC", "WDB2"}

\* A file that is read: not damaged, and with a header that is accepted.
Readable(sch, f) == IsFixedFile(sch, f) /\ f.magic \in FixedMagics /\ HeaderVerdict(sch, f) = "ok"
BlockSize(f) == IF f.strings = <<>> THEN 1 ELSE Len(f.strings)

\* What is remembered of a file.
ReadFrom(sch, f, st) ==
    /\ Readable(sch, f)
    /\ st.sourceMagic = f.magic /\ st.fieldCount = f.fieldCount /\ st.recordSize = f.recordSize
    /\ st.strings = ReadBlock(f.strings) /\ st.stringOffsets = Journal(sch, f.records)
    /\ f.magic = "WDB2" => st.header = HeaderOf(f) /\ st.index = f.index /\ st.copy = f.copy
Remembered(sch, st) == st = FreshState \/ \E f : ReadFrom(sch, f, st)

LEMMA FreshStateIs ==
    /\ {"sourceMagic", "header", "encrypted", "original"} \subseteq DOMAIN FreshState
    /\ FreshState.sourceMagic = "none" /\ FreshState.encrypted = <<>> /\ FreshState.original = <<>>
  BY DEF FreshState

LEMMA ResetIs ==
    ASSUME NEW st, DOMAIN st = DOMAIN FreshState
    PROVE  /\ DOMAIN Reset(st) = DOMAIN FreshState
           /\ Reset(st).encrypted = <<>> /\ Reset(st).original = <<>>
  BY FreshStateIs DEF Reset

LEMMA ReadableIs ==
    ASSUME NEW sch, NEW f, Readable(sch, f)
    PROVE  /\ f.magic \in FixedMagics /\ f.strings \in Seq(Nat) /\ BlockSize(f) \in Nat
           /\ IsRecords(sch, f.records, BlockSize(f))
           /\ f.short = FALSE /\ f.surplus = 0 /\ f.recordSize = RecordStride(sch)
           /\ f.minId \in Nat /\ f.maxId \in Nat /\ ~ (f.magic = "WDB2" /\ f.maxId # 0 /\ f.maxId < f.minId)
           /\ IF f.magic = "WDB2" THEN Len(f.index) = IndexEntries(f)
              ELSE /\ f.minId = 0 /\ f.maxId = 0 /\ f.identity = 0
                   /\ f.index = <<>> /\ f.copy = <<>>
<1>1. IsFixedFile(sch, f) /\ f.magic \in FixedMagics /\ HeaderVerdict(sch, f) = "ok"
  BY DEF Readable
<1>2. f.strings \in Seq(Nat) /\ f.short \in BOOLEAN
  BY <1>1 DEF IsFixedFile
<1>3. BlockSize(f) \in Nat
  BY <1>2 DEF BlockSize
<1>4. IsRecords(sch, f.records, BlockSize(f))
  BY <1>1 DEF IsFixedFile, IsRecords, BlockSize
<1>5. /\ f.minId \in Nat /\ f.maxId \in Nat
      /\ IF f.magic = "WDB2" THEN Len(f.index) = IndexEntries(f)
         ELSE /\ f.minId = 0 /\ f.maxId = 0 /\ f.identity = 0
              /\ f.index = <<>> /\ f.copy = <<>>
  BY <1>1 DEF IsFixedFile
<1>6. /\ ~f.short /\ f.surplus = 0 /\ f.recordSize = RecordStride(sch)
      /\ ~ (f.magic = "WDB2" /\ f.maxId # 0 /\ f.maxId < f.minId)
  BY <1>1 DEF HeaderVerdict
<1>7. f.short = FALSE
  BY <1>2, <1>6
<1> QED BY <1>1, <1>2, <1>3, <1>4, <1>5, <1>6, <1>7

\* What a reader makes of a file: rows, and the memory of it.
LEMMA DecodedIs ==
    ASSUME NEW sch, IsSchema(sch), NEW f, Readable(sch, f), NEW st, DOMAIN st = DOMAIN FreshState
    PROVE  LET out == DecodeFixed(sch, f, st)
           IN  /\ ReadFrom(sch, f, out.state) /\ out.rows = DecodeRows(sch, f.records, ReadBlock(f.strings))
               /\ IsRows(sch, out.rows)
<1> DEFINE block == ReadBlock(f.strings)
           kept == Reset(st)
           journal == Journal(sch, f.records)
           header == IF f.magic = "WDB2" THEN HeaderOf(f) ELSE <<>>
           index == IF f.magic = "WDB2" THEN f.index ELSE <<>>
           copy == IF f.magic = "WDB2" THEN f.copy ELSE <<>>
           after == [kept EXCEPT !.sourceMagic = f.magic, !.fieldCount = f.fieldCount,
                         !.recordSize = f.recordSize, !.strings = block,
                         !.stringOffsets = journal, !.header = header, !.index = index, !.copy = copy]
           rs == DecodeRows(sch, f.records, block)
<1>1. DecodeFixed(sch, f, st).state = after /\ DecodeFixed(sch, f, st).rows = rs
  BY DEF DecodeFixed, DecodeRows
<1>2. DOMAIN kept = DOMAIN FreshState
  BY ResetIs
<1>3. {"sourceMagic", "fieldCount", "recordSize", "strings", "stringOffsets", "header", "index", "copy"}
          \subseteq DOMAIN FreshState
  BY DEF FreshState
<1>4. f.magic = "WDB2" => header = HeaderOf(f) /\ index = f.index /\ copy = f.copy
  OBVIOUS
<1>5. /\ f.strings \in Seq(Nat) /\ BlockSize(f) \in Nat /\ IsRecords(sch, f.records, BlockSize(f))
  BY ReadableIs
<1>6. IsBlock(block)
  BY <1>5, ReadIsBlock
<1> HIDE DEF block
<1>7. IsRows(sch, rs)
  BY <1>5, <1>6, DecodedRows
<1> HIDE DEF kept, journal, header, index, copy, rs
<1>8. /\ after.sourceMagic = f.magic /\ after.fieldCount = f.fieldCount /\ after.recordSize = f.recordSize
      /\ after.strings = block /\ after.stringOffsets = journal
      /\ after.header = header /\ after.index = index /\ after.copy = copy
  BY <1>2, <1>3
<1> HIDE DEF after
<1>9. ReadFrom(sch, f, after)
  BY <1>4, <1>8 DEF ReadFrom, block, journal
<1> QED BY <1>1, <1>7, <1>9 DEF rs, block

\* A block that is remembered was read from a file, or is the one a table starts with.
LEMMA RememberedStrings ==
    ASSUME NEW sch, IsSchema(sch), NEW st, Remembered(sch, st)
    PROVE  /\ st.strings = NoStrings \/ \E b \in Seq(Nat) : st.strings = ReadBlock(b)
           /\ IsBlock(st.strings) /\ JournalIn(st.stringOffsets, st.strings)
<1>1. CASE st = FreshState
  <2>1. st.strings = NoStrings /\ st.stringOffsets = <<>>
    BY <1>1 DEF FreshState
  <2>2. DOMAIN <<>> = {}
    OBVIOUS
  <2>3. JournalIn(<<>>, NoStrings)
    BY <2>2 DEF JournalIn
  <2> QED BY <2>1, <2>3, NoStringsIs
<1>2. CASE \E f : ReadFrom(sch, f, st)
  <2>1. PICK f : ReadFrom(sch, f, st)
    BY <1>2
  <2>2. Readable(sch, f) /\ st.strings = ReadBlock(f.strings) /\ st.stringOffsets = Journal(sch, f.records)
    BY <2>1 DEF ReadFrom
  <2>3. f.strings \in Seq(Nat) /\ BlockSize(f) \in Nat /\ IsRecords(sch, f.records, BlockSize(f))
    BY <2>2, ReadableIs
  <2> DEFINE block == ReadBlock(f.strings)
             journal == Journal(sch, f.records)
             size == BlockSize(f)
  <2>4. IsBlock(block) /\ block.size = Len(f.strings)
    BY <2>3, ReadIsBlock DEF ReadBlock
  <2>5. journal \in Seq(0 .. size - 1)
    BY <2>3, JournalIs
  <2>6. Pool(block).size = size
    <3>1. CASE f.strings = <<>>
      <4>1. block.size = 0 /\ size = 1
        BY <2>4, <3>1 DEF BlockSize
      <4> HIDE DEF block
      <4>2. Pool(block).size = 0 + Len(<<>>) + 1
        BY <4>1 DEF Pool, Add
      <4>3. Len(<<>>) = 0
        OBVIOUS
      <4> QED BY <4>1, <4>2, <4>3
    <3>2. CASE f.strings # <<>>
      <4>1. block.size # 0 /\ size = Len(f.strings)
        BY <2>3, <2>4, <3>2 DEF BlockSize
      <4> HIDE DEF block
      <4> QED BY <2>4, <4>1 DEF Pool
    <3> QED BY <3>1, <3>2
  <2> HIDE DEF journal, size
  <2>7. \A slot \in DOMAIN journal : journal[slot] \in 0 .. size - 1
    BY <2>5, Elements
  <2>8. JournalIn(journal, block)
    BY <2>6, <2>7 DEF JournalIn
  <2> QED BY <2>2, <2>3, <2>4, <2>8 DEF journal
<1> QED BY <1>1, <1>2 DEF Remembered

\* What the writers give: a file with a string block and records, and for the
\* rest what was remembered.
FileOf(magic, minId, maxId, identity, fieldCount, recordSize, index, copy, strings, records) ==
    [magic |-> magic, short |-> FALSE, surplus |-> 0, minId |-> minId, maxId |-> maxId, identity |-> identity,
     fieldCount |-> fieldCount, recordSize |-> recordSize, index |-> index, copy |-> copy,
     strings |-> strings, records |-> records]

LEMMA FileOfIs ==
    ASSUME NEW sch, NEW magic, NEW minId \in Nat, NEW maxId \in Nat, NEW identity, NEW fieldCount, NEW index, NEW copy,
           NEW strings \in Seq(Nat), NEW records, magic \in FixedMagics,
           strings # <<>>, IsRecords(sch, records, Len(strings)),
           IF magic = "WDB2" THEN /\ Len(index) = (IF maxId # 0 THEN maxId - minId + 1 ELSE 0)
                                  /\ maxId # 0 => minId <= maxId
           ELSE minId = 0 /\ maxId = 0 /\ identity = 0 /\ index = <<>> /\ copy = <<>>
    PROVE  Readable(sch, FileOf(magic, minId, maxId, identity, fieldCount, RecordStride(sch), index, copy, strings, records))
<1> DEFINE recordSize == RecordStride(sch)
           f == FileOf(magic, minId, maxId, identity, fieldCount, recordSize, index, copy, strings, records)
<1> HIDE DEF recordSize
<1>1. f = [magic |-> magic, short |-> FALSE, surplus |-> 0, minId |-> minId, maxId |-> maxId, identity |-> identity,
           fieldCount |-> fieldCount, recordSize |-> recordSize, index |-> index, copy |-> copy,
           strings |-> strings, records |-> records]
  BY DEF FileOf
<1> HIDE DEF f
<1>2. /\ f.magic = magic /\ f.short = FALSE /\ f.surplus = 0 /\ f.minId = minId /\ f.maxId = maxId
      /\ f.identity = identity /\ f.fieldCount = fieldCount /\ f.recordSize = recordSize
      /\ f.index = index /\ f.copy = copy /\ f.strings = strings /\ f.records = records
  BY <1>1
<1>3. f = [magic |-> f.magic, short |-> f.short, surplus |-> f.surplus,
           minId |-> f.minId, maxId |-> f.maxId, identity |-> f.identity,
           fieldCount |-> f.fieldCount, recordSize |-> f.recordSize,
           index |-> f.index, copy |-> f.copy, strings |-> f.strings, records |-> f.records]
  BY <1>1, <1>2
<1>4. IF f.magic = "WDB2" THEN Len(f.index) = IndexEntries(f)
      ELSE /\ f.minId = 0 /\ f.maxId = 0 /\ f.identity = 0
           /\ f.index = <<>> /\ f.copy = <<>>
  BY <1>2 DEF IndexEntries
<1>5. HeaderVerdict(sch, f) = "ok"
  BY <1>2 DEF HeaderVerdict, recordSize
<1>6. /\ Len(f.records) \in Nat
      /\ f.records = [r \in 1 .. Len(f.records) |-> [c \in DOMAIN sch |-> f.records[r][c]]]
      /\ \A r \in 1 .. Len(f.records), c \in DOMAIN sch :
           IsWords(sch[c], f.records[r][c], IF f.strings = <<>> THEN 1 ELSE Len(f.strings))
  BY <1>2 DEF IsRecords
<1>7. f.short \in BOOLEAN /\ f.minId \in Nat /\ f.maxId \in Nat /\ f.strings \in Seq(Nat) /\ f.magic \in FixedMagics
  BY <1>2
<1>8. IsFixedFile(sch, f)
  BY <1>3, <1>4, <1>6, <1>7 DEF IsFixedFile
<1>9. Readable(sch, f)
  BY <1>5, <1>7, <1>8 DEF Readable
<1> QED BY <1>9 DEF f, recordSize

\* A file is its fields.
LEMMA ReadableIsFileOf ==
    ASSUME NEW sch, NEW f, Readable(sch, f)
    PROVE  f = FileOf(f.magic, f.minId, f.maxId, f.identity, f.fieldCount, f.recordSize, f.index, f.copy, f.strings, f.records)
<1>1. f = [magic |-> f.magic, short |-> f.short, surplus |-> f.surplus,
           minId |-> f.minId, maxId |-> f.maxId, identity |-> f.identity,
           fieldCount |-> f.fieldCount, recordSize |-> f.recordSize,
           index |-> f.index, copy |-> f.copy, strings |-> f.strings, records |-> f.records]
  BY DEF Readable, IsFixedFile
<1>2. f.short = FALSE /\ f.surplus = 0
  BY ReadableIs
<1> QED BY <1>1, <1>2 DEF FileOf

\* The files that the writers make of a string block and records.
IsWrite(inf, magic, st, file) ==
    \E minId \in Nat, maxId \in Nat : \E identity, fieldCount, index, copy :
        /\ file = FileOf(magic, minId, maxId, identity, fieldCount, RecordStride(inf.schema), index, copy,
                         file.strings, file.records)
        /\ IF magic = "WDB2" THEN /\ Len(index) = (IF maxId # 0 THEN maxId - minId + 1 ELSE 0)
                                  /\ maxId # 0 => minId <= maxId
           ELSE minId = 0 /\ maxId = 0 /\ identity = 0 /\ index = <<>> /\ copy = <<>>
        /\ \A f : ReadFrom(inf.schema, f, st) =>
              /\ f.magic = magic /\ f.minId = minId /\ f.maxId = maxId /\ f.identity = identity
              /\ f.fieldCount = fieldCount /\ f.index = index /\ f.copy = copy

LEMMA FixedIs ==
    ASSUME NEW magic, NEW inf, NEW rs, NEW resolved
    PROVE  Fixed(magic, inf, rs, resolved)
               = FileOf(magic, 0, 0, 0, FieldSlotCount(inf.schema), RecordStride(inf.schema), <<>>, <<>>,
                        WriteBlock(resolved.pool), EncodeRows(inf.schema, rs, resolved.offsets))
  BY DEF Fixed, FileOf

LEMMA FreshIsNotRead ==
    ASSUME NEW sch, NEW f
    PROVE  ~ReadFrom(sch, f, FreshState)
<1>1. FreshState.sourceMagic = "none"
  BY FreshStateIs
<1> QED BY <1>1 DEF ReadFrom, Readable, FixedMagics

LEMMA WdbcIs ==
    ASSUME NEW inf, NEW rs, NEW st, Remembered(inf.schema, st), st.sourceMagic \in {"none", "WDBC"}, NEW resolved
    PROVE  LET file == WriteWdbc(inf, rs, st, resolved)
           IN  /\ file.strings = WriteBlock(resolved.pool)
               /\ file.records = EncodeRows(inf.schema, rs, resolved.offsets)
               /\ IsWrite(inf, "WDBC", st, file)
<1> DEFINE strings == WriteBlock(resolved.pool)
           records == EncodeRows(inf.schema, rs, resolved.offsets)
           size == RecordStride(inf.schema)
           count == FieldSlotCount(inf.schema)
           fresh == Fixed("WDBC", inf, rs, resolved)
           file == WriteWdbc(inf, rs, st, resolved)
<1>1. fresh = FileOf("WDBC", 0, 0, 0, count, size, <<>>, <<>>, strings, records)
  BY FixedIs
<1>2. file = IF st.sourceMagic = "none" THEN fresh
             ELSE [fresh EXCEPT !.fieldCount = st.fieldCount, !.recordSize = st.recordSize]
  BY DEF WriteWdbc
<1> HIDE DEF strings, records, size, count, fresh, file
<1>3. CASE st.sourceMagic = "none"
  <2>1. file = FileOf("WDBC", 0, 0, 0, count, size, <<>>, <<>>, strings, records)
    BY <1>1, <1>2, <1>3
  <2>2. file.strings = strings /\ file.records = records
    BY <2>1 DEF FileOf
  <2>3. \A f : ~ReadFrom(inf.schema, f, st)
    BY <1>3 DEF ReadFrom, Readable, FixedMagics
  <2>4. IsWrite(inf, "WDBC", st, file)
    BY <2>1, <2>2, <2>3 DEF IsWrite, size
  <2> QED BY <2>2, <2>4 DEF strings, records, file
<1>4. CASE st.sourceMagic = "WDBC"
  <2>1. st # FreshState
    BY <1>4, FreshStateIs
  <2>2. PICK g : ReadFrom(inf.schema, g, st)
    BY <2>1 DEF Remembered
  <2>3. st.recordSize = size
    BY <2>2, ReadableIs DEF ReadFrom, size
  <2>4. file = FileOf("WDBC", 0, 0, 0, st.fieldCount, size, <<>>, <<>>, strings, records)
    BY <1>1, <1>2, <1>4, <2>3 DEF FileOf
  <2>5. file.strings = strings /\ file.records = records
    BY <2>4 DEF FileOf
  <2>6. \A f : ReadFrom(inf.schema, f, st) =>
              /\ f.magic = "WDBC" /\ f.minId = 0 /\ f.maxId = 0 /\ f.identity = 0
              /\ f.fieldCount = st.fieldCount /\ f.index = <<>> /\ f.copy = <<>>
    BY <1>4, ReadableIs DEF ReadFrom
  <2>7. IsWrite(inf, "WDBC", st, file)
    BY <2>4, <2>5, <2>6 DEF IsWrite, size
  <2> QED BY <2>5, <2>7 DEF strings, records, file
<1> QED BY <1>3, <1>4

LEMMA Wdb2Is ==
    ASSUME NEW inf, NEW rs, NEW st, Remembered(inf.schema, st), st.sourceMagic \in {"none", "WDB2"}, NEW resolved
    PROVE  LET file == WriteWdb2(inf, rs, st, resolved)
           IN  /\ file.strings = WriteBlock(resolved.pool)
               /\ file.records = EncodeRows(inf.schema, rs, resolved.offsets)
               /\ IsWrite(inf, "WDB2", st, file)
<1> DEFINE strings == WriteBlock(resolved.pool)
           records == EncodeRows(inf.schema, rs, resolved.offsets)
           size == RecordStride(inf.schema)
           count == FieldSlotCount(inf.schema)
           fresh == Fixed("WDB2", inf, rs, resolved)
           build == inf.version[4]
           file == WriteWdb2(inf, rs, st, resolved)
<1>1. fresh = FileOf("WDB2", 0, 0, 0, count, size, <<>>, <<>>, strings, records)
  BY FixedIs
<1>2. file = IF st.sourceMagic # "WDB2"
             THEN [fresh EXCEPT !.identity = build, !.index = st.index, !.copy = st.copy]
             ELSE [fresh EXCEPT !.minId = st.header[1].minId, !.maxId = st.header[1].maxId,
                          !.identity = st.header[1].identity, !.fieldCount = st.fieldCount,
                          !.recordSize = st.recordSize, !.index = st.index, !.copy = st.copy,
                          !.surplus = Len(st.index) - IndexEntries(st.header[1])]
  BY DEF WriteWdb2
<1> HIDE DEF strings, records, size, count, fresh, file, build
<1>3. CASE st.sourceMagic = "none"
  <2>1. st.index = <<>> /\ st.copy = <<>>
    <3>1. \A f : ~ReadFrom(inf.schema, f, st)
      BY <1>3 DEF ReadFrom, Readable, FixedMagics
    <3>2. st = FreshState
      BY <3>1 DEF Remembered
    <3> QED BY <3>2 DEF FreshState
  <2>2. file = FileOf("WDB2", 0, 0, build, count, size, <<>>, <<>>, strings, records)
    BY <1>1, <1>2, <1>3, <2>1 DEF FileOf
  <2>3. file.strings = strings /\ file.records = records
    BY <2>2 DEF FileOf
  <2>4. \A f : ~ReadFrom(inf.schema, f, st)
    BY <1>3 DEF ReadFrom, Readable, FixedMagics
  <2>5. Len(<<>>) = 0
    OBVIOUS
  <2>6. IsWrite(inf, "WDB2", st, file)
    BY <2>2, <2>3, <2>4, <2>5 DEF IsWrite, size
  <2> QED BY <2>3, <2>6 DEF strings, records, file
<1>4. CASE st.sourceMagic = "WDB2"
  <2>1. st # FreshState
    BY <1>4, FreshStateIs
  <2>2. PICK g : ReadFrom(inf.schema, g, st)
    BY <2>1 DEF Remembered
  <2>3. Readable(inf.schema, g) /\ g.magic = "WDB2" /\ st.recordSize = g.recordSize
        /\ st.header = HeaderOf(g) /\ st.index = g.index
    BY <1>4, <2>2 DEF ReadFrom
  <2>4. st.recordSize = size /\ Len(g.index) = IndexEntries(g) /\ ~ (g.maxId # 0 /\ g.maxId < g.minId)
        /\ g.minId \in Nat /\ g.maxId \in Nat
    BY <2>3, ReadableIs DEF size
  <2>5. /\ st.header[1].minId = g.minId /\ st.header[1].maxId = g.maxId
    BY <2>3 DEF HeaderOf
  <2>6. Len(st.index) = IndexEntries(st.header[1]) /\ IndexEntries(g) \in Int
        /\ IndexEntries(g) = IF g.maxId # 0 THEN g.maxId - g.minId + 1 ELSE 0
    BY <2>3, <2>4, <2>5 DEF IndexEntries
  <2>7. Len(st.index) - IndexEntries(st.header[1]) = 0
    BY <2>3, <2>4, <2>6
  <2>8. file = FileOf("WDB2", g.minId, g.maxId, st.header[1].identity, st.fieldCount, size, st.index, st.copy, strings, records)
    BY <1>1, <1>2, <1>4, <2>4, <2>5, <2>7 DEF FileOf
  <2>9. file.strings = strings /\ file.records = records
    BY <2>8 DEF FileOf
  <2>10. \A f : ReadFrom(inf.schema, f, st) =>
              /\ f.magic = "WDB2" /\ f.minId = g.minId /\ f.maxId = g.maxId /\ f.identity = st.header[1].identity
              /\ f.fieldCount = st.fieldCount /\ f.index = st.index /\ f.copy = st.copy
    BY <1>4, <2>5 DEF ReadFrom, HeaderOf
  <2>11. /\ Len(st.index) = (IF g.maxId # 0 THEN g.maxId - g.minId + 1 ELSE 0)
         /\ g.maxId # 0 => g.minId <= g.maxId
    BY <2>3, <2>4, <2>6
  <2>12. IsWrite(inf, "WDB2", st, file)
    BY <2>4, <2>8, <2>9, <2>10, <2>11 DEF IsWrite, size
  <2> QED BY <2>9, <2>12 DEF strings, records, file
<1> QED BY <1>3, <1>4

\* How the texts of a table's rows are resolved when it is written.
ResolvedFor(inf, rs, st) == ResolveAll(st.strings, Texts(inf.schema, rs), st.stringOffsets)

LEMMA FixedWrites ==
    ASSUME NEW inf, NEW rs, NEW st, Remembered(inf.schema, st), NEW magic \in FixedMagics,
           st.sourceMagic # "none" => magic = st.sourceMagic, NEW file, WriteFixed(magic, inf, rs, st) = Written(file)
    PROVE  /\ file.strings = WriteBlock(ResolvedFor(inf, rs, st).pool)
           /\ file.records = EncodeRows(inf.schema, rs, ResolvedFor(inf, rs, st).offsets)
           /\ IsWrite(inf, magic, st, file)
<1> DEFINE resolved == ResolvedFor(inf, rs, st)
           made == IF magic = "WDB2" THEN WriteWdb2(inf, rs, st, resolved) ELSE WriteWdbc(inf, rs, st, resolved)
<1>1. WriteFixed(magic, inf, rs, st) = Written(made)
  <2>1. WriteFixed(magic, inf, rs, st) = IF magic = "WDB2" /\ Wdb2Refuses(rs, st) THEN Failed("InvalidEntityState")
                                         ELSE Written(made)
    BY DEF WriteFixed, ResolvedFor
  <2>2. Failed("InvalidEntityState") # Written(file)
    BY DEF Failed, Written
  <2> HIDE DEF made
  <2> QED BY <2>1, <2>2
<1> HIDE DEF made
<1>2. file = made
  <2>1. Written(file).file[1] = file /\ Written(made).file[1] = made
    BY DEF Written
  <2> QED BY <1>1, <2>1
<1> HIDE DEF resolved
<1>3. CASE magic = "WDB2"
  <2>1. file = WriteWdb2(inf, rs, st, resolved) /\ st.sourceMagic \in {"none", "WDB2"}
    BY <1>2, <1>3 DEF made
  <2>2. /\ file.strings = WriteBlock(resolved.pool) /\ file.records = EncodeRows(inf.schema, rs, resolved.offsets)
        /\ IsWrite(inf, "WDB2", st, file)
    BY <2>1, Wdb2Is
  <2> QED BY <1>3, <2>2 DEF resolved
<1>4. CASE magic = "WDBC"
  <2>1. file = WriteWdbc(inf, rs, st, resolved) /\ st.sourceMagic \in {"none", "WDBC"}
    BY <1>2, <1>4 DEF made
  <2>2. /\ file.strings = WriteBlock(resolved.pool) /\ file.records = EncodeRows(inf.schema, rs, resolved.offsets)
        /\ IsWrite(inf, "WDBC", st, file)
    BY <2>1, WdbcIs
  <2> QED BY <1>4, <2>2 DEF resolved
<1> QED BY <1>3, <1>4 DEF FixedMagics

\* A table whose rows and memory a writer of the fixed formats can be handed,
\* and the file that it gives.
Writes(inf, rs, st, magic, file) ==
    /\ IsSchema(inf.schema) /\ IsRows(inf.schema, rs) /\ Remembered(inf.schema, st)
    /\ magic \in FixedMagics /\ (st.sourceMagic # "none" => magic = st.sourceMagic)
    /\ WriteFixed(magic, inf, rs, st) = Written(file)

LEMMA WhatIsWritten ==
    ASSUME NEW inf, NEW rs, NEW st, NEW magic, NEW file, Writes(inf, rs, st, magic, file)
    PROVE  LET texts == Texts(inf.schema, rs)
               resolved == ResolvedFor(inf, rs, st)
           IN  /\ Readable(inf.schema, file) /\ file.magic = magic
               /\ file.strings = WriteBlock(resolved.pool) /\ file.records = EncodeRows(inf.schema, rs, resolved.offsets)
               /\ IsWrite(inf, magic, st, file)
               /\ texts \in Seq(Seq(Nat)) /\ ResolvedSo(resolved, Len(texts), st.strings, texts)
<1> DEFINE sch == inf.schema
           texts == Texts(sch, rs)
           resolved == ResolvedFor(inf, rs, st)
<1>1. /\ IsSchema(sch) /\ IsRows(sch, rs) /\ Remembered(sch, st)
      /\ magic \in FixedMagics /\ (st.sourceMagic # "none" => magic = st.sourceMagic)
      /\ WriteFixed(magic, inf, rs, st) = Written(file)
  BY DEF Writes
<1>2. /\ file.strings = WriteBlock(resolved.pool) /\ file.records = EncodeRows(sch, rs, resolved.offsets)
      /\ IsWrite(inf, magic, st, file)
  <2> HIDE DEF resolved
  <2> QED BY <1>1, FixedWrites DEF resolved
<1>3. texts \in Seq(Seq(Nat))
  BY <1>1, TextsAre
<1>4. IsBlock(st.strings) /\ JournalIn(st.stringOffsets, st.strings)
  BY <1>1, RememberedStrings
<1>5. ResolvedSo(resolved, Len(texts), st.strings, texts)
  <2>1. ResolvedSo(ResolveAll(st.strings, texts, st.stringOffsets), Len(texts), st.strings, texts)
    <3> HIDE DEF texts
    <3> QED BY <1>3, <1>4, AllResolved
  <2> QED BY <2>1 DEF ResolvedFor
<1> HIDE DEF resolved
<1>6. /\ Extends(Pool(st.strings), resolved.pool) /\ resolved.offsets \in Seq(Nat) /\ Len(resolved.offsets) = Len(texts)
      /\ \A j \in 1 .. Len(resolved.offsets) : resolved.offsets[j] < resolved.pool.size
  BY <1>5 DEF ResolvedSo
<1>7. IsBlock(resolved.pool) /\ resolved.pool.size \in Nat /\ resolved.pool.size > 0
  <2>1. IsBlock(resolved.pool) /\ Pool(st.strings).size <= resolved.pool.size
    BY <1>6 DEF Extends
  <2>2. Pool(st.strings).size \in Nat /\ Pool(st.strings).size > 0
    BY <1>4, PoolIsBlock
  <2>3. resolved.pool.size \in Nat
    BY <2>1, BlockIs
  <2> QED BY <2>1, <2>2, <2>3
<1>8. file.strings \in Seq(Nat) /\ Len(file.strings) = resolved.pool.size /\ file.strings # <<>>
  <2>1. file.strings \in Seq(Nat) /\ Len(file.strings) = resolved.pool.size
    BY <1>2, <1>7, WriteIs
  <2>2. Len(<<>>) = 0
    OBVIOUS
  <2> QED BY <1>7, <2>1, <2>2
<1>9. IsRecords(sch, file.records, Len(file.strings))
  <2> DEFINE offsets == resolved.offsets
             size == resolved.pool.size
  <2>1. offsets \in Seq(Nat) /\ Len(offsets) = Len(Texts(sch, rs)) /\ \A j \in 1 .. Len(offsets) : offsets[j] < size
    BY <1>6
  <2>2. size \in Nat
    BY <1>7
  <2> HIDE DEF offsets, size
  <2>3. IsRecords(sch, EncodeRows(sch, rs, offsets), size)
    BY <1>1, <2>1, <2>2, RecordsAreWritten
  <2> QED BY <1>2, <1>8, <2>3 DEF offsets, size
<1>10. Readable(sch, file) /\ file.magic = magic
  <2> DEFINE Heads(minId, maxId, identity, fieldCount, index, copy) ==
          /\ file = FileOf(magic, minId, maxId, identity, fieldCount, RecordStride(sch), index, copy,
                           file.strings, file.records)
          /\ IF magic = "WDB2" THEN /\ Len(index) = (IF maxId # 0 THEN maxId - minId + 1 ELSE 0)
                                    /\ maxId # 0 => minId <= maxId
             ELSE minId = 0 /\ maxId = 0 /\ identity = 0 /\ index = <<>> /\ copy = <<>>
  <2>a. PICK minId \in Nat, maxId \in Nat :
          \E identity, fieldCount, index, copy : Heads(minId, maxId, identity, fieldCount, index, copy)
    BY <1>2 DEF IsWrite
  <2>1. PICK identity, fieldCount, index, copy : Heads(minId, maxId, identity, fieldCount, index, copy)
    BY <2>a
  <2> DEFINE strings == file.strings
             records == file.records
  <2>2. strings \in Seq(Nat) /\ strings # <<>> /\ IsRecords(sch, records, Len(strings))
    BY <1>8, <1>9
  <2>3. file = FileOf(magic, minId, maxId, identity, fieldCount, RecordStride(sch), index, copy, strings, records)
    BY <2>1
  <2> HIDE DEF strings, records
  <2>4. Readable(sch, FileOf(magic, minId, maxId, identity, fieldCount, RecordStride(sch), index, copy, strings, records))
    BY <1>1, <2>1, <2>2, FileOfIs
  <2>5. file.magic = magic
    BY <2>3 DEF FileOf
  <2> QED BY <2>3, <2>4, <2>5
<1> QED BY <1>2, <1>3, <1>5, <1>10 DEF resolved

\* An offset into the block that was read names the same text in what is written.
LEMMA OffsetsStay ==
    ASSUME NEW inf, NEW rs, NEW st, NEW magic, NEW file, Writes(inf, rs, st, magic, file), Terminated(st.strings),
           NEW offset \in 0 .. st.strings.size - 1
    PROVE  At(ReadBlock(file.strings), offset) = At(st.strings, offset)
<1> DEFINE resolved == ResolvedFor(inf, rs, st)
<1>1. IsSchema(inf.schema) /\ Remembered(inf.schema, st)
  BY DEF Writes
<1>2. /\ st.strings = NoStrings \/ \E b \in Seq(Nat) : st.strings = ReadBlock(b)
      /\ IsBlock(st.strings)
  BY <1>1, RememberedStrings
<1>3. st.strings.size \in Nat /\ st.strings.size # 0
  <2>1. st.strings.size \in Nat
    BY <1>2, BlockIs
  <2> QED BY <2>1
<1>4. PICK b \in Seq(Nat) : st.strings = ReadBlock(b)
  <2>1. NoStrings.size = 0
    BY DEF NoStrings
  <2> QED BY <1>2, <1>3, <2>1
<1>5. file.strings = WriteBlock(resolved.pool) /\ ResolvedSo(resolved, Len(Texts(inf.schema, rs)), st.strings, Texts(inf.schema, rs))
  BY WhatIsWritten
<1> HIDE DEF resolved
<1>6. Extends(ReadBlock(b), resolved.pool)
  <2>1. Pool(st.strings) = st.strings
    BY <1>3 DEF Pool
  <2> QED BY <1>4, <1>5, <2>1 DEF ResolvedSo
<1>7. Terminated(ReadBlock(b)) /\ offset \in 0 .. ReadBlock(b).size - 1
  BY <1>4
<1>8. At(ReadBlock(WriteBlock(resolved.pool)), offset) = At(ReadBlock(b), offset)
  BY <1>6, <1>7, WrittenOffsetsStay
<1> QED BY <1>4, <1>5, <1>8

\* Texts without a zero byte.
LEMMA TextsAreNulFree ==
    ASSUME NEW sch, IsSchema(sch), NEW rs, IsRows(sch, rs), ~EmbeddedNul(sch, rs)
    PROVE  \A j \in 1 .. Len(Texts(sch, rs)) : NulFree(Texts(sch, rs)[j])
<1> DEFINE n == Len(rs)
           texts == Texts(sch, rs)
           g == TextGrid(sch, rs)
           R == {<<x, x>> : x \in {y \in Seq(Nat) : NulFree(y)}}
<1>1. n \in Nat /\ DOMAIN rs = 1 .. n /\ \A r \in 1 .. n, c \in DOMAIN sch : IsCell(sch[c], rs[r][c])
  BY DEF IsRows
<1>2. /\ texts \in Seq(Seq(Nat)) /\ IsGrid(g, sch, n) /\ IsLaidOut(texts, g, sch, n)
      /\ \A r \in 1 .. n, c \in DOMAIN sch : \A e \in 1 .. StringSlots(sch[c]) : g[r][c][e] = rs[r][c][e]
  BY TextsAre
<1> HIDE DEF g, texts, n
<1>3. ASSUME NEW r \in 1 .. n, NEW c \in DOMAIN sch, NEW e \in 1 .. StringSlots(sch[c])
      PROVE  <<g[r][c][e], g[r][c][e]>> \in R
  <2> DEFINE x == rs[r][c][e]
  <2>1. IsColumn(sch[c]) /\ IsCell(sch[c], rs[r][c])
    BY <1>1 DEF IsSchema
  <2>2. x \in Seq(Nat)
    <3> DEFINE col == sch[c]
               cell == rs[r][c]
    <3>1. IsColumn(col) /\ IsCell(col, cell) /\ e \in 1 .. StringSlots(col)
      BY <2>1
    <3> HIDE DEF col, cell
    <3>2. TextsOf(col, cell) \in Seq(Seq(Nat)) /\ Len(TextsOf(col, cell)) = StringSlots(col)
          /\ TextsOf(col, cell)[e] = cell[e]
      BY <3>1, TextsOfCell
    <3>3. cell[e] \in Seq(Nat)
      BY <3>1, <3>2, Elements
    <3> QED BY <3>3 DEF cell
  <2>3. \A p \in DOMAIN x : x[p] # 0
    BY <1>1 DEF EmbeddedNul
  <2>4. g[r][c][e] = x
    BY <1>2
  <2> HIDE DEF x
  <2>5. NulFree(x)
    BY <2>2, <2>3 DEF NulFree, NUL
  <2> QED BY <2>2, <2>4, <2>5
<1>4. \A p \in 1 .. Len(texts) : <<texts[p], texts[p]>> \in R
  <2> HIDE DEF R
  <2> QED BY <1>1, <1>2, <1>3, GridPairs
<1>5. \A p \in 1 .. Len(texts) : NulFree(texts[p])
  <2>1. ASSUME NEW p \in 1 .. Len(texts) PROVE NulFree(texts[p])
    <3>1. <<texts[p], texts[p]>> \in R
      BY <1>4
    <3>2. PICK x \in {y \in Seq(Nat) : NulFree(y)} : <<texts[p], texts[p]>> = <<x, x>>
      BY <3>1
    <3>3. texts[p] = x
      BY <3>2
    <3> QED BY <3>3
  <2> QED BY <2>1
<1> QED BY <1>5 DEF texts

\* What is written reads back.
LEMMA RoundTrip ==
    ASSUME NEW inf, NEW rs, NEW st, NEW magic, NEW file, Writes(inf, rs, st, magic, file), Terminated(st.strings),
           ~EmbeddedNul(inf.schema, rs), \A c \in DOMAIN inf.schema : ~inf.schema[c].noninline
    PROVE  LET again == ReadFixed(inf, file, [rows |-> <<>>, state |-> FreshState])
           IN  again.result = "ok" /\ again.rows = rs
<1> DEFINE sch == inf.schema
           texts == Texts(sch, rs)
           resolved == ResolvedFor(inf, rs, st)
           offsets == resolved.offsets
           block == ReadBlock(file.strings)
<1>1. IsSchema(sch) /\ IsRows(sch, rs) /\ Remembered(sch, st)
  BY DEF Writes
<1>2. /\ Readable(sch, file) /\ file.strings = WriteBlock(resolved.pool) /\ file.records = EncodeRows(sch, rs, offsets)
      /\ texts \in Seq(Seq(Nat)) /\ ResolvedSo(resolved, Len(texts), st.strings, texts)
  BY WhatIsWritten
<1>3. /\ st.strings = NoStrings \/ \E b \in Seq(Nat) : st.strings = ReadBlock(b)
      /\ JournalIn(st.stringOffsets, st.strings)
  BY <1>1, RememberedStrings
<1>4. Separated(st.strings)
  <2>1. CASE st.strings = NoStrings
    BY <2>1, NoStringsIs
  <2>2. CASE \E b \in Seq(Nat) : st.strings = ReadBlock(b)
    <3>1. PICK b \in Seq(Nat) : st.strings = ReadBlock(b)
      BY <2>2
    <3>2. Terminated(ReadBlock(b))
      BY <3>1
    <3> QED BY <3>1, <3>2, ReadIsApart
  <2> QED BY <1>3, <2>1, <2>2
<1>5. \A j \in 1 .. Len(texts) : NulFree(texts[j])
  BY <1>1, TextsAreNulFree
<1>6. \A j \in 1 .. Len(texts) : At(block, offsets[j]) = texts[j]
  <2> DEFINE made == ResolveAll(st.strings, texts, st.stringOffsets)
  <2>1. made = resolved
    BY DEF ResolvedFor
  <2> HIDE DEF texts, made, resolved
  <2>2. \A j \in 1 .. Len(texts) : At(ReadBlock(WriteBlock(made.pool)), made.offsets[j]) = texts[j]
    BY <1>2, <1>3, <1>4, <1>5, ResolvedReads DEF made
  <2> QED BY <1>2, <2>1, <2>2
<1>7. offsets \in Seq(Nat) /\ Len(offsets) = Len(texts)
  BY <1>2 DEF ResolvedSo
<1> HIDE DEF offsets, resolved, block
<1>8. DecodeRows(sch, EncodeRows(sch, rs, offsets), block) = rs
  BY <1>1, <1>6, <1>7, RowsReadBack
<1> DEFINE again == ReadFixed(inf, file, [rows |-> <<>>, state |-> FreshState])
<1>9. again = DecodeFixed(sch, file, FreshState)
  BY <1>2 DEF ReadFixed, Readable
<1>10. DecodeFixed(sch, file, FreshState).result = "ok"
       /\ DecodeFixed(sch, file, FreshState).rows = DecodeRows(sch, file.records, ReadBlock(file.strings))
  BY DEF DecodeFixed, DecodeRows
<1> HIDE DEF again
<1>11. again.result = "ok" /\ again.rows = rs
  BY <1>2, <1>8, <1>9, <1>10 DEF block
<1> QED BY <1>11 DEF again

\* A table nobody edited writes the file that it was read from.
LEMMA Verbatim ==
    ASSUME NEW inf, NEW rs, NEW st, NEW magic, NEW file, Writes(inf, rs, st, magic, file),
           NEW f, ReadFrom(inf.schema, f, st), rs = DecodeRows(inf.schema, f.records, ReadBlock(f.strings)),
           f.strings # <<>>
    PROVE  file = f
<1> DEFINE sch == inf.schema
           texts == Texts(sch, rs)
           resolved == ResolvedFor(inf, rs, st)
           journal == Journal(sch, f.records)
           block == ReadBlock(f.strings)
<1>1. IsSchema(sch)
  BY DEF Writes
<1>2. /\ Readable(sch, file) /\ file.strings = WriteBlock(resolved.pool)
      /\ file.records = EncodeRows(sch, rs, resolved.offsets) /\ IsWrite(inf, magic, st, file)
      /\ texts \in Seq(Seq(Nat))
  BY WhatIsWritten
<1>3. Readable(sch, f) /\ st.strings = block /\ st.stringOffsets = journal
  BY DEF ReadFrom
<1>4. f.strings \in Seq(Nat) /\ BlockSize(f) \in Nat /\ IsRecords(sch, f.records, BlockSize(f))
  BY <1>3, ReadableIs
<1>5. IsBlock(block) /\ block.size = Len(f.strings) /\ block.size # 0
  <2>1. IsBlock(block) /\ block.size = Len(f.strings)
    BY <1>4, ReadIsBlock DEF ReadBlock
  <2> QED BY <1>4, <2>1
<1>6. /\ EncodeRows(sch, rs, journal) = f.records /\ Len(journal) = Len(texts)
      /\ \A j \in 1 .. Len(journal) : At(block, journal[j]) = texts[j]
  <2> DEFINE records == f.records
             size == BlockSize(f)
  <2>1. size \in Nat /\ IsRecords(sch, records, size) /\ rs = DecodeRows(sch, records, block)
    BY <1>4
  <2> HIDE DEF records, size, block
  <2>2. /\ EncodeRows(sch, DecodeRows(sch, records, block), Journal(sch, records)) = records
        /\ Len(Journal(sch, records)) = Len(Texts(sch, DecodeRows(sch, records, block)))
        /\ \A j \in 1 .. Len(Journal(sch, records)) :
              At(block, Journal(sch, records)[j]) = Texts(sch, DecodeRows(sch, records, block))[j]
    BY <1>1, <1>5, <2>1, RecordsAreVerbatim
  <2> QED BY <2>1, <2>2 DEF records
<1>7. journal \in Seq(Nat)
  <2>1. journal \in Seq(0 .. BlockSize(f) - 1)
    BY <1>1, <1>4, JournalIs
  <2> HIDE DEF journal
  <2> QED BY <1>4, <2>1
<1> HIDE DEF block, journal, texts
<1>8. Pool(block) = block
  BY <1>5 DEF Pool
<1>9. ResolveAll(block, texts, journal) = [pool |-> block, offsets |-> journal]
  <2>1. Len(texts) \in Nat
    BY <1>2
  <2>2. \A j \in 1 .. Len(texts) : At(Pool(block), journal[j]) = texts[j]
    BY <1>6, <1>8
  <2>3. ResolveAll(block, texts, journal) = [pool |-> Pool(block), offsets |-> journal]
    BY <1>6, <1>7, <2>1, <2>2, ResolvesVerbatim
  <2> QED BY <1>8, <2>3
<1>10. resolved.pool = block /\ resolved.offsets = journal
  <2>1. resolved = ResolveAll(block, texts, journal)
    BY <1>3 DEF ResolvedFor, texts
  <2> QED BY <1>9, <2>1
<1> HIDE DEF resolved
<1>11. file.strings = f.strings /\ file.records = f.records
  <2>1. WriteBlock(block) = f.strings
    BY <1>4, WriteGivesRead DEF block
  <2> QED BY <1>2, <1>6, <1>10, <2>1
<1>12. file = FileOf(f.magic, f.minId, f.maxId, f.identity, f.fieldCount, RecordStride(sch), f.index, f.copy,
                     f.strings, f.records)
  BY <1>2, <1>11 DEF IsWrite
<1>13. f.recordSize = RecordStride(sch)
  BY <1>3, ReadableIs
<1>14. f = FileOf(f.magic, f.minId, f.maxId, f.identity, f.fieldCount, f.recordSize, f.index, f.copy, f.strings, f.records)
  BY <1>3, ReadableIsFileOf
<1> QED BY <1>12, <1>13, <1>14

-----------------------------------------------------------------------------
(* The calls of a table.                                                     *)

\* What a table remembers has the members it starts with, and what the writers
\* and EncryptedPassesThrough ask of them.
StateInv ==
    /\ DOMAIN state = DOMAIN FreshState
    /\ EncryptedPassesThrough
    /\ HeaderIsKept

\* What a read leaves: the table as it was, or what the file says.
LEMMA FixedReads ==
    ASSUME NEW inf, NEW file, NEW rs, NEW st, DOMAIN st = DOMAIN FreshState
    PROVE  LET out == ReadFixed(inf, file, [rows |-> rs, state |-> st])
           IN  \/ out.result # "ok" /\ out.rows = rs /\ out.state = st
               \/ /\ out.result = "ok" /\ DOMAIN out.state = DOMAIN FreshState
                  /\ out.state.encrypted = <<>> /\ out.state.original = <<>>
                  /\ out.state.sourceMagic = file.magic
                  /\ file.magic = "WDB2" => out.state.header # <<>>
<1> DEFINE verdict == HeaderVerdict(inf.schema, file)
           table   == [rows |-> rs, state |-> st]
<1>1. CASE verdict # "ok"
  <2>1. ReadFixed(inf, file, table) = [result |-> verdict, rows |-> rs, state |-> st]
    BY <1>1 DEF ReadFixed, Refused
  <2> HIDE DEF verdict
  <2> QED BY <1>1, <2>1
<1>2. CASE verdict = "ok"
  <2> DEFINE kept  == Reset(st)
             after == DecodeFixed(inf.schema, file, st).state
  <2>1. ReadFixed(inf, file, table) = DecodeFixed(inf.schema, file, st)
    BY <1>2 DEF ReadFixed
  <2>2. DecodeFixed(inf.schema, file, st).result = "ok"
    BY DEF DecodeFixed
  <2>3. /\ DOMAIN kept = DOMAIN FreshState /\ kept.encrypted = <<>> /\ kept.original = <<>>
        /\ {"sourceMagic", "header", "encrypted", "original"} \subseteq DOMAIN FreshState
    BY ResetIs, FreshStateIs
  <2>4. \E n, size, strings, journal, header, index, copy :
          /\ after = [kept EXCEPT !.sourceMagic = file.magic, !.fieldCount = n, !.recordSize = size,
                         !.strings = strings, !.stringOffsets = journal, !.header = header,
                         !.index = index, !.copy = copy]
          /\ file.magic = "WDB2" => header = HeaderOf(file)
    BY DEF DecodeFixed
  <2>5. HeaderOf(file) # <<>>
    BY DEF HeaderOf
  <2> HIDE DEF kept, after
  <2>6. /\ DOMAIN after = DOMAIN FreshState
        /\ after.encrypted = <<>> /\ after.original = <<>> /\ after.sourceMagic = file.magic
        /\ file.magic = "WDB2" => after.header # <<>>
    BY <2>3, <2>4, <2>5
  <2> QED BY <2>1, <2>2, <2>6 DEF after
<1> QED BY <1>1, <1>2

LEMMA WdcReads ==
    ASSUME NEW inf, NEW file, NEW rs, NEW st, DOMAIN st = DOMAIN FreshState, file.magic \in WdcMagics
    PROVE  LET out == ReadWdc(inf, file, [rows |-> rs, state |-> st])
           IN  \/ out.result # "ok" /\ out.rows = rs /\ out.state = st
               \/ /\ DOMAIN out.state = DOMAIN FreshState
                  /\ out.state.sourceMagic = file.magic
                  /\ out.state.original = IF out.result = "ok" /\ out.state.encrypted # <<>>
                                          THEN <<file>> ELSE <<>>
<1> DEFINE table == [rows |-> rs, state |-> st]
           out   == ReadWdc(inf, file, table)
           img   == Parse(file)
           done  == Decode(img, inf.schema)
<1>1. \/ \E code \in {"TableMagicUnknown", "TableTruncated", "SchemaMismatch"} : out = Refused(table, code)
      \/ out = Decoded(file, table, img, done)
  BY DEF ReadWdc
<1> HIDE DEF img, done
<1>2. CASE \E code \in {"TableMagicUnknown", "TableTruncated", "SchemaMismatch"} : out = Refused(table, code)
  BY <1>2 DEF Refused
<1>3. CASE out = Decoded(file, table, img, done)
  <2> DEFINE kept  == Reset(st)
             after == WdcState(st, file, img, done)
             orig  == IF done.result = "ok" /\ done.encrypted # <<>> THEN <<file>> ELSE <<>>
  <2>1. out.result = done.result /\ out.state = after
    BY <1>3 DEF Decoded
  <2>2. DOMAIN kept = DOMAIN FreshState
        /\ {"sourceMagic", "header", "encrypted", "original"} \subseteq DOMAIN FreshState
    BY ResetIs, FreshStateIs
  <2>3. \E identity, kinds, prefix :
          after = [kept EXCEPT !.sourceMagic = file.magic, !.identity = identity, !.kinds = kinds,
                     !.prefix = prefix, !.encrypted = done.encrypted, !.original = orig]
    BY DEF WdcState
  <2> HIDE DEF kept, after, orig
  <2>4. /\ DOMAIN after = DOMAIN FreshState /\ after.sourceMagic = file.magic
        /\ after.encrypted = done.encrypted /\ after.original = orig
    BY <2>2, <2>3
  <2> HIDE DEF out
  <2> QED BY <2>1, <2>4 DEF orig, out
<1> QED BY <1>1, <1>2, <1>3

\* What a call does that is no read: an edit, an open or a write keeps what the
\* table remembers, and gives the rows up only to a call that succeeds.
Remembers ==
    /\ UNCHANGED state
    /\ source'.file = source.file
    /\ returned'.code # "ok" => UNCHANGED rows

\* The action property, for one step.
FailureIsClean == returned'.code # "ok" => UNCHANGED <<rows, state>> \/ state'.sourceMagic \in WdcMagics

\* What is known of the file it was last read from: its members.
SourceInv == DOMAIN source = {"file", "pristine", "edits"}
ReadInv == StateInv /\ SourceInv

LEMMA RemembersStep ==
    ASSUME ReadInv, Remembers, SourceInv'
    PROVE  ReadInv' /\ FailureIsClean
  BY DEF ReadInv, StateInv, Remembers, FailureIsClean, EncryptedPassesThrough, HeaderIsKept

LEMMA EditedStep ==
    ASSUME ReadInv, NEW new, NEW code, Edited(new, code), code # "ok" => new = rows
    PROVE  ReadInv' /\ FailureIsClean
<1>1. /\ source' = source \/ source' = [source EXCEPT !.pristine = FALSE, !.edits = @ + 1]
      /\ rows' = new /\ state' = state /\ returned' = Said(code)
  BY DEF Edited
<1>2. source'.file = source.file /\ SourceInv'
  BY <1>1 DEF ReadInv, SourceInv
<1>3. returned'.code = code
  BY <1>1 DEF Said
<1> QED BY <1>1, <1>2, <1>3, RemembersStep DEF Remembers

LEMMA ReadStep ==
    ASSUME ReadInv, NEW file, NEW edits, Read(file, edits)
    PROVE  ReadInv' /\ FailureIsClean
<1> DEFINE out == ReadTable(info, file, [rows |-> rows, state |-> state])
<1>1. Took(file, out, edits)
  BY DEF Read
<1>2. \/ out.result # "ok" /\ out.rows = rows /\ out.state = state
      \/ /\ DOMAIN out.state = DOMAIN FreshState /\ out.state.sourceMagic = file.magic
         /\ out.state.original = IF out.result = "ok" /\ out.state.encrypted # <<>> THEN <<file>> ELSE <<>>
         /\ out.result # "ok" => file.magic \in WdcMagics
         /\ file.magic = "WDB2" => out.state.header # <<>>
  <2>1. DOMAIN state = DOMAIN FreshState
    BY DEF ReadInv, StateInv
  <2>2. CASE file.magic \in {"WDBC", "WDB2"}
    <3>1. out = ReadFixed(info, file, [rows |-> rows, state |-> state])
      BY <2>2 DEF ReadTable, WdcMagics
    <3> HIDE DEF out
    <3> QED BY <2>1, <3>1, FixedReads
  <2>3. CASE file.magic \in WdcMagics
    <3>1. out = ReadWdc(info, file, [rows |-> rows, state |-> state]) /\ file.magic # "WDB2"
      BY <2>3 DEF ReadTable, WdcMagics
    <3> HIDE DEF out
    <3> QED BY <2>1, <2>3, <3>1, WdcReads
  <2>4. CASE file.magic \notin {"WDBC", "WDB2"} \cup WdcMagics
    <3>1. out = Refused([rows |-> rows, state |-> state], "TableTruncated")
          \/ out = Refused([rows |-> rows, state |-> state], "TableMagicUnknown")
      BY <2>4 DEF ReadTable
    <3> QED BY <3>1 DEF Refused
  <2> QED BY <2>2, <2>3, <2>4
<1> HIDE DEF out
<1>3. /\ rows' = out.rows /\ state' = out.state /\ returned'.code = out.result
      /\ source' = IF out.result = "ok" THEN [file |-> <<file>>, pristine |-> TRUE, edits |-> edits]
                   ELSE IF out.rows = rows /\ out.state = state THEN source ELSE NoSource
  BY <1>1 DEF Took, Said
<1>4. CASE out.rows = rows /\ out.state = state /\ out.result # "ok"
  BY <1>3, <1>4, RemembersStep DEF Remembers, ReadInv, SourceInv
<1>5. CASE /\ DOMAIN out.state = DOMAIN FreshState /\ out.state.sourceMagic = file.magic
           /\ out.state.original = IF out.result = "ok" /\ out.state.encrypted # <<>> THEN <<file>> ELSE <<>>
           /\ out.result # "ok" => file.magic \in WdcMagics /\ ~ (out.rows = rows /\ out.state = state)
           /\ file.magic = "WDB2" => out.state.header # <<>>
  <2>1. /\ source'.file = IF out.result = "ok" THEN <<file>> ELSE <<>>
        /\ DOMAIN source' = {"file", "pristine", "edits"}
    BY <1>3, <1>5 DEF NoSource
  <2>2. <<file>> # <<>>
    OBVIOUS
  <2>3. EncryptedPassesThrough'
    BY <1>3, <1>5, <2>1, <2>2 DEF EncryptedPassesThrough
  <2>4. HeaderIsKept' /\ FailureIsClean
    BY <1>3, <1>5 DEF HeaderIsKept, FailureIsClean
  <2> QED BY <1>3, <1>5, <2>1, <2>3, <2>4 DEF ReadInv, StateInv, SourceInv
<1> QED BY <1>2, <1>4, <1>5

LEMMA CellIsRefused ==
    ASSUME NEW r, NEW c, NEW e, NEW value, NEW types, SetCell(r, c, e, value, types)
    PROVE  \E new, code : Edited(new, code) /\ (code # "ok" => new = rows)
  BY DEF SetCell

LEMMA TableStep == ASSUME ReadInv, Next PROVE ReadInv' /\ FailureIsClean
<1>1. CASE \E from \in Sources, asked \in Asked : Open(from, asked[1], asked[2])
  <2>1. UNCHANGED <<rows, state, source>>
    BY <1>1 DEF Open
  <2> QED BY <2>1, RemembersStep DEF Remembers, ReadInv, SourceInv
<1>2. CASE ReadGiven \/ ReadBack
  BY <1>2, ReadStep DEF ReadGiven, ReadBack
<1>3. CASE AppendRow \/ ClearRows
  BY <1>3, EditedStep DEF AppendRow, ClearRows
<1>4. CASE \E r \in Rows : EraseRow(r)
  BY <1>4, EditedStep DEF EraseRow
<1>5. CASE \E r \in Rows, c \in DOMAIN schema : \E e \in 1 .. schema[c].slots :
             SetInt(r, c, e) \/ SetFloat(r, c, e) \/ SetString(r, c, e)
  BY <1>5, CellIsRefused, EditedStep DEF SetInt, SetFloat, SetString
<1>6. CASE \E r \in Rows, c \in DOMAIN schema, v \in {0, 1} : SetLocstringFlags(r, c, v)
  BY <1>6, EditedStep DEF SetLocstringFlags
<1>7. CASE \E policy \in {"Preserve", "Drop"}, ext \in {"none", "dbc", "db2"} : Write(policy, ext)
  <2>1. UNCHANGED <<rows, state, source>>
    BY <1>7 DEF Write
  <2> QED BY <2>1, RemembersStep DEF Remembers, ReadInv, SourceInv
<1> QED BY <1>1, <1>2, <1>3, <1>4, <1>5, <1>6, <1>7 DEF Next

LEMMA TableBox == ASSUME ReadInv, [Next]_vars PROVE ReadInv'
<1>1. CASE UNCHANGED vars
  BY <1>1 DEF vars, ReadInv, StateInv, SourceInv, EncryptedPassesThrough, HeaderIsKept
<1> QED BY <1>1, TableStep

LEMMA TableInit == Init => ReadInv
<1> SUFFICES ASSUME Init PROVE ReadInv
  OBVIOUS
<1>1. state = FreshState /\ source = NoSource
  BY DEF Init
<1>2. DOMAIN source = {"file", "pristine", "edits"} /\ source.file = <<>>
  BY <1>1 DEF NoSource
<1> QED BY <1>1, <1>2, FreshStateIs DEF ReadInv, StateInv, SourceInv, EncryptedPassesThrough, HeaderIsKept

LEMMA TableInvariant == Spec => []ReadInv
  BY TableInit, TableBox, PTL DEF Spec

-----------------------------------------------------------------------------
(* What a table holds after any calls.                                       *)

\* What the last call returned, if it is a file, is what the table writes now.
ReturnedInv ==
    returned.file # <<>> =>
        /\ info # NoTable
        /\ \E magic \in {"NotSupported"} \cup FixedMagics \cup WdcMagics : \E policy :
              /\ state.sourceMagic # "none" => magic = state.sourceMagic
              /\ returned = WriteAs(magic, info, rows, state, policy)

\* Rows that nobody edited are those of the file they were read from.
SourceIs(sch, file, rs, st) ==
    \E f : file = <<f>> /\ ReadFrom(sch, f, st) /\ rs = DecodeRows(sch, f.records, ReadBlock(f.strings))

\* The table is one that a catalog gave, with rows of its columns, and the
\* memory of a file that was read; a file kept whole is of the WDC family.
ContentInv ==
    /\ source.pristine \in BOOLEAN
    /\ info = NoTable => rows = <<>> /\ state = FreshState
    /\ info # NoTable => IsTable(info)
    /\ state.sourceMagic \notin WdcMagics =>
          /\ IsRows(schema, rows) /\ Remembered(schema, state)
          /\ source.pristine = TRUE => SourceIs(schema, source.file, rows, state)
    /\ state.original = <<>> \/ \E f : state.original = <<f>> /\ f.magic \in WdcMagics
    /\ ReturnedInv

TableInv == ReadInv /\ ContentInv

LEMMA EncodedMagic ==
    ASSUME NEW magic, NEW inf, NEW rs, NEW st, NEW plans
    PROVE  Encode(magic, inf, rs, st, plans).magic = magic
  BY DEF Encode, Emitted

\* A file that was written is of the WDC family, or one of the fixed-stride ones
\* made of the rows and the memory as they are.
LEMMA ReturnedWrites ==
    ASSUME ContentInv, NEW file \in ToSet(returned.file)
    PROVE  /\ info # NoTable
           /\ file.magic \in WdcMagics \/ \E magic : Writes(info, rows, state, magic, file)
<1>1. returned.file # <<>>
  <2>1. CASE returned.file = <<>>
    <3>1. ToSet(<<>>) = {}
      BY DEF ToSet
    <3> QED BY <2>1, <3>1
  <2> QED BY <2>1
<1>a. PICK magic \in {"NotSupported"} \cup FixedMagics \cup WdcMagics :
        \E policy : /\ state.sourceMagic # "none" => magic = state.sourceMagic
                    /\ returned = WriteAs(magic, info, rows, state, policy)
  BY <1>1 DEF ContentInv, ReturnedInv
<1>2. PICK policy : /\ state.sourceMagic # "none" => magic = state.sourceMagic
                    /\ returned = WriteAs(magic, info, rows, state, policy)
  BY <1>a
<1>3. info # NoTable /\ IsSchema(schema)
  BY <1>1 DEF ContentInv, ReturnedInv, IsTable, schema
<1>4. \A code : returned # Failed(code)
  BY <1>1 DEF Failed
<1>5. \A x : returned = Written(x) => file = x
  BY DEF Written, ToSet
<1>6. magic # "NotSupported"
  BY <1>2, <1>4 DEF WriteAs
<1>7. CASE magic \in WdcMagics
  <2>1. returned = WriteWdc(magic, info, rows, state, policy)
    BY <1>2, <1>6, <1>7 DEF WriteAs
  <2>2. \/ state.original # <<>> /\ returned = Written(state.original[1])
        \/ \E plans : returned = Written(Encode(magic, info, rows, state, plans))
    BY <1>4, <2>1 DEF WriteWdc
  <2>3. CASE state.original # <<>> /\ returned = Written(state.original[1])
    <3>1. PICK f : state.original = <<f>> /\ f.magic \in WdcMagics
      BY <2>3 DEF ContentInv
    <3>2. state.original[1] = f
      BY <3>1
    <3>3. file = f
      BY <1>5, <2>3, <3>2
    <3> QED BY <1>3, <3>1, <3>3
  <2>4. CASE \E plans : returned = Written(Encode(magic, info, rows, state, plans))
    <3>1. PICK plans : returned = Written(Encode(magic, info, rows, state, plans))
      BY <2>4
    <3>2. file = Encode(magic, info, rows, state, plans)
      BY <1>5, <3>1
    <3>3. file.magic = magic
      BY <3>2, EncodedMagic
    <3> QED BY <1>3, <1>7, <3>3
  <2> QED BY <2>2, <2>3, <2>4
<1>8. CASE magic \in FixedMagics
  <2>1. magic \notin WdcMagics /\ "none" \notin WdcMagics
    BY <1>8 DEF FixedMagics, WdcMagics
  <2>2. state.sourceMagic \notin WdcMagics
    BY <1>2, <2>1
  <2>3. returned = WriteFixed(magic, info, rows, state)
    BY <1>2, <1>6, <2>1 DEF WriteAs
  <2>4. IsRows(schema, rows) /\ Remembered(schema, state)
    BY <2>2 DEF ContentInv
  <2>5. \E code, x : returned = Failed(code) \/ returned = Written(x)
    BY <2>3 DEF WriteFixed
  <2>6. PICK x : returned = Written(x)
    BY <1>4, <2>5
  <2>7. returned = Written(file)
    BY <1>5, <2>6
  <2>8. Writes(info, rows, state, magic, file)
    BY <1>2, <1>3, <1>8, <2>3, <2>4, <2>7 DEF Writes, schema
  <2> QED BY <1>3, <2>8
<1> QED BY <1>2, <1>6, <1>7, <1>8

\* A call that returns no file, and leaves what the table remembers.
LEMMA ContentKept ==
    ASSUME ContentInv, info' = info, state' = state, returned'.file = <<>>,
           \/ rows' = rows /\ source' = source
           \/ /\ info # NoTable /\ source'.pristine = FALSE
              /\ state.sourceMagic \notin WdcMagics => IsRows(schema, rows')
    PROVE  ContentInv'
<1>1. schema' = schema
  BY DEF schema
<1>2. ReturnedInv'
  BY DEF ReturnedInv
<1>3. CASE rows' = rows /\ source' = source
  <2>1. /\ source'.pristine \in BOOLEAN
        /\ info' = NoTable => rows' = <<>> /\ state' = FreshState
        /\ info' # NoTable => IsTable(info')
        /\ state'.sourceMagic \notin WdcMagics =>
              /\ IsRows(schema', rows') /\ Remembered(schema', state')
              /\ source'.pristine = TRUE => SourceIs(schema', source'.file, rows', state')
        /\ state'.original = <<>> \/ \E f : state'.original = <<f>> /\ f.magic \in WdcMagics
    BY <1>1, <1>3 DEF ContentInv
  <2> QED BY <1>2, <2>1 DEF ContentInv
<1>4. CASE /\ info # NoTable /\ source'.pristine = FALSE
           /\ state.sourceMagic \notin WdcMagics => IsRows(schema, rows')
  <2>1. /\ source'.pristine \in BOOLEAN /\ source'.pristine # TRUE
        /\ info' # NoTable /\ IsTable(info')
        /\ state'.sourceMagic \notin WdcMagics => IsRows(schema', rows') /\ Remembered(schema', state')
        /\ state'.original = <<>> \/ \E f : state'.original = <<f>> /\ f.magic \in WdcMagics
    BY <1>1, <1>4 DEF ContentInv
  <2> QED BY <1>2, <2>1 DEF ContentInv
<1> QED BY <1>3, <1>4

LEMMA ContentInit == ASSUME Init PROVE ContentInv
<1>1. /\ info = NoTable /\ rows = <<>> /\ state = FreshState /\ returned = Said("ok") /\ source = NoSource
  BY DEF Init
<1>2. source.pristine = FALSE /\ returned.file = <<>>
  BY <1>1 DEF NoSource, Said
<1>3. FreshState.sourceMagic = "none" /\ FreshState.original = <<>>
  BY FreshStateIs
<1>4. IsRows(schema, rows) /\ Remembered(schema, state)
  BY <1>1, NoRows DEF Remembered
<1> QED BY <1>1, <1>2, <1>3, <1>4 DEF ContentInv, ReturnedInv

\* A table that is opened is empty, and has read nothing.
LEMMA OpenContent ==
    ASSUME ContentInv, NEW from \in Sources, NEW asked \in Asked, Open(from, asked[1], asked[2])
    PROVE  ContentInv'
<1> DEFINE found == Resolved(from, asked[1], asked[2])
<1>1. /\ info = NoTable /\ returned' = Said(found.code)
      /\ info' = IF found.code = "ok" THEN found.info ELSE info
      /\ rows' = rows /\ state' = state /\ source' = source
  BY DEF Open
<1>2. found.code = "ok" => IsTable(found.info)
  BY TablesAssumption
<1> HIDE DEF found
<1>3. returned'.file = <<>>
  BY <1>1 DEF Said
<1>4. CASE found.code # "ok"
  <2>1. info' = info
    BY <1>1, <1>4
  <2> QED BY <1>1, <1>3, <2>1, ContentKept
<1>5. CASE found.code = "ok"
  <2>1. rows = <<>> /\ state = FreshState /\ FreshState.sourceMagic = "none" /\ FreshState.original = <<>>
    BY <1>1, FreshStateIs DEF ContentInv
  <2>2. "none" \notin WdcMagics
    BY DEF WdcMagics
  <2>3. source.pristine = FALSE
    <3>1. ~SourceIs(schema, source.file, rows, state)
      BY <2>1, FreshIsNotRead DEF SourceIs
    <3> QED BY <2>1, <2>2, <3>1 DEF ContentInv
  <2>4. IsRows(schema', rows') /\ Remembered(schema', state')
    BY <1>1, <2>1, NoRows DEF Remembered
  <2>5. IsTable(info') /\ info' # NoTable
    BY <1>1, <1>2, <1>5 DEF IsTable
  <2>6. ReturnedInv'
    BY <1>3 DEF ReturnedInv
  <2>7. state' = FreshState /\ source'.pristine = FALSE
    BY <1>1, <2>1, <2>3
  <2> QED BY <2>1, <2>4, <2>5, <2>6, <2>7 DEF ContentInv
<1> QED BY <1>4, <1>5

\* A read leaves the table as it was, takes a file of the WDC family, or has the
\* rows and the memory of a fixed-stride file.
LEMMA ReadContent ==
    ASSUME ReadInv, ContentInv, NEW file, NEW edits, Read(file, edits), info # NoTable,
           file.magic \in FixedMagics /\ HeaderVerdict(schema, file) = "ok" => IsFixedFile(schema, file)
    PROVE  ContentInv'
<1> DEFINE table == [rows |-> rows, state |-> state]
           out == ReadTable(info, file, table)
<1>1. /\ rows' = out.rows /\ state' = out.state /\ returned' = Said(out.result) /\ info' = info
      /\ source' = IF out.result = "ok" THEN [file |-> <<file>>, pristine |-> TRUE, edits |-> edits]
                   ELSE IF out.rows = rows /\ out.state = state THEN source ELSE NoSource
  BY DEF Read, Took
<1>2. returned'.file = <<>>
  BY <1>1 DEF Said
<1>3. DOMAIN state = DOMAIN FreshState
  BY DEF ReadInv, StateInv
<1>4. IsSchema(schema) /\ IsTable(info)
  BY DEF ContentInv, IsTable, schema
<1>5. ReturnedInv'
  BY <1>2 DEF ReturnedInv
<1>6. info' # NoTable /\ IsTable(info') /\ schema' = schema
  BY <1>1, <1>4 DEF schema
<1>7. ASSUME out.rows = rows, out.state = state, out.result # "ok" PROVE ContentInv'
  <2> HIDE DEF out
  <2> QED BY <1>1, <1>2, <1>7, ContentKept
<1>8. CASE file.magic \in FixedMagics
  <2>1. out = ReadFixed(info, file, table)
    BY <1>8 DEF ReadTable, FixedMagics, WdcMagics
  <2>2. CASE HeaderVerdict(schema, file) # "ok"
    <3>1. out = Refused(table, HeaderVerdict(schema, file))
      BY <2>1, <2>2 DEF ReadFixed, schema
    <3>2. out.rows = rows /\ out.state = state /\ out.result = HeaderVerdict(schema, file)
      BY <3>1 DEF Refused
    <3> HIDE DEF out
    <3> QED BY <1>7, <2>2, <3>2
  <2>3. CASE HeaderVerdict(schema, file) = "ok"
    <3>1. Readable(schema, file)
      BY <1>8, <2>3 DEF Readable
    <3>2. out = DecodeFixed(schema, file, state)
      BY <2>1, <2>3 DEF ReadFixed, schema
    <3> HIDE DEF out, table
    <3>3. out.result = "ok"
      BY <3>2 DEF DecodeFixed
    <3>4. /\ ReadFrom(schema, file, out.state) /\ out.rows = DecodeRows(schema, file.records, ReadBlock(file.strings))
          /\ IsRows(schema, out.rows)
      BY <1>3, <1>4, <3>1, <3>2, DecodedIs
    <3>5. source'.file = <<file>> /\ source'.pristine = TRUE
      BY <1>1, <3>3
    <3>6. IsRows(schema', rows') /\ Remembered(schema', state') /\ SourceIs(schema', source'.file, rows', state')
      BY <1>1, <1>6, <3>4, <3>5 DEF Remembered, SourceIs
    <3>7. state'.original = <<>>
      <4>1. DecodeFixed(schema, file, state).state.original = <<>>
        <5>1. \/ out.result # "ok" /\ out.rows = rows /\ out.state = state
              \/ out.state.original = <<>>
          BY <1>3, <2>1, FixedReads DEF table
        <5> QED BY <3>2, <3>3, <5>1
      <4> QED BY <1>1, <3>2, <4>1
    <3> QED BY <1>5, <1>6, <3>5, <3>6, <3>7 DEF ContentInv
  <2> QED BY <2>2, <2>3
<1>9. CASE file.magic \in WdcMagics
  <2>1. out = ReadWdc(info, file, table)
    BY <1>9 DEF ReadTable, WdcMagics
  <2>2. \/ out.result # "ok" /\ out.rows = rows /\ out.state = state
        \/ /\ out.state.sourceMagic = file.magic
           /\ out.state.original = IF out.result = "ok" /\ out.state.encrypted # <<>> THEN <<file>> ELSE <<>>
    BY <1>3, <1>9, <2>1, WdcReads
  <2> HIDE DEF out
  <2>3. CASE /\ out.state.sourceMagic = file.magic
             /\ out.state.original = IF out.result = "ok" /\ out.state.encrypted # <<>> THEN <<file>> ELSE <<>>
    <3>1. state'.sourceMagic \in WdcMagics
      BY <1>1, <1>9, <2>3
    <3>2. state'.original = <<>> \/ \E f : state'.original = <<f>> /\ f.magic \in WdcMagics
      BY <1>1, <1>9, <2>3
    <3>3. source'.pristine \in BOOLEAN
      <4>1. source.pristine \in BOOLEAN
        BY DEF ContentInv
      <4> QED BY <1>1, <4>1 DEF NoSource
    <3> QED BY <1>5, <1>6, <3>1, <3>2, <3>3 DEF ContentInv
  <2> QED BY <1>7, <2>2, <2>3
<1>10. CASE file.magic \notin FixedMagics \cup WdcMagics
  <2>1. out = Refused(table, "TableTruncated") \/ out = Refused(table, "TableMagicUnknown")
    BY <1>10 DEF ReadTable, FixedMagics
  <2>2. out.rows = rows /\ out.state = state /\ out.result # "ok"
    BY <2>1 DEF Refused
  <2> HIDE DEF out
  <2> QED BY <1>7, <2>2
<1> QED BY <1>8, <1>9, <1>10

\* What the caller sets fits the column.
LEMMA StoredFits ==
    ASSUME ContentInv, info # NoTable, NEW rs, IsRows(schema, rs), NEW r, NEW c, NEW e, NEW value, NEW types,
           CheckCell(schema, rs, r, c, e, types) = "ok",
           \/ types = {"int"} /\ value \in Int
           \/ types = {"float"}
           \/ types = {"string", "locstring"} /\ value \in Seq(Nat)
    PROVE  IsRows(schema, [rs EXCEPT ![r][c][e] = Stored(schema[c], value)])
<1>1. r \in DOMAIN rs /\ c \in DOMAIN schema /\ schema[c].type \in types /\ e \in 1 .. schema[c].slots
  BY DEF CheckCell
<1>2. IsSchema(schema)
  BY DEF ContentInv, IsTable, schema
<1>3. IsColumn(schema[c]) /\ IsCell(schema[c], rs[r][c])
  <2>1. DOMAIN rs = 1 .. Len(rs)
    BY DEF IsRows
  <2> QED BY <1>1, <1>2, <2>1 DEF IsSchema, IsRows
<1> DEFINE col == schema[c]
           cell == rs[r][c]
           v == Stored(col, value)
           sch == schema
<1>4. IsColumn(col) /\ IsCell(col, cell) /\ e \in 1 .. col.slots /\ col.type \in types
  BY <1>1, <1>3
<1> HIDE DEF col, cell, sch
<1>5. col.slots \in Nat /\ e \in Nat
  BY <1>4 DEF IsColumn
<1>6. \/ col.type = "int" /\ v \in Int /\ Truncated(col, v) = v
      \/ col.type = "float"
      \/ col.type \in {"string", "locstring"} /\ v \in Seq(Nat)
  <2>1. CASE types = {"int"} /\ value \in Int
    <3>1. col.type = "int" /\ v = Truncated(col, value)
      BY <1>4, <2>1 DEF Stored
    <3>2. Truncated(col, value) \in Int /\ Truncated(col, Truncated(col, value)) = Truncated(col, value)
      BY <1>4, <2>1, <3>1, NumbersFit
    <3> QED BY <3>1, <3>2
  <2>2. CASE types = {"float"}
    BY <1>4, <2>2
  <2>3. CASE types = {"string", "locstring"} /\ value \in Seq(Nat)
    BY <1>4, <2>3 DEF Stored
  <2> QED BY <2>1, <2>2, <2>3
<1> HIDE DEF v
<1>7. IsCell(col, [cell EXCEPT ![e] = v])
  BY <1>4, <1>5, <1>6, CellSet
<1>8. IsRows(sch, rs) /\ r \in DOMAIN rs /\ c \in DOMAIN sch /\ IsCell(sch[c], [rs[r][c] EXCEPT ![e] = v])
  BY <1>1, <1>7 DEF sch, col, cell
<1>9. IsRows(sch, [rs EXCEPT ![r][c][e] = v])
  BY <1>8, OneCellElse
<1> QED BY <1>9 DEF sch, v, col

LEMMA EditContent ==
    ASSUME ContentInv, NEW new, NEW code, Edited(new, code), code # "ok" => new = rows,
           info # NoTable /\ state.sourceMagic \notin WdcMagics /\ IsRows(schema, rows) => IsRows(schema, new),
           SourceInv
    PROVE  ContentInv'
<1>1. /\ rows' = new /\ returned' = Said(code) /\ info # NoTable /\ info' = info /\ state' = state
      /\ source' = IF code = "ok" THEN [source EXCEPT !.pristine = FALSE, !.edits = @ + 1] ELSE source
  BY DEF Edited
<1>2. returned'.file = <<>>
  BY <1>1 DEF Said
<1>3. state.sourceMagic \notin WdcMagics => IsRows(schema, rows')
  BY <1>1 DEF ContentInv
<1>4. CASE code = "ok"
  <2>1. source'.pristine = FALSE
    BY <1>1, <1>4 DEF SourceInv
  <2> QED BY <1>1, <1>2, <1>3, <2>1, ContentKept
<1>5. CASE code # "ok"
  BY <1>1, <1>2, <1>5, ContentKept
<1> QED BY <1>4, <1>5

LEMMA SetCellContent ==
    ASSUME ContentInv, SourceInv, NEW r, NEW c, NEW e, NEW value, NEW types, SetCell(r, c, e, value, types),
           \/ types = {"int"} /\ value \in Int
           \/ types = {"float"}
           \/ types = {"string", "locstring"} /\ value \in Seq(Nat)
    PROVE  ContentInv'
<1> DEFINE code == CheckCell(schema, rows, r, c, e, types)
           new == IF code = "ok" THEN [rows EXCEPT ![r][c][e] = Stored(schema[c], value)] ELSE rows
<1>1. Edited(new, code)
  BY DEF SetCell
<1>2. code # "ok" => new = rows
  OBVIOUS
<1>3. ASSUME info # NoTable, IsRows(schema, rows) PROVE IsRows(schema, new)
  <2>1. CASE code = "ok"
    BY <1>3, <2>1, StoredFits
  <2>2. CASE code # "ok"
    BY <1>3, <2>2
  <2> QED BY <2>1, <2>2
<1> HIDE DEF code, new
<1> QED BY <1>1, <1>2, <1>3, EditContent

LEMMA FlagsContent ==
    ASSUME ContentInv, SourceInv, NEW r, NEW c, NEW v, SetLocstringFlags(r, c, v)
    PROVE  ContentInv'
<1> DEFINE code == CheckCell(schema, rows, r, c, 1, {"locstring"})
           new == IF code = "ok" THEN [rows EXCEPT ![r][c][schema[c].slots + 1] = v] ELSE rows
<1>1. Edited(new, code)
  BY DEF SetLocstringFlags
<1>2. code # "ok" => new = rows
  OBVIOUS
<1>3. ASSUME info # NoTable, IsRows(schema, rows) PROVE IsRows(schema, new)
  <2>1. CASE code = "ok"
    <3> DEFINE sch == schema
               col == schema[c]
               cell == rows[r][c]
               e == col.slots + 1
    <3>1. r \in DOMAIN rows /\ c \in DOMAIN schema /\ col.type = "locstring"
      BY <2>1 DEF CheckCell
    <3>2. IsColumn(col) /\ IsCell(col, cell)
      <4>1. IsSchema(schema)
        BY <1>3 DEF ContentInv, IsTable, schema
      <4>2. DOMAIN rows = 1 .. Len(rows)
        BY <1>3 DEF IsRows
      <4> QED BY <1>3, <3>1, <4>1, <4>2 DEF IsSchema, IsRows
    <3>3. IsRows(sch, rows) /\ c \in DOMAIN sch
      BY <1>3, <3>1
    <3>4. new = [rows EXCEPT ![r][c][e] = v]
      BY <2>1
    <3> HIDE DEF sch, cell, new
    <3>5. e \in Nat /\ e = col.slots + 1
      BY <3>2 DEF IsColumn
    <3> HIDE DEF e
    <3>6. col.type = "locstring" /\ col = sch[c] /\ cell = rows[r][c]
      BY <3>1 DEF sch, cell
    <3> HIDE DEF col
    <3>7. IsCell(col, [cell EXCEPT ![e] = v])
      BY <3>2, <3>5, <3>6, CellSet
    <3>8. IsCell(sch[c], [rows[r][c] EXCEPT ![e] = v])
      BY <3>6, <3>7
    <3>9. IsRows(sch, [rows EXCEPT ![r][c][e] = v])
      BY <3>1, <3>3, <3>8, OneCellElse
    <3> QED BY <3>4, <3>9 DEF sch
  <2>2. CASE code # "ok"
    BY <1>3, <2>2
  <2> QED BY <2>1, <2>2
<1> HIDE DEF code, new
<1> QED BY <1>1, <1>2, <1>3, EditContent

LEMMA RowsContent ==
    ASSUME ContentInv, SourceInv, AppendRow \/ ClearRows \/ \E r \in Rows : EraseRow(r)
    PROVE  ContentInv'
<1>1. info # NoTable => IsSchema(schema)
  BY DEF ContentInv, IsTable, schema
<1>2. CASE AppendRow
  <2>1. Edited(Append(rows, FreshRow(schema)), "ok")
    BY <1>2 DEF AppendRow
  <2>2. ASSUME info # NoTable, IsRows(schema, rows) PROVE IsRows(schema, Append(rows, FreshRow(schema)))
    <3> DEFINE sch == schema
    <3>1. IsSchema(sch) /\ IsRows(sch, rows)
      BY <1>1, <2>2
    <3> HIDE DEF sch
    <3>2. IsRows(sch, Append(rows, FreshRow(sch)))
      BY <3>1, OneRowMore
    <3> QED BY <3>2 DEF sch
  <2> DEFINE new == Append(rows, FreshRow(schema))
  <2> HIDE DEF new
  <2> QED BY <2>1, <2>2, EditContent DEF new
<1>3. CASE ClearRows
  <2>1. Edited(<<>>, "ok")
    BY <1>3 DEF ClearRows
  <2>2. IsRows(schema, <<>>)
    BY NoRows
  <2> QED BY <2>1, <2>2, EditContent
<1>4. ASSUME NEW r \in Rows, EraseRow(r) PROVE ContentInv'
  <2>1. CASE r \in DOMAIN rows
    <3> DEFINE new == RemoveAt(rows, r)
    <3>1. Edited(new, "ok")
      BY <1>4, <2>1 DEF EraseRow
    <3>2. IsRows(schema, rows) => IsRows(schema, new)
      BY <2>1, OneRowLess
    <3> HIDE DEF new
    <3> QED BY <3>1, <3>2, EditContent
  <2>2. CASE r \notin DOMAIN rows
    <3>1. Edited(rows, "OffsetOutOfBounds")
      BY <1>4, <2>2 DEF EraseRow
    <3> QED BY <3>1, EditContent
  <2> QED BY <2>1, <2>2
<1> QED BY <1>2, <1>3, <1>4

\* A write changes nothing but what it returns.
LEMMA WriteContent ==
    ASSUME ContentInv, NEW policy, NEW ext, Write(policy, ext)
    PROVE  ContentInv'
<1> DEFINE magic == IF state.sourceMagic # "none" THEN state.sourceMagic ELSE FreshMagic(info, ext)
<1>1. /\ info # NoTable /\ returned' = WriteAs(magic, info, rows, state, policy)
      /\ info' = info /\ rows' = rows /\ state' = state /\ source' = source
  BY DEF Write
<1>2. FreshMagic(info, ext) \in {"NotSupported"} \cup FixedMagics \cup WdcMagics
  BY DEF FreshMagic, Db2Magic, FixedMagics, WdcMagics
<1>3. magic \in {"NotSupported"} \cup FixedMagics \cup WdcMagics
  <2>1. CASE state.sourceMagic = "none" \/ state.sourceMagic \in WdcMagics
    BY <1>2, <2>1
  <2>2. CASE state.sourceMagic # "none" /\ state.sourceMagic \notin WdcMagics
    <3>1. state # FreshState /\ Remembered(schema, state)
      BY <2>2, FreshStateIs DEF ContentInv
    <3>2. state.sourceMagic \in FixedMagics
      BY <3>1 DEF Remembered, ReadFrom, Readable
    <3> QED BY <2>2, <3>2
  <2> QED BY <2>1, <2>2
<1>4. state.sourceMagic # "none" => magic = state.sourceMagic
  OBVIOUS
<1> HIDE DEF magic
<1>5. ReturnedInv'
  BY <1>1, <1>3, <1>4 DEF ReturnedInv
<1>6. schema' = schema
  BY <1>1 DEF schema
<1>7. /\ source'.pristine \in BOOLEAN
      /\ info' # NoTable /\ IsTable(info')
      /\ state'.sourceMagic \notin WdcMagics =>
            /\ IsRows(schema', rows') /\ Remembered(schema', state')
            /\ source'.pristine = TRUE => SourceIs(schema', source'.file, rows', state')
      /\ state'.original = <<>> \/ \E f : state'.original = <<f>> /\ f.magic \in WdcMagics
  BY <1>1, <1>6 DEF ContentInv
<1> QED BY <1>5, <1>7 DEF ContentInv

LEMMA ContentStep == ASSUME TableInv, Next PROVE ContentInv'
<1>1. ReadInv /\ ContentInv /\ SourceInv
  BY DEF TableInv, ReadInv
<1>2. ASSUME NEW from \in Sources, NEW asked \in Asked, Open(from, asked[1], asked[2]) PROVE ContentInv'
  BY <1>1, <1>2, OpenContent
<1>3. CASE ReadGiven
  <2>1. PICK file \in FilesOf[info.name] : Read(file, 0)
    BY <1>3 DEF ReadGiven
  <2>2. info # NoTable /\ IsTable(info)
    BY <1>1, <1>3 DEF ReadGiven, ContentInv
  <2>3. file.magic \in FixedMagics /\ HeaderVerdict(schema, file) = "ok" => IsFixedFile(schema, file)
    BY <2>2 DEF IsTable, FixedMagics, schema
  <2> QED BY <1>1, <2>1, <2>2, <2>3, ReadContent
<1>4. CASE ReadBack
  <2>1. PICK file \in ToSet(returned.file) : Read(file, source.edits)
    BY <1>4 DEF ReadBack
  <2>2. info # NoTable /\ (file.magic \in WdcMagics \/ \E magic : Writes(info, rows, state, magic, file))
    BY <1>1, ReturnedWrites
  <2>3. file.magic \in FixedMagics => IsFixedFile(schema, file)
    <3>1. CASE file.magic \in WdcMagics
      BY <3>1 DEF FixedMagics, WdcMagics
    <3>2. CASE \E magic : Writes(info, rows, state, magic, file)
      <4>1. Readable(schema, file)
        BY <3>2, WhatIsWritten DEF schema
      <4> QED BY <4>1 DEF Readable
    <3> QED BY <2>2, <3>1, <3>2
  <2> QED BY <1>1, <2>1, <2>2, <2>3, ReadContent
<1>5. CASE AppendRow \/ ClearRows \/ \E r \in Rows : EraseRow(r)
  BY <1>1, <1>5, RowsContent
<1>6. ASSUME NEW r, NEW c, NEW e, SetInt(r, c, e) \/ SetFloat(r, c, e) \/ SetString(r, c, e) PROVE ContentInv'
  <2>1. info # NoTable
    BY <1>6 DEF SetInt, SetFloat, SetString, SetCell, Edited
  <2>2. /\ IdsOf[info.name] \subseteq Int /\ IntsOf[info.name] \subseteq Int
        /\ TextsFor[info.name] \subseteq Seq(Nat)
    BY <1>1, <2>1 DEF ContentInv, IsTable
  <2>3. CASE SetInt(r, c, e)
    <3>1. PICK v \in Int : SetCell(r, c, e, v, {"int"})
      BY <2>2, <2>3 DEF SetInt
    <3> QED BY <1>1, <3>1, SetCellContent
  <2>4. CASE SetFloat(r, c, e)
    <3>1. PICK v : SetCell(r, c, e, v, {"float"})
      BY <2>4 DEF SetFloat
    <3> QED BY <1>1, <3>1, SetCellContent
  <2>5. CASE SetString(r, c, e)
    <3>1. PICK t \in Seq(Nat) : SetCell(r, c, e, t, {"string", "locstring"})
      BY <2>2, <2>5 DEF SetString
    <3> QED BY <1>1, <3>1, SetCellContent
  <2> QED BY <1>6, <2>3, <2>4, <2>5
<1>7. ASSUME NEW r, NEW c, NEW v, SetLocstringFlags(r, c, v) PROVE ContentInv'
  BY <1>1, <1>7, FlagsContent
<1>8. ASSUME NEW policy, NEW ext, Write(policy, ext) PROVE ContentInv'
  BY <1>1, <1>8, WriteContent
<1> QED BY <1>2, <1>3, <1>4, <1>5, <1>6, <1>7, <1>8 DEF Next

LEMMA ContentBox == ASSUME TableInv, [Next]_vars PROVE TableInv'
<1>1. ReadInv'
  BY TableBox DEF TableInv
<1>2. CASE Next
  BY <1>1, <1>2, ContentStep DEF TableInv
<1>3. CASE UNCHANGED vars
  <2>1. info' = info /\ rows' = rows /\ state' = state /\ returned' = returned /\ source' = source
    BY <1>3 DEF vars
  <2>2. ContentInv'
    BY <2>1 DEF TableInv, ContentInv, ReturnedInv, schema
  <2> QED BY <1>1, <2>2 DEF TableInv
<1> QED BY <1>2, <1>3

LEMMA ContentInvariant == Spec => []TableInv
<1>1. Init => TableInv
  BY TableInit, ContentInit DEF TableInv
<1>2. TableInv /\ [Next]_vars => TableInv'
  BY ContentBox
<1> QED BY <1>1, <1>2, PTL DEF Spec

\* A written file that is not of the WDC family.
LEMMA FixedReturned ==
    ASSUME ContentInv, NEW file \in ToSet(returned.file), ~Packed(file)
    PROVE  /\ state.sourceMagic \notin WdcMagics
           /\ \E magic : Writes(info, rows, state, magic, file)
<1>1. PICK magic : Writes(info, rows, state, magic, file)
  BY ReturnedWrites DEF Packed
<1>2. magic \in FixedMagics /\ (state.sourceMagic # "none" => magic = state.sourceMagic)
  BY <1>1 DEF Writes
<1>3. state.sourceMagic \notin WdcMagics
  BY <1>2 DEF FixedMagics, WdcMagics
<1> QED BY <1>1, <1>3

\* Whatever is edited, and however often a table is written and read again, the
\* strings of a file stay where they are: every offset into the block that was
\* read names the same text in a WDBC or WDB2 file that is written
\* (string_block.hpp:28, codec_common.cpp).
THEOREM OffsetsStayValid == Spec => []OffsetsNeverMove
<1>1. ASSUME TableInv PROVE OffsetsNeverMove
  <2>1. SUFFICES ASSUME NEW file \in ToSet(returned.file), ~Packed(file), Terminated(state.strings),
                        NEW offset \in 0 .. state.strings.size - 1
                 PROVE  At(ReadBlock(file.strings), offset) = At(state.strings, offset)
    BY DEF OffsetsNeverMove
  <2>2. PICK magic : Writes(info, rows, state, magic, file)
    BY <1>1, <2>1, FixedReturned DEF TableInv
  <2> QED BY <2>1, <2>2, OffsetsStay
<1> QED BY <1>1, ContentInvariant, PTL

\* A WDBC or WDB2 file reads back as the rows it was written from, for every
\* schema and any sequence of reads and edits before it (wdbc.cpp, wdb2.cpp,
\* codec_common.cpp), unless validate() finds a text with a zero byte, the block
\* was not terminated, or a column has no place in the record.
THEOREM SavedComesBack == Spec => []SavedReadsBack
<1>1. ASSUME TableInv PROVE SavedReadsBack
  <2>1. SUFFICES ASSUME NEW file \in ToSet(returned.file), ~Packed(file), ~EmbeddedNul(schema, rows),
                        Terminated(state.strings), \A c \in DOMAIN schema : ~schema[c].noninline
                 PROVE  Reread(file).result = "ok" /\ Reread(file).rows = rows
    BY DEF SavedReadsBack
  <2>2. PICK magic : Writes(info, rows, state, magic, file)
    BY <1>1, <2>1, FixedReturned DEF TableInv
  <2> DEFINE again == ReadFixed(info, file, [rows |-> <<>>, state |-> FreshState])
  <2>3. again.result = "ok" /\ again.rows = rows
    BY <2>1, <2>2, RoundTrip DEF schema
  <2>4. file.magic \in FixedMagics
    BY <2>2, WhatIsWritten DEF Readable
  <2>5. Reread(file) = again
    BY <2>4 DEF Reread, ReadTable, FixedMagics, WdcMagics
  <2> QED BY <2>3, <2>5
<1> QED BY <1>1, ContentInvariant, PTL

\* A WDBC or WDB2 table nobody edited writes back the identical file, whatever
\* its string block looks like (docs/content/python/db/index.md:68); only one
\* without a string block is written a byte longer.
THEOREM UnmodifiedStaysVerbatim == Spec => []UnmodifiedIsVerbatim
<1>1. ASSUME TableInv PROVE UnmodifiedIsVerbatim
  <2>1. SUFFICES ASSUME NEW file \in ToSet(returned.file), source.pristine, ~Packed(file),
                        source.file[1].strings # <<>>
                 PROVE  file = source.file[1]
    BY DEF UnmodifiedIsVerbatim
  <2>2. ContentInv
    BY <1>1 DEF TableInv
  <2>3. PICK magic : Writes(info, rows, state, magic, file)
    BY <2>1, <2>2, FixedReturned
  <2>4. state.sourceMagic \notin WdcMagics
    BY <2>1, <2>2, FixedReturned
  <2>5. source.pristine = TRUE
    <3>1. source.pristine \in BOOLEAN
      BY <2>2 DEF ContentInv
    <3> QED BY <2>1, <3>1
  <2>6. SourceIs(schema, source.file, rows, state)
    BY <2>2, <2>4, <2>5 DEF ContentInv
  <2>7. PICK f : source.file = <<f>> /\ ReadFrom(schema, f, state)
                 /\ rows = DecodeRows(schema, f.records, ReadBlock(f.strings))
    BY <2>6 DEF SourceIs
  <2>8. source.file[1] = f
    BY <2>7
  <2>9. f.strings # <<>>
    BY <2>1, <2>8
  <2>10. file = f
    BY <2>3, <2>7, <2>9, Verbatim DEF schema
  <2> QED BY <2>8, <2>10
<1> QED BY <1>1, ContentInvariant, PTL

\* What a table keeps to write again is the very file it was last read from,
\* whole, exactly when a section of that file stayed encrypted; never what an
\* earlier read left, also after reads that failed (table_core.cpp, read.cpp:390).
\* A WDB2 writer finds the header it starts from.
THEOREM KeepsTheFileItWasReadFrom == Spec => [](EncryptedPassesThrough /\ HeaderIsKept)
<1>1. ReadInv => EncryptedPassesThrough /\ HeaderIsKept
  BY DEF ReadInv, StateInv
<1> QED BY <1>1, TableInvariant, PTL

\* A call that fails has changed nothing of the table, rows or state; the one
\* exception is a WDC file whose sections do not decode.
THEOREM FailuresAreClean == Spec => FailedCallChangesNothing
<1>1. ReadInv /\ [Next]_vars => [FailureIsClean]_vars
  BY TableStep
<1> QED BY <1>1, TableInvariant, PTL DEF Spec, FailedCallChangesNothing, FailureIsClean
=============================================================================
