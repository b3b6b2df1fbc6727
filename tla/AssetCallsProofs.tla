------------------------ MODULE AssetCallsProofs ------------------------
(***************************************************************************)
(* Proofs about AssetCalls for every value of its constants.               *)
(***************************************************************************)
EXTENDS AssetCalls, FiniteSetTheorems, WellFoundedInduction, TLAPS

---------------------------------------------------------------------------
(* Sequences, by what they hold.                                            *)

IsSeq(s) == s \in Seq(Range(s))

LEMMA ElementsAreInRange ==
    ASSUME NEW s, IsSeq(s)
    PROVE  /\ Len(s) \in Nat /\ DOMAIN s = 1 .. Len(s)
           /\ \A i \in 1 .. Len(s) : s[i] \in Range(s)
           /\ \A x \in Range(s) : \E i \in 1 .. Len(s) : x = s[i]
<1>1. Len(s) \in Nat /\ DOMAIN s = 1 .. Len(s)
  BY DEF IsSeq
<1> QED BY <1>1 DEF Range

LEMMA FunctionIsSeq ==
    ASSUME NEW n \in Nat, NEW s, s = [i \in 1 .. n |-> s[i]]
    PROVE  /\ IsSeq(s) /\ Len(s) = n
           /\ \A x \in Range(s) : \E i \in 1 .. n : x = s[i]
           /\ \A i \in 1 .. n : s[i] \in Range(s)
<1>1. DOMAIN s = 1 .. n
  OBVIOUS
<1>2. s \in [1 .. n -> Range(s)]
  BY <1>1 DEF Range
<1>3. s \in Seq(Range(s))
  BY <1>2
<1>4. Len(s) = n
  BY <1>2, <1>3
<1> QED BY <1>1, <1>3, <1>4 DEF IsSeq, Range

LEMMA ShortSeqs ==
    /\ IsSeq(<<>>) /\ Range(<<>>) = {}
    /\ \A x : IsSeq(<<x>>) /\ Range(<<x>>) = {x}
<1>1. Range(<<>>) = {}
  BY DEF Range
<1>2. \A x : Range(<<x>>) = {x}
  BY DEF Range
<1> QED BY <1>1, <1>2 DEF IsSeq

LEMMA ConcatHolds ==
    ASSUME NEW s, NEW t, IsSeq(s), IsSeq(t)
    PROVE  /\ IsSeq(s \o t) /\ Range(s \o t) = Range(s) \cup Range(t)
           /\ Len(s \o t) = Len(s) + Len(t)
           /\ \A i \in 1 .. Len(s) : (s \o t)[i] = s[i]
           /\ \A i \in 1 .. Len(t) : (s \o t)[Len(s) + i] = t[i]
<1> DEFINE S == Range(s) \cup Range(t)
           u == s \o t
<1>1. s \in Seq(S) /\ t \in Seq(S)
  BY DEF IsSeq
<1>2. u \in Seq(S) /\ Len(u) = Len(s) + Len(t) /\ DOMAIN u = 1 .. (Len(s) + Len(t))
  BY <1>1
<1>3. \A i \in 1 .. Len(s) : u[i] = s[i]
  BY <1>1
<1>4. \A i \in 1 .. Len(t) : u[Len(s) + i] = t[i]
  BY <1>1
<1>5. Len(s) \in Nat /\ Len(t) \in Nat /\ DOMAIN s = 1 .. Len(s) /\ DOMAIN t = 1 .. Len(t)
  BY <1>1
<1>6. Range(u) \subseteq S
  BY <1>2 DEF Range
<1>7. Range(s) \subseteq Range(u)
  <2> SUFFICES ASSUME NEW i \in 1 .. Len(s) PROVE s[i] \in Range(u)
    BY <1>5 DEF Range
  <2>1. i \in DOMAIN u
    BY <1>2, <1>5
  <2> QED BY <2>1, <1>3 DEF Range
<1>8. Range(t) \subseteq Range(u)
  <2> SUFFICES ASSUME NEW i \in 1 .. Len(t) PROVE t[i] \in Range(u)
    BY <1>5 DEF Range
  <2>1. Len(s) + i \in DOMAIN u
    BY <1>2, <1>5
  <2> QED BY <2>1, <1>4 DEF Range
<1>9. Range(u) = S
  BY <1>6, <1>7, <1>8
<1> QED BY <1>2, <1>3, <1>4, <1>9 DEF IsSeq

LEMMA RangeIsFinite ==
    ASSUME NEW s, IsSeq(s)
    PROVE  IsFiniteSet(Range(s))
<1>1. s \in [1 .. Len(s) -> Range(s)] /\ Len(s) \in Nat
  BY DEF IsSeq
<1>2. IsFiniteSet(1 .. Len(s))
  BY <1>1, FS_Interval
<1>3. s \in Surjection(1 .. Len(s), Range(s))
  BY <1>1 DEF Surjection, Range
<1> QED BY <1>2, <1>3, FS_Surjection

---------------------------------------------------------------------------
(* The slots of a kind, in order.                                           *)

Sorted(q, S) == /\ q \in [1 .. Cardinality(S) -> S]
                /\ \A i, j \in DOMAIN q : i < j => q[i][2] < q[j][2]

Numbers(S) == /\ IsFiniteSet(S)
              /\ \A s \in S : s[2] \in Nat
              /\ \A s, t \in S : s[2] = t[2] => s = t

\* Numbered things can be put in order: take the least away, sort the others.
LEMMA SortedExists ==
    ASSUME NEW S, Numbers(S)
    PROVE  \E q : Sorted(q, S)
<1> DEFINE Bad == {n \in Nat : \E T : Numbers(T) /\ Cardinality(T) = n /\ ~ \E q : Sorted(q, T)}
<1>1. ASSUME Bad # {} PROVE FALSE
  <2>1. PICK n \in Bad : \A k \in Bad : ~(<<k, n>> \in OpToRel(<, Nat))
    BY <1>1, NatLessThanWellFounded, WFMin
  <2>2. PICK T : Numbers(T) /\ Cardinality(T) = n /\ ~ \E q : Sorted(q, T)
    BY <2>1
  <2>3. n \in Nat /\ \A k \in Bad : ~(k < n)
    BY <2>1 DEF OpToRel
  <2>4. CASE n = 0
    <3>1. T = {}
      BY <2>2, <2>4, FS_EmptySet DEF Numbers
    <3>2. <<>> \in [1 .. 0 -> T] /\ DOMAIN <<>> = {}
      OBVIOUS
    <3>3. Sorted(<<>>, T)
      BY <3>1, <3>2, <2>2, <2>4 DEF Sorted
    <3> QED BY <3>3, <2>2
  <2>5. CASE n # 0
    <3>1. T # {}
      BY <2>2, <2>5, FS_EmptySet
    <3> DEFINE Ns == {s[2] : s \in T}
    <3>2. Ns \subseteq Nat /\ Ns # {}
      BY <2>2, <3>1 DEF Numbers
    <3>3. PICK low \in Ns : \A k \in Ns : ~(<<k, low>> \in OpToRel(<, Nat))
      BY <3>2, NatLessThanWellFounded, WFMin
    <3>4. PICK m \in T : low = m[2]
      BY <3>3
    <3>5. ASSUME NEW s \in T, s # m PROVE m[2] < s[2]
      <4>1. s[2] \in Ns /\ s[2] \in Nat /\ m[2] \in Nat /\ s[2] # m[2]
        BY <2>2, <3>5 DEF Numbers
      <4>2. <<s[2], m[2]>> \notin OpToRel(<, Nat)
        BY <4>1, <3>3, <3>4
      <4>3. ~(s[2] < m[2])
        BY <4>1, <4>2 DEF OpToRel
      <4> QED BY <4>1, <4>3
    <3> DEFINE Rest == T \ {m}
    <3>6. Numbers(Rest) /\ Cardinality(Rest) = n - 1 /\ n - 1 \in Nat /\ n - 1 < n
      BY <2>2, <2>3, <2>5, FS_RemoveElement DEF Numbers
    <3>7. n - 1 \notin Bad
      BY <2>3, <3>6
    <3>8. PICK q : Sorted(q, Rest)
      BY <3>6, <3>7
    <3> DEFINE r == [i \in 1 .. n |-> IF i = 1 THEN m ELSE q[i - 1]]
    <3>9. q \in [1 .. n - 1 -> Rest] /\ \A i, j \in 1 .. n - 1 : i < j => q[i][2] < q[j][2]
      BY <3>6, <3>8 DEF Sorted
    <3>10. \A i \in 1 .. n : i # 1 => i - 1 \in 1 .. n - 1
      BY <2>3
    <3>11. r \in [1 .. n -> T]
      BY <3>9, <3>10
    <3>12. ASSUME NEW i \in 1 .. n, NEW j \in 1 .. n, i < j PROVE r[i][2] < r[j][2]
      <4>1. j # 1 /\ r[j] = q[j - 1] /\ q[j - 1] \in Rest
        BY <3>9, <3>10, <3>12
      <4>2. CASE i = 1
        BY <4>1, <4>2, <3>5
      <4>3. CASE i # 1
        BY <4>1, <4>3, <3>9, <3>10, <3>12
      <4> QED BY <4>2, <4>3
    <3>13. Sorted(r, T)
      BY <2>2, <3>11, <3>12 DEF Sorted
    <3> QED BY <3>13, <2>2
  <2> QED BY <2>4, <2>5
<1>2. Cardinality(S) \in Nat
  BY FS_CardinalityType DEF Numbers
<1> QED BY <1>1, <1>2

\* What f has of a kind is a sequence of slots f has, all of that kind.
LEMMA SeveralAreHeld ==
    ASSUME NEW f, NEW what, IsFiniteSet(DOMAIN f), \A s \in DOMAIN f : IsSlot(s)
    PROVE  /\ IsSeq(Several(f, what))
           /\ Len(Several(f, what)) \in Nat
           /\ DOMAIN Several(f, what) = 1 .. Len(Several(f, what))
           /\ \A s \in Range(Several(f, what)) : s \in DOMAIN f /\ s[1] = what /\ IsSlot(s)
           /\ Len(Several(f, what)) = Cardinality({s \in DOMAIN f : s[1] = what})
<1> DEFINE S == {s \in DOMAIN f : s[1] = what}
           q == InOrder(S)
<1>1. IsFiniteSet(S) /\ Cardinality(S) \in Nat
  BY FS_Subset, FS_CardinalityType
<1>2. Numbers(S)
  BY <1>1 DEF Numbers, IsSlot
<1>3. \E p \in [1 .. Cardinality(S) -> S] : \A i, j \in DOMAIN p : i < j => p[i][2] < p[j][2]
  BY <1>2, SortedExists DEF Sorted
<1>4. q \in [1 .. Cardinality(S) -> S]
  BY <1>3 DEF InOrder
<1>5. Range(q) \subseteq S /\ q \in [1 .. Cardinality(S) -> Range(q)]
  <2> HIDE DEF q
  <2> QED BY <1>4 DEF Range
<1>6. IsSeq(q) /\ Len(q) = Cardinality(S)
  <2> HIDE DEF q, S
  <2> QED BY <1>1, <1>5 DEF IsSeq
<1>7. Several(f, what) = q
  BY DEF Several
<1> QED BY <1>5, <1>6, <1>7, ElementsAreInRange

---------------------------------------------------------------------------
(* What an asset is stored as.                                              *)

IsAsset(a) == /\ a = [main |-> a.main, parts |-> a.parts]
              /\ IsContent(a.main)
              /\ a.parts = [s \in DOMAIN a.parts |-> a.parts[s]]
              /\ IsFiniteSet(DOMAIN a.parts)
              /\ \A s \in DOMAIN a.parts : IsSlot(s) /\ IsContent(a.parts[s]) /\ a.parts[s].there

\* Slots a holds, in a row.
HeldSlots(a, slots) == IsSeq(slots) /\ \A s \in Range(slots) : s \in DOMAIN a.parts /\ s # Main

IsStore(x, stem) == /\ IsName(x.file) /\ x.file[1] = stem
                    /\ IsContent(x.content)

\* The stores of parts: what is there, and never a main file.
PartStores(r, stem) == /\ IsSeq(r)
                       /\ \A x \in Range(r) : IsStore(x, stem) /\ x.content.there /\ x.file # Path(stem, Main)

LEMMA PathIs ==
    ASSUME NEW stem, NEW slot, IsSlot(slot)
    PROVE  /\ Path(stem, slot) = <<stem, slot[1], slot[2]>>
           /\ IsName(Path(stem, slot)) /\ Path(stem, slot)[1] = stem
           /\ slot # Main => Path(stem, slot) # Path(stem, Main)
<1>1. ASSUME NEW n, NEW m PROVE <<stem>> \o <<n, m>> = <<stem, n, m>>
  <2> DEFINE S == {stem, n, m}
             u == <<stem>> \o <<n, m>>
  <2>1. <<stem>> \in Seq(S) /\ <<n, m>> \in Seq(S) /\ Len(<<stem>>) = 1 /\ Len(<<n, m>>) = 2
    OBVIOUS
  <2>2. u \in Seq(S) /\ Len(u) = 3
    BY <2>1
  <2>3. u[1] = stem /\ u[2] = n /\ u[3] = m
    BY <2>1
  <2> HIDE DEF u, S
  <2>4. DOMAIN u = 1 .. 3 /\ DOMAIN <<stem, n, m>> = 1 .. 3 /\ u = [i \in 1 .. 3 |-> u[i]]
    BY <2>2
  <2>5. u = <<stem, n, m>>
    BY <2>3, <2>4
  <2> QED BY <2>5 DEF u
<1>2. Path(stem, Main) = <<stem, "main", 0>> /\ Path(stem, slot) = <<stem, slot[1], slot[2]>>
  BY <1>1 DEF Path, Main, IsSlot
<1>3. slot # Main => Path(stem, slot) # Path(stem, Main)
  BY <1>2 DEF IsSlot, Main
<1> QED BY <1>2, <1>3 DEF IsName

LEMMA MainIsSlot == IsSlot(Main) /\ IsSlot(Skel) /\ Skel # Main /\ Anim # Main /\ Phys # Main
  BY DEF IsSlot, Main, Skel, Anim, Phys

LEMMA HeldIs ==
    ASSUME NEW a, NEW slot, slot # Main
    PROVE  HeldSlots(a, Held(a, slot))
  BY ShortSeqs DEF HeldSlots, Held

LEMMA SeveralIs ==
    ASSUME NEW a, IsAsset(a), NEW what, what # "main"
    PROVE  HeldSlots(a, Several(a.parts, what))
<1>1. IsFiniteSet(DOMAIN a.parts) /\ \A s \in DOMAIN a.parts : IsSlot(s)
  BY DEF IsAsset
<1>2. /\ IsSeq(Several(a.parts, what))
      /\ \A s \in Range(Several(a.parts, what)) : s \in DOMAIN a.parts /\ s[1] = what
  BY <1>1, SeveralAreHeld
<1>3. Main[1] = "main"
  BY DEF Main
<1> QED BY <1>2, <1>3 DEF HeldSlots

LEMMA HeldConcat ==
    ASSUME NEW a, NEW s, NEW t, HeldSlots(a, s), HeldSlots(a, t)
    PROVE  HeldSlots(a, s \o t) /\ Range(s \o t) = Range(s) \cup Range(t)
  BY ConcatHolds DEF HeldSlots

LEMMA StoredIs ==
    ASSUME NEW a, IsAsset(a), NEW stem, NEW slots, HeldSlots(a, slots)
    PROVE  /\ PartStores(Stored(a, stem, slots), stem)
           /\ \A s \in Range(slots) : \E x \in Range(Stored(a, stem, slots)) : x.file = Path(stem, s)
<1> DEFINE r == Stored(a, stem, slots)
<1>1. /\ Len(slots) \in Nat /\ DOMAIN slots = 1 .. Len(slots)
      /\ \A i \in 1 .. Len(slots) : slots[i] \in Range(slots)
      /\ \A x \in Range(slots) : \E i \in 1 .. Len(slots) : x = slots[i]
  BY ElementsAreInRange DEF HeldSlots
<1>2. /\ r = [i \in 1 .. Len(slots) |-> r[i]]
      /\ \A i \in 1 .. Len(slots) : r[i] = Store(stem, slots[i], a.parts[slots[i]])
  BY <1>1 DEF Stored
<1> HIDE DEF r
<1>3. /\ IsSeq(r)
      /\ \A x \in Range(r) : \E i \in 1 .. Len(slots) : x = r[i]
      /\ \A i \in 1 .. Len(slots) : r[i] \in Range(r)
  BY <1>1, <1>2, FunctionIsSeq
<1>4. ASSUME NEW i \in 1 .. Len(slots)
      PROVE  IsStore(r[i], stem) /\ r[i].content.there /\ r[i].file # Path(stem, Main)
             /\ r[i].file = Path(stem, slots[i])
  <2>1. slots[i] \in DOMAIN a.parts /\ slots[i] # Main
    BY <1>1 DEF HeldSlots
  <2>2. IsSlot(slots[i]) /\ IsContent(a.parts[slots[i]]) /\ a.parts[slots[i]].there
    BY <2>1 DEF IsAsset
  <2>3. r[i].file = Path(stem, slots[i]) /\ r[i].content = a.parts[slots[i]]
    BY <1>2 DEF Store
  <2> QED BY <2>1, <2>2, <2>3, PathIs DEF IsStore
<1>5. PartStores(r, stem)
  BY <1>3, <1>4 DEF PartStores
<1>6. \A s \in Range(slots) : \E x \in Range(r) : x.file = Path(stem, s)
  BY <1>1, <1>3, <1>4
<1> QED BY <1>5, <1>6 DEF r

LEMMA PartStoresConcat ==
    ASSUME NEW r, NEW t, NEW stem, PartStores(r, stem), PartStores(t, stem)
    PROVE  PartStores(r \o t, stem) /\ Range(r \o t) = Range(r) \cup Range(t)
  BY ConcatHolds DEF PartStores

LEMMA FreshIs ==
    ASSUME NEW a, IsAsset(a), NEW stem, NEW slots, IsSeq(slots)
    PROVE  /\ DOMAIN Fresh(stem, slots) = Range(slots)
           /\ IsFiniteSet(Range(slots))
           /\ \A s \in Range(slots) : Fresh(stem, slots)[s] = Path(stem, s)
  BY RangeIsFinite DEF Fresh

LEMMA ContentFields ==
    ASSUME NEW c, IsContent(c)
    PROVE  /\ \A n \in Nat : /\ IsContent([c EXCEPT !.count = n])
                              /\ [c EXCEPT !.count = n].refs = c.refs
                              /\ [c EXCEPT !.count = n].there = c.there
           /\ \A d : IsContent([c EXCEPT !.data = d]) /\ [c EXCEPT !.data = d].there = c.there
           /\ \A refs : IsFiniteSet(DOMAIN refs) /\ (\A s \in DOMAIN refs : IsSlot(s))
                 => /\ IsContent([c EXCEPT !.refs = refs])
                    /\ [c EXCEPT !.refs = refs].refs = refs /\ [c EXCEPT !.refs = refs].there = c.there
  BY DEF IsContent

\* Every asset but a chunked model: the main file, then parts.
LEMMA MainComesFirst ==
    ASSUME NEW a, IsAsset(a), NEW stem, NEW k, NEW rest, NEW c,
           IsSeq(rest), IsContent(c),
           \A x \in Range(rest) : IsStore(x, stem),
           k = <<Store(stem, Main, c)>> \o rest
    PROVE  /\ IsSeq(k) /\ k # <<>> /\ k[1].file = Path(stem, Main)
           /\ \A x \in Range(k) : IsStore(x, stem)
<1> DEFINE m == Store(stem, Main, c)
<1>1. IsSeq(<<m>>) /\ Range(<<m>>) = {m} /\ Len(<<m>>) = 1 /\ <<m>>[1] = m
  BY ShortSeqs
<1>2. IsSeq(k) /\ Range(k) = {m} \cup Range(rest) /\ k[1] = m /\ Len(k) = 1 + Len(rest) /\ Len(rest) \in Nat
  <2>1. k = <<m>> \o rest
    OBVIOUS
  <2> HIDE DEF m
  <2>2. IsSeq(k) /\ Range(k) = {m} \cup Range(rest) /\ Len(k) = 1 + Len(rest) /\ k[1] = <<m>>[1]
    BY <1>1, <2>1, ConcatHolds
  <2> QED BY <1>1, <2>2, ElementsAreInRange
<1>3. m.file = Path(stem, Main) /\ m.content = c
  BY DEF Store
<1>4. IsStore(m, stem)
  BY <1>3, PathIs, MainIsSlot DEF IsStore
<1>5. k # <<>>
  <2>1. Range(k) # {}
    BY <1>2
  <2> QED BY <2>1, ShortSeqs
<1> QED BY <1>2, <1>3, <1>4, <1>5

\* The slots the code names.
LEMMA NamedSlots ==
    /\ \A slot \in {Occ, Lgt, Fogs, Mpv, Anim, Phys, Skel, Parent, <<"tex0", 0>>, <<"obj0", 0>>,
                     <<"obj1", 0>>, <<"lod", 0>>} : IsSlot(slot) /\ slot # Main
  BY DEF IsSlot, Occ, Lgt, Fogs, Mpv, Anim, Phys, Skel, Parent, Main

LEMMA HollowIs == /\ IsContent(Hollow) /\ Hollow.there
                  /\ IsContent(Missing) /\ ~Missing.there /\ DOMAIN Missing.refs = {}
<1>1. IsFiniteSet(DOMAIN <<>>) /\ DOMAIN <<>> = {}
  BY FS_EmptySet
<1>2. ASSUME NEW t \in BOOLEAN
      PROVE  LET c == [data |-> 0, count |-> 0, refs |-> <<>>, there |-> t]
             IN  IsContent(c) /\ c.there = t /\ c.refs = <<>>
  BY <1>1 DEF IsContent
<1>3. Missing = [data |-> 0, count |-> 0, refs |-> <<>>, there |-> FALSE]
  BY DEF Missing
<1>4. Hollow = [data |-> 0, count |-> 0, refs |-> <<>>, there |-> TRUE]
  BY DEF Hollow
<1> QED BY <1>1, <1>2, <1>3, <1>4

LEMMA StoresRootFirst ==
    ASSUME NEW a, IsAsset(a), NEW stem,
           NEW k \in {"wmo", "wmoIds", "wdt", "wdtIds", "adtWhole", "adtSplit", "m2Alone", "m2Named"}
    PROVE  LET todo == Stores(k, a, stem)
           IN  /\ IsSeq(todo) /\ todo # <<>> /\ todo[1].file = Path(stem, Main)
               /\ \A x \in Range(todo) : IsStore(x, stem)
<1> DEFINE Goal(todo) == /\ IsSeq(todo) /\ todo # <<>> /\ todo[1].file = Path(stem, Main)
                         /\ \A x \in Range(todo) : IsStore(x, stem)
<1>a. IsContent(a.main) /\ (\A slots : HeldSlots(a, slots) => PartStores(Stored(a, stem, slots), stem))
  BY StoredIs DEF IsAsset
<1>b. ASSUME NEW c, IsContent(c), NEW rest, PartStores(rest, stem)
      PROVE  Goal(<<Store(stem, Main, c)>> \o rest)
  BY <1>b, MainComesFirst DEF PartStores
<1>1. CASE k \in {"wmo", "wmoIds"}
  <2>1. PartStores(Stored(a, stem, Several(a.parts, "group")), stem)
    BY <1>a, SeveralIs
  <2>2. Goal(WmoStores(a, stem))
    BY <2>1, <1>a, <1>b DEF WmoStores
  <2> QED BY <2>2, <1>1 DEF Stores
<1>2. CASE k \in {"wdt", "wdtIds"}
  <2> DEFINE byId  == IF k = "wdt" THEN <<>> ELSE Held(a, Fogs) \o Held(a, Mpv)
             slots == Held(a, Occ) \o Held(a, Lgt) \o byId
  <2>1. HeldSlots(a, byId)
    <3>1. HeldSlots(a, <<>>)
      BY ShortSeqs DEF HeldSlots
    <3>2. HeldSlots(a, Held(a, Fogs) \o Held(a, Mpv))
      BY HeldIs, HeldConcat, NamedSlots
    <3> QED BY <3>1, <3>2
  <2>2. HeldSlots(a, slots)
    <3> HIDE DEF byId
    <3> QED BY <2>1, HeldIs, HeldConcat, NamedSlots
  <2>3. Goal(WdtStores(k, a, stem))
    BY <2>2, <1>a, <1>b DEF WdtStores
  <2> QED BY <2>3, <1>2 DEF Stores
<1>3. CASE k = "adtSplit"
  <2> DEFINE Of(slot) == IF slot \in DOMAIN a.parts THEN a.parts[slot] ELSE Hollow
             tex0  == Store(stem, <<"tex0", 0>>, Of(<<"tex0", 0>>))
             obj0  == Store(stem, <<"obj0", 0>>, Of(<<"obj0", 0>>))
             rest  == Stored(a, stem, Held(a, <<"obj1", 0>>) \o Held(a, <<"lod", 0>>))
  <2>1. PartStores(rest, stem)
    BY HeldIs, HeldConcat, NamedSlots, <1>a
  <2>2. ASSUME NEW slot, IsSlot(slot), slot # Main
        PROVE  LET x == Store(stem, slot, Of(slot))
               IN  IsStore(x, stem) /\ x.content.there /\ x.file # Path(stem, Main)
    <3>1. IsContent(Of(slot)) /\ Of(slot).there
      BY HollowIs DEF IsAsset
    <3> QED BY <2>2, <3>1, PathIs DEF Store, IsStore
  <2>3. PartStores(<<tex0, obj0>>, stem)
    <3>1. \A x \in {tex0, obj0} : IsStore(x, stem) /\ x.content.there /\ x.file # Path(stem, Main)
      BY <2>2, NamedSlots
    <3> HIDE DEF tex0, obj0
    <3>2. Range(<<tex0, obj0>>) = {tex0, obj0}
      BY DEF Range
    <3> QED BY <3>1, <3>2 DEF PartStores, IsSeq
  <2>4. AdtStores(a, stem) = <<Store(stem, Main, a.main)>> \o (<<tex0, obj0>> \o rest)
    BY DEF AdtStores
  <2> HIDE DEF tex0, obj0, rest
  <2>5. PartStores(<<tex0, obj0>> \o rest, stem)
    BY <2>1, <2>3, PartStoresConcat
  <2>6. Goal(AdtStores(a, stem))
    BY <2>4, <2>5, <1>a, <1>b
  <2> QED BY <2>6, <1>3 DEF Stores
<1>4. CASE k = "m2Named"
  <2>1. IsContent(Body(a))
    BY ContentFields, SeveralAreHeld DEF Body, IsAsset
  <2>2. PartStores(Stored(a, stem, Held(a, Anim) \o Several(a.parts, "skin")), stem)
    BY HeldIs, SeveralIs, HeldConcat, NamedSlots, <1>a
  <2>3. Goal(M2NamedStores(a, stem))
    BY <2>1, <2>2, <1>b DEF M2NamedStores
  <2> QED BY <2>3, <1>4 DEF Stores
<1>5. CASE k \in {"adtWhole", "m2Alone"}
  <2> DEFINE m == Store(stem, Main, a.main)
  <2>1. m.file = Path(stem, Main) /\ IsStore(m, stem)
    BY <1>a, PathIs, MainIsSlot DEF Store, IsStore
  <2>2. Stores(k, a, stem) = <<m>>
    BY <1>5 DEF Stores
  <2> HIDE DEF m
  <2>3. <<m>> # <<>> /\ <<m>>[1] = m
    OBVIOUS
  <2> QED BY <2>1, <2>2, <2>3, ShortSeqs
<1> QED BY <1>1, <1>2, <1>3, <1>4, <1>5

\* The skeleton that is stored.
LEMMA StoredSkeletonIs ==
    ASSUME NEW a, IsAsset(a), NEW stem
    PROVE  IsContent(StoredSkeleton(a, stem)) /\ StoredSkeleton(a, stem).there
<1> DEFINE held  == Held(a, Anim) \o Several(a.parts, "bone")
           skel  == IF Skel \in DOMAIN a.parts THEN a.parts[Skel] ELSE Hollow
           kept  == [s \in DOMAIN skel.refs \cap {Parent} |-> skel.refs[s]]
           refs  == Over(Fresh(stem, held), kept)
<1>1. IsContent(skel) /\ skel.there
  BY HollowIs DEF IsAsset
<1>2. HeldSlots(a, held)
  BY HeldIs, SeveralIs, HeldConcat, NamedSlots
<1>3. DOMAIN Fresh(stem, held) = Range(held) /\ IsFiniteSet(Range(held))
  BY <1>2, FreshIs DEF HeldSlots
<1>4. \A s \in Range(held) : IsSlot(s)
  BY <1>2 DEF HeldSlots, IsAsset
<1>5. DOMAIN kept \subseteq {Parent} /\ IsFiniteSet(DOMAIN kept)
  <2>1. DOMAIN kept \subseteq {Parent} /\ IsFiniteSet({Parent})
    BY FS_Singleton
  <2> QED BY <2>1, FS_Subset
<1>6. DOMAIN refs = Range(held) \cup DOMAIN kept
  <2> HIDE DEF held, kept
  <2> QED BY <1>3 DEF Over
<1>7. IsFiniteSet(DOMAIN refs) /\ \A s \in DOMAIN refs : IsSlot(s)
  <2>1. IsFiniteSet(Range(held) \cup DOMAIN kept)
    BY <1>3, <1>5, FS_Union
  <2> QED BY <2>1, <1>4, <1>5, <1>6, NamedSlots
<1>8. StoredSkeleton(a, stem) = [skel EXCEPT !.refs = refs]
  BY DEF StoredSkeleton
<1> HIDE DEF refs, skel
<1> QED BY <1>1, <1>7, <1>8, ContentFields

\* A chunked model: the parts, then the main file, which refers to nothing but
\* to them.
MainIsLast(todo, a, stem) ==
    \E rest, m : /\ todo = rest \o <<Store(stem, Main, m)>>
                 /\ PartStores(rest, stem)
                 /\ IsContent(m) /\ m.there = a.main.there
                 /\ \A f \in UsedRefs(m) : \E x \in Range(rest) : x.file = f

LEMMA ChunkedStoresMainLast ==
    ASSUME NEW a, IsAsset(a), NEW stem
    PROVE  MainIsLast(Stores("m2Chunked", a, stem), a, stem)
<1> DEFINE bones == Several(a.parts, "bone")
           anims == Held(a, Anim)
           views == Several(a.parts, "skin") \o Several(a.parts, "lod")
           phys  == views \o Held(a, Phys)
           skel  == IF HasSkel(a.main) THEN <<Store(stem, Skel, StoredSkeleton(a, stem))>> ELSE <<>>
           slots == phys \o IF HasSkel(a.main) THEN <<Skel>> ELSE anims \o bones
           kept  == [s \in {x \in DOMAIN a.main.refs : HasSkel(a.main) /\ x[1] = "bone"} |-> a.main.refs[s]]
           refs  == Over(Fresh(stem, slots), kept)
           m     == [Body(a) EXCEPT !.refs = refs]
           rest  == Stored(a, stem, bones) \o Stored(a, stem, anims) \o skel \o Stored(a, stem, phys)
<1>1. Stores("m2Chunked", a, stem) = rest \o <<Store(stem, Main, m)>>
  BY DEF Stores, M2ChunkedStores
<1>2. HeldSlots(a, bones) /\ HeldSlots(a, anims) /\ HeldSlots(a, phys)
  BY HeldIs, SeveralIs, HeldConcat, NamedSlots
<1>3. IsSeq(slots) /\ Range(slots) = Range(phys) \cup
                            IF HasSkel(a.main) THEN {Skel} ELSE Range(anims) \cup Range(bones)
  <2>1. IsSeq(phys) /\ IsSeq(<<Skel>>) /\ Range(<<Skel>>) = {Skel} /\ IsSeq(anims) /\ IsSeq(bones)
    BY <1>2, ShortSeqs DEF HeldSlots
  <2> HIDE DEF phys, anims, bones
  <2>2. IsSeq(anims \o bones) /\ Range(anims \o bones) = Range(anims) \cup Range(bones)
    BY <2>1, ConcatHolds
  <2>3. CASE HasSkel(a.main)
    BY <2>1, <2>3, ConcatHolds
  <2>4. CASE ~HasSkel(a.main)
    BY <2>1, <2>2, <2>4, ConcatHolds
  <2> QED BY <2>3, <2>4
<1>4. \A s \in Range(slots) : IsSlot(s)
  <2>1. \A s \in Range(phys) \cup Range(anims) \cup Range(bones) : IsSlot(s)
    BY <1>2 DEF HeldSlots, IsAsset
  <2> QED BY <2>1, <1>3, MainIsSlot
<1>5. /\ DOMAIN refs = Range(slots) \cup DOMAIN kept
      /\ \A s \in Range(slots) : refs[s] = Path(stem, s)
      /\ IsFiniteSet(Range(slots))
  <2>1. DOMAIN Fresh(stem, slots) = Range(slots) /\ IsFiniteSet(Range(slots))
        /\ \A s \in Range(slots) : Fresh(stem, slots)[s] = Path(stem, s)
    BY <1>3, FreshIs
  <2> HIDE DEF slots, kept
  <2> QED BY <2>1 DEF Over
<1>6. IsFiniteSet(DOMAIN refs) /\ \A s \in DOMAIN refs : IsSlot(s)
  <2>1. DOMAIN kept \subseteq DOMAIN a.main.refs
    OBVIOUS
  <2>2. IsFiniteSet(DOMAIN a.main.refs) /\ \A s \in DOMAIN a.main.refs : IsSlot(s)
    BY DEF IsAsset, IsContent
  <2>3. IsFiniteSet(DOMAIN kept)
    BY <2>1, <2>2, FS_Subset
  <2>4. IsFiniteSet(Range(slots) \cup DOMAIN kept)
    BY <2>3, <1>5, FS_Union
  <2> QED BY <2>1, <2>2, <2>4, <1>4, <1>5
<1>7. IsContent(m) /\ m.refs = refs /\ m.there = a.main.there
  <2>1. IsContent(Body(a)) /\ Body(a).there = a.main.there
    BY ContentFields, SeveralAreHeld DEF Body, IsAsset
  <2> HIDE DEF refs
  <2> QED BY <2>1, <1>6, ContentFields
<1>8. PartStores(skel, stem) /\ (HasSkel(a.main) => \E x \in Range(skel) : x.file = Path(stem, Skel))
  <2>1. CASE HasSkel(a.main)
    <3>1. IsContent(StoredSkeleton(a, stem)) /\ StoredSkeleton(a, stem).there
      BY StoredSkeletonIs
    <3> DEFINE x == Store(stem, Skel, StoredSkeleton(a, stem))
    <3>2. IsStore(x, stem) /\ x.content.there /\ x.file = Path(stem, Skel) /\ x.file # Path(stem, Main)
      BY <3>1, PathIs, MainIsSlot DEF IsStore, Store
    <3>3. skel = <<x>>
      BY <2>1
    <3> HIDE DEF x
    <3> QED BY <3>2, <3>3, ShortSeqs DEF PartStores
  <2>2. CASE ~HasSkel(a.main)
    BY <2>2, ShortSeqs DEF PartStores
  <2> QED BY <2>1, <2>2
<1>9. /\ PartStores(Stored(a, stem, bones), stem) /\ PartStores(Stored(a, stem, anims), stem)
      /\ PartStores(Stored(a, stem, phys), stem)
  BY <1>2, StoredIs
<1>10. /\ PartStores(rest, stem)
       /\ Range(rest) = Range(Stored(a, stem, bones)) \cup Range(Stored(a, stem, anims)) \cup Range(skel)
                            \cup Range(Stored(a, stem, phys))
  <2> HIDE DEF bones, anims, phys, skel
  <2> DEFINE one == Stored(a, stem, bones) \o Stored(a, stem, anims)
             two == one \o skel
  <2>1. PartStores(one, stem) /\ Range(one) = Range(Stored(a, stem, bones)) \cup Range(Stored(a, stem, anims))
    BY <1>9, PartStoresConcat
  <2>2. PartStores(two, stem) /\ Range(two) = Range(one) \cup Range(skel)
    <3> HIDE DEF one
    <3> QED BY <2>1, <1>8, PartStoresConcat
  <2>3. PartStores(two \o Stored(a, stem, phys), stem)
        /\ Range(two \o Stored(a, stem, phys)) = Range(two) \cup Range(Stored(a, stem, phys))
    <3> HIDE DEF two
    <3> QED BY <2>2, <1>9, PartStoresConcat
  <2> QED BY <2>1, <2>2, <2>3
<1>11. ASSUME NEW f \in UsedRefs(m) PROVE \E x \in Range(rest) : x.file = f
  <2>1. PICK s \in DOMAIN refs : f = refs[s] /\ ~(HasSkel(m) /\ s[1] = "bone")
    BY <1>7, <1>11 DEF UsedRefs
  <2>2. s \in Range(slots)
    <3> SUFFICES ASSUME s \notin Range(slots) PROVE FALSE
      OBVIOUS
    <3>1. s \in DOMAIN kept
      BY <2>1, <1>5
    <3>2. HasSkel(a.main) /\ s[1] = "bone"
      BY <3>1
    <3>3. Skel \in DOMAIN m.refs
      BY <3>2, <1>3, <1>5, <1>7
    <3> QED BY <2>1, <3>2, <3>3 DEF HasSkel
  <2>3. f = Path(stem, s)
    BY <2>1, <2>2, <1>5
  <2>4. CASE s \in Range(phys) \cup Range(anims) \cup Range(bones)
    BY <2>3, <2>4, <1>2, <1>10, StoredIs
  <2>5. CASE HasSkel(a.main) /\ s = Skel
    BY <2>3, <2>5, <1>8, <1>10
  <2> QED BY <2>2, <2>4, <2>5, <1>3
<1> HIDE DEF rest, m
<1> QED BY <1>1, <1>7, <1>10, <1>11 DEF MainIsLast

---------------------------------------------------------------------------
(* What is read.                                                            *)

\* Parts to be read: they have slots, and a skeleton has to be there.
IsEntry(e)   == IsSlot(e.slot) /\ (e.slot = Skel => e.policy = "must")
IsEntries(p) == IsSeq(p) /\ \A e \in Range(p) : IsEntry(e)

LEMMA EntryIs ==
    ASSUME NEW slot, IsSlot(slot), NEW file, NEW policy, slot = Skel => policy = "must"
    PROVE  IsEntry(Entry(slot, file, policy)) /\ IsEntries(<<Entry(slot, file, policy)>>)
<1> DEFINE e == Entry(slot, file, policy)
<1>1. IsEntry(e)
  BY DEF Entry, IsEntry
<1> HIDE DEF e
<1>2. IsEntries(<<e>>)
  BY <1>1, ShortSeqs DEF IsEntries
<1> QED BY <1>1, <1>2 DEF e

LEMMA NoEntries == IsEntries(<<>>)
  BY ShortSeqs DEF IsEntries

LEMMA EntriesConcat ==
    ASSUME NEW p, NEW q, IsEntries(p), IsEntries(q)
    PROVE  IsEntries(p \o q)
  BY ConcatHolds DEF IsEntries

LEMMA EntriesMapped ==
    ASSUME NEW n \in Nat, NEW p, p = [i \in 1 .. n |-> p[i]], \A i \in 1 .. n : IsEntry(p[i])
    PROVE  IsEntries(p)
  BY FunctionIsSeq DEF IsEntries

LEMMA ReferredIs ==
    ASSUME NEW refs, NEW what, what # "skel",
           IsFiniteSet(DOMAIN refs), \A s \in DOMAIN refs : IsSlot(s)
    PROVE  /\ IsEntries(Referred(refs, what))
           /\ Len(Referred(refs, what)) = Len(Several(refs, what))
<1> DEFINE slots == Several(refs, what)
           p == Referred(refs, what)
<1>1. Len(slots) \in Nat /\ DOMAIN slots = 1 .. Len(slots)
  BY SeveralAreHeld
<1>2. p = [i \in 1 .. Len(slots) |-> Entry(<<what, i - 1>>, refs[slots[i]], "must")]
  BY <1>1 DEF Referred
<1>3. ASSUME NEW i \in 1 .. Len(slots) PROVE IsEntry(p[i])
  <2>1. IsSlot(<<what, i - 1>>)
    BY <1>1 DEF IsSlot
  <2>2. p[i] = Entry(<<what, i - 1>>, refs[slots[i]], "must")
    BY <1>2
  <2> QED BY <2>1, <2>2 DEF Entry, IsEntry
<1>4. p = [i \in 1 .. Len(slots) |-> p[i]]
  BY <1>2
<1> HIDE DEF p, slots
<1>5. IsEntries(p) /\ Len(p) = Len(slots)
  BY <1>1, <1>3, <1>4, EntriesMapped, FunctionIsSeq
<1> QED BY <1>5 DEF p, slots

LEMMA EntriesUpTo ==
    ASSUME NEW p, IsEntries(p), NEW n \in Nat, n <= Len(p)
    PROVE  IsEntries(SubSeq(p, 1, n))
<1> DEFINE q == SubSeq(p, 1, n)
<1>1. p \in Seq(Range(p)) /\ Len(p) \in Nat
  BY ElementsAreInRange DEF IsEntries, IsSeq
<1>2. q \in Seq(Range(p)) /\ Len(q) = n /\ \A i \in 1 .. n : q[i] = p[i]
  BY <1>1
<1>3. q = [i \in 1 .. n |-> q[i]] /\ \A i \in 1 .. n : q[i] \in Range(p)
  BY <1>1, <1>2
<1> HIDE DEF q
<1>4. IsEntries(q)
  BY <1>3, EntriesMapped DEF IsEntries
<1> QED BY <1>4 DEF q

LEMMA EffectiveIs ==
    ASSUME NEW a, IsAsset(a), Skel \in DOMAIN a.parts, NEW what
    PROVE  /\ IsFiniteSet(DOMAIN Effective(a.parts, what))
           /\ \A s \in DOMAIN Effective(a.parts, what) : IsSlot(s)
  BY DEF Effective, IsAsset, IsContent

LEMMA ContentRefs ==
    ASSUME NEW c, IsContent(c)
    PROVE  c.count \in Nat /\ IsFiniteSet(DOMAIN c.refs) /\ \A s \in DOMAIN c.refs : IsSlot(s)
  BY DEF IsContent

LEMMA NumberedIs ==
    ASSUME NEW n \in Nat, NEW what, what # "skel"
    PROVE  /\ DOMAIN Numbered(what, n) = 1 .. n
           /\ \A i \in 1 .. n : IsSlot(Numbered(what, n)[i]) /\ Numbered(what, n)[i] # Skel
  BY DEF Numbered, IsSlot, Skel

LEMMA ChunkedPartsAre ==
    ASSUME NEW a, IsAsset(a), NEW file, NEW tried, Skel \in tried => Skel \in DOMAIN a.parts
    PROVE  IsEntries(M2ChunkedParts(a, file, tried))
<1> DEFINE first == IF HasSkel(a.main) THEN SkeletonParts(a) ELSE <<>>
<1>a. a.main.count \in Nat /\ IsFiniteSet(DOMAIN a.main.refs) /\ \A s \in DOMAIN a.main.refs : IsSlot(s)
  BY ContentRefs DEF IsAsset
<1>b. \A slot \in {Anim, Phys, Parent, <<"skin", 0>>} : IsSlot(slot) /\ slot # Skel
  BY DEF IsSlot, Anim, Phys, Parent, Skel
<1>1. IsEntries(first)
  <2> DEFINE skel   == <<Entry(Skel, a.main.refs[Skel], "must")>>
             parent == IF Skel \in DOMAIN a.parts /\ Parent \in DOMAIN a.parts[Skel].refs
                       THEN <<Entry(Parent, a.parts[Skel].refs[Parent], "quiet")>> ELSE <<>>
  <2>1. IsEntries(skel)
    BY MainIsSlot, EntryIs
  <2>2. IsEntries(parent)
    BY <1>b, EntryIs, NoEntries
  <2>3. IsEntries(skel \o parent)
    <3> HIDE DEF skel, parent
    <3> QED BY <2>1, <2>2, EntriesConcat
  <2>4. SkeletonParts(a) = skel \o parent
    BY DEF SkeletonParts
  <2> QED BY <2>3, <2>4, NoEntries
<1>2. CASE \E i \in DOMAIN first : first[i].slot \notin tried
  BY <1>1, <1>2 DEF M2ChunkedParts
<1>3. CASE ~ \E i \in DOMAIN first : first[i].slot \notin tried
  <2>1. HasSkel(a.main) => Skel \in DOMAIN a.parts
    <3> SUFFICES ASSUME HasSkel(a.main) PROVE Skel \in tried
      OBVIOUS
    <3> DEFINE e == Entry(Skel, a.main.refs[Skel], "must")
               more == IF Skel \in DOMAIN a.parts /\ Parent \in DOMAIN a.parts[Skel].refs
                       THEN <<Entry(Parent, a.parts[Skel].refs[Parent], "quiet")>> ELSE <<>>
    <3>1. first = <<e>> \o more
      BY DEF SkeletonParts
    <3>2. IsSeq(more) /\ IsSeq(<<e>>) /\ Len(<<e>>) = 1
      BY ShortSeqs
    <3>3. first[1] = e /\ 1 \in DOMAIN first
      <4> HIDE DEF e, more, first
      <4>1. Len(more) \in Nat
        BY <3>2, ElementsAreInRange
      <4>2. Len(first) = 1 + Len(more) /\ first[1] = <<e>>[1] /\ IsSeq(first)
        BY <3>1, <3>2, ConcatHolds
      <4> QED BY <4>1, <4>2, ElementsAreInRange
    <3>4. e.slot = Skel
      BY DEF Entry
    <3> QED BY <1>3, <3>3, <3>4
  <2>2. IsEntries(AnimParts(a, file))
    <3>1. \A f : IsEntries(<<Entry(Anim, f, "quiet")>>)
      BY <1>b, EntryIs
    <3> QED BY <3>1 DEF AnimParts
  <2>3. IsEntries(BoneParts(a))
    BY <2>1, <1>a, EffectiveIs, ReferredIs DEF BoneParts
  <2>4. IsEntries(ViewParts(a.main))
    <3>1. IsEntries(<<Entry(<<"skin", 0>>, NoRef, "must")>>)
      BY <1>b, EntryIs
    <3>2. /\ IsEntries(Referred(a.main.refs, "skin")) /\ IsEntries(Referred(a.main.refs, "lod"))
          /\ Len(Referred(a.main.refs, "skin")) = Len(Several(a.main.refs, "skin"))
          /\ Len(Several(a.main.refs, "skin")) \in Nat
      BY <1>a, ReferredIs, SeveralAreHeld
    <3>3. CASE Len(Several(a.main.refs, "skin")) < a.main.count
      BY <3>1, <3>3 DEF ViewParts
    <3>4. CASE ~ (Len(Several(a.main.refs, "skin")) < a.main.count)
      <4>1. IsEntries(SubSeq(Referred(a.main.refs, "skin"), 1, a.main.count))
        BY <3>2, <3>4, <1>a, EntriesUpTo
      <4>2. IsEntries(SubSeq(Referred(a.main.refs, "skin"), 1, a.main.count) \o Referred(a.main.refs, "lod"))
        BY <4>1, <3>2, EntriesConcat
      <4> QED BY <4>2, <3>4 DEF ViewParts
    <3> QED BY <3>3, <3>4
  <2>5. IsEntries(PhysParts(a.main))
    BY <1>b, EntryIs, NoEntries DEF PhysParts
  <2>6. M2ChunkedParts(a, file, tried)
            = first \o AnimParts(a, file) \o ViewParts(a.main) \o BoneParts(a) \o PhysParts(a.main)
    BY <1>3 DEF M2ChunkedParts
  <2> HIDE DEF first
  <2> QED BY <2>2, <2>3, <2>4, <2>5, <2>6, <1>1, EntriesConcat
<1> QED BY <1>2, <1>3

LEMMA PartsAre ==
    ASSUME NEW a, IsAsset(a), NEW file, NEW tried, Skel \in tried => Skel \in DOMAIN a.parts,
           NEW k \in {"wmo", "wmoIds", "wdt", "wdtIds", "adtWhole", "adtSplit", "m2Alone", "m2Named", "m2Chunked"}
    PROVE  IsEntries(Parts(k, a, file, tried))
<1>a. a.main.count \in Nat
  BY ContentRefs DEF IsAsset
<1>b. \A slot \in {Occ, Lgt, Fogs, Mpv, Anim, <<"tex0", 0>>, <<"obj0", 0>>, <<"obj1", 0>>, <<"lod", 0>>} :
        IsSlot(slot) /\ slot # Skel
  BY DEF IsSlot, Occ, Lgt, Fogs, Mpv, Anim, Skel
<1>1. CASE k \in {"wmo", "wmoIds"}
  <2> DEFINE p == WmoParts(k, a.main, file[1])
  <2>1. p = [i \in 1 .. a.main.count |-> p[i]]
    BY DEF WmoParts
  <2>2. ASSUME NEW i \in 1 .. a.main.count PROVE IsEntry(p[i])
    <3>1. p[i].slot = <<"group", i - 1>>
      BY DEF WmoParts, Entry
    <3>2. IsSlot(<<"group", i - 1>>) /\ <<"group", i - 1>> # Skel
      BY <1>a DEF IsSlot, Skel
    <3> QED BY <3>1, <3>2 DEF IsEntry
  <2> HIDE DEF p
  <2>3. IsEntries(p)
    BY <1>a, <2>1, <2>2, EntriesMapped
  <2> QED BY <2>3, <1>1 DEF Parts, p
<1>2. CASE k \in {"wdt", "wdtIds"}
  <2> DEFINE Asked(slot) == IF slot \in DOMAIN a.main.refs THEN <<Entry(slot, a.main.refs[slot], "may")>> ELSE <<>>
  <2>1. \A slot \in {Occ, Lgt, Fogs, Mpv} : \A f : IsEntries(<<Entry(slot, f, "may")>>)
    BY <1>b, EntryIs
  <2>2. \A slot \in {Occ, Lgt, Fogs, Mpv} : IsEntries(Asked(slot))
    BY <2>1, NoEntries
  <2>3. CASE k = "wdt"
    <3> DEFINE x == Entry(Occ, Path(file[1], Occ), "may")
               y == Entry(Lgt, Path(file[1], Lgt), "may")
    <3>1. IsEntry(x) /\ IsEntry(y)
      BY <1>b, EntryIs
    <3>2. Parts(k, a, file, tried) = <<x, y>>
      BY <2>3 DEF Parts, WdtParts
    <3> HIDE DEF x, y
    <3>3. Range(<<x, y>>) = {x, y} /\ IsSeq(<<x, y>>)
      BY DEF Range, IsSeq
    <3> QED BY <3>1, <3>2, <3>3 DEF IsEntries
  <2>4. CASE k = "wdtIds"
    <3>1. Parts(k, a, file, tried) = Asked(Occ) \o Asked(Lgt) \o Asked(Fogs) \o Asked(Mpv)
      BY <2>4 DEF Parts, WdtParts
    <3> HIDE DEF Asked
    <3> QED BY <2>2, <3>1, EntriesConcat
  <2> QED BY <2>3, <2>4, <1>2
<1>3. CASE k = "adtSplit"
  <2> DEFINE p == AdtParts(file[1])
  <2>1. p = [i \in 1 .. 4 |-> p[i]]
    BY DEF AdtParts
  <2>2. ASSUME NEW i \in 1 .. 4 PROVE IsEntry(p[i])
    <3>1. p[i].slot \in {<<"tex0", 0>>, <<"obj0", 0>>, <<"obj1", 0>>, <<"lod", 0>>}
      BY DEF AdtParts, Entry
    <3> QED BY <3>1, <1>b DEF IsEntry
  <2> HIDE DEF p
  <2>3. IsEntries(p)
    BY <2>1, <2>2, EntriesMapped
  <2> QED BY <2>3, <1>3 DEF Parts, p
<1>4. CASE k = "m2Named"
  <2> DEFINE anim  == <<Entry(Anim, Path(file[1], Anim), "quiet")>>
             slots == Numbered("skin", a.main.count)
             views == [i \in DOMAIN slots |-> Entry(slots[i], Path(file[1], slots[i]), "must")]
  <2>1. IsEntries(anim)
    BY <1>b, EntryIs
  <2>2. DOMAIN slots = 1 .. a.main.count /\ \A i \in 1 .. a.main.count : IsSlot(slots[i])
    BY <1>a, NumberedIs
  <2>3. /\ views = [i \in 1 .. a.main.count |-> views[i]]
        /\ \A i \in 1 .. a.main.count : IsEntry(views[i])
    <3> HIDE DEF slots
    <3> QED BY <2>2, EntryIs
  <2>4. Parts(k, a, file, tried) = anim \o views
    BY <1>4 DEF Parts, M2NamedParts
  <2> HIDE DEF anim, views
  <2>5. IsEntries(views)
    BY <1>a, <2>3, EntriesMapped
  <2> QED BY <2>1, <2>4, <2>5, EntriesConcat
<1>5. CASE k = "m2Chunked"
  BY <1>5, ChunkedPartsAre DEF Parts
<1>6. CASE k \in {"adtWhole", "m2Alone"}
  BY <1>6, NoEntries DEF Parts
<1> QED BY <1>1, <1>2, <1>3, <1>4, <1>5, <1>6

---------------------------------------------------------------------------
(* The invariant.                                                           *)

\* What the variables are.  A skeleton that was asked for was read.
TypesInv ==
    /\ kind \in Kinds
    /\ disk = [f \in DOMAIN disk |-> disk[f]]
    /\ \A f \in Files : IsName(f) /\ IsContent(disk[f])
    /\ saves \in Nat /\ stamp \in [Files -> 0 .. saves]
    /\ IsAsset(asset) /\ TypeOK
    /\ call = [what |-> call.what, file |-> call.file, tried |-> call.tried, todo |-> call.todo]
    /\ call.what = "read" => asset.main.there /\ (Skel \in call.tried => Skel \in DOMAIN asset.parts)
    /\ call.what = "write" => /\ saves > 0 /\ IsSeq(call.todo)
                              /\ \A x \in Range(call.todo) : IsStore(x, call.file[1])

\* The i-th store of a chunked model refers to what this save stored, or will
\* have stored by then.
RefersBack(i) ==
    Tail(call.todo[i].file) = Main => \A f \in UsedRefs(call.todo[i].content) :
        \/ f \in Files /\ disk[f].there /\ stamp[f] = saves
        \/ \E j \in 1 .. i - 1 : call.todo[j].file = f

\* What a write has yet to store keeps the order.
TodoInOrder ==
    call.what = "write" =>
        IF kind = "m2Chunked"
        THEN \A i \in DOMAIN call.todo : call.todo[i].content.there /\ RefersBack(i)
        ELSE stamp[call.file] = saves \/ (call.todo # <<>> /\ call.todo[1].file = call.file)

AssetIInv == TypesInv /\ StoredInOrder /\ TodoInOrder

LEMMA NoAssetIs == IsAsset(NoAsset) /\ NoAsset.parts = <<>> /\ NoAsset.main = Missing
<1>1. DOMAIN <<>> = {} /\ IsFiniteSet(DOMAIN <<>>)
  BY FS_EmptySet
<1>2. <<>> = [s \in DOMAIN <<>> |-> <<>>[s]]
  OBVIOUS
<1>3. NoAsset = [main |-> Missing, parts |-> <<>>] /\ NoAsset.parts = <<>> /\ NoAsset.main = Missing
  BY DEF NoAsset
<1> QED BY <1>1, <1>2, <1>3, HollowIs DEF IsAsset

LEMMA AssetFields ==
    ASSUME NEW a, IsAsset(a), NEW c, IsContent(c), NEW s, IsSlot(s), c.there
    PROVE  /\ IsAsset([a EXCEPT !.parts = With(a.parts, s, c)])
           /\ [a EXCEPT !.parts = With(a.parts, s, c)].main = a.main
           /\ DOMAIN [a EXCEPT !.parts = With(a.parts, s, c)].parts = DOMAIN a.parts \cup {s}
<1> DEFINE p == With(a.parts, s, c)
           b == [a EXCEPT !.parts = p]
<1>1. /\ DOMAIN p = DOMAIN a.parts \cup {s} /\ p = [x \in DOMAIN p |-> p[x]]
      /\ \A x \in DOMAIN p : p[x] = IF x = s THEN c ELSE a.parts[x]
  BY DEF With
<1>2. IsFiniteSet(DOMAIN a.parts \cup {s})
  BY FS_AddElement DEF IsAsset
<1>3. \A x \in DOMAIN p : IsSlot(x) /\ IsContent(p[x]) /\ p[x].there
  BY <1>1 DEF IsAsset
<1> HIDE DEF p
<1>4. b.main = a.main /\ b.parts = p /\ b = [main |-> b.main, parts |-> b.parts]
  BY DEF IsAsset
<1>5. IsContent(a.main)
  BY DEF IsAsset
<1>6. IsAsset(b)
  <2> HIDE DEF b
  <2> QED BY <1>1, <1>2, <1>3, <1>4, <1>5 DEF IsAsset
<1> QED BY <1>1, <1>4, <1>6 DEF p

LEMMA IdleIs == /\ Idle = [what |-> "idle", file |-> NoRef, tried |-> {}, todo |-> <<>>]
                /\ Idle.what = "idle"
  BY DEF Idle

LEMMA InvInit == Init => AssetIInv
<1> SUFFICES ASSUME Init PROVE AssetIInv
  OBVIOUS
<1>1. /\ kind \in Kinds /\ disk = [f \in DOMAIN disk |-> disk[f]]
      /\ \A f \in Files : IsName(f) /\ IsContent(disk[f])
  BY DisksAssumption DEF Init, Files, DisksAssumption
<1>2. saves \in Nat /\ stamp = [f \in Files |-> 0] /\ saves = 0
  BY DEF Init, Files
<1>3. stamp \in [Files -> 0 .. saves]
  BY <1>2
<1>4. IsAsset(asset) /\ asset.parts = <<>>
  BY NoAssetIs DEF Init
<1>5. call = [what |-> call.what, file |-> call.file, tried |-> call.tried, todo |-> call.todo]
      /\ call.what = "idle"
  BY IdleIs DEF Init
<1>6. TypeOK
  BY <1>4, <1>5 DEF TypeOK
<1>7. StoredInOrder
  BY <1>2 DEF StoredInOrder, MainFiles
<1> QED BY <1>1, <1>2, <1>3, <1>4, <1>5, <1>6, <1>7 DEF AssetIInv, TypesInv, TodoInOrder

\* A call that ends, or what happens between two calls.
LEMMA IdleStep ==
    ASSUME AssetIInv, UNCHANGED <<kind, disk, stamp, saves>>,
           call' = Idle, IsAsset(asset'), ~asset'.main.there => asset'.parts = <<>>
    PROVE  AssetIInv'
<1>1. call' = [what |-> call'.what, file |-> call'.file, tried |-> call'.tried, todo |-> call'.todo]
      /\ call'.what = "idle"
  BY IdleIs
<1>2. Files' = Files /\ MainFiles' = MainFiles
  BY DEF Files, MainFiles
<1>3. TypeOK'
  BY <1>1 DEF TypeOK, IsAsset
<1>4. TypesInv'
  BY <1>1, <1>2, <1>3 DEF AssetIInv, TypesInv
<1>5. StoredInOrder'
  BY <1>2 DEF AssetIInv, StoredInOrder
<1>6. TodoInOrder'
  BY <1>1 DEF TodoInOrder
<1> QED BY <1>4, <1>5, <1>6 DEF AssetIInv

LEMMA BeginReadStep == ASSUME AssetIInv, NEW file \in MainFiles, BeginRead(file) PROVE AssetIInv'
<1> DEFINE read == [NoAsset EXCEPT !.main = disk[file]]
<1>1. file \in Files /\ IsContent(disk[file])
  BY DEF MainFiles, AssetIInv, TypesInv
<1>2. IsAsset(read) /\ read.main = disk[file] /\ read.parts = <<>>
  <2>1. read = [main |-> disk[file], parts |-> <<>>] /\ read.main = disk[file] /\ read.parts = <<>>
    BY DEF NoAsset
  <2>2. DOMAIN <<>> = {} /\ <<>> = [s \in DOMAIN <<>> |-> <<>>[s]] /\ IsFiniteSet(DOMAIN <<>>)
    BY FS_EmptySet
  <2> HIDE DEF read
  <2> QED BY <2>1, <2>2, <1>1 DEF IsAsset
<1>3. IsAsset(asset) /\ (~asset.main.there => asset.parts = <<>>)
  BY DEF AssetIInv, TypesInv, TypeOK
<1>4. UNCHANGED <<kind, disk, stamp, saves>>
  BY DEF BeginRead
<1>5. asset' \in {NoAsset, asset, read} /\ (call' = Idle \/
         (asset' = read /\ disk[file].there /\ call' = [Idle EXCEPT !.what = "read", !.file = file]))
  BY DEF BeginRead, Return
<1>6. IsAsset(asset') /\ (~asset'.main.there => asset'.parts = <<>>)
  <2> HIDE DEF read
  <2> QED BY <1>2, <1>3, <1>5, NoAssetIs
<1>7. CASE call' = Idle
  BY <1>4, <1>6, <1>7, IdleStep
<1>8. CASE asset' = read /\ disk[file].there /\ call' = [Idle EXCEPT !.what = "read", !.file = file]
  <2>1. call' = [what |-> "read", file |-> file, tried |-> {}, todo |-> <<>>]
    BY <1>8 DEF Idle
  <2>2. /\ call' = [what |-> call'.what, file |-> call'.file, tried |-> call'.tried, todo |-> call'.todo]
        /\ call'.what = "read" /\ call'.file = file /\ call'.tried = {}
    BY <2>1
  <2>3. Files' = Files /\ MainFiles' = MainFiles
    BY <1>4 DEF Files, MainFiles
  <2> HIDE DEF read
  <2>4. TypeOK'
    BY <1>6, <2>2, <2>3 DEF TypeOK, IsAsset
  <2>5. asset'.main.there
    BY <1>2, <1>8
  <2>6. TypesInv'
    BY <1>4, <1>6, <2>2, <2>3, <2>4, <2>5 DEF AssetIInv, TypesInv
  <2>7. StoredInOrder'
    BY <1>4, <2>3 DEF AssetIInv, StoredInOrder
  <2> QED BY <2>2, <2>6, <2>7 DEF AssetIInv, TodoInOrder
<1> QED BY <1>5, <1>7, <1>8

LEMMA ReadNextStep == ASSUME AssetIInv, ReadNext PROVE AssetIInv'
<1>1. PICK e \in Wanted(kind, asset, call.file, call.tried), fault \in BOOLEAN :
        LET r == ReadPart(asset, e, disk, fault)
        IN  /\ asset' = r.asset
            /\ IF r.err = "none" THEN call' = [call EXCEPT !.tried = @ \cup {e.slot}]
                                 ELSE Return("read", call.file, r.err)
  BY DEF ReadNext
<1>2. /\ IsAsset(asset) /\ call.what = "read" /\ asset.main.there
      /\ (Skel \in call.tried => Skel \in DOMAIN asset.parts)
      /\ \A f \in Files : IsContent(disk[f])
      /\ call = [what |-> call.what, file |-> call.file, tried |-> call.tried, todo |-> call.todo]
      /\ call.file \in MainFiles
  BY DEF ReadNext, AssetIInv, TypesInv, TypeOK
<1>3. UNCHANGED <<kind, disk, stamp, saves>>
  BY DEF ReadNext
<1>4. IsEntry(e)
  <2>1. kind \in {"wmo", "wmoIds", "wdt", "wdtIds", "adtWhole", "adtSplit", "m2Alone", "m2Named", "m2Chunked"}
    BY KindsAssumption DEF KindsAssumption, AssetIInv, TypesInv
  <2> DEFINE parts == Parts(kind, asset, call.file, call.tried)
  <2>2. IsEntries(parts)
    BY <1>2, <2>1, PartsAre
  <2> HIDE DEF parts
  <2>3. \E i \in DOMAIN parts : e = parts[i]
    BY DEF Wanted, parts
  <2> QED BY <2>2, <2>3 DEF IsEntries, Range
<1> DEFINE r     == ReadPart(asset, e, disk, fault)
           found == IF e.file \in DOMAIN disk THEN disk[e.file] ELSE Missing
           taken(c, s) == [asset EXCEPT !.parts = With(asset.parts, s, c)]
<1>5. IsContent(found)
  BY <1>2, HollowIs DEF Files
<1>6. ASSUME NEW c, IsContent(c), c.there, NEW s, IsSlot(s)
      PROVE  /\ IsAsset(taken(c, s)) /\ taken(c, s).main = asset.main
             /\ DOMAIN taken(c, s).parts = DOMAIN asset.parts \cup {s}
  <2>1. IsAsset(asset)
    BY <1>2
  <2> QED BY ONLY <2>1, <1>6, AssetFields
<1>7. /\ IsAsset(taken(Hollow, Anim)) /\ taken(Hollow, Anim).main = asset.main
      /\ DOMAIN asset.parts \subseteq DOMAIN taken(Hollow, Anim).parts
  <2>1. IsContent(Hollow) /\ Hollow.there /\ IsSlot(Anim)
    BY NamedSlots, HollowIs
  <2> HIDE DEF taken
  <2> QED BY <2>1, <1>6
<1>8. /\ r.asset = asset \/ r.asset = taken(Hollow, Anim) \/ (found.there /\ r.asset = taken(found, e.slot))
      /\ r.err = "none" /\ e.policy = "must" => found.there /\ r.asset = taken(found, e.slot)
  BY DEF ReadPart
<1> HIDE DEF r, found, taken
<1>9. found.there => /\ IsAsset(taken(found, e.slot)) /\ taken(found, e.slot).main = asset.main
                      /\ DOMAIN taken(found, e.slot).parts = DOMAIN asset.parts \cup {e.slot}
  BY <1>4, <1>5, <1>6 DEF IsEntry
<1>10. IsAsset(asset') /\ asset'.main = asset.main /\ DOMAIN asset.parts \subseteq DOMAIN asset'.parts
  <2>1. asset' = r.asset
    BY <1>1 DEF r
  <2>2. CASE r.asset = asset
    BY <2>1, <2>2, <1>2
  <2>3. CASE r.asset = taken(Hollow, Anim)
    BY <2>1, <2>3, <1>7
  <2>4. CASE found.there /\ r.asset = taken(found, e.slot)
    BY <2>1, <2>4, <1>9
  <2> QED BY <2>2, <2>3, <2>4, <1>8
<1>11. CASE r.err # "none"
  <2>1. call' = Idle
    BY <1>1, <1>11 DEF r, Return
  <2> QED BY <2>1, <1>2, <1>3, <1>10, IdleStep
<1>12. CASE r.err = "none"
  <2>1. call' = [call EXCEPT !.tried = @ \cup {e.slot}]
    BY <1>1, <1>12 DEF r
  <2>2. /\ call' = [what |-> call'.what, file |-> call'.file, tried |-> call'.tried, todo |-> call'.todo]
        /\ call'.what = "read" /\ call'.file = call.file /\ call'.tried = call.tried \cup {e.slot}
    BY <1>2, <2>1
  <2>3. Files' = Files /\ MainFiles' = MainFiles
    BY <1>3 DEF Files, MainFiles
  <2>4. Skel \in call'.tried => Skel \in DOMAIN asset'.parts
    <3>1. e.slot = Skel => Skel \in DOMAIN asset'.parts
      BY <1>1, <1>4, <1>8, <1>12, <1>9 DEF IsEntry, r
    <3> QED BY <3>1, <1>2, <1>10, <2>2
  <2>5. TypeOK'
    BY <1>2, <1>10, <2>2, <2>3 DEF TypeOK, IsAsset
  <2>6. TypesInv'
    BY <1>2, <1>3, <1>10, <2>2, <2>3, <2>4, <2>5 DEF AssetIInv, TypesInv
  <2>7. StoredInOrder'
    BY <1>3, <2>3 DEF AssetIInv, StoredInOrder
  <2> QED BY <2>2, <2>6, <2>7 DEF AssetIInv, TodoInOrder
<1> QED BY <1>11, <1>12

\* The name of a main file.
LEMMA MainNames ==
    ASSUME NEW f, IsName(f)
    PROVE  Tail(f) = Main <=> f = Path(f[1], Main)
<1>1. \A a, b, c : Tail(<<a, b, c>>) = <<b, c>>
  OBVIOUS
<1>2. PICK a, b, c : f = <<a, b, c>> /\ f[1] = a
  BY DEF IsName
<1>3. Path(a, Main) = <<a, "main", 0>>
  BY PathIs, MainIsSlot DEF Main
<1>4. Tail(f) = <<b, c>>
  BY ONLY <1>1, <1>2, Zenon
<1>5. Tail(f) = Main <=> b = "main" /\ c = 0
  BY <1>4 DEF Main
<1> QED BY <1>2, <1>3, <1>5

LEMMA BeginWriteStep == ASSUME AssetIInv, NEW file \in MainFiles, BeginWrite(file) PROVE AssetIInv'
<1> DEFINE todo == Stores(kind, asset, file[1])
<1>1. /\ UNCHANGED <<kind, disk, stamp, asset>> /\ saves' = saves + 1 /\ asset.main.there
      /\ \/ call' = Idle
         \/ call' = [Idle EXCEPT !.what = "write", !.file = file, !.todo = todo]
  BY DEF BeginWrite, Return
<1>2. Files' = Files /\ MainFiles' = MainFiles
  BY <1>1 DEF Files, MainFiles
<1>3. /\ IsAsset(asset) /\ saves \in Nat /\ saves' \in Nat /\ saves' > 0 /\ stamp' \in [Files' -> 0 .. saves']
      /\ \A f \in Files : stamp[f] < saves'
  BY <1>1, <1>2 DEF AssetIInv, TypesInv
<1>4. IsName(file) /\ Tail(file) = Main /\ file = Path(file[1], Main)
  BY MainNames DEF MainFiles, AssetIInv, TypesInv
<1>5. StoredInOrder'
  BY <1>1, <1>2 DEF AssetIInv, StoredInOrder
<1>6. CASE call' = Idle
  <2>1. call' = [what |-> call'.what, file |-> call'.file, tried |-> call'.tried, todo |-> call'.todo]
        /\ call'.what = "idle"
    BY <1>6, IdleIs
  <2>2. TypeOK' /\ TodoInOrder'
    BY <1>1, <1>2, <2>1 DEF AssetIInv, TypesInv, TypeOK, TodoInOrder
  <2> QED BY <1>1, <1>2, <1>3, <1>5, <2>1, <2>2 DEF AssetIInv, TypesInv
<1>7. CASE call' = [Idle EXCEPT !.what = "write", !.file = file, !.todo = todo]
  <2>1. call' = [what |-> "write", file |-> file, tried |-> {}, todo |-> todo]
    BY <1>7 DEF Idle
  <2>2. /\ call' = [what |-> call'.what, file |-> call'.file, tried |-> call'.tried, todo |-> call'.todo]
        /\ call'.what = "write" /\ call'.file = file /\ call'.todo = todo
    BY <2>1
  <2>3. TypeOK'
    BY <1>1, <1>2, <2>2 DEF AssetIInv, TypesInv, TypeOK
  <2>4. CASE kind = "m2Chunked"
    <3>1. PICK rest, m : /\ todo = rest \o <<Store(file[1], Main, m)>>
                         /\ PartStores(rest, file[1])
                         /\ IsContent(m) /\ m.there = asset.main.there
                         /\ \A f \in UsedRefs(m) : \E x \in Range(rest) : x.file = f
      <4>1. todo = Stores("m2Chunked", asset, file[1])
        BY <2>4
      <4> HIDE DEF todo
      <4>2. IsAsset(asset)
        BY <1>3
      <4>3. MainIsLast(Stores("m2Chunked", asset, file[1]), asset, file[1])
        BY <4>2, ChunkedStoresMainLast
      <4> QED BY <4>1, <4>3 DEF MainIsLast
    <3> DEFINE x == Store(file[1], Main, m)
    <3>2. x.file = file /\ x.content = m /\ IsStore(x, file[1])
      BY <1>4, <3>1 DEF Store, IsStore
    <3> HIDE DEF x, todo
    <3>3. IsSeq(rest) /\ IsSeq(<<x>>) /\ Range(<<x>>) = {x} /\ Len(<<x>>) = 1 /\ <<x>>[1] = x
      BY <3>1, ShortSeqs DEF PartStores
    <3>4. /\ IsSeq(todo) /\ Range(todo) = Range(rest) \cup {x} /\ Len(todo) = Len(rest) + 1
          /\ \A i \in 1 .. Len(rest) : todo[i] = rest[i]
          /\ todo[Len(rest) + 1] = x
      BY <3>1, <3>3, ConcatHolds DEF x
    <3>5. /\ Len(rest) \in Nat /\ DOMAIN todo = 1 .. Len(rest) + 1
          /\ \A i \in 1 .. Len(rest) : rest[i] \in Range(rest)
          /\ \A y \in Range(rest) : \E i \in 1 .. Len(rest) : y = rest[i]
      BY <3>3, <3>4, ElementsAreInRange
    <3>6. \A y \in Range(todo) : IsStore(y, file[1])
      BY <3>1, <3>2, <3>4 DEF PartStores
    <3>7. TypesInv'
      BY <1>1, <1>2, <1>3, <2>2, <2>3, <3>4, <3>6 DEF AssetIInv, TypesInv
    <3>8. ASSUME NEW i \in DOMAIN todo
          PROVE  todo[i].content.there /\ (Tail(todo[i].file) = Main => \A f \in UsedRefs(todo[i].content) :
                    \E j \in 1 .. i - 1 : todo[j].file = f)
      <4>1. CASE i = Len(rest) + 1
        <5>0. m.there
          BY <1>1, <3>1
        <5>a. todo[i].content = m
          BY <4>1, <3>2, <3>4
        <5>b. i - 1 = Len(rest)
          BY <4>1, <3>5
        <5>1. todo[i].content.there /\ todo[i].content = m /\ i - 1 = Len(rest)
          BY <5>0, <5>a, <5>b
        <5>2. \A f \in UsedRefs(m) : \E j \in 1 .. Len(rest) : todo[j].file = f
          BY <3>1, <3>4, <3>5
        <5> QED BY <5>1, <5>2
      <4>2. CASE i # Len(rest) + 1
        <5>1. i \in 1 .. Len(rest) /\ todo[i] = rest[i] /\ rest[i] \in Range(rest)
          BY <4>2, <3>4, <3>5
        <5>2. todo[i].content.there /\ todo[i].file # file /\ IsName(todo[i].file) /\ todo[i].file[1] = file[1]
          BY <5>1, <1>4, <3>1 DEF PartStores, IsStore
        <5>3. ASSUME NEW g, IsName(g), g[1] = file[1], Tail(g) = Main PROVE g = file
          BY <5>3, <1>4, MainNames
        <5> QED BY <5>2, <5>3
      <4> QED BY <4>1, <4>2
    <3>9. TodoInOrder'
      BY <1>1, <2>2, <2>4, <3>8 DEF TodoInOrder, RefersBack
    <3> QED BY <1>5, <3>7, <3>9 DEF AssetIInv
  <2>5. CASE kind # "m2Chunked"
    <3>1. kind \in {"wmo", "wmoIds", "wdt", "wdtIds", "adtWhole", "adtSplit", "m2Alone", "m2Named"}
      BY <2>5, KindsAssumption DEF KindsAssumption, AssetIInv, TypesInv
    <3>2. /\ IsSeq(todo) /\ todo # <<>> /\ todo[1].file = file
          /\ \A x \in Range(todo) : IsStore(x, file[1])
      BY <1>3, <1>4, <3>1, StoresRootFirst
    <3> HIDE DEF todo
    <3>3. TypesInv'
      BY <1>1, <1>2, <1>3, <2>2, <2>3, <3>2 DEF AssetIInv, TypesInv
    <3>4. TodoInOrder'
      BY <1>1, <2>2, <2>5, <3>2 DEF TodoInOrder
    <3> QED BY <1>5, <3>3, <3>4 DEF AssetIInv
  <2> QED BY <2>4, <2>5
<1> QED BY <1>1, <1>6, <1>7

\* The rest of a sequence.
LEMMA TailIs ==
    ASSUME NEW s, IsSeq(s), s # <<>>
    PROVE  /\ Len(s) \in Nat /\ Len(s) > 0 /\ Head(s) = s[1] /\ s[1] \in Range(s)
           /\ IsSeq(Tail(s)) /\ Range(Tail(s)) \subseteq Range(s)
           /\ DOMAIN Tail(s) = 1 .. Len(s) - 1
           /\ \A i \in 1 .. Len(s) - 1 : Tail(s)[i] = s[i + 1]
<1>1. s \in Seq(Range(s))
  BY DEF IsSeq
<1>2. Len(s) \in Nat /\ Len(s) > 0 /\ Head(s) = s[1] /\ s[1] \in Range(s)
  BY <1>1
<1>3. /\ Tail(s) \in Seq(Range(s)) /\ Len(Tail(s)) = Len(s) - 1
      /\ \A i \in 1 .. Len(s) - 1 : Tail(s)[i] = s[i + 1]
  BY <1>1, <1>2
<1>4. DOMAIN Tail(s) = 1 .. Len(s) - 1
  BY <1>3
<1>5. Range(Tail(s)) \subseteq Range(s)
  BY <1>3, <1>4 DEF Range
<1>6. Tail(s) = [i \in 1 .. Len(s) - 1 |-> Tail(s)[i]] /\ Len(s) - 1 \in Nat
  <2>1. \A t \in Seq(Range(s)) : t = [i \in 1 .. Len(t) |-> t[i]]
    OBVIOUS
  <2>2. Len(s) - 1 \in Nat
    BY <1>2
  <2> QED BY <2>1, <2>2, <1>3
<1>7. IsSeq(Tail(s))
  BY <1>6, FunctionIsSeq
<1> QED BY <1>2, <1>3, <1>4, <1>5, <1>7

LEMMA StoreNextStep == ASSUME AssetIInv, StoreNext PROVE AssetIInv'
<1> DEFINE s == Head(call.todo)
<1>1. /\ call.what = "write" /\ call.todo # <<>> /\ UNCHANGED <<kind, asset, saves>>
      /\ \/ /\ disk' = With(disk, s.file, s.content) /\ stamp' = With(stamp, s.file, saves)
            /\ call' = [call EXCEPT !.todo = Tail(@)]
         \/ call' = Idle /\ UNCHANGED <<disk, stamp>>
  BY DEF StoreNext, Return
<1>2. /\ IsAsset(asset) /\ (~asset.main.there => asset.parts = <<>>)
      /\ saves \in Nat /\ saves > 0 /\ stamp \in [Files -> 0 .. saves]
      /\ disk = [f \in DOMAIN disk |-> disk[f]] /\ \A f \in Files : IsName(f) /\ IsContent(disk[f])
      /\ IsSeq(call.todo) /\ \A x \in Range(call.todo) : IsStore(x, call.file[1])
      /\ call = [what |-> call.what, file |-> call.file, tried |-> call.tried, todo |-> call.todo]
      /\ call.file \in MainFiles /\ call.file \in Files /\ kind \in Kinds
  BY <1>1 DEF AssetIInv, TypesInv, TypeOK, MainFiles
<1>3. CASE call' = Idle /\ UNCHANGED <<disk, stamp>>
  BY <1>1, <1>2, <1>3, IdleStep
<1>4. CASE /\ disk' = With(disk, s.file, s.content) /\ stamp' = With(stamp, s.file, saves)
           /\ call' = [call EXCEPT !.todo = Tail(@)]
  <2>1. /\ call' = [what |-> call'.what, file |-> call'.file, tried |-> call'.tried, todo |-> call'.todo]
        /\ call'.what = "write" /\ call'.file = call.file /\ call'.todo = Tail(call.todo)
    BY <1>1, <1>2, <1>4
  <2>2. /\ Len(call.todo) \in Nat /\ Len(call.todo) > 0 /\ s = call.todo[1] /\ s \in Range(call.todo)
        /\ IsSeq(Tail(call.todo)) /\ Range(Tail(call.todo)) \subseteq Range(call.todo)
        /\ DOMAIN Tail(call.todo) = 1 .. Len(call.todo) - 1
        /\ \A i \in 1 .. Len(call.todo) - 1 : Tail(call.todo)[i] = call.todo[i + 1]
    BY <1>1, <1>2, TailIs
  <2>3. IsName(s.file) /\ s.file[1] = call.file[1] /\ IsContent(s.content)
    BY <1>2, <2>2 DEF IsStore
  <2> HIDE DEF s
  <2>4. /\ Files' = Files \cup {s.file} /\ disk' = [f \in DOMAIN disk' |-> disk'[f]]
        /\ \A f \in Files' : disk'[f] = IF f = s.file THEN s.content ELSE disk[f]
    BY <1>4 DEF Files, With
  <2>5. /\ DOMAIN stamp' = Files'
        /\ \A f \in Files' : stamp'[f] = IF f = s.file THEN saves ELSE stamp[f]
    BY <1>2, <1>4, <2>4 DEF With
  <2>6. \A f \in Files' : IsName(f) /\ IsContent(disk'[f])
    BY <1>2, <2>3, <2>4
  <2>7. stamp' \in [Files' -> 0 .. saves]
    <3>1. stamp' = [f \in DOMAIN stamp' |-> stamp'[f]]
      BY <1>4 DEF With
    <3>2. \A f \in Files' : stamp'[f] \in 0 .. saves
      BY <1>2, <2>4, <2>5
    <3> QED BY <3>1, <3>2, <2>5
  <2>8. MainFiles' = {f \in Files' : Tail(f) = Main} /\ MainFiles \subseteq MainFiles'
    BY <2>4 DEF MainFiles
  <2>9. TypeOK'
    BY <1>1, <1>2, <2>1, <2>8 DEF TypeOK, IsAsset
  <2>10. TypesInv'
    BY <1>1, <1>2, <2>1, <2>2, <2>4, <2>6, <2>7, <2>9 DEF TypesInv
  <2>11. \A f \in Files' : stamp'[f] <= saves /\ (f \in Files => stamp[f] <= stamp'[f])
    BY <1>2, <2>4, <2>5
  <2>12. CASE kind = "m2Chunked"
    <3>1. \A i \in DOMAIN call.todo : call.todo[i].content.there /\ RefersBack(i)
      BY <1>1, <2>12 DEF AssetIInv, TodoInOrder
    <3>2. DOMAIN call.todo = 1 .. Len(call.todo)
      BY <1>2, ElementsAreInRange
    <3>3. s.content.there /\ (s.file \in MainFiles' =>
            \A f \in UsedRefs(s.content) : f \in Files /\ disk[f].there /\ stamp[f] = saves)
      <4>1. call.todo[1].content.there /\ RefersBack(1) /\ 1 .. 1 - 1 = {}
        BY <3>1, <3>2, <2>2
      <4> QED BY <4>1, <2>2, <2>8 DEF RefersBack
    <3>4. ASSUME NEW m \in MainFiles', disk'[m].there, stamp'[m] > 0, NEW f \in UsedRefs(disk'[m])
          PROVE  f \in Files' /\ disk'[f].there /\ stamp'[f] >= stamp'[m]
      <4>1. m \in Files'
        BY <2>8
      <4>2. CASE m = s.file
        <5>1. f \in Files /\ disk[f].there /\ stamp[f] = saves
          BY <3>3, <3>4, <4>1, <4>2, <2>4
        <5>2. f \in Files' /\ disk'[f].there /\ stamp'[f] = saves
          BY <5>1, <3>3, <2>4, <2>5
        <5>3. saves >= stamp'[m]
          BY <4>1, <2>5, <4>2, <1>2
        <5> QED BY <5>2, <5>3
      <4>3. CASE m # s.file
        <5>1. m \in Files /\ disk'[m] = disk[m] /\ stamp'[m] = stamp[m] /\ m \in MainFiles
          BY <4>1, <4>3, <2>4, <2>5, <2>8 DEF MainFiles
        <5>2. f \in Files /\ disk[f].there /\ stamp[f] >= stamp[m]
          BY <5>1, <3>4, <2>12 DEF AssetIInv, StoredInOrder
        <5>3. f \in Files' /\ disk'[f].there
          BY <5>2, <3>3, <2>4
        <5>4. stamp'[f] >= stamp[f] /\ stamp'[f] \in Nat /\ stamp[f] \in Nat /\ stamp[m] \in Nat
          BY <5>1, <5>2, <5>3, <2>7, <2>11, <1>2
        <5> QED BY <5>1, <5>2, <5>3, <5>4
      <4> QED BY <4>2, <4>3
    <3>5. StoredInOrder'
      BY <1>1, <2>12, <3>4 DEF StoredInOrder
    <3>6. ASSUME NEW i \in 1 .. Len(call.todo) - 1
          PROVE  call.todo[i + 1].content.there /\ (Tail(call.todo[i + 1].file) = Main =>
                    \A f \in UsedRefs(call.todo[i + 1].content) :
                        \/ f \in Files' /\ disk'[f].there /\ stamp'[f] = saves
                        \/ \E j \in 1 .. i - 1 : Tail(call.todo)[j].file = f)
      <4>1. i + 1 \in DOMAIN call.todo /\ (i + 1) - 1 = i
        BY <3>2, <2>2
      <4>2. call.todo[i + 1].content.there /\ RefersBack(i + 1)
        BY <4>1, <3>1
      <4>3. ASSUME Tail(call.todo[i + 1].file) = Main, NEW f \in UsedRefs(call.todo[i + 1].content)
            PROVE  \/ f \in Files' /\ disk'[f].there /\ stamp'[f] = saves
                   \/ \E j \in 1 .. i - 1 : Tail(call.todo)[j].file = f
        <5>1. CASE f \in Files /\ disk[f].there /\ stamp[f] = saves
          BY <5>1, <3>3, <2>4, <2>5
        <5>2. CASE f = s.file
          BY <5>2, <3>3, <2>4, <2>5
        <5>3. ASSUME NEW j \in 1 .. i, call.todo[j].file = f, f # s.file
              PROVE  \E k \in 1 .. i - 1 : Tail(call.todo)[k].file = f
          <6>1. j # 1
            BY <5>3, <2>2
          <6>2. j - 1 \in 1 .. i - 1 /\ j - 1 \in 1 .. Len(call.todo) - 1 /\ (j - 1) + 1 = j
            BY <6>1, <2>2
          <6>3. Tail(call.todo)[j - 1] = call.todo[j]
            BY <6>2, <2>2
          <6> QED BY <6>2, <6>3, <5>3
        <5>4. \/ f \in Files /\ disk[f].there /\ stamp[f] = saves
              \/ \E j \in 1 .. i : call.todo[j].file = f
          BY <4>1, <4>2, <4>3 DEF RefersBack
        <5> QED BY <5>1, <5>2, <5>3, <5>4
      <4> QED BY <4>2, <4>3
    <3>7. TodoInOrder'
      <4>1. \A i \in DOMAIN call'.todo : i \in 1 .. Len(call.todo) - 1 /\ call'.todo[i] = call.todo[i + 1]
        BY <2>1, <2>2
      <4>2. ASSUME NEW i \in DOMAIN call'.todo PROVE call'.todo[i].content.there /\ RefersBack(i)'
        <5>1. i \in 1 .. Len(call.todo) - 1 /\ call'.todo[i] = call.todo[i + 1]
          BY <4>1
        <5>2. call'.todo[i].content.there
          BY <5>1, <3>6
        <5>3. ASSUME Tail(call'.todo[i].file) = Main, NEW f \in UsedRefs(call'.todo[i].content)
              PROVE  \/ f \in Files' /\ disk'[f].there /\ stamp'[f] = saves'
                     \/ \E j \in 1 .. i - 1 : call'.todo[j].file = f
          BY <5>1, <5>3, <3>6, <1>1, <2>1
        <5> QED BY <5>2, <5>3 DEF RefersBack
      <4> QED BY <4>2, <1>1, <2>12 DEF TodoInOrder
    <3> QED BY <2>10, <3>5, <3>7 DEF AssetIInv
  <2>13. CASE kind # "m2Chunked"
    <3>1. stamp[call.file] = saves \/ s.file = call.file
      BY <1>1, <2>2, <2>13 DEF AssetIInv, TodoInOrder
    <3>2. call.file \in Files' /\ stamp'[call.file] = saves
      BY <3>1, <1>2, <2>4, <2>5
    <3>3. ASSUME NEW m \in MainFiles', disk'[m].there, NEW f \in Files', f[1] = m[1]
          PROVE  stamp'[f] <= stamp'[m]
      <4>1. m \in Files' /\ Tail(m) = Main /\ IsName(m) /\ m = Path(m[1], Main)
        BY <2>6, <2>8, MainNames
      <4>2. call.file = Path(call.file[1], Main)
        BY <1>2, MainNames DEF MainFiles
      <4>3. CASE m[1] = call.file[1]
        <5>1. m = call.file
          BY <4>1, <4>2, <4>3
        <5> QED BY <5>1, <3>2, <2>11
      <4>4. CASE m[1] # call.file[1]
        <5>1. m # s.file /\ f # s.file
          BY <4>4, <2>3, <3>3
        <5>2. /\ m \in Files /\ f \in Files /\ disk'[m] = disk[m] /\ stamp'[m] = stamp[m]
              /\ stamp'[f] = stamp[f] /\ m \in MainFiles
          BY <5>1, <4>1, <2>4, <2>5 DEF MainFiles
        <5> QED BY <5>2, <3>3, <2>13 DEF AssetIInv, StoredInOrder
      <4> QED BY <4>3, <4>4
    <3>4. StoredInOrder'
      BY <1>1, <2>13, <3>3 DEF StoredInOrder
    <3>5. TodoInOrder'
      BY <1>1, <2>1, <2>13, <3>2 DEF TodoInOrder
    <3> QED BY <2>10, <3>4, <3>5 DEF AssetIInv
  <2> QED BY <2>12, <2>13
<1> QED BY <1>1, <1>3, <1>4

LEMMA StoreElsewhereStep == ASSUME AssetIInv, StoreElsewhere PROVE AssetIInv'
<1>1. PICK f \in Files, d \in Data : disk[f].there /\ disk' = [disk EXCEPT ![f].data = d]
  BY DEF StoreElsewhere
<1>2. UNCHANGED <<kind, stamp, asset, call, saves>>
  BY DEF StoreElsewhere
<1>3. /\ disk = [g \in DOMAIN disk |-> disk[g]]
      /\ \A g \in Files : IsName(g) /\ IsContent(disk[g])
  BY DEF AssetIInv, TypesInv
<1> DEFINE c == [disk[f] EXCEPT !.data = d]
<1>4. IsContent(c) /\ c.there = disk[f].there /\ c.refs = disk[f].refs
  <2>1. IsContent(c) /\ c.there = disk[f].there
    BY <1>1, <1>3, ContentFields
  <2>2. c.refs = disk[f].refs
    BY <1>1, <1>3 DEF IsContent
  <2> QED BY <2>1, <2>2
<1>5. disk' = [disk EXCEPT ![f] = c]
  BY <1>1
<1> HIDE DEF c
<1>6. /\ Files' = Files /\ MainFiles' = MainFiles
      /\ disk' = [g \in DOMAIN disk' |-> disk'[g]]
      /\ \A g \in Files : disk'[g] = IF g = f THEN c ELSE disk[g]
  BY <1>1, <1>3, <1>5 DEF Files, MainFiles
<1>7. \A g \in Files : /\ IsContent(disk'[g]) /\ disk'[g].there = disk[g].there
                       /\ UsedRefs(disk'[g]) = UsedRefs(disk[g])
  <2>1. UsedRefs(c) = UsedRefs(disk[f])
    BY <1>4 DEF UsedRefs, HasSkel
  <2> QED BY <2>1, <1>3, <1>4, <1>6
<1>8. TypeOK'
  BY <1>2, <1>6 DEF AssetIInv, TypesInv, TypeOK
<1>9. TypesInv'
  BY <1>2, <1>3, <1>6, <1>7, <1>8 DEF AssetIInv, TypesInv
<1>10. StoredInOrder'
  <2>1. MainFiles \subseteq Files
    BY DEF MainFiles
  <2> QED BY <2>1, <1>2, <1>6, <1>7 DEF AssetIInv, StoredInOrder
<1>11. TodoInOrder'
  <2>1. ASSUME NEW i, RefersBack(i) PROVE RefersBack(i)'
    BY <2>1, <1>2, <1>6, <1>7 DEF RefersBack
  <2>2. \A i : RefersBack(i) => RefersBack(i)'
    BY <2>1
  <2> QED BY <2>2, <1>2 DEF AssetIInv, TodoInOrder
<1> QED BY <1>9, <1>10, <1>11 DEF AssetIInv

\* An edit of the asset, between two calls.
LEMMA EditStep ==
    ASSUME AssetIInv, NEW changed, Edit(changed), IsAsset(changed), changed.main.there
    PROVE  AssetIInv'
  BY IdleStep DEF Edit

LEMMA ChangePartStep == ASSUME AssetIInv, ChangePart PROVE AssetIInv'
<1>1. PICK s \in DOMAIN asset.parts, d \in Data : Edit([asset EXCEPT !.parts[s].data = d])
  BY DEF ChangePart
<1>2. IsAsset(asset) /\ IsSlot(s) /\ IsContent(asset.parts[s]) /\ asset.parts[s].there
  BY DEF AssetIInv, TypesInv, IsAsset
<1>3. asset.main.there
  BY <1>1 DEF Edit
<1> DEFINE c == [asset.parts[s] EXCEPT !.data = d]
           b == [asset EXCEPT !.parts = With(asset.parts, s, c)]
<1>4. IsContent(c) /\ c.there
  BY <1>2, ContentFields
<1>5. [asset EXCEPT !.parts[s].data = d] = b
  <2>1. [asset.parts EXCEPT ![s].data = d] = With(asset.parts, s, c)
    <3>1. /\ asset.parts = [x \in DOMAIN asset.parts |-> asset.parts[x]]
          /\ DOMAIN asset.parts \cup {s} = DOMAIN asset.parts
      BY <1>2 DEF IsAsset
    <3>2. [asset.parts EXCEPT ![s].data = d] = [x \in DOMAIN asset.parts |-> IF x = s THEN c ELSE asset.parts[x]]
      BY <3>1
    <3> HIDE DEF c
    <3> QED BY <3>1, <3>2 DEF With
  <2>2. [asset EXCEPT !.parts[s].data = d] = [asset EXCEPT !.parts = [asset.parts EXCEPT ![s].data = d]]
    BY <1>2 DEF IsAsset
  <2> QED BY <2>1, <2>2
<1> HIDE DEF c
<1>6. IsAsset(b) /\ b.main = asset.main
  BY <1>2, <1>4, AssetFields
<1> HIDE DEF b
<1> QED BY <1>1, <1>3, <1>5, <1>6, EditStep

LEMMA AddPartStep == ASSUME AssetIInv, AddPart PROVE AssetIInv'
<1> DEFINE next(what) == <<what, Len(Several(asset.parts, what))>>
           new        == [Hollow EXCEPT !.data = CHOOSE d \in Data : TRUE]
           with(what) == [asset EXCEPT !.parts = With(asset.parts, next(what), new)]
<1>1. PICK what \in {"group", "skin", "bone", "occ"} :
        \/ Edit(with(what))
        \/ Edit([with(what) EXCEPT !.main.count = @ + 1])
  BY DEF AddPart
<1>2. IsAsset(asset)
  BY DEF AssetIInv, TypesInv
<1>3. asset.main.there
  BY <1>1 DEF Edit
<1>4. IsSlot(next(what))
  <2>1. Len(Several(asset.parts, what)) \in Nat
    BY <1>2, SeveralAreHeld DEF IsAsset
  <2> QED BY <2>1 DEF IsSlot
<1>5. IsContent(new) /\ new.there
  BY HollowIs, ContentFields
<1> HIDE DEF next, new
<1>6. IsAsset(with(what)) /\ with(what).main = asset.main
  BY <1>2, <1>4, <1>5, AssetFields
<1> HIDE DEF with
<1>7. CASE Edit(with(what))
  BY <1>3, <1>6, <1>7, EditStep
<1>8. CASE Edit([with(what) EXCEPT !.main.count = @ + 1])
  <2> DEFINE b == [with(what) EXCEPT !.main.count = @ + 1]
  <2>1. IsContent(with(what).main) /\ with(what).main.count \in Nat
    BY <1>6 DEF IsAsset, IsContent
  <2>2. IsContent([with(what).main EXCEPT !.count = with(what).main.count + 1])
        /\ [with(what).main EXCEPT !.count = with(what).main.count + 1].there = asset.main.there
    BY <2>1, <1>6, ContentFields
  <2>3. b = [main |-> [with(what).main EXCEPT !.count = with(what).main.count + 1], parts |-> with(what).parts]
    BY <1>6 DEF IsAsset
  <2> HIDE DEF b
  <2>4. IsAsset(b) /\ b.main.there
    BY <2>2, <2>3, <1>3, <1>6 DEF IsAsset
  <2> QED BY <2>4, <1>8, EditStep DEF b
<1> QED BY <1>1, <1>7, <1>8

LEMMA DropPartStep == ASSUME AssetIInv, DropPart PROVE AssetIInv'
<1> DEFINE main(s)  == IF s[1] = "group" /\ asset.main.count > 0 THEN [asset.main EXCEPT !.count = @ - 1]
                                                                 ELSE asset.main
           parts(s) == [x \in DOMAIN asset.parts \ {s} |-> asset.parts[x]]
<1>1. PICK s \in DOMAIN asset.parts : Edit([main |-> main(s), parts |-> parts(s)])
  BY DEF DropPart
<1>2. IsAsset(asset) /\ IsContent(asset.main) /\ asset.main.count \in Nat
  BY DEF AssetIInv, TypesInv, IsAsset, IsContent
<1>3. asset.main.there
  BY <1>1 DEF Edit
<1>4. IsContent(main(s)) /\ main(s).there
  <2>1. asset.main.count > 0 => asset.main.count - 1 \in Nat
    BY <1>2
  <2> QED BY <2>1, <1>2, <1>3, ContentFields
<1>5. /\ IsFiniteSet(DOMAIN parts(s)) /\ parts(s) = [x \in DOMAIN parts(s) |-> parts(s)[x]]
      /\ \A x \in DOMAIN parts(s) : x \in DOMAIN asset.parts /\ parts(s)[x] = asset.parts[x]
  BY <1>2, FS_RemoveElement DEF IsAsset
<1> HIDE DEF main, parts
<1>6. IsAsset([main |-> main(s), parts |-> parts(s)])
  BY <1>2, <1>4, <1>5 DEF IsAsset
<1> QED BY <1>1, <1>4, <1>6, EditStep

LEMMA EndsStep == ASSUME AssetIInv, EndRead \/ EndWrite \/ Crash PROVE AssetIInv'
<1>1. IsAsset(asset) /\ (~asset.main.there => asset.parts = <<>>)
  BY DEF AssetIInv, TypesInv, TypeOK
<1>2. /\ UNCHANGED <<kind, disk, stamp, saves>> /\ call' = Idle
      /\ asset' = asset \/ asset' = NoAsset
  BY DEF EndRead, EndWrite, Crash, Return
<1> QED BY <1>1, <1>2, NoAssetIs, IdleStep

LEMMA InvStep == AssetIInv /\ [Next]_vars => AssetIInv'
<1> SUFFICES ASSUME AssetIInv, [Next]_vars PROVE AssetIInv'
  OBVIOUS
<1>1. CASE \E file \in MainFiles : BeginRead(file)
  BY <1>1, BeginReadStep
<1>2. CASE \E file \in MainFiles : BeginWrite(file)
  BY <1>2, BeginWriteStep
<1>3. CASE ReadNext
  BY <1>3, ReadNextStep
<1>4. CASE StoreNext
  BY <1>4, StoreNextStep
<1>5. CASE EndRead \/ EndWrite \/ Crash
  BY <1>5, EndsStep
<1>6. CASE StoreElsewhere
  BY <1>6, StoreElsewhereStep
<1>7. CASE ChangePart \/ AddPart \/ DropPart
  BY <1>7, ChangePartStep, AddPartStep, DropPartStep
<1>8. CASE UNCHANGED vars
  <2>1. UNCHANGED <<kind, disk, stamp, asset, call, saves>>
    BY <1>8 DEF vars
  <2>2. \A i : RefersBack(i) => RefersBack(i)'
    BY <2>1 DEF RefersBack, Files
  <2> QED BY <2>1, <2>2 DEF AssetIInv, TypesInv, TypeOK, StoredInOrder, TodoInOrder, MainFiles, Files
<1> QED BY <1>1, <1>2, <1>3, <1>4, <1>5, <1>6, <1>7, <1>8 DEF Next, Step

\* The files of an asset reach the disk in order, wherever a save fails or the
\* program dies and whatever other programs store meanwhile: no reference of a
\* chunked model dangles, and of every other asset no part is newer than its root.
THEOREM PartsKeepTheirOrder == Spec => []AssetInv
<1>1. Init => AssetIInv
  BY InvInit
<1>2. AssetIInv /\ [Next]_vars => AssetIInv'
  BY InvStep
<1>3. AssetIInv => AssetInv
  BY DEF AssetIInv, TypesInv, AssetInv
<1> QED BY <1>1, <1>2, <1>3, PTL DEF Spec

---------------------------------------------------------------------------
(* What is read and stored again, by assets that find their parts by name.  *)

ByName == {"wmo", "wdt", "adtSplit", "adtWhole", "m2Named", "m2Alone"}

\* A part that lies under the name of the asset; views are not optional.
IsNamed(e, stem, k) == /\ IsSlot(e.slot) /\ e.slot # Main /\ e.file = Path(stem, e.slot)
                       /\ e.slot = Anim => k = "m2Named"
                       /\ e.slot[1] = "skin" => e.policy = "must"

\* The parts hold the i-th of the views.
HasView(p, i) == \E e \in Range(p) : e.slot = <<"skin", i - 1>>

LEMMA NamedParts ==
    ASSUME NEW a, IsAsset(a), NEW k \in ByName, NEW file, NEW tried
    PROVE  LET p == Parts(k, a, file, tried)
           IN  /\ IsSeq(p) /\ p = Parts(k, a, file, {})
               /\ \A e \in Range(p) : IsNamed(e, file[1], k)
               /\ k = "m2Named" =>
                    /\ \A e \in Range(p) : e.slot[1] = "skin" =>
                            \E i \in 1 .. a.main.count : e.slot = <<"skin", i - 1>>
                    /\ \A i \in 1 .. a.main.count : HasView(p, i)
<1> DEFINE p == Parts(k, a, file, tried)
<1>1. p = Parts(k, a, file, {})
  BY DEF Parts, ByName
<1>2. IsSeq(p)
  BY <1>1, PartsAre DEF ByName, IsEntries
<1>a. a.main.count \in Nat
  BY ContentRefs DEF IsAsset
<1>3. CASE k = "wmo"
  <2> DEFINE e(i) == Entry(<<"group", i - 1>>, Path(file[1], <<"group", i - 1>>), "must")
  <2>1. p = [i \in 1 .. a.main.count |-> e(i)]
    BY <1>3 DEF Parts, WmoParts
  <2>2. \A i \in 1 .. a.main.count : IsNamed(e(i), file[1], k)
    BY <1>a DEF IsNamed, Entry, IsSlot, Main, Anim
  <2> HIDE DEF e, p
  <2>3. \A x \in Range(p) : \E i \in 1 .. a.main.count : x = e(i)
    BY <2>1 DEF Range
  <2> QED BY <1>1, <1>2, <1>3, <2>2, <2>3 DEF p
<1>4. CASE k = "wdt"
  <2> DEFINE e(slot) == Entry(slot, Path(file[1], slot), "may")
  <2>1. p = <<e(Occ), e(Lgt)>>
    BY <1>4 DEF Parts, WdtParts
  <2>2. IsNamed(e(Occ), file[1], k) /\ IsNamed(e(Lgt), file[1], k)
    BY DEF IsNamed, Entry, IsSlot, Main, Anim, Occ, Lgt
  <2> HIDE DEF e, p
  <2>3. Range(p) = {e(Occ), e(Lgt)}
    BY <2>1 DEF Range
  <2> QED BY <1>1, <1>2, <1>4, <2>2, <2>3 DEF p
<1>5. CASE k = "adtSplit"
  <2> DEFINE e(n, policy) == Entry(<<n, 0>>, Path(file[1], <<n, 0>>), policy)
  <2>1. p = <<e("tex0", "may"), e("obj0", "may"), e("obj1", "quiet"), e("lod", "quiet")>>
    BY <1>5 DEF Parts, AdtParts
  <2>2. \A n \in {"tex0", "obj0", "obj1", "lod"} : \A policy : IsNamed(e(n, policy), file[1], k)
    BY DEF IsNamed, Entry, IsSlot, Main, Anim
  <2> HIDE DEF e, p
  <2>3. Range(p) = {e("tex0", "may"), e("obj0", "may"), e("obj1", "quiet"), e("lod", "quiet")}
    BY <2>1 DEF Range
  <2> QED BY <1>1, <1>2, <1>5, <2>2, <2>3 DEF p
<1>6. CASE k = "m2Named"
  <2> DEFINE slots == Numbered("skin", a.main.count)
             anim  == Entry(Anim, Path(file[1], Anim), "quiet")
             view(i) == Entry(<<"skin", i - 1>>, Path(file[1], <<"skin", i - 1>>), "must")
             views == [i \in 1 .. a.main.count |-> view(i)]
  <2>1. DOMAIN slots = 1 .. a.main.count /\ \A i \in 1 .. a.main.count : slots[i] = <<"skin", i - 1>>
    BY DEF Numbered
  <2>2. p = <<anim>> \o views
    <3> DEFINE got == [i \in DOMAIN slots |-> Entry(slots[i], Path(file[1], slots[i]), "must")]
    <3>1. p = <<anim>> \o got
      BY <1>6 DEF Parts, M2NamedParts
    <3>2. got = views
      <4> HIDE DEF slots
      <4> QED BY <2>1
    <3> QED BY <3>1, <3>2
  <2>3. IsNamed(anim, file[1], k) /\ anim.slot = Anim /\ Anim[1] # "skin"
    BY <1>6 DEF IsNamed, Entry, IsSlot, Main, Anim
  <2>4. \A i \in 1 .. a.main.count : IsNamed(view(i), file[1], k) /\ view(i).slot = <<"skin", i - 1>>
    BY <1>a DEF IsNamed, Entry, IsSlot, Main, Anim
  <2>5. \A i \in 1 .. a.main.count : views[i] = view(i)
    OBVIOUS
  <2>6. views = [i \in 1 .. a.main.count |-> views[i]]
    OBVIOUS
  <2> HIDE DEF anim, view, views, p
  <2>7. /\ IsSeq(views) /\ \A x \in Range(views) : \E i \in 1 .. a.main.count : x = view(i)
        /\ \A i \in 1 .. a.main.count : view(i) \in Range(views)
    <3>1. /\ IsSeq(views) /\ \A x \in Range(views) : \E i \in 1 .. a.main.count : x = views[i]
          /\ \A i \in 1 .. a.main.count : views[i] \in Range(views)
      BY <1>a, <2>6, FunctionIsSeq
    <3> QED BY <3>1, <2>5
  <2>8. Range(p) = {anim} \cup Range(views)
    BY <2>2, <2>7, ShortSeqs, ConcatHolds
  <2>9. \A e \in Range(p) : e = anim \/ \E i \in 1 .. a.main.count : e = view(i)
    BY <2>7, <2>8
  <2>10. \A e \in Range(p) : IsNamed(e, file[1], k)
    BY <2>3, <2>4, <2>9
  <2>11. \A i \in 1 .. a.main.count : HasView(p, i)
    BY <2>4, <2>7, <2>8 DEF HasView
  <2>12. ASSUME NEW e \in Range(p), e.slot[1] = "skin"
         PROVE  \E i \in 1 .. a.main.count : e.slot = <<"skin", i - 1>>
    BY <2>3, <2>4, <2>9, <2>12
  <2> QED BY <1>1, <1>2, <2>10, <2>11, <2>12 DEF p
<1>7. CASE k \in {"adtWhole", "m2Alone"}
  <2>1. p = <<>>
    BY <1>7 DEF Parts
  <2> QED BY <1>1, <1>2, <1>7, <2>1, ShortSeqs
<1> QED BY <1>3, <1>4, <1>5, <1>6, <1>7 DEF ByName

\* What is read next is a part that was not tried; when there is none, all were.
LEMMA WantedIs ==
    ASSUME NEW a, NEW k, NEW file, NEW tried, IsSeq(Parts(k, a, file, tried))
    PROVE  LET p == Parts(k, a, file, tried)
           IN  /\ \A e \in Wanted(k, a, file, tried) : e \in Range(p) /\ e.slot \notin tried
               /\ Wanted(k, a, file, tried) = {} => \A e \in Range(p) : e.slot \in tried
<1> DEFINE p == Parts(k, a, file, tried)
           First(i) == p[i].slot \notin tried /\ \A j \in 1 .. i - 1 : p[j].slot \in tried
           w == Wanted(k, a, file, tried)
<1>1. w = {p[i] : i \in {n \in DOMAIN p : First(n)}}
  BY DEF Wanted
<1> HIDE DEF w, p
<1>2. Len(p) \in Nat /\ DOMAIN p = 1 .. Len(p)
  BY ElementsAreInRange DEF p
<1>3. \A e \in w : e \in Range(p) /\ e.slot \notin tried
  BY <1>1 DEF Range
<1>4. ASSUME w = {}, NEW e \in Range(p), e.slot \notin tried PROVE FALSE
  <2> DEFINE S == {i \in 1 .. Len(p) : p[i].slot \notin tried}
  <2>1. S \subseteq Nat /\ S # {}
    BY <1>2, <1>4 DEF Range
  <2>2. PICK i \in S : \A j \in S : ~(<<j, i>> \in OpToRel(<, Nat))
    BY <2>1, NatLessThanWellFounded, WFMin
  <2>3. \A j \in S : ~(j < i)
    BY <2>1, <2>2 DEF OpToRel
  <2>4. First(i)
    <3>1. ASSUME NEW j \in 1 .. i - 1 PROVE p[j].slot \in tried
      <4>a. i \in 1 .. Len(p)
        BY <2>2
      <4>1. j \in 1 .. Len(p) /\ j < i
        BY ONLY <1>2, <4>a, j \in 1 .. i - 1
      <4> QED BY <4>1, <2>3
    <3> QED BY <2>2, <3>1
  <2> QED BY <1>1, <1>2, <1>4, <2>2, <2>4
<1> QED BY <1>3, <1>4 DEF w, p

\* What an asset that was read puts under the name of a slot.
ContentOf(a, slot) ==
    IF slot = Main THEN a.main ELSE IF slot \in DOMAIN a.parts THEN a.parts[slot] ELSE Hollow

\* The files that are stored: the main one, those of the parts, and the two a
\* split tile always has.
Written(a, k, slot) == /\ IsSlot(slot)
                       /\ slot = Main \/ slot \in DOMAIN a.parts
                            \/ (k = "adtSplit" /\ slot \in {<<"tex0", 0>>, <<"obj0", 0>>})
IsWrite(x, a, k, stem) == \E slot : Written(a, k, slot) /\ x = Store(stem, slot, ContentOf(a, slot))
AreWrites(r, a, k, stem) == IsSeq(r) /\ \A x \in Range(r) : IsWrite(x, a, k, stem)

LEMMA WritesConcat ==
    ASSUME NEW a, NEW k, NEW stem, NEW r, NEW q, AreWrites(r, a, k, stem), AreWrites(q, a, k, stem)
    PROVE  AreWrites(r \o q, a, k, stem)
  BY ConcatHolds DEF AreWrites

LEMMA OneWrite ==
    ASSUME NEW a, NEW k, NEW stem, NEW slot, Written(a, k, slot)
    PROVE  AreWrites(<<Store(stem, slot, ContentOf(a, slot))>>, a, k, stem)
<1> DEFINE x == Store(stem, slot, ContentOf(a, slot))
<1>1. IsWrite(x, a, k, stem)
  BY DEF IsWrite
<1> HIDE DEF x
<1>2. AreWrites(<<x>>, a, k, stem)
  BY <1>1, ShortSeqs DEF AreWrites
<1> QED BY <1>2 DEF x

LEMMA PartWrites ==
    ASSUME NEW a, IsAsset(a), NEW k, NEW stem, NEW slots, HeldSlots(a, slots)
    PROVE  AreWrites(Stored(a, stem, slots), a, k, stem)
<1> DEFINE r == Stored(a, stem, slots)
<1>1. /\ Len(slots) \in Nat /\ DOMAIN slots = 1 .. Len(slots)
      /\ \A i \in 1 .. Len(slots) : slots[i] \in Range(slots)
  BY ElementsAreInRange DEF HeldSlots
<1>2. /\ r = [i \in 1 .. Len(slots) |-> r[i]]
      /\ \A i \in 1 .. Len(slots) : r[i] = Store(stem, slots[i], a.parts[slots[i]])
  BY <1>1 DEF Stored
<1> HIDE DEF r
<1>3. IsSeq(r) /\ \A x \in Range(r) : \E i \in 1 .. Len(slots) : x = r[i]
  BY <1>1, <1>2, FunctionIsSeq
<1>4. ASSUME NEW i \in 1 .. Len(slots) PROVE IsWrite(r[i], a, k, stem)
  <2>1. slots[i] \in DOMAIN a.parts /\ slots[i] # Main
    BY <1>1 DEF HeldSlots
  <2>2. Written(a, k, slots[i]) /\ ContentOf(a, slots[i]) = a.parts[slots[i]]
    BY <2>1 DEF Written, ContentOf, IsAsset
  <2> QED BY <1>2, <2>2 DEF IsWrite
<1>5. AreWrites(r, a, k, stem)
  BY <1>3, <1>4 DEF AreWrites
<1> QED BY <1>5 DEF r

LEMMA PairIs ==
    ASSUME NEW x, NEW y
    PROVE  <<x, y>> = <<x>> \o <<y>>
<1> DEFINE S == {x, y}
           u == <<x>> \o <<y>>
<1>1. <<x>> \in Seq(S) /\ <<y>> \in Seq(S) /\ Len(<<x>>) = 1 /\ Len(<<y>>) = 1
  OBVIOUS
<1>2. u \in Seq(S) /\ Len(u) = 2 /\ u[1] = x /\ u[2] = y
  BY <1>1
<1> HIDE DEF u, S
<1>3. DOMAIN u = 1 .. 2 /\ DOMAIN <<x, y>> = 1 .. 2 /\ u = [i \in 1 .. 2 |-> u[i]]
  BY <1>2
<1>4. u = <<x, y>>
  BY <1>2, <1>3
<1> QED BY <1>4 DEF u

LEMMA StoresAre ==
    ASSUME NEW a, IsAsset(a), NEW k \in ByName, NEW stem,
           k = "m2Named" => Len(Several(a.parts, "skin")) = a.main.count
    PROVE  AreWrites(Stores(k, a, stem), a, k, stem)
<1> DEFINE Of(slot) == ContentOf(a, slot)
           root     == <<Store(stem, Main, a.main)>>
           Goal(r)  == AreWrites(r, a, k, stem)
<1>1. Goal(root)
  <2>1. Written(a, k, Main) /\ Of(Main) = a.main
    BY MainIsSlot DEF Written, ContentOf
  <2> QED BY <2>1, OneWrite
<1>2. \A slots : HeldSlots(a, slots) => Goal(Stored(a, stem, slots))
  BY PartWrites
<1>3. \A r, q : Goal(r) /\ Goal(q) => Goal(r \o q)
  BY WritesConcat
<1> HIDE DEF root, Of
<1>4. CASE k = "wmo"
  <2>1. Stores(k, a, stem) = root \o Stored(a, stem, Several(a.parts, "group"))
    BY <1>4 DEF Stores, WmoStores, root
  <2>2. HeldSlots(a, Several(a.parts, "group"))
    BY SeveralIs
  <2> HIDE DEF Goal
  <2>3. Goal(Stores(k, a, stem))
    BY <1>1, <1>2, <1>3, <2>1, <2>2
  <2> QED BY <2>3 DEF Goal
<1>5. CASE k = "wdt"
  <2> DEFINE slots == Held(a, Occ) \o Held(a, Lgt) \o <<>>
  <2>1. Stores(k, a, stem) = root \o Stored(a, stem, slots)
    BY <1>5 DEF Stores, WdtStores, root
  <2>2. HeldSlots(a, slots)
    <3>1. HeldSlots(a, <<>>)
      BY ShortSeqs DEF HeldSlots
    <3> QED BY <3>1, HeldIs, HeldConcat, NamedSlots
  <2> HIDE DEF Goal, slots
  <2>3. Goal(Stores(k, a, stem))
    BY <1>1, <1>2, <1>3, <2>1, <2>2
  <2> QED BY <2>3 DEF Goal
<1>6. CASE k = "adtSplit"
  <2> DEFINE tex0 == Store(stem, <<"tex0", 0>>, Of(<<"tex0", 0>>))
             obj0 == Store(stem, <<"obj0", 0>>, Of(<<"obj0", 0>>))
             rest == Stored(a, stem, Held(a, <<"obj1", 0>>) \o Held(a, <<"lod", 0>>))
  <2>1. Stores(k, a, stem) = root \o (<<tex0, obj0>> \o rest)
    <3>1. <<"tex0", 0>> # Main /\ <<"obj0", 0>> # Main
      BY DEF Main
    <3> QED BY <1>6, <3>1 DEF Stores, AdtStores, root, Of, ContentOf
  <2>2. HeldSlots(a, Held(a, <<"obj1", 0>>) \o Held(a, <<"lod", 0>>))
    BY HeldIs, HeldConcat, NamedSlots
  <2>3. Goal(rest)
    BY <1>2, <2>2
  <2>4. Goal(<<tex0>>) /\ Goal(<<obj0>>)
    <3>1. Written(a, k, <<"tex0", 0>>) /\ Written(a, k, <<"obj0", 0>>)
      BY <1>6 DEF Written, IsSlot
    <3> QED BY <3>1, OneWrite DEF Of
  <2>5. <<tex0, obj0>> = <<tex0>> \o <<obj0>>
    BY PairIs
  <2> HIDE DEF Goal, tex0, obj0, rest
  <2>6. Goal(Stores(k, a, stem))
    BY <1>1, <1>3, <2>1, <2>3, <2>4, <2>5
  <2> QED BY <2>6 DEF Goal
<1>7. CASE k = "m2Named"
  <2>1. Body(a) = a.main
    <3>1. [a.main EXCEPT !.count = a.main.count] = a.main
      BY DEF IsAsset, IsContent
    <3> QED BY <1>7, <3>1 DEF Body
  <2> DEFINE slots == Held(a, Anim) \o Several(a.parts, "skin")
  <2>2. Stores(k, a, stem) = root \o Stored(a, stem, slots)
    BY <1>7, <2>1 DEF Stores, M2NamedStores, root
  <2>3. HeldSlots(a, slots)
    BY HeldIs, SeveralIs, HeldConcat, NamedSlots
  <2> HIDE DEF Goal, slots
  <2>4. Goal(Stores(k, a, stem))
    BY <1>1, <1>2, <1>3, <2>2, <2>3
  <2> QED BY <2>4 DEF Goal
<1>8. CASE k \in {"adtWhole", "m2Alone"}
  <2>1. Stores(k, a, stem) = root
    BY <1>8 DEF Stores, root
  <2> QED BY <1>1, <2>1
<1> QED BY <1>4, <1>5, <1>6, <1>7, <1>8 DEF ByName

\* Slots have names of their own.
LEMMA PathsDiffer ==
    ASSUME NEW stem, NEW s, IsSlot(s), NEW r, IsSlot(r), Path(stem, s) = Path(stem, r)
    PROVE  s = r
<1>1. <<stem, s[1], s[2]>> = <<stem, r[1], r[2]>>
  BY PathIs
<1>2. s[1] = r[1] /\ s[2] = r[2]
  BY <1>1
<1> QED BY <1>2 DEF IsSlot

\* Views without a gap are as many as the root announces.
LEMMA ViewsAreCounted ==
    ASSUME NEW a, IsAsset(a), NEW n \in Nat,
           {s \in DOMAIN a.parts : s[1] = "skin"} = {<<"skin", i - 1>> : i \in 1 .. n}
    PROVE  Len(Several(a.parts, "skin")) = n
<1> DEFINE S == {<<"skin", i - 1>> : i \in 1 .. n}
           b == [i \in 1 .. n |-> <<"skin", i - 1>>]
<1>1. IsFiniteSet(1 .. n) /\ Cardinality(1 .. n) = n
  BY FS_Interval
<1>2. ASSUME NEW i \in 1 .. n, NEW j \in 1 .. n, b[i] = b[j] PROVE i = j
  <2>1. <<"skin", i - 1>> = <<"skin", j - 1>>
    BY <1>2
  <2>2. i - 1 = j - 1
    BY <2>1
  <2> QED BY <2>2
<1>3. b \in Bijection(1 .. n, S)
  <2>1. b \in [1 .. n -> S] /\ \A s \in S : \E i \in 1 .. n : b[i] = s
    OBVIOUS
  <2> QED BY <1>2, <2>1 DEF Bijection, Injection, Surjection, IsInjective
<1>4. Cardinality(S) = n
  BY <1>1, <1>3, FS_Bijection DEF ExistsBijection
<1>5. Len(Several(a.parts, "skin")) = Cardinality({s \in DOMAIN a.parts : s[1] = "skin"})
  BY SeveralAreHeld DEF IsAsset
<1> QED BY <1>4, <1>5

\* The asset is what the files under its name hold, as far as tried: every part
\* is the file of its slot, but for an animation that was not found; and what is
\* there, or has to be, was taken.
IsThere(f) == f \in Files /\ disk[f].there
PartSlots(file) == {e.slot : e \in Range(Parts(kind, asset, file, {}))}
AsStored(file, tried) ==
    /\ IsThere(file) /\ asset.main = disk[file]
    /\ DOMAIN asset.parts \subseteq tried /\ tried \subseteq PartSlots(file)
    /\ \A s \in DOMAIN asset.parts :
        \/ IsThere(Path(file[1], s)) /\ asset.parts[s] = disk[Path(file[1], s)]
        \/ kind = "m2Named" /\ s = Anim /\ ~IsThere(Path(file[1], s))
    /\ \A s \in tried : IsThere(Path(file[1], s)) \/ s[1] = "skin" => s \in DOMAIN asset.parts

\* A store that changes no file that is there; of a map, none that is not.
Harmless(x) == /\ IsThere(x.file) => x.content = disk[x.file]
               /\ kind = "wdt" => IsThere(x.file)

\* While the read goes on, after it, and while what was read is stored again.
ReadHolds == call.what = "read" => AsStored(call.file, call.tried)
DoneHolds == call.what = "idle" /\ last.what = "read" =>
                last.file \in MainFiles /\ AsStored(last.file, PartSlots(last.file))
TodoHolds == call.what = "write" /\ last.what = "read" /\ call.file = last.file =>
                /\ \A x \in Range(call.todo) : Harmless(x)
                /\ \A x, y \in Range(call.todo) : x.file = y.file => x.content = y.content
ResaveInv == clean /\ kind \in ByName => ReadHolds /\ DoneHolds /\ TodoHolds

LEMMA PartsByMain ==
    ASSUME NEW a, NEW b, NEW k \in ByName, NEW file, a.main = b.main
    PROVE  Parts(k, a, file, {}) = Parts(k, b, file, {})
  BY DEF Parts, ByName

LEMMA ReadNextHolds ==
    ASSUME AssetIInv, ResaveInv, ReadNext, clean', kind' \in ByName
    PROVE  ReadHolds' /\ DoneHolds' /\ TodoHolds'
<1> DEFINE file == call.file
           stem == file[1]
<1>1. PICK e \in Wanted(kind, asset, file, call.tried), fault \in BOOLEAN :
        LET r == ReadPart(asset, e, disk, fault)
        IN  /\ asset' = r.asset /\ clean' = (clean /\ ~fault /\ r.err = "none")
            /\ r.err = "none" => call' = [call EXCEPT !.tried = @ \cup {e.slot}]
  BY DEF ReadNext
<1> DEFINE r     == ReadPart(asset, e, disk, fault)
           found == IF e.file \in DOMAIN disk THEN disk[e.file] ELSE Missing
           taken(c) == [asset EXCEPT !.parts = With(asset.parts, e.slot, c)]
<1>2. clean /\ ~fault /\ r.err = "none"
  BY <1>1, Zenon
<1>3. asset' = r.asset /\ call' = [call EXCEPT !.tried = @ \cup {e.slot}]
  BY <1>1, <1>2
<1>4. UNCHANGED <<kind, disk>> /\ kind \in ByName /\ call.what = "read"
  BY DEF ReadNext
<1>5. AsStored(file, call.tried)
  BY <1>2, <1>4 DEF ResaveInv, ReadHolds
<1>6. /\ IsAsset(asset)
      /\ call = [what |-> call.what, file |-> call.file, tried |-> call.tried, todo |-> call.todo]
  BY DEF AssetIInv, TypesInv
<1>7. /\ call'.what = "read" /\ call'.file = file /\ call'.tried = call.tried \cup {e.slot}
  BY <1>3, <1>4, <1>6
<1>8. IsNamed(e, stem, kind) /\ e.slot \in PartSlots(file)
  <2> DEFINE p == Parts(kind, asset, file, call.tried)
  <2>1. /\ IsSeq(p) /\ p = Parts(kind, asset, file, {})
        /\ \A x \in Range(p) : IsNamed(x, stem, kind)
    BY <1>4, <1>6, NamedParts
  <2>2. e \in Range(p)
    BY <2>1, WantedIs
  <2> QED BY <2>1, <2>2 DEF PartSlots
<1>9. /\ found.there <=> IsThere(Path(stem, e.slot))
      /\ found.there => found = disk[Path(stem, e.slot)]
  BY <1>8, HollowIs DEF IsNamed, IsThere, Files
<1>10. \/ found.there /\ asset' = taken(found)
       \/ ~found.there /\ e.slot = Anim /\ asset' = taken(Hollow)
       \/ ~found.there /\ e.policy # "must" /\ asset' = asset
  BY <1>2, <1>3 DEF ReadPart
<1>11. ASSUME NEW c
       PROVE  /\ taken(c).main = asset.main /\ DOMAIN taken(c).parts = DOMAIN asset.parts \cup {e.slot}
              /\ \A s \in DOMAIN taken(c).parts : taken(c).parts[s] = IF s = e.slot THEN c ELSE asset.parts[s]
  <2>1. taken(c).main = asset.main /\ taken(c).parts = With(asset.parts, e.slot, c)
    BY <1>6 DEF IsAsset
  <2> QED BY <2>1 DEF With
<1> HIDE DEF found, taken, r
<1>12. /\ asset'.main = asset.main /\ DOMAIN asset.parts \subseteq DOMAIN asset'.parts
       /\ DOMAIN asset'.parts \subseteq DOMAIN asset.parts \cup {e.slot}
       /\ \A s \in DOMAIN asset'.parts : \/ s \in DOMAIN asset.parts /\ asset'.parts[s] = asset.parts[s]
                                         \/ s = e.slot /\ found.there /\ asset'.parts[s] = found
                                         \/ s = e.slot /\ e.slot = Anim /\ ~found.there
       /\ found.there => e.slot \in DOMAIN asset'.parts
       /\ e.policy = "must" => e.slot \in DOMAIN asset'.parts
  <2>1. CASE found.there /\ asset' = taken(found)
    BY <2>1, <1>11
  <2>2. CASE ~found.there /\ e.slot = Anim /\ asset' = taken(Hollow)
    BY <2>2, <1>11
  <2>3. CASE ~found.there /\ e.policy # "must" /\ asset' = asset
    BY <2>3
  <2> QED BY <1>10, <2>1, <2>2, <2>3
<1>13. Files' = Files /\ \A f : IsThere(f)' <=> IsThere(f)
  BY <1>4 DEF Files, IsThere
<1>14. PartSlots(file)' = PartSlots(file)
  <2>1. Parts(kind, asset', file, {}) = Parts(kind, asset, file, {})
    BY <1>4, <1>12, PartsByMain
  <2> QED BY <2>1, <1>4, <1>7 DEF PartSlots
<1>15. \A s \in DOMAIN asset'.parts :
        \/ IsThere(Path(stem, s)) /\ asset'.parts[s] = disk[Path(stem, s)]
        \/ kind = "m2Named" /\ s = Anim /\ ~IsThere(Path(stem, s))
  BY <1>5, <1>8, <1>9, <1>12 DEF AsStored, IsNamed
<1>16. \A s \in call.tried \cup {e.slot} :
          IsThere(Path(stem, s)) \/ s[1] = "skin" => s \in DOMAIN asset'.parts
  <2>1. \A s \in call.tried : IsThere(Path(stem, s)) \/ s[1] = "skin" => s \in DOMAIN asset'.parts
    BY <1>5, <1>12 DEF AsStored
  <2>2. IsThere(Path(stem, e.slot)) \/ e.slot[1] = "skin" => e.slot \in DOMAIN asset'.parts
    BY <1>8, <1>9, <1>12 DEF IsNamed
  <2> QED BY <2>1, <2>2
<1>17. AsStored(call.file, call.tried)'
  <2>1. IsThere(file) /\ asset'.main = disk[file]
    BY <1>5, <1>12 DEF AsStored
  <2>2. DOMAIN asset'.parts \subseteq call'.tried /\ call'.tried \subseteq PartSlots(file)
    BY <1>5, <1>7, <1>8, <1>12 DEF AsStored
  <2> QED BY <1>4, <1>7, <1>13, <1>14, <1>15, <1>16, <2>1, <2>2 DEF AsStored
<1> QED BY <1>7, <1>17 DEF ReadHolds, DoneHolds, TodoHolds

LEMMA BeginReadHolds ==
    ASSUME AssetIInv, NEW file \in MainFiles, BeginRead(file), clean'
    PROVE  ReadHolds' /\ DoneHolds' /\ TodoHolds'
<1>1. /\ disk[file].there /\ UNCHANGED <<kind, disk>>
      /\ asset' = [NoAsset EXCEPT !.main = disk[file]]
      /\ call' = [Idle EXCEPT !.what = "read", !.file = file]
  BY DEF BeginRead
<1>2. call'.what = "read" /\ call'.file = file /\ call'.tried = {}
  BY <1>1 DEF Idle
<1>3. asset'.main = disk[file] /\ asset'.parts = <<>> /\ DOMAIN <<>> = {}
  BY <1>1 DEF NoAsset
<1>4. IsThere(file)'
  BY <1>1 DEF IsThere, Files, MainFiles
<1>5. AsStored(call.file, call.tried)'
  BY <1>1, <1>2, <1>3, <1>4 DEF AsStored
<1> QED BY <1>2, <1>5 DEF ReadHolds, DoneHolds, TodoHolds

LEMMA EndReadHolds ==
    ASSUME AssetIInv, ResaveInv, EndRead, clean', kind' \in ByName
    PROVE  ReadHolds' /\ DoneHolds' /\ TodoHolds'
<1> DEFINE file == call.file
           p    == Parts(kind, asset, file, call.tried)
<1>1. /\ call.what = "read" /\ Wanted(kind, asset, file, call.tried) = {}
      /\ call' = Idle /\ last' = [what |-> "read", file |-> file, err |-> "none"]
      /\ UNCHANGED <<kind, disk, asset, clean>>
  BY DEF EndRead, Return
<1>2. clean /\ kind \in ByName
  BY <1>1, Zenon
<1>3. AsStored(file, call.tried) /\ file \in MainFiles
  BY <1>1, <1>2 DEF ResaveInv, ReadHolds, AssetIInv, TypesInv, TypeOK
<1>4. IsSeq(p) /\ p = Parts(kind, asset, file, {})
  BY <1>2, NamedParts DEF AssetIInv, TypesInv
<1>5. \A e \in Range(p) : e.slot \in call.tried
  BY <1>1, <1>4, WantedIs
<1>6. PartSlots(file) = call.tried
  BY <1>3, <1>4, <1>5 DEF AsStored, PartSlots
<1>7. AsStored(file, PartSlots(file)) /\ last'.file = file /\ call'.what = "idle"
  BY <1>1, <1>3, <1>6, IdleIs
<1>8. AsStored(last.file, PartSlots(last.file))' /\ last'.file \in MainFiles'
  BY <1>1, <1>3, <1>7 DEF AsStored, PartSlots, IsThere, Files, MainFiles
<1> QED BY <1>7, <1>8 DEF ReadHolds, DoneHolds, TodoHolds

\* What was read is stored as it lies on the disk.
LEMMA BeginWriteHolds ==
    ASSUME AssetIInv, ResaveInv, NEW file \in MainFiles, BeginWrite(file), clean', kind' \in ByName
    PROVE  ReadHolds' /\ DoneHolds' /\ TodoHolds'
<1> DEFINE stem == file[1]
           todo == Stores(kind, asset, stem)
<1>1. /\ UNCHANGED <<kind, disk, asset, clean>> /\ call = Idle
      /\ \/ call' = Idle /\ last' = [what |-> "write", file |-> file, err |-> last'.err]
         \/ call' = [Idle EXCEPT !.what = "write", !.file = file, !.todo = todo] /\ last' = last
  BY DEF BeginWrite, Return
<1>2. clean /\ kind \in ByName /\ call.what = "idle" /\ IsAsset(asset)
  BY <1>1, IdleIs, Zenon DEF AssetIInv, TypesInv
<1>3. CASE call' = Idle /\ last' = [what |-> "write", file |-> file, err |-> last'.err]
  <2>1. call'.what = "idle" /\ last'.what = "write"
    BY <1>3, IdleIs
  <2> QED BY <2>1 DEF ReadHolds, DoneHolds, TodoHolds
<1>4. CASE call' = [Idle EXCEPT !.what = "write", !.file = file, !.todo = todo] /\ last' = last
  <2>1. call'.what = "write" /\ call'.file = file /\ call'.todo = todo
    BY <1>4 DEF Idle
  <2>2. SUFFICES ASSUME last.what = "read", last.file = file
        PROVE  /\ \A x \in Range(todo) : Harmless(x)
               /\ \A x, y \in Range(todo) : x.file = y.file => x.content = y.content
    <3>1. \A x : Harmless(x)' <=> Harmless(x)
      BY <1>1 DEF Harmless, IsThere, Files
    <3> QED BY <1>4, <2>1, <3>1 DEF ReadHolds, DoneHolds, TodoHolds
  <2>3. AsStored(file, PartSlots(file))
    BY <1>2, <2>2 DEF ResaveInv, DoneHolds
  <2> DEFINE p == Parts(kind, asset, file, {})
  <2>4. /\ \A e \in Range(p) : IsNamed(e, stem, kind)
        /\ kind = "m2Named" =>
              /\ \A s \in PartSlots(file) : s[1] = "skin" => \E i \in 1 .. asset.main.count : s = <<"skin", i - 1>>
              /\ \A i \in 1 .. asset.main.count : <<"skin", i - 1>> \in PartSlots(file)
    <3>1. PartSlots(file) = {e.slot : e \in Range(p)}
      BY DEF PartSlots
    <3>2. \A e \in Range(p) : IsNamed(e, stem, kind)
      BY <1>2, NamedParts
    <3>3. ASSUME kind = "m2Named"
          PROVE  /\ \A e \in Range(p) : e.slot[1] = "skin" =>
                         \E i \in 1 .. asset.main.count : e.slot = <<"skin", i - 1>>
                 /\ \A i \in 1 .. asset.main.count : HasView(p, i)
      <4>1. asset.main.count \in Nat
        BY <1>2, ContentRefs DEF IsAsset
      <4>2. \A e \in Range(p) : e.slot[1] = "skin" => \E i \in 1 .. asset.main.count : e.slot = <<"skin", i - 1>>
        BY <1>2, <3>3, <4>1, NamedParts
      <4>3. \A i \in 1 .. asset.main.count : HasView(p, i)
        BY <1>2, <3>3, NamedParts
      <4> QED BY <4>2, <4>3
    <3> HIDE DEF p, stem
    <3> QED BY <3>1, <3>2, <3>3 DEF HasView
  <2>5. kind = "m2Named" => Len(Several(asset.parts, "skin")) = asset.main.count
    <3> SUFFICES ASSUME kind = "m2Named" PROVE Len(Several(asset.parts, "skin")) = asset.main.count
      OBVIOUS
    <3>1. asset.main.count \in Nat
      BY <1>2 DEF IsAsset, IsContent
    <3>2. ASSUME NEW i \in 1 .. asset.main.count PROVE <<"skin", i - 1>> \in DOMAIN asset.parts
      BY <2>3, <2>4 DEF AsStored
    <3>3. \A s \in DOMAIN asset.parts : s[1] = "skin" => \E i \in 1 .. asset.main.count : s = <<"skin", i - 1>>
      BY <2>3, <2>4 DEF AsStored
    <3>4. {s \in DOMAIN asset.parts : s[1] = "skin"} = {<<"skin", i - 1>> : i \in 1 .. asset.main.count}
      BY <3>2, <3>3
    <3> QED BY <1>2, <3>1, <3>4, ViewsAreCounted
  <2>6. AreWrites(todo, asset, kind, stem)
    BY <1>2, <2>5, StoresAre
  <2>7. \A s \in PartSlots(file) : IsSlot(s) /\ s # Main
    BY <2>4 DEF PartSlots, IsNamed
  <2>8. file = Path(stem, Main)
    BY MainNames DEF MainFiles, AssetIInv, TypesInv
  <2>9. ASSUME NEW slot, Written(asset, kind, slot) PROVE Harmless(Store(stem, slot, ContentOf(asset, slot)))
    <3> DEFINE x == Store(stem, slot, ContentOf(asset, slot))
    <3>1. x.file = Path(stem, slot) /\ x.content = ContentOf(asset, slot)
      BY DEF Store
    <3> HIDE DEF x
    <3>2. ASSUME slot = Main PROVE Harmless(x)
      <4>1. x.file = file /\ x.content = asset.main
        BY <2>8, <3>1, <3>2 DEF ContentOf
      <4> QED BY <2>3, <4>1 DEF AsStored, Harmless
    <3>3. ASSUME slot # Main, slot \in DOMAIN asset.parts PROVE Harmless(x)
      <4>1. x.content = asset.parts[slot]
        BY <3>1, <3>3 DEF ContentOf
      <4>2. \/ IsThere(Path(stem, slot)) /\ asset.parts[slot] = disk[Path(stem, slot)]
            \/ kind = "m2Named" /\ ~IsThere(Path(stem, slot))
        BY <2>3, <3>3 DEF AsStored
      <4> QED BY <3>1, <4>1, <4>2 DEF Harmless
    <3>4. ASSUME slot # Main, slot \notin DOMAIN asset.parts PROVE Harmless(x)
      <4>1. kind = "adtSplit" /\ slot \in {<<"tex0", 0>>, <<"obj0", 0>>}
        BY <2>9, <3>4 DEF Written
      <4>2. slot \in PartSlots(file)
        <5>1. p = AdtParts(stem)
          BY <4>1 DEF Parts
        <5>2. /\ 1 \in DOMAIN p /\ 2 \in DOMAIN p
              /\ p[1].slot = <<"tex0", 0>> /\ p[2].slot = <<"obj0", 0>>
          BY <5>1 DEF AdtParts, Entry
        <5> QED BY <4>1, <5>2 DEF PartSlots, Range
      <4>3. ~IsThere(Path(stem, slot))
        BY <2>3, <3>4, <4>2 DEF AsStored
      <4> QED BY <3>1, <4>1, <4>3 DEF Harmless
    <3> QED BY <3>2, <3>3, <3>4 DEF x
  <2>10. \A x \in Range(todo) : Harmless(x)
    BY <2>6, <2>9 DEF AreWrites, IsWrite
  <2>11. ASSUME NEW x \in Range(todo), NEW y \in Range(todo), x.file = y.file PROVE x.content = y.content
    <3>1. PICK s : Written(asset, kind, s) /\ x = Store(stem, s, ContentOf(asset, s))
      BY <2>6 DEF AreWrites, IsWrite
    <3>2. PICK q : Written(asset, kind, q) /\ y = Store(stem, q, ContentOf(asset, q))
      BY <2>6 DEF AreWrites, IsWrite
    <3>3. /\ x.file = Path(stem, s) /\ x.content = ContentOf(asset, s)
          /\ y.file = Path(stem, q) /\ y.content = ContentOf(asset, q)
      BY <3>1, <3>2 DEF Store
    <3>4. s = q
      BY <2>11, <3>1, <3>2, <3>3, PathsDiffer DEF Written
    <3> QED BY <3>3, <3>4
  <2> QED BY <2>10, <2>11
<1> QED BY <1>1, <1>3, <1>4

LEMMA StoreNextHolds ==
    ASSUME AssetIInv, ResaveInv, StoreNext, clean', kind' \in ByName
    PROVE  ReadHolds' /\ DoneHolds' /\ TodoHolds'
<1> DEFINE s == Head(call.todo)
<1>1. /\ call.what = "write" /\ call.todo # <<>> /\ UNCHANGED <<kind, clean>>
      /\ \/ /\ disk' = With(disk, s.file, s.content)
            /\ call' = [call EXCEPT !.todo = Tail(@)] /\ last' = last
         \/ call' = Idle /\ last' = [what |-> "write", file |-> call.file, err |-> "WriteFailed"]
  BY DEF StoreNext, Return
<1>2. clean /\ kind \in ByName
  BY <1>1, Zenon
<1>3. /\ IsSeq(call.todo)
      /\ call = [what |-> call.what, file |-> call.file, tried |-> call.tried, todo |-> call.todo]
  BY <1>1 DEF AssetIInv, TypesInv
<1>4. CASE call' = Idle /\ last' = [what |-> "write", file |-> call.file, err |-> "WriteFailed"]
  <2>1. call'.what = "idle" /\ last'.what = "write"
    BY <1>4, IdleIs
  <2> QED BY <2>1 DEF ReadHolds, DoneHolds, TodoHolds
<1>5. CASE disk' = With(disk, s.file, s.content) /\ call' = [call EXCEPT !.todo = Tail(@)] /\ last' = last
  <2>1. call'.what = "write" /\ call'.file = call.file /\ call'.todo = Tail(call.todo)
    BY <1>1, <1>3, <1>5
  <2>2. s \in Range(call.todo) /\ Range(Tail(call.todo)) \subseteq Range(call.todo)
    BY <1>1, <1>3, TailIs
  <2> HIDE DEF s
  <2>3. Files' = Files \cup {s.file} /\ \A f \in Files' : disk'[f] = IF f = s.file THEN s.content ELSE disk[f]
    BY <1>5 DEF Files, With
  <2>4. SUFFICES ASSUME last.what = "read", call.file = last.file
        PROVE  /\ \A x \in Range(Tail(call.todo)) : Harmless(x)'
               /\ \A x, y \in Range(Tail(call.todo)) : x.file = y.file => x.content = y.content
    BY <1>5, <2>1 DEF ReadHolds, DoneHolds, TodoHolds
  <2>5. /\ \A x \in Range(call.todo) : Harmless(x)
        /\ \A x, y \in Range(call.todo) : x.file = y.file => x.content = y.content
    BY <1>1, <1>2, <2>4 DEF ResaveInv, TodoHolds
  <2>6. ASSUME NEW x \in Range(Tail(call.todo)) PROVE Harmless(x)'
    <3>1. x \in Range(call.todo) /\ Harmless(x) /\ Harmless(s) /\ (x.file = s.file => x.content = s.content)
      BY <2>2, <2>5
    <3>2. CASE x.file = s.file
      <4>1. x.file \in Files' /\ disk'[x.file] = x.content
        BY <2>3, <3>1, <3>2
      <4>2. kind = "wdt" => IsThere(x.file) /\ x.content = disk[x.file]
        BY <3>1 DEF Harmless
      <4> QED BY <4>1, <4>2, <1>1 DEF Harmless, IsThere
    <3>3. CASE x.file # s.file
      <4>1. (x.file \in Files' <=> x.file \in Files) /\ (x.file \in Files => disk'[x.file] = disk[x.file])
        BY <2>3, <3>3
      <4> QED BY <4>1, <3>1, <1>1 DEF Harmless, IsThere
    <3> QED BY <3>2, <3>3
  <2> QED BY <2>2, <2>5, <2>6
<1> QED BY <1>1, <1>4, <1>5

LEMMA ResaveStep == ASSUME AssetIInv, ResaveInv, [Next]_vars PROVE ResaveInv'
<1>0. SUFFICES ASSUME clean', kind' \in ByName PROVE ReadHolds' /\ DoneHolds' /\ TodoHolds'
  BY DEF ResaveInv
<1>1. CASE \E file \in MainFiles : BeginRead(file)
  BY <1>0, <1>1, BeginReadHolds
<1>2. CASE \E file \in MainFiles : BeginWrite(file)
  BY <1>0, <1>2, BeginWriteHolds
<1>3. CASE ReadNext
  BY <1>0, <1>3, ReadNextHolds
<1>4. CASE EndRead
  BY <1>0, <1>4, EndReadHolds
<1>5. CASE StoreNext
  BY <1>0, <1>5, StoreNextHolds
<1>6. CASE EndWrite
  <2>1. call'.what = "idle" /\ last'.what = "write"
    BY <1>6, IdleIs DEF EndWrite, Return
  <2> QED BY <2>1 DEF ReadHolds, DoneHolds, TodoHolds
<1>7. CASE Crash \/ StoreElsewhere \/ ChangePart \/ AddPart \/ DropPart
  <2>1. ~clean'
    BY <1>7, Zenon DEF Crash, StoreElsewhere, ChangePart, AddPart, DropPart, Edit
  <2> QED BY <2>1, <1>0, Zenon
<1>8. CASE UNCHANGED vars
  <2>1. UNCHANGED <<kind, disk, asset, call, last, clean>>
    BY <1>8 DEF vars
  <2>2. clean /\ kind \in ByName
    BY <2>1, <1>0, Zenon
  <2>3. ReadHolds /\ DoneHolds /\ TodoHolds
    BY <2>2 DEF ResaveInv
  <2>4. /\ Files' = Files /\ MainFiles' = MainFiles
        /\ \A f : IsThere(f)' <=> IsThere(f)
        /\ \A f : PartSlots(f)' = PartSlots(f)
    BY <2>1 DEF Files, MainFiles, IsThere, PartSlots
  <2>5. /\ \A f, tried : AsStored(f, tried) => AsStored(f, tried)'
        /\ \A x : Harmless(x) => Harmless(x)'
    BY <2>1, <2>4 DEF AsStored, Harmless
  <2>6. ReadHolds' /\ DoneHolds'
    BY <2>1, <2>3, <2>4, <2>5 DEF ReadHolds, DoneHolds
  <2>7. TodoHolds'
    BY <2>1, <2>3, <2>5 DEF TodoHolds
  <2> QED BY <2>6, <2>7
<1> QED BY <1>1, <1>2, <1>3, <1>4, <1>5, <1>6, <1>7, <1>8 DEF Next, Step

\* The two action properties, of a step.
LEMMA ResaveStepIsHarmless ==
    ASSUME AssetIInv, ResaveInv, [Next]_vars, SavesWhatItRead, kind \in ByName
    PROVE  /\ \A f \in Files : disk[f].there => disk'[f] = disk[f]
           /\ kind = "wdt" => \A f \in Files : disk'[f].there => disk[f].there
<1>1. /\ clean /\ clean' /\ last.what = "read" /\ call.what = "write" /\ call.file = last.file
  BY Zenon DEF SavesWhatItRead
<1>2. TodoHolds
  BY <1>1 DEF ResaveInv
<1>3. CASE UNCHANGED disk
  BY <1>3
<1>4. CASE StoreNext /\ ~ UNCHANGED disk
  <2> DEFINE s == Head(call.todo)
  <2>1. call.todo # <<>> /\ disk' = With(disk, s.file, s.content)
    BY <1>4 DEF StoreNext
  <2>2. s \in Range(call.todo)
    BY <1>1, <2>1, TailIs DEF AssetIInv, TypesInv
  <2> HIDE DEF s
  <2>3. Harmless(s)
    BY <1>1, <1>2, <2>2 DEF TodoHolds
  <2>4. \A f \in Files : disk'[f] = IF f = s.file THEN s.content ELSE disk[f]
    BY <2>1 DEF With, Files
  <2> QED BY <2>3, <2>4 DEF Harmless, IsThere
<1>5. CASE StoreElsewhere
  BY <1>1, <1>5, Zenon DEF StoreElsewhere
<1> QED BY <1>3, <1>4, <1>5 DEF Next, Step, BeginRead, BeginWrite, ReadNext, EndRead, EndWrite, Crash,
        ChangePart, AddPart, DropPart, Edit, vars

LEMMA ResaveInit == Init => ResaveInv
<1> SUFFICES ASSUME Init PROVE ~clean
  BY Zenon DEF ResaveInv
<1> QED BY Zenon DEF Init

\* A program that stores what it read, unchanged and where it read it from,
\* changes no file of an asset that finds its parts by name, and adds no
\* satellite to a map; however the save ends (wmo.hpp, wdt.hpp, adt.hpp, m2.hpp).
THEOREM ResavesAreHarmless == Spec => ResaveIsHarmless
<1> DEFINE A == kind = "wdt" /\ SavesWhatItRead => \A f \in Files : disk'[f].there => disk[f].there
           B == SavesWhatItRead /\ kind \in {"wmo", "wdt", "adtSplit", "adtWhole", "m2Named", "m2Alone"}
                   => \A f \in Files : disk[f].there => disk'[f] = disk[f]
<1>1. Init => AssetIInv /\ ResaveInv
  BY InvInit, ResaveInit
<1>2. AssetIInv /\ ResaveInv /\ [Next]_vars => (AssetIInv /\ ResaveInv)'
  BY InvStep, ResaveStep
<1>3. AssetIInv /\ ResaveInv /\ [Next]_vars => [A]_vars
  BY ResaveStepIsHarmless DEF ByName
<1>4. AssetIInv /\ ResaveInv /\ [Next]_vars => [B]_vars
  BY ResaveStepIsHarmless DEF ByName
<1>5. Spec => [][A]_vars /\ [][B]_vars
  <2> HIDE DEF A, B
  <2> QED BY <1>1, <1>2, <1>3, <1>4, PTL DEF Spec
<1> QED BY <1>5 DEF ResaveIsHarmless, NoSatelliteAppears, UnchangedSaveChangesNothing
=============================================================================
