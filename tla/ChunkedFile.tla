-------------------------- MODULE ChunkedFile --------------------------
(***************************************************************************)
(* The chunk framework (formats/common/chunked_file.hpp): how an entity,   *)
(* described by its members, is read from a stream of chunks and written   *)
(* back.                                                                   *)
(*                                                                         *)
(* A payload, and a whole file, is a record:                               *)
(*   els   the structs it holds, or, of a stream, its header prelude       *)
(*   sub   the chunks of a stream, each [cc, pay]                          *)
(*   rest  "none", or what follows the last whole struct or chunk: "stray" *)
(*         bytes, or the head of a chunk that "overrun"s the buffer        *)
(* A schema says which chunks an entity has (see ChunkEntities).           *)
(* An entity is a record: head (the prelude), val (the members, by chunk), *)
(* and the bookkeeping ChunkExtras: journal, unknown, rest (trailing).     *)
(* A member is a payload; slots and repeating members are sequences of     *)
(* payloads; a container is an entity.  Containers nest once.              *)
(***************************************************************************)
EXTENDS Integers, Sequences, FiniteSets, TLC, SequencesExt

Bytes(els) == [els |-> els, sub |-> <<>>, rest |-> "none"]
NoBytes    == Bytes(<<>>)
Zeroed(fields) == Bytes([i \in 1 .. fields |-> 0])

\* The version gate of a member: Since and Until, and the empty base otherwise.
Active(S, v, cc) == /\ cc \in DOMAIN S.since => v >= S.since[cc]
                    /\ cc \in DOMAIN S.until => v < S.until[cc]

Members(S, v)  == {cc \in Range(S.order) : Active(S, v, cc)}
Required(S, v) == S.required \cap Members(S, v)

IsSlots(S, cc)  == cc \in DOMAIN S.slots
IsNested(S, cc) == cc \in DOMAIN S.nested
IsSeveral(S, cc) == IsSlots(S, cc) \/ cc \in S.repeating
IsSized(S, cc)  == cc \in DOMAIN S.data

\* What every entity the library declares is like: a plain struct that is no
\* repeated chunk is required, no repeated chunk is, and a container, which
\* comes once and holds no other, is.
IsSchemaFlat(S) == /\ \A cc \in S.required : ~IsSeveral(S, cc)
                   /\ S.order \in Seq(Range(S.order))
                   /\ DOMAIN S.data \subseteq S.required \cup DOMAIN S.slots \cup S.repeating
                   /\ \A cc \in DOMAIN S.slots : S.slots[cc] \in Nat
                   /\ \A cc \in DOMAIN S.data : S.data[cc] \in Nat
IsSchema(S) == /\ IsSchemaFlat(S)
               /\ \A cc \in DOMAIN S.nested : /\ ~IsSeveral(S, cc) /\ cc \in S.required
                                             /\ IsSchemaFlat(S.nested[cc])
                                             /\ DOMAIN S.nested[cc].nested = {}

\* A stream of chunks, and a file of the schema.
IsStream(pay) ==
    /\ pay = [els |-> pay.els, sub |-> pay.sub, rest |-> pay.rest]
    /\ pay.rest \in {"none", "stray", "overrun"}
    /\ pay.sub \in Seq(Range(pay.sub))
    /\ \A i \in DOMAIN pay.sub : pay.sub[i] = [cc |-> pay.sub[i].cc, pay |-> pay.sub[i].pay]
IsFile(S, pay) ==
    /\ IsStream(pay)
    /\ \A i \in DOMAIN pay.sub : pay.sub[i].cc \in DOMAIN S.nested => IsStream(pay.sub[i].pay)

\* A value that nothing was read into yet.
Default(S, cc) == IF IsSized(S, cc) THEN Zeroed(S.data[cc]) ELSE NoBytes

FreshFlat(S, v) ==
    [head |-> IF S.header THEN <<0>> ELSE <<>>,
     val  |-> [cc \in Members(S, v) |-> IF IsSeveral(S, cc) THEN <<>> ELSE Default(S, cc)],
     journal |-> <<>>, unknown |-> <<>>, rest |-> "none"]

Fresh(S, v) ==
    LET flat == FreshFlat(S, v)
    IN  [flat EXCEPT !.val = [cc \in Members(S, v) |->
            IF IsNested(S, cc) THEN FreshFlat(S.nested[cc], v) ELSE @[cc]]]

---------------------------------------------------------------------------
(* Reading.  A reading is [err, e, seen]: seen counts the encounters.       *)

\* One struct fills its member exactly, an array takes whole structs only;
\* what serializes itself (a blob, a string block) takes any bytes.
PayloadFits(S, cc, pay) ==
    \/ cc \in S.blob
    \/ /\ pay.rest = "none"
       /\ IsSized(S, cc) => Len(pay.els) = S.data[cc]

\* nested holds, by chunk, what its stream reads as.
ReadValue(S, cc, old, pay, nested) ==
    IF IsNested(S, cc) THEN nested[cc]
    ELSE IF PayloadFits(S, cc, pay) THEN [err |-> "none", e |-> pay]
    ELSE [err |-> "ChunkSizeMismatch", e |-> old]

Mut_PreserveUnplaced(r, c) == [r EXCEPT !.e.unknown = Append(@, c)]

Mut_Preserve(r, c) ==
    [r EXCEPT !.e.journal = Append(@, [cc |-> c.cc, known |-> FALSE, at |-> Len(r.e.unknown) + 1]),
              !.e.unknown = Append(@, c)]

\* A chunk that goes to no member keeps its place in the journal.
Preserve(r, c) ==
    LET entry == [cc |-> c.cc, known |-> FALSE, at |-> Len(r.e.unknown)]
    IN  [err  |-> r.err,
         e    |-> [r.e EXCEPT !.journal = Append(r.e.journal, entry),
                              !.unknown = Append(r.e.unknown, c)],
         seen |-> r.seen]

\* got goes to its member, and into the journal unless it is an error.
Keep(S, r, cc, got) ==
    LET val   == [r.e.val EXCEPT ![cc] = IF IsSeveral(S, cc) THEN Append(@, got.e) ELSE got.e]
        entry == [cc |-> cc, known |-> TRUE, at |-> r.seen[cc]]
    IN  IF got.err /= "none" THEN [r EXCEPT !.err = got.err, !.e = [r.e EXCEPT !.val = val]]
        ELSE [err  |-> "none",
              e    |-> [r.e EXCEPT !.val = val, !.journal = Append(r.e.journal, entry)],
              seen |-> [r.seen EXCEPT ![cc] = @ + 1]]

ReadChunk(S, v, r, c, nested) ==
    LET cc     == c.cc
        isFull == \/ cc \notin Members(S, v)
                  \/ IsSlots(S, cc) /\ Len(r.e.val[cc]) = S.slots[cc]
                  \/ ~IsSeveral(S, cc) /\ r.seen[cc] > 0
    IN  IF r.err /= "none" THEN r
        ELSE IF isFull THEN Preserve(r, c)
        ELSE Keep(S, r, cc, ReadValue(S, cc, IF IsSeveral(S, cc) THEN Default(S, cc) ELSE r.e.val[cc],
                                      c.pay, nested))

\* The readings after each of the chunks.
Readings(S, v, start, chunks, nested) ==
    LET after[n \in 0 .. Len(chunks)] ==
            IF n = 0 THEN start ELSE ReadChunk(S, v, after[n - 1], chunks[n], nested)
    IN  after

\* What follows the last chunk, and the chunks that did not come.
EndOfStream(S, v, pay, scan) ==
    IF scan.err /= "none" THEN [err |-> scan.err, e |-> scan.e]
    ELSE IF pay.rest = "overrun" THEN [err |-> "ChunkTruncated", e |-> scan.e]
    ELSE [err |-> IF \E cc \in Required(S, v) : scan.seen[cc] = 0 THEN "ChunkMissing" ELSE "none",
          e   |-> IF pay.rest = "stray" THEN [scan.e EXCEPT !.rest = "stray"] ELSE scan.e]

\* Reads into e as it is: the members that do not come stay as they were.
ReadStream(S, v, e, pay, nested) ==
    LET start == [err |-> "none", seen |-> [cc \in Members(S, v) |-> 0],
                  e |-> [e EXCEPT !.head = pay.els]]
    IN  IF S.header /\ pay.els = <<>> THEN [err |-> "ChunkTruncated", e |-> e]
        ELSE EndOfStream(S, v, pay, Readings(S, v, start, pay.sub, nested)[Len(pay.sub)])

ReadFlat(S, v, e, pay) == ReadStream(S, v, e, pay, <<>>)
ReadEntity(S, v, e, pay) ==
    LET IsFirst(i, cc) == pay.sub[i].cc = cc /\ \A j \in 1 .. i - 1 : pay.sub[j].cc /= cc
        First(cc) == pay.sub[CHOOSE i \in DOMAIN pay.sub : IsFirst(i, cc)].pay
        came      == {cc \in DOMAIN S.nested : \E i \in DOMAIN pay.sub : pay.sub[i].cc = cc}
    IN  ReadStream(S, v, e, pay,
                   [cc \in came |-> ReadFlat(S.nested[cc], v, e.val[cc], First(cc))])

---------------------------------------------------------------------------
(* Writing.  A writing is [err, out, written]: written counts emissions.    *)

Mut_Holds(pay) == Len(pay.els) > 1 \/ pay.rest /= "none"

Holds(pay) == pay.els /= <<>> \/ pay.rest /= "none"

EngagedFlat(S, cc, val) ==
    IF IsSeveral(S, cc) THEN val /= <<>> ELSE IsSized(S, cc) \/ Holds(val)

\* A struct's content does not tell whether a container is in use.
EntityEngaged(S, v, e) ==
    \/ e.journal /= <<>> \/ e.unknown /= <<>> \/ e.rest /= "none"
    \/ \E cc \in Members(S, v) \ DOMAIN S.data : EngagedFlat(S, cc, e.val[cc])

Engaged(S, v, cc, val) ==
    IF IsNested(S, cc) THEN EntityEngaged(S.nested[cc], v, val) ELSE EngagedFlat(S, cc, val)

\* streams holds, by chunk, the payloads that are not the member itself: the
\* stream of a container, or a struct with fields derived from other members.
Emit(S, e, w, cc, at, streams) ==
    LET own == IF IsSeveral(S, cc) THEN e.val[cc][at + 1] ELSE e.val[cc]
        out == IF cc \in DOMAIN streams THEN streams[cc] ELSE [err |-> "none", pay |-> own]
    IN  IF w.err /= "none" THEN w
        ELSE IF IsSeveral(S, cc) /\ at >= Len(e.val[cc]) THEN [w EXCEPT !.err = "ChunkSizeMismatch"]
        ELSE [err     |-> out.err,
              out     |-> Append(w.out, [cc |-> cc, pay |-> out.pay]),
              written |-> [w.written EXCEPT ![cc] = @ + 1]]

Mut_Replay(S, e, w, entry, streams) ==
    IF entry.known THEN Emit(S, e, w, entry.cc, entry.at, streams) ELSE w

Replay(S, e, w, entry, streams) ==
    IF entry.known THEN Emit(S, e, w, entry.cc, entry.at, streams)
    ELSE IF w.err /= "none" THEN w
    ELSE IF entry.at >= Len(e.unknown) THEN [w EXCEPT !.err = "ChunkSizeMismatch"]
    ELSE [w EXCEPT !.out = Append(@, e.unknown[entry.at + 1])]

\* The occurrences of a member that the journal did not bring.
Further(S, e, w, cc) ==
    IF IsSeveral(S, cc) THEN [i \in 1 .. Len(e.val[cc]) - w.written[cc] |-> w.written[cc] + i - 1]
    ELSE IF w.written[cc] = 0 THEN <<0>> ELSE <<>>

\* The writings after each of these occurrences.
Emissions(S, e, w, cc, further, streams) ==
    LET after[n \in 0 .. Len(further)] ==
            IF n = 0 THEN w ELSE Emit(S, e, after[n - 1], cc, further[n], streams)
    IN  after

\* They are written if the member is several, required, or in use.
AddUnjournaled(S, v, e, w, cc, streams) ==
    LET further == Further(S, e, w, cc)
    IN  IF /\ Active(S, v, cc)
           /\ \/ IsSeveral(S, cc)
              \/ cc \in S.required
              \/ Engaged(S, v, cc, e.val[cc])
        THEN Emissions(S, e, w, cc, further, streams)[Len(further)]
        ELSE w

\* The writings after each entry of the journal, and after each chunk of the order.
Replays(S, e, start, journal, streams) ==
    LET after[n \in 0 .. Len(journal)] ==
            IF n = 0 THEN start ELSE Replay(S, e, after[n - 1], journal[n], streams)
    IN  after
Completions(S, v, e, start, streams) ==
    LET after[n \in 0 .. Len(S.order)] ==
            IF n = 0 THEN start ELSE AddUnjournaled(S, v, e, after[n - 1], S.order[n], streams)
    IN  after

Finished(e, w) == [err |-> w.err, pay |-> [els |-> e.head, sub |-> w.out, rest |-> e.rest]]

\* Replays the journal, then writes the rest in canonical order.
WriteStream(S, v, e, journal, streams) ==
    LET start    == [err |-> "none", out |-> <<>>, written |-> [cc \in Members(S, v) |-> 0]]
        replayed == Replays(S, e, start, journal, streams)[Len(journal)]
    IN  Finished(e, Completions(S, v, e, replayed, streams)[Len(S.order)])

WriteFlat(S, v, e) == WriteStream(S, v, e, e.journal, <<>>)
WriteEntity(S, v, e, journal, stamped) ==
    WriteStream(S, v, e, journal,
                [cc \in DOMAIN S.nested \cup DOMAIN stamped |->
                    IF cc \in DOMAIN S.nested THEN WriteFlat(S.nested[cc], v, e.val[cc])
                                              ELSE stamped[cc]])

\* The journal a fresh write would leave.
FreshJournal(S, v, e) ==
    LET Entries(cc) ==
          IF IsSeveral(S, cc)
          THEN [i \in 1 .. Len(e.val[cc]) |-> [cc |-> cc, known |-> TRUE, at |-> i - 1]]
          ELSE IF cc \in S.required \/ Engaged(S, v, cc, e.val[cc])
          THEN <<[cc |-> cc, known |-> TRUE, at |-> 0]>> ELSE <<>>
        order == SelectSeq(S.order, LAMBDA cc : Active(S, v, cc))
    IN  FlattenSeq([i \in DOMAIN order |-> Entries(order[i])])
=============================================================================
