------------------------------- MODULE PackFile -------------------------------
(***************************************************************************)
(* What dulwich/pack.py writes of a pack and finds in it again: the index, *)
(* with its fan-out table and its two kinds of offsets, and deltas.        *)
(*                                                                         *)
(* Names are numbers, NamesPerGroup of them with the same first byte.  The *)
(* sizes the formats have (256, 2^31, 0xffff, 127) are constants, so that  *)
(* small files reach them.                                                 *)
(***************************************************************************)
EXTENDS Integers, Sequences, FiniteSets, FiniteSetsExt, SequencesExt

CONSTANTS Groups, NamesPerGroup,  \* the first bytes, and the names of each
          Half,       \* 2^31: offsets from here on are in the large table
          OffsetEnd,  \* the offsets tried are below this
          MaxEntries, \* the entries of the indexes tried
          Byte, Septet, Low, \* 256, 128, 16
          MaxCopy,    \* _MAX_COPY_LEN: Byte^2 - 1
          MaxInsert,  \* 127
          Sources, Targets,  \* the buffers deltas are made between
          Records,    \* the contents of packs tried, see PackData
          Missing     \* a model value: None, or an exception

ASSUME PackFileAssumption ==
    /\ {Groups, NamesPerGroup, Half, OffsetEnd, MaxInsert} \subseteq Nat \ {0}
    /\ {Byte, Septet, Low} \subseteq Nat \ {0, 1} /\ MaxCopy \in 1 .. Byte ^ 2 - 1
    /\ \A b \in Sources \cup Targets : Len(b) < Byte ^ 4

ShaNames == 0 .. Groups * NamesPerGroup - 1
FirstByte(name) == name \div NamesPerGroup

-----------------------------------------------------------------------------
(* The index                                                               *)

\* How many names have a first byte up to i.
FanOutTable(entries) ==
    LET table[i \in -1 .. Groups - 1] ==
            IF i = -1 THEN 0
            ELSE table[i - 1] + Cardinality({j \in DOMAIN entries : FirstByte(entries[j].name) = i})
    IN  table

NameTable(entries) == [j \in DOMAIN entries |-> entries[j].name]

\* write_pack_index_v1: four bytes for each offset, TypeError if they are too few.
IndexV1(entries) ==
    IF \E j \in DOMAIN entries : entries[j].offset >= 2 * Half THEN Missing
    ELSE [fanOut |-> FanOutTable(entries), names |-> NameTable(entries),
          offsets |-> [j \in DOMAIN entries |-> entries[j].offset], large |-> <<>>, version |-> 1]

\* write_pack_index_v2: the top bit of an offset says that the rest is a place
\* in the large table.
IndexV2(entries) ==
    LET large == SelectSeq([j \in DOMAIN entries |-> entries[j].offset], LAMBDA o : o >= Half)
        LargeBefore(j) == Cardinality({k \in 1 .. j - 1 : entries[k].offset >= Half})
    IN  [fanOut |-> FanOutTable(entries), names |-> NameTable(entries),
         offsets |-> [j \in DOMAIN entries |->
                        IF entries[j].offset < Half THEN entries[j].offset ELSE Half + LargeBefore(j)],
         large |-> large, version |-> 2]

UnpackOffsetV1(idx, i) == idx.offsets[i + 1]

UnpackOffsetV2(idx, i) ==
    LET offset == idx.offsets[i + 1]
    IN  IF offset >= Half THEN idx.large[offset - Half + 1] ELSE offset

\* The bytes behind the table of names are taken for a name as well.
UnpackName(idx, i, behind) == IF i < Len(idx.names) THEN idx.names[i + 1] ELSE behind

\* Both ends are looked at: place end may hold the name.
BisectFindSha(start, end, sha, idx, behind) ==
    LET find[s \in start .. end + 1, e \in start - 1 .. end] ==
            LET i == (s + e) \div 2
                name == UnpackName(idx, i, behind)
            IN  IF s > e THEN Missing
                ELSE IF name < sha THEN find[i + 1, e]
                ELSE IF name > sha THEN find[s, i - 1]
                ELSE i
    IN  find[start, end]

StartOfGroup(idx, sha) == IF FirstByte(sha) = 0 THEN 0 ELSE idx.fanOut[FirstByte(sha) - 1]

\* _object_index: the place of the name in its group, then the offset there.
ObjectIndex(idx, sha, behind) ==
    LET i == BisectFindSha(StartOfGroup(idx, sha), idx.fanOut[FirstByte(sha)], sha, idx, behind)
    IN  CASE i = Missing -> Missing
          [] i # Missing /\ i >= Len(idx.names) -> behind
          [] i # Missing /\ i < Len(idx.names) /\ idx.version = 1 -> UnpackOffsetV1(idx, i)
          [] OTHER -> UnpackOffsetV2(idx, i)

-----------------------------------------------------------------------------
(* Deltas: a sequence of bytes, the operations among them records that say *)
(* which bytes follow.                                                     *)

\* The low bits first, as many bytes as are needed.
RECURSIVE SizeBytes(_)
SizeBytes(size) ==
    IF size < Septet THEN <<[more |-> FALSE, bits |-> size]>>
    ELSE <<[more |-> TRUE, bits |-> size % Septet]>> \o SizeBytes(size \div Septet)

\* The value of a number written with the low digit first.
LittleEndian(digits, radix) == FoldRight(LAMBDA digit, high : digit + radix * high, digits, 0)

\* Only the bytes that are not zero are written.
EncodeCopy(start, length) ==
    LET number(k) == IF k < 4 THEN (start \div Byte ^ k) % Byte ELSE (length \div Byte ^ (k - 4)) % Byte
        places == {k \in 0 .. 5 : number(k) # 0}
        order == SetToSortSeq(places, <)
    IN  <<[copy |-> places]>> \o [n \in DOMAIN order |-> number(order[n])]

\* What the matcher of difflib may return: pairs of places of equal elements,
\* in order.
Matches(base, target) ==
    LET Pairs(A, B) ==
            LET a == SetToSortSeq(A, <)
                b == SetToSortSeq(B, <)
            IN  {<<a[n], b[n]>> : n \in DOMAIN a}
    IN  {m \in UNION {{Pairs(A, B) : B \in kSubset(Cardinality(A), DOMAIN target)} :
                          A \in SUBSET DOMAIN base} :
           \A p \in m : base[p[1]] = target[p[2]]}

\* Runs of matched elements are copied, all between them is inserted, both in
\* pieces the operations have room for.
CreateDelta(base, target, match) ==
    LET Goes(j, k) ==  \* j .. k of the target is one range of the base, or between two
            \/ \E i \in DOMAIN base : \A l \in j .. k : <<i + l - j, l>> \in match
            \/ \A l \in j .. k : \A p \in match : p[2] # l
        operations[j \in 1 .. Len(target) + 1] ==
            IF j > Len(target) THEN <<>>
            ELSE LET end == Max({k \in j .. Len(target) : Goes(j, k)})
                     at == {p[1] : p \in {q \in match : q[2] = j}}
                     upTo(n) == Min({end, j + n - 1})
                 IN  IF at # {}
                     THEN EncodeCopy((CHOOSE i \in at : TRUE) - 1, upTo(MaxCopy) - j + 1)
                          \o operations[upTo(MaxCopy) + 1]
                     ELSE <<[insert |-> upTo(MaxInsert) - j + 1]>>
                          \o SubSeq(target, j, upTo(MaxInsert)) \o operations[upTo(MaxInsert) + 1]
    IN  SizeBytes(Len(base)) \o SizeBytes(Len(target)) \o operations[1]

\* The first byte from place i on without the top bit.
RECURSIVE LastByte(_, _)
LastByte(data, i) ==
    IF i > Len(data) THEN Missing ELSE IF data[i].more THEN LastByte(data, i + 1) ELSE i

\* get_delta_header_size: the number that starts at place i, and where it ends.
SizeAt(delta, i) ==
    LET end == LastByte(delta, i)
    IN  IF delta = <<>> THEN [size |-> 0, next |-> i]
        ELSE IF end = Missing THEN [size |-> Missing, next |-> i]
        ELSE [size |-> LittleEndian([k \in 1 .. end - i + 1 |-> delta[i + k - 1].bits], Septet),
              next |-> end + 1]

\* The loop of apply_delta from place i on: it ends at the end of the delta, or
\* at a copy that is out of range (at: where); 0 is an exception.
RECURSIVE Restored(_, _, _, _)
Restored(src, delta, destSize, i) ==
    LET op == delta[i]
        places == op.copy
        next == i + 1 + (IF "copy" \in DOMAIN op THEN Cardinality(places) ELSE op.insert)
        number(k) == IF k \in places THEN delta[i + Cardinality({l \in places : l <= k})] ELSE 0
        offset == LittleEndian(<<number(0), number(1), number(2), number(3)>>, Byte)
        given == LittleEndian(<<number(4), number(5), number(6)>>, Byte)
        size == IF given = 0 THEN Byte ^ 2 ELSE given
        rest == Restored(src, delta, destSize, next)
    IN  IF i > Len(delta) THEN [at |-> i, out |-> <<>>]
        ELSE IF "copy" \notin DOMAIN op
        THEN IF op.insert = 0 THEN [at |-> 0, out |-> <<>>]
             ELSE [rest EXCEPT !.out = SubSeq(delta, i + 1, Min({next - 1, Len(delta)})) \o @]
        ELSE IF next > Len(delta) + 1 THEN [at |-> 0, out |-> <<>>]
        ELSE IF offset + size > Len(src) \/ size > destSize THEN [at |-> next, out |-> <<>>]
        ELSE [rest EXCEPT !.out = SubSeq(src, offset + 1, offset + size) \o @]

\* What the loop has made must be of all of the delta, and all of the result.
ApplyDelta(src, delta) ==
    LET source == SizeAt(delta, 1)
        dest == SizeAt(delta, source.next)
        end == Restored(src, delta, dest.size, dest.next)
    IN  IF Missing \in {source.size, dest.size} \/ source.size # Len(src) THEN Missing
        ELSE IF end.at = Len(delta) + 1 /\ Len(end.out) = dest.size THEN end.out ELSE Missing

-----------------------------------------------------------------------------
(* Objects in a pack: records with an id, the id of the base of a delta or *)
(* Missing, and the length of the content.                                 *)

\* The distance to the base: the high bits first, less one for each byte that
\* follows.
RECURSIVE HighBytes(_)
HighBytes(n) ==
    IF n = 0 THEN <<>>
    ELSE Append(HighBytes((n - 1) \div Septet), [more |-> TRUE, bits |-> (n - 1) % Septet])

DistanceBytes(distance) ==
    Append(HighBytes(distance \div Septet), [more |-> FALSE, bits |-> distance % Septet])

\* pack_object_header
ObjectHeader(kind, distance, size) ==
    LET first == [kind |-> kind, more |-> size >= Low, bits |-> size % Low]
    IN  <<first>>
        \o (IF size >= Low THEN SizeBytes(size \div Low) ELSE <<>>)
        \o (IF kind = "ofs" THEN DistanceBytes(distance) ELSE <<>>)

\* write_pack_data: a base written before is named by its distance, any other by
\* its id.
WritePackData(records) ==
    LET Write(f, r) ==
            LET offset == Len(f.data)
                kind == CASE r.base = Missing -> "full"
                          [] r.base # Missing /\ r.base \in DOMAIN f.entries -> "ofs"
                          [] OTHER -> "ref"
                distance == IF kind = "ofs" THEN offset - f.entries[r.base] ELSE 0
            IN  [data |-> f.data \o ObjectHeader(kind, distance, r.size)
                          \o (IF kind = "ref" THEN <<[id |-> r.base]>> ELSE <<>>)
                          \o [k \in 1 .. r.size |-> [content |-> r.id]],
                 entries |-> (r.id :> offset) @@ f.entries]
    IN  FoldLeft(Write, [data |-> <<>>, entries |-> <<>>], records)

\* take_msb_bytes: the bytes from place i up to that one.
TakeMsbBytes(data, i) == SubSeq(data, i, LastByte(data, i))

\* unpack_object: what stands at an offset.
UnpackObject(data, offset) ==
    LET sizes == TakeMsbBytes(data, offset + 1)
        kind == sizes[1].kind
        size == sizes[1].bits + Low * LittleEndian([k \in 1 .. Len(sizes) - 1 |-> sizes[k + 1].bits], Septet)
        behind == offset + 1 + Len(sizes)
        distances == TakeMsbBytes(data, behind)
        Further(distance, byte) == (distance + 1) * Septet + byte.bits
    IN  CASE kind = "ofs" ->
                [kind |-> kind, size |-> size, start |-> behind + Len(distances),
                 base |-> offset - FoldLeft(Further, distances[1].bits, Tail(distances))]
          [] kind = "ref" -> [kind |-> kind, size |-> size, start |-> behind + 1, base |-> data[behind].id]
          [] OTHER -> [kind |-> kind, size |-> size, start |-> behind, base |-> Missing]

-----------------------------------------------------------------------------
(* A new pack is written from records with an id, kind, path and data.     *)

\* The order in which objects that are alike stand side by side, the longest
\* first.
Precedes(a, b) ==
    LET key(o) == <<o.kind, o.path, -Len(o.data), o.id>>
    IN  \E i \in 1 .. 4 : key(a)[i] < key(b)[i] /\ \A k \in 1 .. i - 1 : key(a)[k] = key(b)[k]

\* Where the target has most of the base, all at one distance, stands for what
\* difflib finds.
Delta(base, target) ==
    LET At(d) == {<<i, i + d>> : i \in {j \in DOMAIN base : j + d \in DOMAIN target /\ base[j] = target[j + d]}}
        distances == -Len(base) .. Len(target)
    IN  CreateDelta(base, target,
            At(CHOOSE d \in distances : \A e \in distances : Cardinality(At(e)) <= Cardinality(At(d))))

\* Of the objects just before it in this order, the first that gives the
\* shortest delta is the base, if any delta is shorter than the object.
DeltifyPackObjects(objects, windowSize) ==
    LET magic == SetToSortSeq(objects, Precedes)
        Written(j) ==
            LET o == magic[j]
                possibleBases == Reverse(SubSeq(magic, Max({1, j - windowSize}), j - 1))
                Try(winner, base) ==
                    LET delta == Delta(base.data, o.data)
                    IN  IF base.kind = o.kind /\ Len(delta) < Len(winner.content)
                        THEN [winner EXCEPT !.base = base.id, !.content = delta] ELSE winner
            IN  FoldLeft(Try, [id |-> o.id, base |-> Missing, content |-> o.data], possibleBases)
    IN  [j \in DOMAIN magic |-> Written(j)]

PackObjectsToData(objects) ==
    LET any == SetToSeq(objects)
    IN  [j \in DOMAIN any |-> [id |-> any[j].id, base |-> Missing, content |-> any[j].data]]

\* write_pack_objects: what it makes of the objects, and the pack.
WritePackObjects(objects, windowSize, deltify) ==
    LET Written(contents) ==
            [contents |-> contents,
             pack |-> WritePackData([j \in DOMAIN contents |->
                          [id |-> contents[j].id, base |-> contents[j].base, size |-> Len(contents[j].content)]])]
    IN  Written(IF deltify THEN DeltifyPackObjects(objects, windowSize) ELSE PackObjectsToData(objects))

-----------------------------------------------------------------------------
(* Properties                                                              *)

Indexes ==
    UNION {LET order(ns) == SetToSortSeq(ns, <)
           IN  {[j \in 1 .. Cardinality(names) |-> [name |-> order(names)[j], offset |-> offsets[j]]] :
                  offsets \in [1 .. Cardinality(names) -> 0 .. OffsetEnd - 1]} :
             names \in UNION {kSubset(n, ShaNames) : n \in 0 .. MaxEntries}}

\* An index of either version gives the offset of each object it was written
\* from, however large, and of no other; unless what stands behind the names
\* happens to be the name looked for.
IndexFinds ==
    \A entries \in Indexes : \A idx \in {IndexV1(entries), IndexV2(entries)} \ {Missing} :
        \A sha, behind \in ShaNames :
            LET offsets == {entries[j].offset : j \in {k \in DOMAIN entries : entries[k].name = sha}}
            IN  behind = sha \/ ObjectIndex(idx, sha, behind) = (IF offsets = {} THEN Missing ELSE Max(offsets))

\* Whatever the matcher found, the delta gives the target back; one that was cut
\* off is refused (nothing at all passes for the delta of nothing to nothing).
DeltaRestores ==
    \A base \in Sources, target \in Targets : \A match \in Matches(base, target) :
        LET delta == CreateDelta(base, target, match)
        IN  /\ ApplyDelta(base, delta) = target
            /\ \A n \in 1 .. Len(delta) - 1 :
                    ApplyDelta(base, SubSeq(delta, 1, n)) \in {Missing, target}

\* Each object is found whole at its offset, with the place or the id of its base.
ObjectsStand ==
    \A records \in Records :
        LET written == WritePackData(records)
        IN  \A j \in DOMAIN records :
                LET r == records[j]
                    read == UnpackObject(written.data, written.entries[r.id])
                IN  /\ read.size = r.size
                    /\ read.base = IF read.kind = "ofs" THEN written.entries[r.base] ELSE r.base
                    /\ \A k \in 0 .. r.size - 1 : written.data[read.start + k] = [content |-> r.id]

\* Whatever window the deltas of a new pack are searched in, each object is in it
\* once, comes out of its chain of deltas as it was, takes no more room than it
\* has, and needs nothing that is not in the pack.
NewPackIsWhole(objectSets, windows) ==
    \A objects \in objectSets :
    \A new \in {WritePackObjects(objects, windowSize, deltify) : windowSize \in windows, deltify \in BOOLEAN} :
        LET contents == new.contents
            restored[j \in DOMAIN contents] ==
                IF contents[j].base = Missing THEN contents[j].content
                ELSE ApplyDelta(restored[CHOOSE k \in DOMAIN contents : contents[k].id = contents[j].base],
                                contents[j].content)
        IN  /\ Len(contents) = Cardinality(objects)
            /\ \A o \in objects : \E j \in DOMAIN contents :
                    /\ contents[j].id = o.id /\ restored[j] = o.data
                    /\ Len(contents[j].content) <= Len(o.data)
                    /\ UnpackObject(new.pack.data, new.pack.entries[o.id]).kind # "ref"

\* What is written to a pack and its index is found in it again.
PackFilesReadable == IndexFinds /\ DeltaRestores /\ ObjectsStand
=============================================================================
