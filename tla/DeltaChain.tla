------------------------------ MODULE DeltaChain ------------------------------
(***************************************************************************)
(* What is in a pack file: DeltaChainIterator, the completion of a thin    *)
(* pack and PackData.resolve_object of dulwich/pack.py.                    *)
(*                                                                         *)
(* A pack is a sequence of entries.  An entry is a whole object, or a delta*)
(* whose base is an earlier place in the pack ("ofs") or an object name    *)
(* ("ref").  Names are numbers: the code goes through them in order.       *)
(***************************************************************************)
EXTENDS Naturals, Sequences

CONSTANTS
    NObjects,    \* the objects are 1 .. NObjects
    Streams      \* the packs on which the algorithms are compared

Full(o) == [id |-> o, kind |-> "full", base |-> 0]
Places(pack) == 1 .. Len(pack)
Ids(pack) == {pack[j].id : j \in Places(pack)}

PackEntries == [id : Nat, kind : {"full", "ofs", "ref"}, base : Nat]

\* An offset of a delta goes back: write_pack_object.
WellFormed(pack) ==
    /\ pack \in Seq(PackEntries)
    /\ \A j \in Places(pack) : pack[j].kind = "ofs" => pack[j].base \in 1 .. j - 1

\* What a delta needs first, of the same pack
Behind(pack, j) ==
    IF pack[j].kind = "ofs" THEN {pack[j].base}
    ELSE IF pack[j].kind = "ref" THEN {k \in Places(pack) : pack[k].id = pack[j].base} ELSE {}

\* A delta is made against an object that is there: none is, by way of its bases,
\* made of itself.
NoCircle(pack) ==
    \A S \in SUBSET Places(pack) : S # {} => \E j \in S : Behind(pack, j) \cap S = {}

ASSUME DeltaChainAssumption ==
    /\ NObjects \in Nat
    /\ \A pack \in Streams : WellFormed(pack) /\ NoCircle(pack)

\* _pending_ofs.pop and _pending_ref.pop: the deltas that wait for place j.
Unblocked(pack, j) ==
    {k \in Places(pack) :
       \/ pack[k].kind = "ofs" /\ pack[k].base = j
       \/ pack[k].kind = "ref" /\ pack[k].base = pack[j].id}

\* _follow_chain: everything that hangs on the places "from".
Follow(pack, from) ==
    LET grown[n \in Nat] ==
          IF n = 0 THEN from
          ELSE grown[n - 1] \cup UNION {Unblocked(pack, j) : j \in grown[n - 1]}
    IN  grown[Len(pack)]

\* _walk_all_chains: first the whole objects, then each external base in order.
\* done: the places resolved; ext: the external bases taken.
Walk(pack, have, top) ==
    LET walked[n \in 0 .. top] ==
          IF n = 0
          THEN [done |-> Follow(pack, {j \in Places(pack) : pack[j].kind = "full"}), ext |-> {}]
          ELSE LET before == walked[n - 1]
                   pending == {k \in Places(pack) \ before.done :
                                 pack[k].kind = "ref" /\ pack[k].base = n}
               IN  IF pending # {} /\ n \in have
                   THEN [done |-> before.done \cup Follow(pack, pending),
                         ext |-> before.ext \cup {n}]
                   ELSE before
    IN  walked[top]

\* _ensure_no_pending and the assertion at the end.
Indexed(pack, have, top) == Walk(pack, have, top).done = Places(pack)

\* A mistake: the bases are forgotten.
NotCompleted(pack, have, top) == pack

\* _complete_thin_pack: the external bases are written behind the rest.
Completed(pack, have, top) ==
    LET ext == Walk(pack, have, top).ext
        list[n \in 0 .. top] ==
          IF n = 0 THEN pack
          ELSE IF n \in ext THEN Append(list[n - 1], Full(n)) ELSE list[n - 1]
    IN  list[top]

\* _object_index: where the index has a name.
Located(pack, name) == {k \in Places(pack) : pack[k].id = name}

\* resolve_object: from place j down its chain; the base of a
\* "ref" delta is wherever the index finds its name.
Resolves(pack, j) ==
    LET down[n \in Nat] ==
          IF n = 0 THEN [i \in Places(pack) |-> pack[i].kind = "full"]
          ELSE [i \in Places(pack) |->
                  CASE pack[i].kind = "full" -> TRUE
                    [] pack[i].kind = "ofs" -> down[n - 1][pack[i].base]
                    [] OTHER -> /\ Located(pack, pack[i].base) # {}
                                /\ \A k \in Located(pack, pack[i].base) : down[n - 1][k]]
    IN  down[Len(pack)][j]

-----------------------------------------------------------------------------
(* The reference: a pack is sound if from every delta its bases lead to a  *)
(* whole object, of the pack or not of the pack.                           *)

Sound(pack, have) ==
    \A S \in SUBSET Places(pack) :
       (S # {} /\ \A j \in S : pack[j].kind # "full") =>
          \E j \in S : \/ pack[j].kind = "ofs" /\ pack[j].base \notin S
                       \/ /\ pack[j].kind = "ref"
                          /\ \/ pack[j].base \in have
                             \/ \E k \in Places(pack) \ S : pack[k].id = pack[j].base

\* DeltaChainIterator accepts just the sound packs, and what _complete_thin_pack
\* makes of one can be read without anything else.
ThinPackReadable(pack, have, top) ==
    /\ Indexed(pack, have, top) <=> Sound(pack, have)
    /\ Indexed(pack, have, top) =>
         \A j \in Places(Completed(pack, have, top)) : Resolves(Completed(pack, have, top), j)

\* DeltaChainIterator takes a thin pack exactly if its deltas lead to something
\* known, and what is stored of it is readable without other packs.
ThinPacksReadable ==
    \A pack \in Streams, have \in SUBSET (1 .. NObjects) : ThinPackReadable(pack, have, NObjects)
=============================================================================
