------------------------------ MODULE MCPackStore ------------------------------
(* All packs of up to three entries, each object at most once, whose "ref"    *)
(* deltas do not lead back to themselves.                                     *)
EXTENDS PackStore, PackFile, TLC

Entry(j) ==
    {Full(o) : o \in Objects}
    \cup {[id |-> o, kind |-> "ofs", base |-> b] : o \in Objects, b \in 1 .. (j - 1)}
    \cup {[id |-> o, kind |-> "ref", base |-> b] : o \in Objects, b \in Objects}

Once(s) == \A j, k \in Places(s) : j # k => s[j].id # s[k].id

MCStreams ==
    {s \in {<<a>> : a \in Entry(1)}
           \cup {<<a, b>> : a \in Entry(1), b \in Entry(2)}
           \cup {<<a, b, c>> : a \in Entry(1), b \in Entry(2), c \in Entry(3)} :
       Once(s) /\ NoCircle(s)}

Symmetry == Permutations(Procs)

MCStores ==
    {[loose |-> {2}, packs |-> {{1}}],
     [loose |-> {}, packs |-> {{1}, {1, 2}}]}

MCPackAdds == {{1, 2}}
MCThinPacks == {<<[id |-> 2, kind |-> "ref", base |-> 1]>>}

(* Indexes of three entries of six names, with offsets on both sides of the   *)
(* border; buffers of up to five bytes, where copies and inserts are cut in   *)
(* pieces and numbers take up to four bytes; packs of three objects.          *)
MCSources == {<<>>, <<0, 1, 0, 1, 0, 0>>, <<0, 0, 0, 0, 0>>}
MCTargets == UNION {[1 .. n -> {0, 1}] : n \in 0 .. 3} \cup {<<0, 0, 0, 0, 0>>, <<1, 0, 1, 0, 0, 1>>}

MCRecords ==
    UNION {{[j \in 1 .. n |-> [id |-> j, base |-> bases[j], size |-> sizes[j]]] :
              bases \in [1 .. n -> {Missing} \cup (1 .. n + 1)], sizes \in [1 .. n -> {0, 1, 2, 5}]} :
             n \in 1 .. 3}

(* Up to three objects to pack, in the sizes of the format, where a delta of  *)
(* eight bytes may be shorter than the object.                                *)
Full8 == INSTANCE PackFile WITH Byte <- 256, Septet <- 128, Low <- 16, MaxCopy <- 65535, MaxInsert <- 127

MCObjectSets ==
    LET contents == {<<1, 2, 3, 4, 5, 6>>, <<1, 2, 3, 4, 5, 6, 7>>, <<7, 1, 2, 3, 4, 5, 6>>, <<>>}
    IN  UNION {{{[id |-> j, kind |-> o[j][1], path |-> 1, data |-> o[j][2]] : j \in 1 .. n} :
                  o \in [1 .. n -> {1, 2} \X contents]} : n \in 0 .. 3}

(* What is in a pack can be read: the deltas of a thin pack once it is        *)
(* completed, and of every pack what its index, its headers and its deltas    *)
(* say.  This is the same in every state: it is looked at in one initial      *)
(* state.                                                                     *)
PacksReadable ==
    jobs + clock = 0 /\ looseObjects = {} =>
        ThinPacksReadable /\ PackFilesReadable /\ Full8!NewPackIsWhole(MCObjectSets, 0 .. 2)
=============================================================================
