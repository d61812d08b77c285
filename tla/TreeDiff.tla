------------------------------- MODULE TreeDiff -------------------------------
(***************************************************************************)
(* The differences of two trees: dulwich/diff_tree.py, with its detection  *)
(* of renames and copies, and the conflicts of a merge.                    *)
(***************************************************************************)
EXTENDS TreePaths, FiniteSets, FiniteSetsExt, Sequences, SequencesExt, TLC

CONSTANTS
    Content,     \* of each sha of Entries: its lines, a sequence of bytes
    Newline, BlockSize,  \* 64 in the source
    Threshold,   \* rename_threshold
    Rewrite,     \* rewrite_threshold; None: modifies are not broken
    Harder       \* find_copies_harder

ASSUME TreeDiffAssumption ==
    /\ BlockSize \in Nat \ {0}
    /\ {e.sha : e \in Entries} \subseteq DOMAIN Content

Part(t, ps) == [p \in DOMAIN t \cap ps |-> t[p]]

-----------------------------------------------------------------------------
(* tree_changes                                                            *)

Nothing == [path |-> 0, kind |-> None, sha |-> None, below |-> <<>>]

\* What a tree object has under a name: a file, a subtree or nothing.
EntryAt(t, p) ==
    CASE p \in DOMAIN t -> [path |-> p, kind |-> t[p].kind, sha |-> t[p].sha, below |-> <<>>]
      [] p \notin DOMAIN t /\ Below(p) \cap DOMAIN t # {} ->
           [path |-> p, kind |-> "dir", sha |-> None, below |-> Part(t, Below(p))]
      [] OTHER -> Nothing

\* walk_trees: the paths it comes to; subtrees that are the same in both are not
\* entered when "prune" is set.
Walked(t1, t2, prune) ==
    LET entered[p \in Paths \cup {0}] ==
          p = 0 \/ /\ entered[Parent[p]]
                   /\ ~(prune /\ EntryAt(t1, p).kind = "dir" /\ EntryAt(t1, p) = EntryAt(t2, p))
    IN  {p \in Paths : entered[Parent[p]] /\ (EntryAt(t1, p) # Nothing \/ EntryAt(t2, p) # Nothing)}

\* _skip_tree
NoTree(e) == IF e.kind = "dir" THEN Nothing ELSE e

Change(type, old, new) == [type |-> type, old |-> old, new |-> new]

\* A file whose kind changed is deleted and added.
ChangesAt(old, new) ==
    CASE old = Nothing /\ new = Nothing -> {}
      [] old # Nothing /\ new = Nothing -> {Change("delete", old, new)}
      [] old = Nothing /\ new # Nothing -> {Change("add", old, new)}
      [] old # Nothing /\ new # Nothing /\ old.kind # new.kind ->
           {Change("delete", old, Nothing), Change("add", Nothing, new)}
      [] OTHER -> {Change(IF old = new THEN "unchanged" ELSE "modify", old, new)}

TreeChanges(t1, t2, wantUnchanged) ==
    UNION {LET e1 == EntryAt(t1, p)
               e2 == EntryAt(t2, p)
           IN  IF e1 = e2 /\ ~wantUnchanged THEN {} ELSE ChangesAt(NoTree(e1), NoTree(e2)) :
             p \in Walked(t1, t2, ~wantUnchanged)}

-----------------------------------------------------------------------------
(* How similar two files are                                               *)

\* _count_blocks: a block ends with a line, or when it is full; for each the
\* bytes of all blocks like it.
CountBlocks(bytes) ==
    LET Counted(counts, block) ==
            IF block = <<>> THEN counts
            ELSE (block :> Len(block) + (IF block \in DOMAIN counts THEN counts[block] ELSE 0)) @@ counts
        Byte(s, c) ==
            LET block == Append(s.block, c)
            IN  IF c = Newline \/ Len(block) = BlockSize
                THEN [counts |-> Counted(s.counts, block), block |-> <<>>]
                ELSE [s EXCEPT !.block = block]
        end == FoldLeft(Byte, [counts |-> <<>>, block |-> <<>>], bytes)
    IN  Counted(end.counts, end.block)

CommonBytes(blocks1, blocks2) ==
    MapThenSumSet(LAMBDA b : Min({blocks1[b], blocks2[b]}), DOMAIN blocks1 \cap DOMAIN blocks2)

\* _similarity_score: percents of the longer one.
Similarity(bytes1, bytes2) ==
    LET longer == Max({Len(bytes1), Len(bytes2)})
    IN  IF longer = 0 THEN 100
        ELSE (CommonBytes(CountBlocks(bytes1), CountBlocks(bytes2)) * 100) \div longer

Score == [s \in (DOMAIN Content) \X (DOMAIN Content) |-> Similarity(Content[s[1]], Content[s[2]])]

-----------------------------------------------------------------------------
(* RenameDetector                                                          *)

Bare(e) == [kind |-> e.kind, sha |-> e.sha]

\* _should_split
Split(c) ==
    /\ Rewrite # None /\ c.type = "modify" /\ c.old.sha # c.new.sha
    /\ Score[c.old.sha, c.new.sha] < Rewrite

\* _collect_changes: modifies count as deletes too, others may be copied from.
Collected(t1, t2, wantUnchanged) ==
    LET all == TreeChanges(t1, t2, Harder \/ wantUnchanged)
        split == {c \in all : Split(c)}
        maybe == {c \in all : ~Split(c)
                    /\ (c.type = "modify" \/ (Harder /\ c.type = "unchanged"))}
    IN  [adds |-> {c \in all : c.type = "add"} \cup {Change("add", Nothing, c.new) : c \in split},
         deletes |-> {c \in all : c.type = "delete"}
                     \cup {Change("delete", c.old, Nothing) : c \in split} \cup maybe,
         changes |-> {c \in all : c.type \notin {"add", "delete"}} \ (split \cup maybe)]

\* _prune, with the changes that were found
Found(state, found, deleted) ==
    LET added == {c.new.path : c \in found}
    IN  [adds |-> {c \in state.adds : c.new.path \notin added},
         deletes |-> {c \in state.deletes : c.old.path \notin deleted},
         changes |-> state.changes \cup found]

ByOld(cs) == SetToSortSeq(cs, LAMBDA a, b : a.old.path < b.old.path)
ByNew(cs) == SetToSortSeq(cs, LAMBDA a, b : a.new.path < b.new.path)

\* _find_exact_renames: files of the same content in order, one to one; what is
\* left over is copied from the first.
ExactRenames(state) ==
    LET dels(sha) == ByOld({c \in state.deletes : c.old.sha = sha})
        adds(sha) == ByNew({c \in state.adds : c.new.sha = sha})
        pairs(sha) == {i \in 1 .. Len(dels(sha)) :
                         i <= Len(adds(sha)) /\ dels(sha)[i].old.kind = adds(sha)[i].new.kind}
        shas == {c.old.sha : c \in state.deletes}
        pair(sha, i) == Change(IF dels(sha)[i].type = "delete" THEN "rename" ELSE "copy",
                               dels(sha)[i].old, adds(sha)[i].new)
        found == UNION {{pair(sha, i) : i \in pairs(sha)} : sha \in shas}
        extra == UNION {{Change("copy", dels(sha)[1].old, adds(sha)[i].new) :
                           i \in (Len(dels(sha)) + 1) .. Len(adds(sha))} : sha \in shas}
    IN  Found(state, found \cup extra, {c.old.path : c \in {f \in found : f.type = "rename"}})

\* _find_content_rename_candidates, sorted by their scores
Candidates(state) ==
    LET type(d, a) == CASE d.old.path = a.new.path -> "modify"
                        [] d.old.path # a.new.path /\ d.type # "delete" -> "copy"
                        [] OTHER -> "rename"
        score(c) == Score[c.old.sha, c.new.sha]
        rank == [copy |-> 0, modify |-> 1, rename |-> 2]
        before(a, b) ==
          \/ score(a) > score(b)
          \/ /\ score(a) = score(b)
             /\ \/ rank[a.type] < rank[b.type]
                \/ /\ a.type = b.type
                   /\ \/ a.old.path < b.old.path
                      \/ a.old.path = b.old.path /\ a.new.path < b.new.path
    IN  SetToSortSeq({Change(type(p[1], p[2]), p[1].old, p[2].new) :
                        p \in {q \in state.deletes \X state.adds :
                                 /\ q[1].old.kind = q[2].new.kind
                                 /\ Score[q[1].old.sha, q[2].new.sha] > Threshold}},
                     before)

\* A mistake: a file may be renamed more than once.
RenamedAgain(chosen, c) == c

\* What was renamed before is copied now.
OnceRenamed(chosen, c) ==
    IF c.old.path \in chosen.deleted THEN Change("copy", c.old, c.new) ELSE c

\* _choose_content_renames
Chosen(state) ==
    FoldLeft(LAMBDA chosen, c :
               IF c.new.path \in {f.new.path : f \in chosen.found} THEN chosen
               ELSE [found |-> chosen.found \cup {OnceRenamed(chosen, c)},
                     deleted |-> IF c.type = "copy" THEN chosen.deleted
                                 ELSE chosen.deleted \cup {c.old.path}],
             [found |-> {}, deleted |-> {}], Candidates(state))

ContentRenames(state) == Found(state, Chosen(state).found, Chosen(state).deleted)

\* _join_modifies: a modify that was broken, and of which nothing became.  The
\* deletes are pruned by their new path: the half of a broken modify has none
\* and stays.
Joined(state) ==
    LET again == {p \in state.deletes \X state.adds :
                    Rewrite # None /\ p[1].old.path = p[2].new.path
                    /\ p[1].old.kind = p[2].new.kind}
        found == {Change("modify", p[1].old, p[2].new) : p \in again}
        paths == {c.new.path : c \in found}
    IN  [adds |-> {c \in state.adds : c.new.path \notin paths},
         deletes |-> {c \in state.deletes : c.new.path \notin paths},
         changes |-> state.changes \cup found]

ChangesWithRenames(t1, t2, wantUnchanged) ==
    LET end == Joined(ContentRenames(ExactRenames(Collected(t1, t2, wantUnchanged))))
    IN  end.adds \cup end.changes
        \cup {c \in end.deletes : wantUnchanged \/ c.type # "unchanged"}

-----------------------------------------------------------------------------
(* tree_changes_for_merge                                                  *)

\* For one path, the change from each parent (None: there is none).
MergeChanges(parents, t, p) ==
    [i \in DOMAIN parents |->
       LET here == {c \in TreeChanges(parents[i], t, FALSE) :
                      p = IF c.type = "delete" THEN c.old.path ELSE c.new.path}
       IN  IF here = {} THEN None
           ELSE IF Cardinality(here) = 1 THEN CHOOSE c \in here : TRUE
           ELSE CHOOSE c \in here : c.type = "add"]  \* the later one stays

Types(cs) == {cs[i].type : i \in {j \in DOMAIN cs : cs[j] # None}}
OldShas(cs) == {cs[i].old.sha : i \in {j \in DOMAIN cs : cs[j] # None}}

Conflict(cs) ==
    CASE Types(cs) = {} -> FALSE
      [] Types(cs) = {"delete"} -> Cardinality(OldShas(cs)) > 1
      [] Cardinality(Types(cs)) > 1 -> TRUE
      [] OTHER -> \A i \in DOMAIN cs : cs[i] # None

MergeConflicts(parents, t) == {p \in Paths : Conflict(MergeChanges(parents, t, p))}

-----------------------------------------------------------------------------
(* commit_tree_changes of object_store.py                                  *)

\* The tree t under a directory with changes made, a function from paths to
\* entries, None for a file that is to be deleted.  First what is in the
\* directory itself, then subtree by subtree; an empty one is taken out.  None
\* is the exception: of a name that is not there, or a file taken for a tree.
RECURSIVE CommitTreeChanges(_, _, _)
CommitTreeChanges(dir, t, changes) ==
    LET direct == {p \in DOMAIN changes : Parent[p] = dir}
        replaced == direct \cup UNION {Below(p) : p \in direct}
        set == {p \in direct : changes[p] # None}
        own == [p \in (DOMAIN t \ replaced) \cup set |-> IF p \in set THEN changes[p] ELSE t[p]]
        names == {q \in Paths : Parent[q] = dir /\ Below(q) \cap DOMAIN changes # {}}
        part == [q \in names |-> CommitTreeChanges(q, Part(own, Below(q)), Part(changes, Below(q)))]
        lacks == {p \in direct \ set : EntryAt(t, p) = Nothing}
        below == UNION {Below(q) : q \in names}
    IN  IF lacks # {} \/ names \cap DOMAIN own # {} \/ (\E q \in names : part[q] = None) THEN None
        ELSE [p \in (DOMAIN own \ below) \cup UNION {DOMAIN part[q] : q \in names} |->
                IF p \in below THEN part[CHOOSE q \in names : p \in Below(q)][p] ELSE own[p]]

-----------------------------------------------------------------------------
(* What the differences are good for: the first tree with the changes made *)
(* is the second.                                                          *)

Applied(t, changes) ==
    LET gone == {c.old.path : c \in {d \in changes : d.type \in {"delete", "rename", "modify"}}}
        new == {c.new : c \in changes} \ {Nothing}
    IN  [p \in (DOMAIN t \ gone) \cup {e.path : e \in new} |->
           IF \E e \in new : e.path = p THEN Bare(CHOOSE e \in new : e.path = p) ELSE t[p]]

\* No path gets two files, none is taken away twice.
OncePerPath(changes) ==
    \A c, d \in changes : c # d =>
       /\ c.new # Nothing => c.new.path # d.new.path
       /\ {c.type, d.type} \subseteq {"delete", "rename"} => c.old.path # d.old.path
=============================================================================
