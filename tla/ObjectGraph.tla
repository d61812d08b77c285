----------------------------- MODULE ObjectGraph -----------------------------
(***************************************************************************)
(* The objects of a git repository and which of them lead to which, with   *)
(* the walks dulwich/object_store.py does to find what one repository is   *)
(* missing from another.                                                   *)
(***************************************************************************)
EXTENDS Naturals, FiniteSets

CONSTANTS Commits, Trees, Blobs, Tags,  \* the objects there can be
          Parents,  \* the parents of each commit
          TreeOf,   \* the tree of each commit
          Entries,  \* the trees and blobs listed in each tree
          Target,   \* what each tag points to
          Time      \* the commit time of each commit

Objects == Commits \cup Trees \cup Blobs \cup Tags

ASSUME GraphAssumption ==
    /\ Parents \in [Commits -> SUBSET Commits]
    /\ TreeOf \in [Commits -> Trees]
    /\ Entries \in [Trees -> SUBSET (Trees \cup Blobs)]
    /\ Target \in [Tags -> Objects]
    /\ Time \in [Commits -> Nat]

\* An object is of one type.
ASSUME KindsAssumption ==
    /\ Commits \cap (Trees \cup Blobs \cup Tags) = {} /\ Trees \cap (Blobs \cup Tags) = {}
    /\ Blobs \cap Tags = {}

-----------------------------------------------------------------------------
\* What a walk along next meets from start on: what is in every set that has
\* start and, with an object, those that come next.
Reached(next, start) ==
    LET closed == {S \in SUBSET DOMAIN next : \A o \in S : next[o] \subseteq S}
    IN  {q \in DOMAIN next : \A S \in closed : start \subseteq S => q \in S}

\* A commit and those before it; parents says which parents to go to.
BeforeBy(parents) == [c \in Commits |-> Reached(parents, {c})]

Before == BeforeBy(Parents)

\* What an object names, the parents of a commit left out: Commit, Tree and
\* Tag in MissingObjectFinder.next.
Contents(o) ==
    CASE o \in Commits -> {TreeOf[o]}
      [] o \in Trees -> Entries[o]
      [] o \in Tags -> {Target[o]}
      [] OTHER -> {}

Below == [o \in Objects |-> Reached([q \in Objects |-> Contents(q)], {o})]

\* All an object names; and all it needs to be of use.
Links == [o \in Objects |-> Contents(o) \cup (IF o \in Commits THEN Parents[o] ELSE {})]

Needs == [o \in Objects |-> Reached(Links, {o})]

Closure(start) == UNION {Needs[o] : o \in start}

\* _split_commits_and_tags: what a tag points to counts as well.
Peel ==
    LET next == [o \in Objects |-> IF o \in Tags THEN {Target[o]} ELSE {}]
    IN  [o \in Objects |-> Reached(next, {o})]

\* _collect_filetree_revs: what is listed in a tree and below it, not the tree.
FileTreeRevs(tree) == UNION {Below[e] : e \in Entries[tree]}

\* _collect_ancestors, of commits that are all there.
AncestorsIn(before, heads) == UNION {before[c] : c \in heads}

Ancestors(heads) == AncestorsIn(Before, heads)

\* MissingObjectFinder: what is sent from a store to somebody who has the
\* haves and asks for the wants; before is BeforeBy(parents).  The walk from
\* the wants ends at commits that come before a have; what is below those it
\* meets is not sent.
MissingObjectsBy(parents, before, store, haves, wants) ==
    LET have == (UNION {Peel[o] : o \in haves \cap store}) \cap store
        want == UNION {Peel[o] : o \in wants}
        allAncestors == AncestorsIn(before, have \cap Commits)
        missing == AncestorsIn(before, want \cap Commits) \ allAncestors
        common == ((want \cap Commits) \cup UNION {parents[c] : c \in missing}) \cap allAncestors
        shaDone == common \cup (UNION {FileTreeRevs(TreeOf[c]) : c \in common}) \cup (have \cap Tags)
        objectsToSend == missing \cup ((want \ Commits) \ have)
        Todo(o) == IF o \in Tags /\ Target[o] \in shaDone THEN {o} ELSE Below[o]
    IN  (UNION {Todo(o) : o \in objectsToSend \ shaDone}) \ shaDone

MissingObjects(store, haves, wants) == MissingObjectsBy(Parents, Before, store, haves, wants)

\* _want_satisfied: does the walk from a want to the older commits get to a
\* commit the client has?  What is older than all of those is not visited.
WantSatisfied(haves, want, earliest) ==
    LET met[o \in Objects] ==
            \/ o \in haves
            \/ o \in Commits /\ \E p \in Parents[o] : Time[p] >= earliest /\ met[p]
    IN  met[want]

\* _all_wants_satisfied
AllWantsSatisfied(haves, wants) ==
    \E earliest \in IF haves = {} THEN {0} ELSE {Time[h] : h \in haves} :
       /\ \A h \in haves : earliest <= Time[h]
       /\ \A w \in wants : WantSatisfied(haves, w, earliest)
=============================================================================
