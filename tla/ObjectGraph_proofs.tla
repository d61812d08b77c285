-------------------------- MODULE ObjectGraph_proofs --------------------------
(***************************************************************************)
(* What one repository sends another is enough: with what the other has it *)
(* is all that the objects asked for need, in every graph of objects.      *)
(***************************************************************************)
EXTENDS ObjectGraph, FiniteSetTheorems, WellFoundedInduction, TLAPS

-----------------------------------------------------------------------------
(* Induction and recursive definitions                                     *)

\* Induction: a set of numbers that has 0, and with each number the next, has all.
LEMMA Counting ==
    ASSUME NEW J, 0 \in J, \A n \in Nat : n \in J => n + 1 \in J
    PROVE  Nat \subseteq J
<1> DEFINE Rest == Nat \ J
<1>1. SUFFICES ASSUME Rest # {} PROVE FALSE
  OBVIOUS
<1>2. PICK m \in Rest : \A n \in Rest : ~(<<n, m>> \in OpToRel(<, Nat))
  BY <1>1, NatLessThanWellFounded, WFMin
<1>3. m \in Nat /\ m # 0
  OBVIOUS
<1>4. m - 1 \in Nat /\ m - 1 < m /\ m = (m - 1) + 1
  BY <1>3
<1>5. m - 1 \notin Rest
  BY <1>2, <1>3, <1>4 DEF OpToRel
<1> QED
  BY <1>2, <1>4, <1>5

\* What a recursive definition asks of a function on the numbers up to n
UpTo(h, n, a, g) ==
    \A k \in 0 .. n : h[k] = IF k = 0 THEN a ELSE g[k][h[k - 1]]

LEMMA Pieces ==
    ASSUME NEW S, NEW a \in S, NEW g \in [Nat -> [S -> S]]
    PROVE  \A n \in Nat : \E h \in [0 .. n -> S] : UpTo(h, n, a, g)
<1> DEFINE J == {n \in Nat : \E h \in [0 .. n -> S] : UpTo(h, n, a, g)}
<1>1. 0 \in J
  <2>1. [k \in 0 .. 0 |-> a] \in [0 .. 0 -> S] /\ UpTo([k \in 0 .. 0 |-> a], 0, a, g)
    BY DEF UpTo
  <2> QED
    BY <2>1
<1>2. ASSUME NEW n \in Nat, n \in J PROVE n + 1 \in J
  <2>1. PICK h \in [0 .. n -> S] : UpTo(h, n, a, g)
    BY <1>2
  <2> DEFINE more == [k \in 0 .. n + 1 |-> IF k = n + 1 THEN g[n + 1][h[n]] ELSE h[k]]
  <2>2. g[n + 1] \in [S -> S] /\ h[n] \in S
    OBVIOUS
  <2>3. \A k \in 0 .. n + 1 : k # n + 1 => k \in 0 .. n
    OBVIOUS
  <2>4. more \in [0 .. n + 1 -> S]
    BY <2>2, <2>3
  <2>5. ASSUME NEW k \in 0 .. n + 1 PROVE more[k] = IF k = 0 THEN a ELSE g[k][more[k - 1]]
    <3>1. CASE k = n + 1
      <4>1. k # 0 /\ k - 1 = n /\ n \in 0 .. n + 1 /\ n # n + 1
        BY <3>1
      <4> QED
        BY <3>1, <4>1
    <3>2. CASE k # n + 1
      <4>1. k \in 0 .. n /\ (k # 0 => k - 1 \in 0 .. n + 1 /\ k - 1 # n + 1)
        BY <3>2
      <4>2. h[k] = IF k = 0 THEN a ELSE g[k][h[k - 1]]
        BY <2>1, <4>1 DEF UpTo
      <4> QED
        BY <3>2, <4>1, <4>2
    <3> QED
      BY <3>1, <3>2
  <2> HIDE DEF more
  <2> QED
    BY <2>4, <2>5 DEF UpTo
<1> HIDE DEF J
<1>3. Nat \subseteq J
  BY <1>1, <1>2, Counting
<1> QED
  BY <1>3 DEF J

\* Two pieces agree where both are defined.
LEMMA PiecesAgree ==
    ASSUME NEW m \in Nat, NEW n \in Nat, NEW h, NEW i, NEW a, NEW g, m <= n,
           UpTo(h, m, a, g), UpTo(i, n, a, g)
    PROVE  \A k \in 0 .. m : h[k] = i[k]
<1> DEFINE J == {k \in Nat : k <= m => h[k] = i[k]}
<1>1. 0 \in J
  BY DEF UpTo
<1>2. ASSUME NEW k \in Nat, k \in J PROVE k + 1 \in J
  <2>1. SUFFICES ASSUME k + 1 <= m PROVE h[k + 1] = i[k + 1]
    OBVIOUS
  <2>2. k + 1 \in 0 .. m /\ k + 1 \in 0 .. n /\ k + 1 # 0 /\ (k + 1) - 1 = k /\ k <= m
    BY <2>1
  <2>3. h[k + 1] = g[k + 1][h[k]] /\ i[k + 1] = g[k + 1][i[k]]
    BY <2>2 DEF UpTo
  <2> QED
    BY <1>2, <2>2, <2>3
<1> HIDE DEF J
<1>3. Nat \subseteq J
  BY <1>1, <1>2, Counting
<1> QED
  BY <1>3 DEF J

\* What a recursive definition asks of a function of numbers
IsRecursive(f, a, g) == f = [n \in Nat |-> IF n = 0 THEN a ELSE g[n][f[n - 1]]]

\* There is such a function.
LEMMA Recursion ==
    ASSUME NEW S, NEW a \in S, NEW g \in [Nat -> [S -> S]]
    PROVE  \E f \in [Nat -> S] : IsRecursive(f, a, g)
<1> DEFINE piece == [n \in Nat |-> CHOOSE h \in [0 .. n -> S] : UpTo(h, n, a, g)]
           f == [n \in Nat |-> piece[n][n]]
<1>1. ASSUME NEW n \in Nat PROVE piece[n] \in [0 .. n -> S] /\ UpTo(piece[n], n, a, g)
  BY Pieces
<1> HIDE DEF piece
<1>2. f \in [Nat -> S]
  BY <1>1
<1>3. ASSUME NEW n \in Nat PROVE f[n] = IF n = 0 THEN a ELSE g[n][f[n - 1]]
  <2>1. CASE n = 0
    BY <1>1, <2>1 DEF UpTo
  <2>2. CASE n # 0
    <3>1. n - 1 \in Nat /\ n - 1 <= n /\ n - 1 \in 0 .. n - 1 /\ n \in 0 .. n
      BY <2>2
    <3>2. piece[n][n] = g[n][piece[n][n - 1]]
      BY <1>1, <2>2, <3>1 DEF UpTo
    <3>3. piece[n - 1][n - 1] = piece[n][n - 1]
      BY <1>1, <3>1, PiecesAgree
    <3> QED
      BY <2>2, <3>1, <3>2, <3>3
  <2> QED
    BY <2>1, <2>2
<1>4. f = [n \in Nat |-> IF n = 0 THEN a ELSE g[n][f[n - 1]]]
  BY <1>3
<1> HIDE DEF f
<1> QED
  BY <1>2, <1>4 DEF IsRecursive
\* Each value is made of the one before, and has all that one has.
Growing(f, u) == \A n \in Nat : f[n + 1] = u[f[n]] /\ f[n] \subseteq f[n + 1]

\* Sets of P that grow step by step, each made of the one before, are the same from
\* some step on: the number of members of P is enough steps.
LEMMA GrowsToTheEnd ==
    ASSUME NEW P, IsFiniteSet(P), NEW u, NEW f \in [Nat -> SUBSET P], Growing(f, u)
    PROVE  u[f[Cardinality(P)]] = f[Cardinality(P)]
<1> DEFINE J == {n \in Nat : u[f[n]] = f[n] \/ Cardinality(f[n]) >= n}
           N == Cardinality(P)
<1> USE DEF Growing
<1>1. ASSUME NEW n \in Nat PROVE IsFiniteSet(f[n]) /\ Cardinality(f[n]) \in Nat /\ Cardinality(f[n]) <= N
  <2>1. f[n] \subseteq P
    OBVIOUS
  <2> QED
    BY <2>1, FS_Subset, FS_CardinalityType
<1>2. 0 \in J
  BY <1>1
<1>3. ASSUME NEW n \in Nat, n \in J PROVE n + 1 \in J
  <2>1. CASE u[f[n]] = f[n]
    <3>1. f[n + 1] = f[n]
      BY <2>1
    <3>2. u[f[n + 1]] = f[n + 1]
      BY <2>1, <3>1
    <3> QED
      BY <3>2
  <2>2. CASE u[f[n]] # f[n]
    <3>1. f[n + 1] # f[n] /\ f[n] \subseteq f[n + 1] /\ n + 1 \in Nat
      BY <2>2
    <3>2. Cardinality(f[n]) < Cardinality(f[n + 1])
      <4>1. IsFiniteSet(f[n + 1]) /\ f[n] \in SUBSET f[n + 1]
        BY <1>1, <3>1
      <4>2. /\ Cardinality(f[n]) <= Cardinality(f[n + 1])
            /\ Cardinality(f[n + 1]) = Cardinality(f[n]) => f[n + 1] = f[n]
        BY <4>1, FS_Subset
      <4>3. Cardinality(f[n]) \in Nat /\ Cardinality(f[n + 1]) \in Nat
        BY <1>1, <3>1
      <4> QED
        BY <3>1, <4>2, <4>3
    <3>3. Cardinality(f[n]) >= n
      BY <1>3, <2>2
    <3>4. Cardinality(f[n + 1]) >= n + 1
      BY <1>1, <3>1, <3>2, <3>3
    <3> QED
      BY <3>4
  <2> QED
    BY <2>1, <2>2
<1> HIDE DEF J
<1>4. Nat \subseteq J
  BY <1>2, <1>3, Counting
<1>5. N \in Nat
  BY FS_CardinalityType
<1>6. u[f[N]] = f[N] \/ Cardinality(f[N]) >= N
  BY <1>4, <1>5 DEF J
<1>7. CASE Cardinality(f[N]) >= N
  <2>1. f[N] \subseteq P /\ Cardinality(f[N]) = N
    BY <1>1, <1>5, <1>7
  <2>2. f[N] = P
    BY <2>1, FS_Subset
  <2>3. f[N] \subseteq f[N + 1] /\ f[N + 1] \subseteq P /\ f[N + 1] = u[f[N]]
    BY <1>5
  <2> QED
    BY <2>2, <2>3
<1> QED
  BY <1>6, <1>7

\* The same up to some number.
IsRecursiveTo(h, top, a, g) == h = [n \in 0 .. top |-> IF n = 0 THEN a ELSE g[n][h[n - 1]]]

LEMMA RecursionTo ==
    ASSUME NEW S, NEW a \in S, NEW g \in [Nat -> [S -> S]], NEW top \in Nat
    PROVE  \E h \in [0 .. top -> S] : IsRecursiveTo(h, top, a, g)
<1>1. PICK h \in [0 .. top -> S] : UpTo(h, top, a, g)
  BY Pieces
<1>2. h = [n \in 0 .. top |-> IF n = 0 THEN a ELSE g[n][h[n - 1]]]
  BY <1>1 DEF UpTo
<1> QED
  BY <1>2 DEF IsRecursiveTo

\* A function of steps, each made of the one before
Iterates(f, a, step) == f = [n \in Nat |-> IF n = 0 THEN a ELSE step[f[n - 1]]]

LEMMA Iteration ==
    ASSUME NEW S, NEW a \in S, NEW step \in [S -> S]
    PROVE  \E f \in [Nat -> S] : Iterates(f, a, step)
<1> DEFINE g == [n \in Nat |-> step]
<1>1. g \in [Nat -> [S -> S]]
  OBVIOUS
<1>2. \A n \in Nat : g[n] = step
  OBVIOUS
<1> HIDE DEF g
<1>3. PICK f \in [Nat -> S] : IsRecursive(f, a, g)
  BY <1>1, Recursion
<1>4. f = [n \in Nat |-> IF n = 0 THEN a ELSE step[f[n - 1]]]
  BY <1>2, <1>3 DEF IsRecursive
<1> QED
  BY <1>4 DEF Iterates

LEMMA LeastNumber ==
    ASSUME NEW T \in SUBSET Nat, T # {}
    PROVE  \E m \in T : \A n \in T : m <= n
<1>1. PICK m \in T : \A n \in T : ~(<<n, m>> \in OpToRel(<, Nat))
  BY NatLessThanWellFounded, WFMin
<1>2. ASSUME NEW n \in T PROVE m <= n
  <2>1. ~(<<n, m>> \in OpToRel(<, Nat))
    BY <1>1
  <2> QED
    BY <2>1 DEF OpToRel
<1> QED
  BY <1>2

-----------------------------------------------------------------------------
(* Walks                                                                   *)

\* A walk has its start, is closed, and lies in every closed set with its start.
LEMMA ReachedHasStart ==
    ASSUME NEW next, NEW o \in DOMAIN next
    PROVE  o \in Reached(next, {o}) /\ Reached(next, {o}) \subseteq DOMAIN next
    BY DEF Reached

LEMMA ReachedIsClosed ==
    ASSUME NEW next, NEW start, NEW o \in Reached(next, start), next[o] \subseteq DOMAIN next
    PROVE  next[o] \subseteq Reached(next, start)
    BY DEF Reached

LEMMA ReachedIsLeast ==
    ASSUME NEW next, NEW start, NEW S \in SUBSET DOMAIN next,
           start \subseteq S, \A o \in S : next[o] \subseteq S
    PROVE  Reached(next, start) \subseteq S
    BY DEF Reached

-----------------------------------------------------------------------------
(* The functions on the graph                                              *)

LEMMA ContentsAreObjects ==
    /\ \A o \in Objects : Contents(o) \subseteq Objects
    /\ \A c \in Commits : Contents(c) = {TreeOf[c]} /\ TreeOf[c] \in Trees
    /\ \A t \in Trees : Contents(t) = Entries[t] /\ Entries[t] \subseteq Trees \cup Blobs
    /\ \A b \in Blobs : Contents(b) = {}
    /\ \A g \in Tags : Contents(g) = {Target[g]} /\ Target[g] \in Objects
    BY GraphAssumption, KindsAssumption DEF Contents, Objects

LEMMA LinksAreObjects ==
    /\ DOMAIN Links = Objects
    /\ \A o \in Objects : Links[o] \subseteq Objects /\ Contents(o) \subseteq Links[o]
    /\ \A c \in Commits : Links[c] = {TreeOf[c]} \cup Parents[c]
    /\ \A o \in Objects \ Commits : Links[o] = Contents(o)
    BY ContentsAreObjects, GraphAssumption DEF Links, Objects

LEMMA BeforeFacts ==
    /\ \A c \in Commits : c \in Before[c] /\ Before[c] \subseteq Commits
    /\ \A c \in Commits : \A d \in Before[c] : Parents[d] \subseteq Before[c]
<1> DOMAIN Parents = Commits /\ \A c \in Commits : Parents[c] \subseteq Commits
    BY GraphAssumption
<1>1. \A c \in Commits : Before[c] = Reached(Parents, {c})
    BY DEF Before, BeforeBy
<1>2. ASSUME NEW c \in Commits PROVE c \in Before[c] /\ Before[c] \subseteq Commits
    BY <1>1, ReachedHasStart
<1>3. ASSUME NEW c \in Commits, NEW d \in Before[c] PROVE Parents[d] \subseteq Before[c]
  <2>1. d \in Commits /\ d \in Reached(Parents, {c}) /\ Parents[d] \subseteq DOMAIN Parents
    BY <1>1, <1>2
  <2> QED
    BY <1>1, <2>1, ReachedIsClosed
<1> QED
    BY <1>2, <1>3

LEMMA BelowFacts ==
    /\ \A o \in Objects : o \in Below[o] /\ Below[o] \subseteq Objects
    /\ \A o \in Objects : \A q \in Below[o] : Contents(q) \subseteq Below[o]
    /\ \A o \in Objects : \A S \in SUBSET Objects :
          o \in S /\ (\A q \in S : Contents(q) \subseteq S) => Below[o] \subseteq S
<1> DEFINE next == [q \in Objects |-> Contents(q)]
<1>1. \A o \in Objects : Below[o] = Reached(next, {o})
    BY DEF Below
<1>2. DOMAIN next = Objects /\ \A q \in Objects : next[q] = Contents(q) /\ next[q] \subseteq Objects
    BY ContentsAreObjects
<1> HIDE DEF next
<1>3. ASSUME NEW o \in Objects PROVE o \in Below[o] /\ Below[o] \subseteq Objects
    BY <1>1, <1>2, ReachedHasStart
<1>4. ASSUME NEW o \in Objects, NEW q \in Below[o] PROVE Contents(q) \subseteq Below[o]
  <2>1. q \in Objects /\ next[q] = Contents(q) /\ next[q] \subseteq DOMAIN next
    BY <1>2, <1>3
  <2>2. q \in Reached(next, {o})
    BY <1>1
  <2> QED
    BY <1>1, <2>1, <2>2, ReachedIsClosed
<1>5. ASSUME NEW o \in Objects, NEW S \in SUBSET Objects, o \in S,
             \A q \in S : Contents(q) \subseteq S
      PROVE  Below[o] \subseteq S
  <2>1. \A q \in S : next[q] \subseteq S
    BY <1>2, <1>5
  <2>2. Reached(next, {o}) \subseteq S
    BY <1>2, <1>5, <2>1, ReachedIsLeast
  <2> QED
    BY <1>1, <2>2
<1> QED
    BY <1>3, <1>4, <1>5

LEMMA PeelFacts ==
    /\ \A o \in Objects : o \in Peel[o] /\ Peel[o] \subseteq Objects
    /\ \A o \in Objects : \A g \in Peel[o] \cap Tags : Target[g] \in Peel[o]
    /\ \A o \in Objects : \A S \in SUBSET Objects :
          o \in S /\ (\A g \in S \cap Tags : Target[g] \in S) => Peel[o] \subseteq S
<1> DEFINE next == [o \in Objects |-> IF o \in Tags THEN {Target[o]} ELSE {}]
<1>1. \A o \in Objects : Peel[o] = Reached(next, {o})
    BY DEF Peel
<1>2. /\ DOMAIN next = Objects
      /\ \A g \in Tags : next[g] = {Target[g]} /\ next[g] \subseteq Objects /\ g \in Objects
      /\ \A o \in Objects \ Tags : next[o] = {}
    BY ContentsAreObjects DEF Objects
<1> HIDE DEF next
<1>3. ASSUME NEW o \in Objects PROVE o \in Peel[o] /\ Peel[o] \subseteq Objects
    BY <1>1, <1>2, ReachedHasStart
<1>4. ASSUME NEW o \in Objects, NEW g \in Peel[o] \cap Tags PROVE Target[g] \in Peel[o]
  <2>1. g \in Reached(next, {o})
    BY <1>1
  <2>2. next[g] \subseteq Reached(next, {o})
    BY <1>2, <2>1, ReachedIsClosed
  <2> QED
    BY <1>1, <1>2, <2>2
<1>5. ASSUME NEW o \in Objects, NEW S \in SUBSET Objects, o \in S, \A g \in S \cap Tags : Target[g] \in S
      PROVE  Peel[o] \subseteq S
  <2>1. \A q \in S : next[q] \subseteq S
    BY <1>2, <1>5
  <2>2. Reached(next, {o}) \subseteq S
    BY <1>2, <1>5, <2>1, ReachedIsLeast
  <2> QED
    BY <1>1, <2>2
<1> QED
    BY <1>3, <1>4, <1>5

-----------------------------------------------------------------------------
(* What an object needs                                                    *)

\* A set of objects that has, with an object, all that it names.
Complete(S) == S \subseteq Objects /\ \A o \in S : Links[o] \subseteq S

LEMMA NeedsFacts ==
    /\ \A o \in Objects : o \in Needs[o] /\ Complete(Needs[o])
    /\ \A o \in Objects : \A S : Complete(S) /\ o \in S => Needs[o] \subseteq S
<1>1. \A o \in Objects : Needs[o] = Reached(Links, {o})
    BY DEF Needs
<1>2. ASSUME NEW o \in Objects PROVE o \in Needs[o] /\ Needs[o] \subseteq Objects
  <2>1. DOMAIN Links = Objects
    BY LinksAreObjects
  <2> QED
    BY <1>1, <2>1, ReachedHasStart
<1>3. ASSUME NEW o \in Objects, NEW q \in Needs[o] PROVE Links[q] \subseteq Needs[o]
  <2>1. q \in Reached(Links, {o}) /\ Links[q] \subseteq DOMAIN Links
    BY <1>1, <1>2, LinksAreObjects
  <2> QED
    BY <1>1, <2>1, ReachedIsClosed
<1>4. ASSUME NEW o \in Objects, NEW S, Complete(S), o \in S PROVE Needs[o] \subseteq S
  <2>1. S \in SUBSET DOMAIN Links /\ {o} \subseteq S /\ \A q \in S : Links[q] \subseteq S
    BY <1>4, LinksAreObjects DEF Complete
  <2>2. Reached(Links, {o}) \subseteq S
    BY <2>1, ReachedIsLeast
  <2> QED
    BY <1>1, <2>2
<1> QED
    BY <1>2, <1>3, <1>4 DEF Complete

LEMMA ClosureFacts ==
    ASSUME NEW S \in SUBSET Objects
    PROVE  /\ S \subseteq Closure(S) /\ Complete(Closure(S))
           /\ \A T : Complete(T) /\ S \subseteq T => Closure(S) \subseteq T
<1>1. S \subseteq Closure(S)
    BY NeedsFacts DEF Closure
<1>2. Complete(Closure(S))
    BY NeedsFacts DEF Closure, Complete
<1>3. \A T : Complete(T) /\ S \subseteq T => Closure(S) \subseteq T
    BY NeedsFacts DEF Closure, Complete
<1> QED
    BY <1>1, <1>2, <1>3

LEMMA CompleteUnion ==
    ASSUME NEW S, NEW T, Complete(S), Complete(T)
    PROVE  Complete(S \cup T)
    BY DEF Complete

\* A complete set has the tags' targets, the trees and all below, and the
\* history of its commits.
LEMMA CompleteHasAll ==
    ASSUME NEW S, Complete(S), NEW o \in S
    PROVE  /\ Peel[o] \subseteq S
           /\ Below[o] \subseteq S
           /\ o \in Commits => Before[o] \subseteq S /\ FileTreeRevs(TreeOf[o]) \subseteq S
<1> S \in SUBSET Objects /\ o \in Objects /\ \A q \in S : Links[q] \subseteq S
    BY DEF Complete
<1>1. \A q \in S : Contents(q) \subseteq S
    BY LinksAreObjects
<1>2. Peel[o] \subseteq S
    BY <1>1, PeelFacts, ContentsAreObjects
<1>3. ASSUME NEW q \in S PROVE Below[q] \subseteq S
    BY <1>1, BelowFacts
<1>4. ASSUME o \in Commits PROVE Before[o] \subseteq S
  <2>1. \A c \in S \cap Commits : Parents[c] \subseteq S \cap Commits
    BY LinksAreObjects, GraphAssumption
  <2>2. DOMAIN Parents = Commits /\ {o} \subseteq S \cap Commits
    BY <1>4, GraphAssumption
  <2>3. Reached(Parents, {o}) \subseteq S \cap Commits
    BY <2>1, <2>2, ReachedIsLeast
  <2> QED
    BY <1>4, <2>3 DEF Before, BeforeBy
<1>5. ASSUME o \in Commits PROVE FileTreeRevs(TreeOf[o]) \subseteq S
  <2>1. TreeOf[o] \in Trees /\ TreeOf[o] \in S
    BY <1>1, <1>5, ContentsAreObjects
  <2>2. Entries[TreeOf[o]] \subseteq S
    BY <1>1, <2>1, ContentsAreObjects
  <2> QED
    BY <1>3, <2>2 DEF FileTreeRevs
<1> QED
    BY <1>2, <1>3, <1>4, <1>5

\* The only commit below an object is what it is a tag of, or itself.
LEMMA CommitsBelow ==
    ASSUME NEW o \in Objects
    PROVE  Below[o] \cap Commits \subseteq Peel[o]
<1> DEFINE S == Peel[o] \cup Trees \cup Blobs
<1>1. o \in S /\ S \in SUBSET Objects
    BY PeelFacts DEF Objects
<1>2. ASSUME NEW q \in S PROVE Contents(q) \subseteq S
  <2>1. CASE q \in Commits
    BY <2>1, ContentsAreObjects
  <2>2. CASE q \in Trees \cup Blobs
    BY <2>2, ContentsAreObjects
  <2>3. CASE q \in Tags
    BY <2>3, ContentsAreObjects, PeelFacts, KindsAssumption
  <2> QED
    BY <1>1, <2>1, <2>2, <2>3 DEF Objects
<1>3. Below[o] \subseteq S
    BY <1>1, <1>2, BelowFacts
<1> QED
    BY <1>3, KindsAssumption

LEMMA PeelOfCommit == \A c \in Commits : Peel[c] = {c}
<1> SUFFICES ASSUME NEW c \in Commits PROVE Peel[c] = {c}
    OBVIOUS
<1>1. c \in Objects /\ {c} \in SUBSET Objects /\ \A g \in {c} \cap Tags : Target[g] \in {c}
    BY KindsAssumption DEF Objects
<1>2. c \in Peel[c] /\ Peel[c] \subseteq {c}
    BY <1>1, PeelFacts
<1> QED
    BY <1>2

-----------------------------------------------------------------------------
(* MissingObjectFinder                                                     *)

(* What is sent is enough: added to whatever holds the haves and is        *)
(* complete, it gives all that the wants need.  The walk may end at the    *)
(* haves, and leave out what is below the commits it ends at, because all  *)
(* of that is held already.                                                *)
THEOREM MissingObjectsSuffice ==
    ASSUME NEW store \in SUBSET Objects, NEW haves \in SUBSET Objects,
           NEW wants \in SUBSET Objects, NEW held, Complete(held), haves \cap store \subseteq held
    PROVE  /\ Complete(MissingObjects(store, haves, wants) \cup held)
           /\ wants \subseteq MissingObjects(store, haves, wants) \cup held
<1> DEFINE
      have == (UNION {Peel[o] : o \in haves \cap store}) \cap store
      want == UNION {Peel[o] : o \in wants}
      allAncestors == AncestorsIn(Before, have \cap Commits)
      missing == AncestorsIn(Before, want \cap Commits) \ allAncestors
      common == ((want \cap Commits) \cup UNION {Parents[c] : c \in missing}) \cap allAncestors
      shaDone == common \cup (UNION {FileTreeRevs(TreeOf[c]) : c \in common}) \cup (have \cap Tags)
      objectsToSend == missing \cup ((want \ Commits) \ have)
      Todo(o) == IF o \in Tags /\ Target[o] \in shaDone THEN {o} ELSE Below[o]
      sent == UNION {Todo(o) : o \in objectsToSend \ shaDone}
      all == sent \cup held
<1>1. MissingObjects(store, haves, wants) = sent \ shaDone
    BY DEF MissingObjects, MissingObjectsBy
<1>2. have \subseteq held
    BY CompleteHasAll
<1>3. allAncestors \subseteq held /\ allAncestors \subseteq Commits
    BY <1>2, CompleteHasAll, BeforeFacts DEF AncestorsIn
<1>4. shaDone \subseteq held
    BY <1>2, <1>3, CompleteHasAll
<1>5. MissingObjects(store, haves, wants) \cup held = all
    BY <1>1, <1>4
<1>6. wants \subseteq want /\ want \subseteq Objects
    BY PeelFacts
<1>7. /\ missing \subseteq Commits /\ want \cap Commits \subseteq missing \cup held
      /\ \A c \in missing : Parents[c] \subseteq missing \cup held
    BY <1>3, BeforeFacts, GraphAssumption DEF AncestorsIn
<1>8. objectsToSend \subseteq Objects
    BY <1>6, <1>7 DEF Objects
<1>9. \A o \in objectsToSend : o \in all
  <2>1. \A o \in Objects : o \in Todo(o)
    BY BelowFacts
  <2> HIDE DEF Todo
  <2> QED
    BY <1>4, <1>8, <2>1
<1>10. want \subseteq all
    BY <1>2, <1>7, <1>9
<1>11. wants \subseteq all
    BY <1>6, <1>10
<1>12. ASSUME NEW q \in sent PROVE q \in Objects /\ Links[q] \subseteq all
  <2>1. PICK o \in objectsToSend \ shaDone : q \in Todo(o)
    BY <1>12
  <2>2. CASE o \in Tags /\ Target[o] \in shaDone
    <3>1. q = o
      BY <2>1, <2>2
    <3>2. Links[q] = {Target[o]}
      BY <2>2, <3>1, LinksAreObjects, ContentsAreObjects, KindsAssumption DEF Objects
    <3> QED
      BY <1>4, <2>2, <3>1, <3>2 DEF Objects
  <2>3. CASE ~(o \in Tags /\ Target[o] \in shaDone)
    <3>1. Below[o] \subseteq sent /\ q \in Below[o]
      BY <2>1, <2>3
    <3>2. o \in Objects /\ q \in Objects /\ Contents(q) \subseteq all
      BY <1>8, <2>1, <3>1, BelowFacts
    <3>3. ASSUME q \in Commits PROVE q \in missing \cup held
      <4>1. q \in Peel[o]
        BY <3>1, <3>2, <3>3, CommitsBelow
      <4>2. CASE o \in missing
        BY <1>7, <4>1, <4>2, PeelOfCommit
      <4>3. CASE o \in want
        <5>1. PICK w \in wants : o \in Peel[w]
          BY <4>3
        <5>2. Peel[o] \subseteq Peel[w]
          BY <3>2, <5>1, PeelFacts
        <5>3. q \in want
          BY <4>1, <5>1, <5>2
        <5> QED
          BY <1>7, <3>3, <5>3
      <4> QED
        BY <2>1, <4>2, <4>3
    <3>4. ASSUME q \in Commits PROVE Parents[q] \subseteq all
      <4>1. CASE q \in missing
        <5>1. Parents[q] \subseteq missing \cup held
          BY <1>7, <4>1
        <5> QED
          BY <1>9, <5>1
      <4>2. CASE q \in held
        BY <3>4, <4>2, LinksAreObjects DEF Complete
      <4> QED
        BY <3>3, <3>4, <4>1, <4>2
    <3>5. Links[q] = Contents(q) \cup (IF q \in Commits THEN Parents[q] ELSE {})
      BY <3>2 DEF Links
    <3> QED
      BY <3>2, <3>4, <3>5
  <2> QED
    BY <2>2, <2>3
<1>13. Complete(all)
    BY <1>12 DEF Complete
<1> QED
    BY <1>5, <1>11, <1>13

(* So for a receiver who has all that the haves need, nothing is missing   *)
(* of what the wants need, and nothing else than objects is sent.          *)
THEOREM NothingIsMissing ==
    ASSUME NEW store \in SUBSET Objects, NEW haves \in SUBSET Objects,
           NEW wants \in SUBSET Objects
    PROVE  /\ Closure(wants) \subseteq MissingObjects(store, haves, wants) \cup Closure(haves)
           /\ MissingObjects(store, haves, wants) \subseteq Objects
<1>1. haves \subseteq Closure(haves) /\ Complete(Closure(haves))
    BY ClosureFacts
<1>2. /\ Complete(MissingObjects(store, haves, wants) \cup Closure(haves))
      /\ wants \subseteq MissingObjects(store, haves, wants) \cup Closure(haves)
    BY <1>1, MissingObjectsSuffice
<1> QED
    BY <1>2, ClosureFacts DEF Complete
=============================================================================
