------------------------------ MODULE ShallowFetch ------------------------------
(***************************************************************************)
(* A fetch of a part of the history: what UploadPackHandler of dulwich/    *)
(* server.py answers to a client that asks for some depth, and sends with  *)
(* the tags it has; and what a repository with a "shallow" file sees of    *)
(* its history, dulwich/repo.py.                                           *)
(***************************************************************************)
EXTENDS ObjectGraph

CONSTANTS Depths,    \* the depths asked for
          AskedFor,  \* the sets of wants tried
          TagRefs    \* the tags the refs of the server name

ASSUME ShallowAssumption ==
    /\ Depths \subseteq Nat /\ TagRefs \subseteq Tags
    /\ AskedFor \subseteq SUBSET Objects
    \* A tag leads to something in the end.
    /\ \A t \in Tags : ~(Peel[t] \subseteq Tags)

-----------------------------------------------------------------------------
(* A repository that has not all of its history                            *)

\* Each line of the file is a graftpoint without parents.
ParseGraftpoints(shallow) == [c \in shallow |-> {}]

GetParents(graftpoints) ==
    [c \in Commits |-> IF c \in DOMAIN graftpoints THEN graftpoints[c] ELSE Parents[c]]

\* The history it sees behind some commits.
Seen(client, heads) ==
    Reached(GetParents(ParseGraftpoints(client.shallow)), heads \cap Commits)

\* get_graph_walker: what the client tells of.
Haves(client) == Seen(client, client.heads)

-----------------------------------------------------------------------------
(* The server                                                              *)

\* peel_sha: what a tag leads to in the end.
PeelSha(o) == CHOOSE p \in Peel[o] : p \notin Tags

\* The walk looks at a commit once for each path that leads to it, with the
\* length of that path; a commit may be both shallow and not.
FindShallow(heads, depth) ==
    LET at[n \in Nat \ {0}] ==
            IF n = 1 THEN {PeelSha(h) : h \in heads} \cap Commits
            ELSE UNION {Parents[c] : c \in at[n - 1]}
        last == IF depth > 1 THEN depth ELSE 1
    IN  [shallow |-> at[last], notShallow |-> UNION {at[n] : n \in 1 .. last - 1}]

\* _handle_shallow_request: the commits from which on the client is to be
\* shallow, and those of its own that it is not to be shallow at any longer.
ShallowRequest(clientShallow, wants, depth) ==
    LET found == FindShallow(wants, depth)
    IN  [shallow |-> found.shallow \ found.notShallow,
         unshallow |-> found.notShallow \cap clientShallow]

\* With a border that is drawn or moved the haves do not say what is missing.
Moves(request) == request.shallow # {} \/ request.unshallow # {}

\* get_tagged, for a client that wants tags: a tag of each object that has one.
GetTagged(includeTag) ==
    IF ~includeTag THEN {}
    ELSE {CHOOSE t \in TagRefs : PeelSha(t) = o : o \in {PeelSha(t) : t \in TagRefs}}

\* fetch_objects: the tag of what is sent goes with it.
FetchObjects(request, haves, wants, includeTag) ==
    LET cut == [c \in Commits |-> IF c \in request.shallow THEN {} ELSE Parents[c]]
        told == IF Moves(request) THEN {} ELSE haves
        sent == MissingObjectsBy(cut, BeforeBy(cut), Objects, told, wants)
    IN  sent \cup {t \in GetTagged(includeTag) : PeelSha(t) \in sent}

-----------------------------------------------------------------------------
(* The client, and what it has after a fetch                               *)

Fetched(client, wants, depth, includeTag) ==
    LET request == ShallowRequest(client.shallow, wants, depth)
        newShallow == request.shallow \ client.shallow
        pack == FetchObjects(request, Haves(client), wants, includeTag)
    IN  [store |-> client.store \cup pack,
         heads |-> client.heads \cup {PeelSha(o) : o \in wants},
         shallow |-> (client.shallow \cup newShallow) \ request.unshallow]

-----------------------------------------------------------------------------
(* Properties                                                              *)

\* Clients with nothing, with the whole history behind a commit, or with what a
\* first fetch of some depth left to either.
NewClients ==
    {[store |-> Closure(heads), heads |-> heads, shallow |-> {}] :
       heads \in {{}} \cup {{c} : c \in Commits}}

Clients ==
    NewClients \cup {Fetched(client, wants, depth, includeTag) :
                       client \in NewClients, wants \in AskedFor, depth \in Depths,
                       includeTag \in BOOLEAN}

\* The commits that are less than so many steps from what is asked for.
Within(wants, depth) ==
    LET near[n \in Nat] ==
            IF n = 0 THEN {PeelSha(o) : o \in wants} \cap Commits
            ELSE near[n - 1] \cup UNION {Parents[c] : c \in near[n - 1]}
    IN  near[IF depth > 1 THEN depth - 1 ELSE 0]

\* After a fetch of some depth the client sees the history of that depth behind
\* what it asked for, no more and no less, however deep or shallow its history was
\* before and whichever paths lead to a commit; it has all that the commits it
\* sees need, those it had before too, and a new client no other commits; and a
\* tag it is sent has its object.  This is not said of a shallow client for which
\* no border moves: the server then takes it to have what is behind the commits it
\* has (repo.py:337).
ShallowIsCut ==
    \A client \in Clients, wants \in AskedFor, depth \in Depths, includeTag \in BOOLEAN :
        LET after == Fetched(client, wants, depth, includeTag)
            border == ShallowRequest(client.shallow, wants, depth)
        IN  client.shallow = {} \/ Moves(border) =>
                /\ Seen(after, {PeelSha(o) : o \in wants}) = Within(wants, depth)
                /\ \A c \in Seen(after, after.heads) : Below[c] \subseteq after.store
                /\ client.store = {} => after.store \cap Commits = Within(wants, depth)
                /\ \A t \in after.store \cap Tags : PeelSha(t) \in after.store
=============================================================================
