-------------------------------- MODULE Fetch --------------------------------
(***************************************************************************)
(* Fetching from a git repository: the client of dulwich/client.py, which  *)
(* tells what it has while it may already read the answers, the upload-    *)
(* pack server of dulwich/server.py with its three ways to acknowledge,    *)
(* and what porcelain.fetch, pull and clone do with the result.  They talk *)
(* over a connection (TCP, ssh, a subprocess), by two HTTP requests, or    *)
(* the client opens the other repository itself.                           *)
(*                                                                         *)
(* Meanwhile others push to the server, the connection may break, and the  *)
(* client may be killed.                                                   *)
(***************************************************************************)
EXTENDS ObjectGraph, Sequences

CONSTANTS
    Refs, Main,     \* the names of the refs, and the one HEAD leads to on both sides
    TheirRefs,      \* the refs the server may start with
    OurRefs,        \* the refs the client may start with
    MaxFetches, MaxPushes, MaxFaults,  \* bounds
    None            \* a model value

ASSUME FetchAssumption ==
    /\ Main \in Refs /\ None \notin Objects /\ None # "failed"
    /\ TheirRefs \subseteq [Refs -> Objects \cup {None}]
    /\ OurRefs \subseteq [Refs -> Commits \cup {None}]
    /\ \A r \in TheirRefs : r[Main] \in Commits \cup {None}  \* a branch

VARIABLES
    refs, tracking, store,  \* the client's refs/heads, its refs of the remote, its objects
    unsent,    \* history: those of its refs that were set to a value not asked for
    theirs,                 \* the refs of the server
    op, target, into,  \* the call: operation, ref pulled, and the one of ours it goes to
    via, acks, thin,   \* transport, what is negotiated
    ready,     \* history: all branches were there when it started, and what it pulls was not
    moved,     \* history: the refs that moved between the two readings of a local fetch
    pc,        \* where the client is
    walk,      \* the graph walker: heads and parents
    result,    \* the refs the server told
    wants,     \* what the client asks for
    pack,      \* what was read of the pack
    todo,      \* refs still to be imported
    up, down,  \* lines on their way to the server, to the client
    server,    \* where the server is
    common,    \* the commits it acknowledged, in order
    base,      \* _found_base
    asked,     \* the wants the server has read, and the refs it had told then
    fetches, pushes, faults,
    disturbed, \* history: a fault, or a push to the server, in this call
    outcome    \* how the last call ended

ours == <<refs, tracking, store, unsent>>
request == <<op, target, into, via, acks, thin, ready>>
call == <<request, moved>>
wire == <<up, down>>
served == <<server, common, base, asked>>
bounds == <<fetches, pushes, faults>>
client == <<pc, walk, result, wants, pack, todo>>
vars == <<ours, theirs, call, client, wire, served, bounds, disturbed, outcome>>

Told(r) == {r[n] : n \in Refs} \ {None}

NoWalk == [heads |-> {}, parents |-> <<>>]
NoServer == server' = "off" /\ common' = <<>> /\ base' = FALSE /\ asked' = {}

\* What the server's repository has.
Theirs == Closure(Told(theirs))

Init ==
    /\ theirs \in TheirRefs /\ refs \in OurRefs
    /\ tracking = [n \in Refs |-> None]
    /\ store = Closure(Told(refs)) /\ unsent = {}
    /\ op = None /\ target = Main /\ into = Main /\ via = None /\ acks = None /\ thin = TRUE
    /\ ready = FALSE /\ moved = {}
    /\ pc = "idle" /\ walk = NoWalk /\ result = None /\ wants = {} /\ pack = {} /\ todo = {}
    /\ up = <<>> /\ down = <<>>
    /\ server = "off" /\ common = <<>> /\ base = FALSE /\ asked = {}
    /\ fetches = 0 /\ pushes = 0 /\ faults = 0
    /\ disturbed = FALSE /\ outcome = None

-----------------------------------------------------------------------------
(* The graph walker of the client                                          *)

InParents(w, c) == c \in DOMAIN w.parents

\* next: a head is taken off, and its parents are heads unless they were seen.
Taken(w, c) ==
    LET seen == [d \in (DOMAIN w.parents) \cup {c} |-> IF d = c THEN Parents[c] ELSE w.parents[d]]
    IN  [heads |-> (w.heads \ {c}) \cup (Parents[c] \ DOMAIN seen), parents |-> seen]

\* The commits that are known, from what was taken, to come before c.
KnownBefore(w, c) ==
    LET known[d \in Commits] ==
            {d} \cup UNION {known[p] : p \in IF InParents(w, d) THEN w.parents[d] ELSE {}}
    IN  known[c]

\* ack: the server has c, and so all before it; none of them is a head.
Acked(w, c) ==
    IF w.heads = {} THEN w
    ELSE LET there == KnownBefore(w, c)
         IN  [heads |-> w.heads \ there,
              parents |-> [d \in (DOMAIN w.parents) \cup there |->
                             IF d \in there THEN {} ELSE w.parents[d]]]

-----------------------------------------------------------------------------
(* The client.                                                             *)

\* The call ends, the connection is closed.
End(how) ==
    /\ pc' = "idle" /\ outcome' = how
    /\ walk' = NoWalk /\ result' = None /\ wants' = {} /\ pack' = {} /\ todo' = {}
    /\ up' = <<>> /\ down' = <<>> /\ NoServer

\* get_transport_and_path: git:// and ssh, http:// and https://, or a path.
Transports == {"stream", "http", "local"}

\* Whoever serves is asked for its refs at once; a repository on this machine
\* has nobody who serves it.
DiscoverReferences(v) == IF v = "local" THEN "off" ELSE "advertise"

\* _negotiate_upload_pack_capabilities: what both sides have.  The client may be
\* made without thin packs; the best of the acknowledgements left is used.
Negotiated(v) ==
    IF v = "local" THEN {<<None, TRUE>>}
    ELSE {<<"single", TRUE>>, <<"multi", TRUE>>} \cup ({"detailed"} \X BOOLEAN)

Branches == {n \in Refs : theirs[n] \in Commits \cup {None}}

\* An operation starts.  The heads of the graph walker are the branches.
Start ==
    /\ pc = "idle" /\ fetches < MaxFetches
    /\ fetches' = fetches + 1
    /\ op' \in {"fetch", "pull"} \cup (IF store = {} THEN {"clone"} ELSE {})
    /\ target' \in Branches /\ into' \in IF op' = "pull" THEN Branches ELSE {target'}
    /\ via' \in Transports
    /\ \E n \in Negotiated(via') : acks' = n[1] /\ thin' = n[2]
    /\ walk' = [heads |-> Told(refs), parents |-> <<>>]
    /\ pc' = IF via' = "local" THEN "open" ELSE "refs"
    /\ server' = DiscoverReferences(via')
    /\ ready' = (Told(refs) \subseteq store /\ (op' = "pull" => theirs[target'] \notin store))
    /\ moved' = {} /\ disturbed' = FALSE /\ outcome' = None
    /\ UNCHANGED <<ours, theirs, result, wants, pack, todo, wire, common, base, asked, pushes, faults>>

\* A mistake: what is there already is asked for as well.
WantsAll(told) == IF op = "pull" THEN {told[target]} ELSE Told(told)

\* determine_wants_all, or the ref pull was asked for.
Wants(told) == IF op = "pull" THEN {told[target]} ELSE Told(told) \ store

\* The refs to be set once the objects are there.
Imports == IF op = "pull" THEN {target} ELSE Refs

\* Without any ref there is nothing but the flush.
ReadPktRefs(pkt) == pkt.refs

\* fetch_pack: what to ask for.  pull raises KeyError for a ref that is not there.
ReadRefs ==
    /\ pc = "refs" /\ down # <<>>
    /\ down' = Tail(down)
    /\ LET told == ReadPktRefs(Head(down))
       IN  /\ result' = told
           /\ CASE op = "pull" /\ told[target] = None ->
                     /\ pc' = "raise" /\ UNCHANGED <<wants, todo>>
                     /\ up' = IF via = "http" THEN up ELSE Append(up, [kind |-> "flush"])
                [] Wants(told) = {} ->
                     /\ pc' = "import" /\ todo' = Imports /\ UNCHANGED wants
                     /\ up' = IF via = "http" THEN up ELSE Append(up, [kind |-> "flush"])
                [] OTHER ->
                     /\ pc' = "head" /\ wants' = Wants(told) /\ UNCHANGED todo
                     /\ up' = Append(up, [kind |-> "want", shas |-> Wants(told)])
    /\ UNCHANGED <<ours, theirs, call, walk, pack, served, bounds, disturbed, outcome>>

\* _handle_upload_pack_head: the next have.  The parents of a commit that is
\* not there cannot be read: KeyError.
Have ==
    /\ pc = "head"
    /\ \E c \in walk.heads :
         IF c \in store
         THEN walk' = Taken(walk, c) /\ up' = Append(up, [kind |-> "have", sha |-> c]) /\ pc' = "peek"
         ELSE pc' = "raise" /\ UNCHANGED <<walk, up>>
    /\ UNCHANGED <<ours, theirs, call, result, wants, pack, todo, down, served, bounds, disturbed, outcome>>

\* can_read: there may be an answer already.  It may also not have come yet, or
\* be in the buffer of the file already, where select does not see it.
NotReadable ==
    /\ pc = "peek"
    /\ pc' = "head"
    /\ UNCHANGED <<ours, theirs, call, walk, result, wants, pack, todo, wire, served, bounds, disturbed, outcome>>

\* An answer is read; one without a third part raises IndexError.
ReadAnswer ==
    /\ pc = "peek" /\ via = "stream" /\ down # <<>>
    /\ down' = Tail(down)
    /\ LET pkt == Head(down)
       IN  IF pkt.kind = "ack"
           THEN /\ walk' = Acked(walk, pkt.sha)
                /\ pc' = IF pkt.last THEN "raise" ELSE "head"
           ELSE UNCHANGED walk /\ pc' = "head"
    /\ UNCHANGED <<ours, theirs, call, result, wants, pack, todo, up, served, bounds, disturbed, outcome>>

\* A mistake: the server is left to find out.
Unsaid == <<>>

LastLine == <<[kind |-> "done"]>>

\* HTTP sends its second request, the wants, haves and all, in one.
SmartRequest == IF via = "http" THEN "wants" ELSE server

\* No more heads: done.
Done ==
    /\ pc = "head" /\ walk.heads = {}
    /\ up' = up \o LastLine
    /\ pc' = "tail"
    /\ server' = SmartRequest
    /\ UNCHANGED <<ours, theirs, call, walk, result, wants, pack, todo, down, common, base, asked, bounds, disturbed, outcome>>

\* _handle_upload_pack_tail: answers are read up to the last one, an ACK
\* without a third part or a NAK.
ReadTail ==
    /\ pc = "tail" /\ down # <<>>
    /\ down' = Tail(down)
    /\ LET pkt == Head(down)
       IN  /\ walk' = IF pkt.kind = "ack" THEN Acked(walk, pkt.sha) ELSE walk
           /\ pc' = IF pkt.kind = "ack" /\ ~pkt.last THEN "tail" ELSE "data"
    /\ UNCHANGED <<ours, theirs, call, result, wants, pack, todo, up, served, bounds, disturbed, outcome>>

\* _read_side_band64k_data: packets up to the flush.
ReadData ==
    /\ pc = "data" /\ down # <<>>
    /\ down' = Tail(down)
    /\ LET pkt == Head(down)
       IN  CASE pkt.kind = "pack" -> pack' = pack \cup pkt.shas /\ UNCHANGED pc
             [] pkt.kind = "flush" -> pc' = "store" /\ UNCHANGED pack
             [] OTHER -> pc' = "raise" /\ UNCHANGED pack
    /\ UNCHANGED <<ours, theirs, call, walk, result, wants, todo, up, served, bounds, disturbed, outcome>>

\* The stream is at its end and nothing was read: HangupException.
Hangup ==
    /\ pc \in {"refs", "tail", "data"} /\ down = <<>> /\ server = "off"
    /\ pc' = "raise"
    /\ UNCHANGED <<ours, theirs, call, walk, result, wants, pack, todo, wire, served, bounds, disturbed, outcome>>

\* An exception leaves fetch: abort, nothing is stored.
Raise ==
    /\ pc = "raise"
    /\ End("failed")
    /\ UNCHANGED <<ours, theirs, call, bounds, disturbed>>

\* commit: add_thin_pack, or the commit of add_pack; add_pack_data.
Store ==
    /\ pc = "store"
    /\ store' = store \cup pack
    /\ todo' = Imports
    /\ pc' = IF via = "local" THEN "again" ELSE "import"
    /\ UNCHANGED <<refs, tracking, unsent, theirs, call, walk, result, wants, pack, wire, served, bounds, disturbed, outcome>>

\* LocalGitClient.fetch: the other repository is opened, and asked by calls.
OpenLocal ==
    /\ pc = "open"
    /\ result' = theirs
    /\ CASE op = "pull" /\ theirs[target] = None -> pc' = "raise" /\ UNCHANGED <<wants, todo>>
         [] Wants(theirs) = {} -> pc' = "again" /\ todo' = Imports /\ UNCHANGED wants
         [] OTHER -> pc' = "common" /\ wants' = Wants(theirs) /\ UNCHANGED todo
    /\ UNCHANGED <<ours, theirs, call, walk, pack, wire, served, bounds, disturbed, outcome>>

FindCommonRevisions ==
    /\ pc = "common"
    /\ IF walk.heads = {}
       THEN /\ pack' = MissingObjects(Theirs, {common[i] : i \in DOMAIN common}, wants)
            /\ pc' = "store" /\ UNCHANGED <<walk, common>>
       ELSE /\ \E c \in walk.heads :
                 CASE c \notin store -> pc' = "raise" /\ UNCHANGED <<walk, common>>
                   [] c \in store /\ c \in Theirs ->
                        walk' = Acked(Taken(walk, c), c) /\ common' = Append(common, c) /\ UNCHANGED pc
                   [] OTHER -> walk' = Taken(walk, c) /\ UNCHANGED <<common, pc>>
            /\ UNCHANGED pack
    /\ UNCHANGED <<ours, theirs, call, result, wants, todo, wire, server, base, asked, bounds, disturbed, outcome>>

\* Repo.fetch returns the refs as they are when the objects are there, whatever
\* they were when it asked what is wanted.
ReadAgain ==
    /\ pc = "again"
    /\ result' = theirs
    /\ moved' = {n \in Refs : theirs[n] # result[n]}
    /\ pc' = "import"
    /\ UNCHANGED <<ours, theirs, request, walk, wants, pack, todo, wire, served, bounds, disturbed, outcome>>

\* The history of a ref that is set; unasked: its value was not asked for.
Marked(ref, unasked) == IF unasked THEN unsent \cup {ref} ELSE unsent \ {ref}

\* import_refs, or the ref pull sets: one at a time.
Import ==
    /\ pc = "import"
    /\ \E n \in todo :
         /\ todo' = todo \ {n}
         /\ IF result[n] = None THEN UNCHANGED <<refs, tracking, unsent>>
            ELSE IF op = "pull"
            THEN /\ refs' = [refs EXCEPT ![into] = result[n]] /\ UNCHANGED tracking
                 /\ unsent' = Marked(<<"refs", into>>, n \in moved)
            ELSE /\ tracking' = [tracking EXCEPT ![n] = result[n]] /\ UNCHANGED refs
                 /\ unsent' = Marked(<<"tracking", n>>, n \in moved)
    /\ UNCHANGED <<store, theirs, call, pc, walk, result, wants, pack, wire, served, bounds, disturbed, outcome>>

\* pull sets HEAD, whatever branch that is, to what the server has by the name
\* it pulled into; without one, or without its objects, it raises KeyError.
PullHead ==
    LET head == result[into]
    IN  /\ refs' = IF head = None THEN refs ELSE [refs EXCEPT ![Main] = head]
        /\ unsent' = IF head = None THEN unsent
                     ELSE Marked(<<"refs", Main>>, into # target \/ into \in moved)
        /\ End(IF head \in store THEN "ok" ELSE "failed")

\* clone sets it to the HEAD of the server, if there is one and it is there.
CloneHead ==
    LET head == result[Main]
    IN  /\ refs' = IF head \in store THEN [refs EXCEPT ![Main] = head] ELSE refs
        /\ unsent' = IF head \in store THEN Marked(<<"refs", Main>>, FALSE) ELSE unsent
        /\ End("ok")

Finish ==
    /\ pc = "import" /\ todo = {}
    /\ CASE op = "pull" -> PullHead
         [] op = "clone" -> CloneHead
         [] OTHER -> End("ok") /\ UNCHANGED <<refs, unsent>>
    /\ UNCHANGED <<tracking, store, theirs, call, bounds, disturbed>>

-----------------------------------------------------------------------------
(* The server: UploadPackHandler.                                          *)

Close(lines) == server' = "off" /\ down' = down \o lines

\* determine_wants tells the refs.  An HTTP request for them ends there.
Advertise ==
    /\ server = "advertise"
    /\ down' = Append(down, [kind |-> "refs", refs |-> theirs])
    /\ asked' = Told(theirs)
    /\ server' = IF via = "http" THEN "off" ELSE "wants"
    /\ UNCHANGED <<ours, theirs, call, client, up, common, base, bounds, disturbed, outcome>>

\* The values that may be asked for: those that were told, which are told (and
\* so read) again by another handler for the second HTTP request.
Values == IF via = "http" THEN Told(theirs) ELSE asked

\* set_client_capabilities: side-band-64k, thin-pack and ofs-delta are a must.
RequiredCapabilities == thin

ReadWants ==
    /\ server = "wants" /\ up # <<>>
    /\ up' = Tail(up)
    /\ LET line == Head(up)
       IN  IF line.kind = "want" /\ line.shas \subseteq Values /\ RequiredCapabilities
           THEN asked' = line.shas /\ server' = "haves"
           ELSE server' = "off" /\ UNCHANGED asked
    /\ UNCHANGED <<ours, theirs, call, client, down, common, base, bounds, disturbed, outcome>>

CommonSet == {common[i] : i \in DOMAIN common}
Ack(c, last) == [kind |-> "ack", sha |-> c, last |-> last]

\* A have: a commit the server has is acknowledged.  With the base found, all
\* are, unseen.
ReadHave ==
    /\ server = "haves" /\ up # <<>> /\ Head(up).kind = "have"
    /\ up' = Tail(up)
    /\ LET c == Head(up).sha
           here == c \in Theirs
           known == Append(common, c)
           answered == CASE acks = "single" -> here /\ common = <<>>
                         [] acks = "multi" -> here \/ base
                         [] OTHER -> here
       IN  /\ common' = IF here THEN known ELSE common
           /\ down' = IF answered THEN Append(down, Ack(c, acks = "single")) ELSE down
           /\ base' = (base \/ (acks = "multi" /\ here
                                  /\ AllWantsSatisfied({known[i] : i \in DOMAIN known}, asked)))
    /\ UNCHANGED <<ours, theirs, call, client, server, asked, bounds, disturbed, outcome>>

\* A mistake: it goes without saying that nothing is common.
NoNak == IF common = <<>> \/ acks = "single" THEN <<>> ELSE <<Ack(common[Len(common)], TRUE)>>

\* handle_done: the last answer; the single ack was given before.
LastAnswer ==
    CASE common = <<>> -> <<[kind |-> "nak"]>>
      [] common # <<>> /\ acks = "single" -> <<>>
      [] OTHER -> <<Ack(common[Len(common)], TRUE)>>

\* done: the objects are counted first, and without any there is no answer.
ReadDone ==
    /\ server = "haves" /\ up # <<>> /\ Head(up).kind = "done"
    /\ up' = Tail(up)
    /\ LET objects == MissingObjects(Theirs, CommonSet, asked)
       IN  Close(IF objects = {} THEN <<>>
                 ELSE LastAnswer \o <<[kind |-> "pack", shas |-> objects], [kind |-> "flush"]>>)
    /\ UNCHANGED <<ours, theirs, call, client, common, base, asked, bounds, disturbed, outcome>>

-----------------------------------------------------------------------------
(* The rest of the world                                                   *)

\* Somebody pushes to the server: a ref moves on.
Pushed ==
    /\ pushes < MaxPushes
    /\ pushes' = pushes + 1
    /\ \E n \in Refs, c \in Commits : theirs[n] \in Parents[c] /\ theirs' = [theirs EXCEPT ![n] = c]
    /\ disturbed' = TRUE
    /\ UNCHANGED <<ours, call, client, wire, served, fetches, faults, outcome>>

\* The connection breaks, and what was on its way may be lost.
Cut ==
    /\ faults < MaxFaults
    /\ \/ pc \in {"refs", "tail", "data"}
       \/ pc \in {"head", "peek"} /\ via = "stream"
    /\ faults' = faults + 1 /\ disturbed' = TRUE
    /\ down' \in {down, <<>>}
    /\ pc' \in {pc, "raise"}  \* reading or writing fails, at once or later
    /\ up' = <<>> /\ server' = "off"
    /\ UNCHANGED <<ours, theirs, call, walk, result, wants, pack, todo, common, base, asked, fetches, pushes, outcome>>

\* The client is killed.
Kill ==
    /\ faults < MaxFaults /\ pc # "idle"
    /\ faults' = faults + 1 /\ disturbed' = TRUE
    /\ End("killed")
    /\ UNCHANGED <<ours, theirs, call, fetches, pushes>>

ClientStep ==
    \/ ReadRefs \/ Have \/ NotReadable \/ ReadAnswer \/ Done \/ ReadTail \/ ReadData
    \/ Hangup \/ Raise \/ Store \/ OpenLocal \/ FindCommonRevisions \/ ReadAgain \/ Import \/ Finish

ServerStep == Advertise \/ ReadWants \/ ReadHave \/ ReadDone

Next == Start \/ ClientStep \/ ServerStep \/ Pushed \/ Cut \/ Kill

\* Both sides go on while they can: nothing but the other side stops them.
Spec == Init /\ [][Next]_vars /\ WF_vars(ClientStep) /\ WF_vars(ServerStep)

-----------------------------------------------------------------------------
(* Properties.                                                             *)

\* The refs whose values were asked for.
Sent(kind, r) == {r[n] : n \in {m \in Refs : <<kind, m>> \notin unsent}} \ {None}

\* Whatever a ref of the client's repository names is there with all that it
\* needs, whoever pushed, cut or killed, and in every state on the way: the
\* objects the server leaves out are those the client has.  The refs set to a
\* value the client never asked for are left out, those that moved while a local
\* repository was fetched from and the HEAD of a pull into another branch.
RefsComplete == Closure(Sent("refs", refs) \cup Sent("tracking", tracking)) \subseteq store

\* A call nobody disturbed succeeds, if the server was told of thin packs and
\* its acknowledgements have three parts, if the client had all its branches
\* name and not yet what it pulls, and, for a pull, if the server has the ref,
\* and the client the commit of the one HEAD is set to.
UndisturbedSucceeds ==
    outcome = "failed" /\ ~disturbed =>
        \/ ~thin
        \/ acks = "single"
        \/ ~ready
        \/ op = "pull" /\ theirs[target] = None
        \/ op = "pull" /\ into # target /\ theirs[into] \notin store

\* A call ends: client and server never wait for one another.
CallEnds == pc # "idle" ~> pc = "idle"
=============================================================================
