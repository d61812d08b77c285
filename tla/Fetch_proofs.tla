----------------------------- MODULE Fetch_proofs -----------------------------
(***************************************************************************)
(* For every graph of objects, all refs on both sides and any number of    *)
(* fetches, pushes and faults: a ref the client set to a value it asked    *)
(* for has all its objects, and a fetch that nobody disturbed does not     *)
(* fail.                                                                   *)
(***************************************************************************)
EXTENDS History, ObjectGraph_proofs, SequenceTheorems

-----------------------------------------------------------------------------
(* The inductive invariant                                                 *)

Branch == Commits \cup {None}
RefValues == [Refs -> Objects \cup {None}]

\* The refs HEAD and the call go by name commits.
Followed(r) ==
    r \in RefValues /\ r[Main] \in Branch /\ r[target] \in Branch /\ r[into] \in Branch

Requests ==
    [kind : {"want"}, shas : SUBSET Objects] \cup [kind : {"have"}, sha : Commits]
        \cup [kind : {"done"}] \cup [kind : {"flush"}]

Answers ==
    [kind : {"refs"}, refs : RefValues] \cup [kind : {"ack"}, sha : Commits, last : BOOLEAN]
        \cup [kind : {"nak"}] \cup [kind : {"pack"}, shas : SUBSET Objects]
        \cup [kind : {"flush"}]

TypeOK ==
    /\ refs \in [Refs -> Branch] /\ tracking \in RefValues /\ store \in SUBSET Objects
    /\ target \in Refs /\ into \in Refs /\ Followed(theirs)
    /\ op \in {None, "fetch", "pull", "clone"} /\ via \in {None, "stream", "http", "local"}
    /\ pc \in {"idle", "refs", "head", "peek", "tail", "data", "store", "open", "common",
               "again", "import", "raise"}
    /\ server \in {"off", "advertise", "wants", "haves"}
    /\ walk.heads \in SUBSET Commits
    /\ wants \in SUBSET Objects /\ pack \in SUBSET Objects /\ todo \in SUBSET Refs
    /\ up \in Seq(Requests) /\ down \in Seq(Answers) /\ common \in Seq(Commits)
    /\ disturbed \in BOOLEAN /\ outcome \in {None, "ok", "failed", "killed"}

\* The client has all that its refs need which it asked for, and tells of nothing
\* it does not have.
Owns ==
    /\ Complete(store) /\ Sent("refs", refs) \cup Sent("tracking", tracking) \subseteq store
    /\ \A i \in 1 .. Len(common) : common[i] \in store

\* The pack, with what the client has, is complete and has what it asked for.
Enough(shas) == Complete(shas \cup store) /\ wants \subseteq shas \cup store

\* What the client sent.
Asking ==
    \A i \in 1 .. Len(up) :
       /\ up[i].kind = "want" => up[i].shas = wants
       /\ up[i].kind = "have" => up[i].sha \in store
       /\ up[i].kind = "done" => pc \notin {"refs", "head", "peek"}

\* How far the server is.
Serving ==
    /\ server = "haves" => asked = wants
    /\ server \in {"advertise", "wants"} => common = <<>>
    /\ server = "advertise" => pc = "refs" /\ down = <<>>
    /\ pc = "idle" \/ via = "local" => server = "off"
    /\ pc \in {"idle", "refs"} => up = <<>> /\ server # "haves" /\ common = <<>>
    /\ pc \in {"idle", "open", "common"} => up = <<>> /\ down = <<>>
    /\ pc \in {"open", "common", "again"} => via = "local"
    /\ pc \in {"refs", "head", "peek", "tail", "data"} => via \in {"stream", "http"}
    /\ via = "http" /\ pc \in {"refs", "head", "peek"} => server # "wants" /\ server # "haves"
    /\ via = "http" /\ pc \in {"head", "peek"} => common = <<>> /\ down = <<>>

\* An answer after which others of its kind may come, and one to be read after all those.
Continues(m) == m.kind = "ack" /\ ~m.last
Data(m) == m.kind \in {"pack", "flush"}

\* An acknowledgement without a third part is the only one.
OnlyAcks ==
    /\ \A i \in 1 .. Len(down) : down[i].kind = "ack" /\ (down[i].last <=> acks = "single")
    /\ acks = "single" => Len(down) <= 1

\* What is on its way to the client is what it is to read where it is.
Answering ==
    /\ pc = "refs" => Len(down) <= 1 /\ \A i \in 1 .. Len(down) :
                                           down[i].kind = "refs" /\ Followed(down[i].refs)
    /\ pc \in {"head", "peek"} \/ (pc = "tail" /\ server # "off") => OnlyAcks
    /\ pc \in {"head", "peek", "tail"} /\ server # "off" /\ acks = "single" =>
          (common = <<>> <=> down = <<>>)
    /\ pc = "tail" => \A i \in 1 .. Len(down) :
          /\ down[i].kind \in {"ack", "nak", "pack", "flush"}
          /\ Data(down[i]) => i > 1 /\ ~Continues(down[i - 1])
          /\ \A j \in 1 .. i - 1 : ~Continues(down[j]) => Data(down[i])
    /\ pc = "data" => \A i \in 1 .. Len(down) : Data(down[i])
    /\ pc = "data" /\ server # "off" =>
          server = "haves" /\ acks = "single" /\ common # <<>> /\ down = <<>>

\* What comes of the pack is enough before the flush comes.
Packing ==
    /\ pc \notin {"data", "store", "again", "import", "raise"} => pack = {}
    /\ pc \in {"tail", "data"} => \A i \in 1 .. Len(down) :
          /\ down[i].kind = "pack" => Enough(down[i].shas)
          /\ down[i].kind = "flush" =>
                IF i = 1 THEN pc = "data" /\ Enough(pack) ELSE down[i - 1].kind = "pack"
    /\ pc = "data" => pack = {} \/ Enough(pack)
    /\ pc = "store" => Enough(pack)

\* What the server told is there once it is to be imported, but for what moved.
Importing ==
    /\ pc \in {"head", "peek", "tail", "data", "store", "common", "again", "import"} =>
          Followed(result)
    /\ pc \in {"head", "peek", "tail", "data", "store", "common"} =>
          \A n \in Imports : result[n] \in store \cup wants \cup {None}
    /\ pc = "again" => todo \subseteq Imports /\ \A n \in Imports : result[n] \in store \cup {None}
    /\ pc = "import" => todo \subseteq Imports /\ \A n \in Imports \ moved : result[n] \in store \cup {None}
    /\ pc \in {"refs", "head", "peek", "tail", "data"} \/ via # "local" => moved = {}

IInv == TypeOK /\ Owns /\ Asking /\ Serving /\ Answering /\ Packing /\ Importing

\* The calls UndisturbedSucceeds is about; and where those are: neither side has
\* left the other, and the server was not asked for what it cannot give.
Sound ==
    /\ ~disturbed /\ thin /\ acks # "single" /\ ready
    /\ op = "pull" => theirs[target] # None

Going ==
    /\ pc # "raise" /\ moved = {} /\ (pc # "idle" => outcome = None)
    /\ outcome = "failed" => op = "pull" /\ into # target /\ theirs[into] \notin store
    /\ pc \in {"refs", "open", "head", "peek", "common"} => walk.heads \subseteq store
    /\ pc \in {"refs", "open"} /\ op = "pull" => theirs[target] \notin store
    /\ pc \notin {"idle", "refs", "open"} => result = theirs
    /\ pc = "refs" =>
          \/ server = "advertise"
          \/ /\ down = <<[kind |-> "refs", refs |-> theirs]>> /\ asked = Told(theirs)
             /\ server = IF via = "http" THEN "off" ELSE "wants"
    /\ pc \in {"head", "peek", "tail", "data"} =>
          /\ wants # {} /\ wants \cap store = {} /\ wants \subseteq Told(theirs)
          /\ server = "wants" \/ (via = "http" /\ pc \in {"head", "peek"}) =>
                up # <<>> /\ up[1].kind = "want"
          /\ server = "wants" /\ via = "stream" => asked = Told(theirs)
    /\ pc \in {"head", "peek"} /\ via = "stream" => server # "off"
    /\ pc \in {"tail", "data"} /\ server = "off" =>
          down # <<>> /\ down[Len(down)].kind = "flush"

Undisturbed == Sound => Going

-----------------------------------------------------------------------------
(* Lines and values                                                        *)

LEMMA TailFacts ==
    ASSUME NEW S, NEW s \in Seq(S), s # <<>>
    PROVE  /\ Head(s) = s[1] /\ Head(s) \in S /\ Len(s) \in Nat \ {0}
           /\ Tail(s) \in Seq(S) /\ Len(Tail(s)) = Len(s) - 1
           /\ \A i \in 1 .. Len(Tail(s)) : Tail(s)[i] = s[i + 1]
    BY HeadTailProperties, EmptySeq

LEMMA AppendFacts ==
    ASSUME NEW S, NEW s \in Seq(S), NEW x \in S
    PROVE  /\ Append(s, x) \in Seq(S) /\ Len(s) \in Nat /\ Len(Append(s, x)) = Len(s) + 1
           /\ Append(s, x) # <<>> /\ Append(s, x)[Len(s) + 1] = x
           /\ \A i \in 1 .. Len(s) : Append(s, x)[i] = s[i]
    OBVIOUS

LEMMA OneLine ==
    ASSUME NEW S, NEW x \in S
    PROVE  <<x>> \in Seq(S) /\ Len(<<x>>) = 1 /\ <<x>>[1] = x
    OBVIOUS

LEMMA LineFacts ==
    /\ \A shas \in SUBSET Objects : [kind |-> "want", shas |-> shas] \in Requests
    /\ \A c \in Commits : [kind |-> "have", sha |-> c] \in Requests
    /\ [kind |-> "done"] \in Requests /\ [kind |-> "flush"] \in Requests
    /\ \A r \in RefValues : [kind |-> "refs", refs |-> r] \in Answers
    /\ \A c \in Commits, last \in BOOLEAN : [kind |-> "ack", sha |-> c, last |-> last] \in Answers
    /\ [kind |-> "nak"] \in Answers /\ [kind |-> "flush"] \in Answers
    /\ \A shas \in SUBSET Objects : [kind |-> "pack", shas |-> shas] \in Answers
    BY DEF Requests, Answers

LEMMA AnswerFacts ==
    ASSUME NEW m \in Answers
    PROVE  /\ m.kind \in {"refs", "ack", "nak", "pack", "flush"}
           /\ m.kind = "refs" => m.refs \in RefValues
           /\ m.kind = "ack" => m.sha \in Commits /\ m.last \in BOOLEAN
           /\ m.kind = "pack" => m.shas \in SUBSET Objects
    BY DEF Answers

LEMMA RequestFacts ==
    ASSUME NEW m \in Requests
    PROVE  /\ m.kind \in {"want", "have", "done", "flush"}
           /\ m.kind = "want" => m.shas \in SUBSET Objects
           /\ m.kind = "have" => m.sha \in Commits
    BY DEF Requests

LEMMA ToldFacts ==
    ASSUME NEW r \in RefValues
    PROVE  /\ Told(r) \in SUBSET Objects
           /\ \A n \in Refs : r[n] \in Told(r) \cup {None}
    BY DEF Told, RefValues

LEMMA MainIsRef == Main \in Refs
    BY FetchAssumption

\* A walk meets commits only, and from what is there such as are there.
LEMMA TakenFacts ==
    ASSUME Owns, NEW c \in walk.heads, c \in store, walk.heads \in SUBSET Commits
    PROVE  /\ c \in Commits /\ Taken(walk, c).heads \in SUBSET Commits
           /\ walk.heads \subseteq store => Taken(walk, c).heads \subseteq store
<1>1. Parents[c] \subseteq Commits /\ c \in Commits
    BY GraphAssumption
<1>2. Parents[c] \subseteq store
    BY <1>1, LinksAreObjects DEF Owns, Complete
<1>3. Taken(walk, c).heads \subseteq walk.heads \cup Parents[c]
    BY DEF Taken
<1> QED
    BY <1>1, <1>2, <1>3

LEMMA AckedFacts == \A w, c : Acked(w, c).heads \subseteq w.heads
    BY DEF Acked

\* What the client asks for is an object that it is told of, and all it is to
\* import is there with it.
LEMMA WantsFacts ==
    ASSUME TypeOK, NEW told \in RefValues, ~(op = "pull" /\ told[target] = None)
    PROVE  /\ Wants(told) \in SUBSET Objects
           /\ Wants(told) \subseteq Told(told)
           /\ \A n \in Imports : told[n] \in store \cup Wants(told) \cup {None}
<1>1. CASE op = "pull"
  <2>1. Wants(told) = {told[target]} /\ Imports = {target} /\ target \in Refs
    BY <1>1 DEF Wants, Imports, TypeOK
  <2> QED
    BY <1>1, <2>1, ToldFacts
<1>2. CASE op # "pull"
    BY <1>2, ToldFacts DEF Wants, Imports
<1> QED
    BY <1>1, <1>2

-----------------------------------------------------------------------------
(* A call starts and ends                                                  *)

LEMMA OwnsKept == ASSUME Owns, UNCHANGED <<ours, common>> PROVE Owns'
    BY DEF Owns, Sent, ours

LEMMA NoLines ==
    /\ Len(<<>>) = 0 /\ \A i \in 1 .. Len(<<>>) : FALSE
    /\ \A S : <<>> \in Seq(S)
    OBVIOUS

LEMMA InitialStates == Init => IInv
<1> SUFFICES ASSUME Init PROVE IInv
    OBVIOUS
<1>1. refs \in [Refs -> Branch] /\ refs \in RefValues
    BY FetchAssumption DEF Init, RefValues, Branch, Objects
<1>2. theirs \in RefValues /\ theirs[Main] \in Branch
    BY FetchAssumption DEF Init, RefValues, Branch
<1>3. Complete(store) /\ Told(refs) \subseteq store /\ store \in SUBSET Objects
    BY <1>1, ToldFacts, ClosureFacts DEF Init, Complete
<1>4. TypeOK
    BY <1>1, <1>2, <1>3, MainIsRef, NoLines DEF Init, TypeOK, RefValues, Followed, NoWalk
<1>5. Owns
  <2>1. Sent("tracking", tracking) = {} /\ Sent("refs", refs) \subseteq Told(refs)
    BY DEF Init, Sent, Told
  <2> QED
    BY <1>3, <2>1, NoLines DEF Init, Owns
<1>6. Asking /\ Serving /\ Answering /\ Packing /\ Importing
    BY NoLines DEF Init, Asking, Serving, Answering, Packing, Importing
<1> QED
    BY <1>4, <1>5, <1>6 DEF IInv

LEMMA Ended ==
    ASSUME IInv, NEW how \in {"ok", "failed", "killed"}, End(how),
           UNCHANGED <<tracking, store, theirs, call>>, disturbed' \in BOOLEAN,
           refs' \in [Refs -> Branch], Sent("refs", refs)' \cup Sent("tracking", tracking)' \subseteq store
    PROVE  IInv'
<1>1. TypeOK'
    BY NoLines DEF IInv, TypeOK, Followed, End, NoWalk, NoServer, call, request
<1>2. Owns'
    BY NoLines DEF IInv, Owns, End, NoServer
<1>3. Asking' /\ Serving' /\ Answering' /\ Packing' /\ Importing'
    BY NoLines DEF IInv, Asking, Serving, Answering, Packing, Importing, End, NoServer, call, request
<1> QED
    BY <1>1, <1>2, <1>3 DEF IInv

LEMMA StartKeeps == IInv /\ Start => IInv'
<1> SUFFICES ASSUME IInv, Start PROVE IInv'
    OBVIOUS
<1>1. /\ op' \in {"fetch", "pull", "clone"} /\ via' \in {"stream", "http", "local"}
      /\ target' \in Refs /\ theirs[target'] \in Branch /\ into' \in Refs /\ theirs[into'] \in Branch
      /\ moved' = {}
      /\ pc' = (IF via' = "local" THEN "open" ELSE "refs")
      /\ server' = (IF via' = "local" THEN "off" ELSE "advertise")
      /\ UNCHANGED <<ours, theirs, result, wants, pack, todo, wire, common, base, asked>>
      /\ disturbed' = FALSE /\ outcome' = None /\ walk'.heads = Told(refs)
    BY DEF Start, Transports, DiscoverReferences, Branch, Branches
<1>2. pc = "idle" /\ up = <<>> /\ down = <<>> /\ common = <<>> /\ pack = {}
    BY DEF Start, IInv, Serving, Packing
<1>3. Told(refs) \subseteq Commits
    BY DEF IInv, TypeOK, Told, Branch
<1>4. TypeOK'
    BY <1>1, <1>3 DEF IInv, TypeOK, Followed, ours, wire
<1>5. Owns'
    BY <1>1 DEF IInv, Owns, ours, Sent
<1>6. Asking' /\ Serving' /\ Answering' /\ Packing' /\ Importing'
    BY <1>1, <1>2, NoLines DEF IInv, Asking, Serving, Answering, Packing, Importing, wire
<1> QED
    BY <1>4, <1>5, <1>6 DEF IInv

LEMMA RaiseKeeps == IInv /\ Raise => IInv'
    BY Ended DEF Raise, ours, IInv, TypeOK, Owns, Sent

LEMMA KillKeeps == IInv /\ Kill => IInv'
    BY Ended DEF Kill, ours, IInv, TypeOK, Owns, Sent

\* A branch is set, to what is there or with a mark that it was not asked for.
LEMMA MarkedFacts ==
    ASSUME Owns, TypeOK, NEW n \in Refs, NEW v, v \in store \/ <<"refs", n>> \in unsent',
           unsent' \cup {<<"refs", n>>} = unsent \cup {<<"refs", n>>},
           refs' = [refs EXCEPT ![n] = v], tracking' = tracking
    PROVE  Sent("refs", refs)' \cup Sent("tracking", tracking)' \subseteq store
<1>1. \A m \in Refs : /\ <<"tracking", m>> \in unsent' <=> <<"tracking", m>> \in unsent
                      /\ m # n => (<<"refs", m>> \in unsent' <=> <<"refs", m>> \in unsent)
  <2> SUFFICES ASSUME NEW m \in Refs
               PROVE  /\ <<"tracking", m>> \in unsent' <=> <<"tracking", m>> \in unsent
                      /\ m # n => (<<"refs", m>> \in unsent' <=> <<"refs", m>> \in unsent)
    OBVIOUS
  <2>1. <<"tracking", m>> # <<"refs", n>> /\ (m # n => <<"refs", m>> # <<"refs", n>>)
    OBVIOUS
  <2> QED
    BY <2>1
<1>2. Sent("tracking", tracking)' = Sent("tracking", tracking)
    BY <1>1 DEF Sent
<1>3. ASSUME NEW m \in Refs, <<"refs", m>> \notin unsent' PROVE refs'[m] \in store \cup {None}
  <2>1. CASE m = n
    BY <1>3, <2>1 DEF TypeOK
  <2>2. CASE m # n
    <3>1. <<"refs", m>> \notin unsent /\ refs'[m] = refs[m]
      BY <1>1, <1>3, <2>2 DEF TypeOK
    <3> QED
      BY <3>1 DEF Owns, Sent
  <2> QED
    BY <2>1, <2>2
<1>4. Sent("refs", refs)' \subseteq store
    BY <1>3 DEF Sent
<1> QED
    BY <1>2, <1>4 DEF Owns

LEMMA FinishKeeps == IInv /\ Finish => IInv'
<1> SUFFICES ASSUME IInv, Finish PROVE IInv'
    OBVIOUS
<1>1. /\ pc = "import" /\ UNCHANGED <<tracking, store, theirs, call, disturbed>>
      /\ result[Main] \in Branch /\ result[into] \in Branch /\ Main \in Refs /\ into \in Refs
    BY MainIsRef DEF Finish, IInv, TypeOK, Importing, Followed
<1>2. refs \in [Refs -> Branch] /\ disturbed' \in BOOLEAN /\ Owns /\ TypeOK
    BY <1>1 DEF IInv, TypeOK
<1>3. CASE UNCHANGED <<refs, unsent>>
  <2>1. Sent("refs", refs)' \cup Sent("tracking", tracking)' \subseteq store
    BY <1>1, <1>2, <1>3 DEF Owns, Sent
  <2>2. \E how \in {"ok", "failed", "killed"} : End(how)
    BY DEF Finish, PullHead, CloneHead
  <2> QED
    BY <1>1, <1>2, <1>3, <2>1, <2>2, Ended
<1>4. CASE op = "pull" /\ result[into] # None
  <2>1. /\ refs' = [refs EXCEPT ![Main] = result[into]]
        /\ unsent' = Marked(<<"refs", Main>>, into # target \/ into \in moved)
        /\ \E how \in {"ok", "failed", "killed"} : End(how)
    BY <1>4 DEF Finish, PullHead
  <2>2. result[into] \in store \/ into # target \/ into \in moved
    BY <1>1, <1>4 DEF IInv, Importing, Imports
  <2>a. /\ unsent' \cup {<<"refs", Main>>} = unsent \cup {<<"refs", Main>>}
        /\ result[into] \in store \/ <<"refs", Main>> \in unsent'
    BY <2>1, <2>2 DEF Marked
  <2>3. Sent("refs", refs)' \cup Sent("tracking", tracking)' \subseteq store
    BY <1>1, <1>2, <2>1, <2>a, MarkedFacts
  <2>4. refs' \in [Refs -> Branch]
    BY <1>1, <1>2, <2>1
  <2> QED
    BY <1>1, <1>2, <2>1, <2>3, <2>4, Ended
<1>5. CASE op = "clone" /\ result[Main] \in store
  <2>1. /\ refs' = [refs EXCEPT ![Main] = result[Main]]
        /\ unsent' = Marked(<<"refs", Main>>, FALSE) /\ End("ok")
    BY <1>5 DEF Finish, CloneHead
  <2>a. unsent' \cup {<<"refs", Main>>} = unsent \cup {<<"refs", Main>>}
    BY <2>1 DEF Marked
  <2>3. Sent("refs", refs)' \cup Sent("tracking", tracking)' \subseteq store
    BY <1>1, <1>2, <1>5, <2>1, <2>a, MarkedFacts
  <2>4. refs' \in [Refs -> Branch]
    BY <1>1, <1>2, <2>1
  <2> QED
    BY <1>1, <1>2, <2>1, <2>3, <2>4, Ended
<1> QED
    BY <1>3, <1>4, <1>5 DEF Finish, PullHead, CloneHead

-----------------------------------------------------------------------------
(* The client                                                              *)

LEMMA ReadRefsKeeps == IInv /\ ReadRefs => IInv'
<1> SUFFICES ASSUME IInv, ReadRefs PROVE IInv'
    OBVIOUS
<1> DEFINE told == ReadPktRefs(Head(down))
<1>1. /\ pc = "refs" /\ down # <<>> /\ down' = Tail(down) /\ result' = told
      /\ UNCHANGED <<ours, theirs, call, walk, pack, served, bounds, disturbed, outcome>>
    BY DEF ReadRefs
<1>2. up = <<>> /\ common = <<>> /\ pack = {} /\ server \in {"off", "wants"} /\ via # "local"
    BY <1>1 DEF IInv, TypeOK, Serving, Packing
<1>3. Followed(told) /\ told \in RefValues /\ down' = <<>>
  <2>0. down \in Seq(Answers) /\ Len(down) <= 1
    BY <1>1 DEF IInv, TypeOK, Answering
  <2>1. Len(down) = 1 /\ Head(down) = down[1] /\ Len(Tail(down)) = 0 /\ Tail(down) \in Seq(Answers)
    <3>1. /\ Head(down) = down[1] /\ Len(down) \in Nat \ {0} /\ Len(Tail(down)) = Len(down) - 1
          /\ Tail(down) \in Seq(Answers)
      BY <1>1, <2>0, TailFacts
    <3> QED
      BY <2>0, <3>1
  <2>2. Followed(down[1].refs)
    BY <1>1, <2>1 DEF IInv, Answering
  <2> QED
    BY <1>1, <2>1, <2>2, EmptySeq DEF ReadPktRefs, Followed
<1> HIDE DEF told
<1>4. CASE op = "pull" /\ told[target] = None
  <2>0. Wants(told) # {}
    BY <1>4 DEF Wants
  <2>1. pc' = "raise" /\ UNCHANGED <<wants, todo>>
    BY <1>4, <2>0 DEF ReadRefs, told
  <2>2. up' = <<>> \/ up' = <<[kind |-> "flush"]>>
    BY <1>2, <1>4, <2>0 DEF ReadRefs, told
  <2>3. up' \in Seq(Requests) /\ \A i \in 1 .. Len(up') : up'[i].kind = "flush"
    <3>1. [kind |-> "flush"] \in Requests
      BY LineFacts
    <3>2. CASE up' = <<>>
      BY <3>2, NoLines
    <3>3. CASE up' = <<[kind |-> "flush"]>>
      BY <3>1, <3>3, OneLine
    <3> QED
      BY <2>2, <3>2, <3>3
  <2>4. TypeOK'
    BY <1>1, <1>3, <2>1, <2>3, NoLines DEF IInv, TypeOK, Followed, ours, call, request, served
  <2>5. Owns' /\ Asking' /\ Serving' /\ Answering' /\ Packing' /\ Importing'
    BY <1>1, <1>2, <1>3, <2>1, <2>3 DEF IInv, Owns, Sent, Asking, Serving, Answering, Packing,
       Importing, ours, served, call, request
  <2> QED
    BY <2>4, <2>5 DEF IInv
<1>5. CASE ~(op = "pull" /\ told[target] = None) /\ Wants(told) = {}
  <2>1. pc' = "import" /\ UNCHANGED wants /\ todo' = Imports
    BY <1>5 DEF ReadRefs, told
  <2>2. up' = <<>> \/ up' = <<[kind |-> "flush"]>>
    BY <1>2, <1>5 DEF ReadRefs, told
  <2>3. up' \in Seq(Requests) /\ \A i \in 1 .. Len(up') : up'[i].kind = "flush"
    <3>1. [kind |-> "flush"] \in Requests
      BY LineFacts
    <3>2. CASE up' = <<>>
      BY <3>2, NoLines
    <3>3. CASE up' = <<[kind |-> "flush"]>>
      BY <3>1, <3>3, OneLine
    <3> QED
      BY <2>2, <3>2, <3>3
  <2>4. TypeOK'
    BY <1>1, <1>3, <2>1, <2>3, NoLines DEF IInv, TypeOK, Followed, ours, call, request, served, Imports
  <2>5. \A n \in Imports : told[n] \in store \cup {None}
    BY <1>3, <1>5, WantsFacts DEF IInv
  <2>6. Importing'
    BY <1>1, <1>3, <2>1, <2>5 DEF IInv, Importing, Imports, Followed, ours, call, request
  <2>a. Owns'
    BY <1>1, OwnsKept DEF IInv, served
  <2>7. Asking' /\ Serving' /\ Answering' /\ Packing'
    BY <1>1, <1>2, <1>3, <2>1, <2>3 DEF IInv, Asking, Serving, Answering, Packing,
       ours, served, call, request
  <2> QED
    BY <2>4, <2>6, <2>a, <2>7 DEF IInv
<1>6. CASE ~(op = "pull" /\ told[target] = None) /\ Wants(told) # {}
  <2>1. pc' = "head" /\ wants' = Wants(told) /\ UNCHANGED todo
    BY <1>6 DEF ReadRefs, told
  <2>2. up' = <<[kind |-> "want", shas |-> Wants(told)]>>
    BY <1>2, <1>6 DEF ReadRefs, told
  <2>3. Wants(told) \in SUBSET Objects /\ \A n \in Imports : told[n] \in store \cup Wants(told) \cup {None}
    BY <1>3, <1>6, WantsFacts DEF IInv
  <2>4. /\ up' \in Seq(Requests)
        /\ \A i \in 1 .. Len(up') : up'[i].kind = "want" /\ up'[i].shas = Wants(told)
    BY <2>2, <2>3, LineFacts
  <2>5. TypeOK'
    BY <1>1, <1>3, <2>1, <2>3, <2>4, NoLines DEF IInv, TypeOK, Followed, ours, call, request, served
  <2>6. Importing'
    BY <1>1, <1>3, <2>1, <2>3 DEF IInv, Importing, Imports, Followed, ours, call, request
  <2>7. via = "http" => server = "off"
    BY <1>1, <1>2 DEF IInv, Serving
  <2>a. Owns'
    BY <1>1, OwnsKept DEF IInv, served
  <2>8. Asking' /\ Serving' /\ Packing'
    BY <1>1, <1>2, <1>3, <2>1, <2>4, <2>7 DEF IInv, Asking, Serving, Packing,
       ours, served, call, request
  <2>9. OnlyAcks'
    BY <1>3, NoLines DEF OnlyAcks
  <2>10. Answering'
    BY <1>1, <1>2, <1>3, <2>1, <2>9 DEF Answering, served
  <2> QED
    BY <2>5, <2>6, <2>a, <2>8, <2>10 DEF IInv
<1> QED
    BY <1>4, <1>5, <1>6

LEMMA HaveKeeps == IInv /\ Have => IInv'
<1> SUFFICES ASSUME IInv, Have PROVE IInv'
    OBVIOUS
<1>0. /\ pc = "head"
      /\ UNCHANGED <<ours, theirs, call, result, wants, pack, todo, down, served, bounds, disturbed, outcome>>
    BY DEF Have
<1>a. CASE pc' = "raise" /\ UNCHANGED <<walk, up>>
  <2>1. TypeOK' /\ Owns' /\ Asking'
    BY <1>0, <1>a DEF IInv, TypeOK, Followed, Owns, Sent, Asking, ours, call, request, served
  <2>2. Serving' /\ Answering' /\ Packing' /\ Importing'
    BY <1>0, <1>a DEF IInv, Serving, Answering, Packing, Importing, ours, call, request, served
  <2> QED
    BY <2>1, <2>2 DEF IInv
<1>b. CASE pc' = "peek" /\ \E c \in walk.heads \cap store :
              walk' = Taken(walk, c) /\ up' = Append(up, [kind |-> "have", sha |-> c])
  <2>1. PICK c \in walk.heads \cap store :
            walk' = Taken(walk, c) /\ up' = Append(up, [kind |-> "have", sha |-> c])
    BY <1>b
  <2>3. c \in Commits /\ c \in store /\ walk'.heads \in SUBSET Commits
    BY <2>1, TakenFacts DEF IInv, TypeOK
  <2>4. /\ up' \in Seq(Requests) /\ Len(up') = Len(up) + 1 /\ Len(up) \in Nat
        /\ \A i \in 1 .. Len(up) : up'[i] = up[i]
        /\ up'[Len(up) + 1] = [kind |-> "have", sha |-> c]
    BY <2>1, <2>3, LineFacts, AppendFacts DEF IInv, TypeOK
  <2>5. TypeOK'
    BY <1>0, <1>b, <2>3, <2>4 DEF IInv, TypeOK, Followed, ours, call, request, served
  <2>6. Asking'
    BY <1>0, <1>b, <2>3, <2>4 DEF IInv, Asking, ours
  <2>a. Owns'
    BY <1>0, OwnsKept DEF IInv, served
  <2>7. Serving' /\ Answering' /\ Packing' /\ Importing'
    BY <1>0, <1>b, <2>3 DEF IInv, Serving, Answering, OnlyAcks, Packing, Importing, Imports,
       Followed, ours, call, request, served
  <2> QED
    BY <2>5, <2>6, <2>a, <2>7 DEF IInv
<1> QED
    BY <1>a, <1>b DEF Have

LEMMA NotReadableKeeps == IInv /\ NotReadable => IInv'
<1> SUFFICES ASSUME IInv, NotReadable PROVE IInv'
    OBVIOUS
<1>1. /\ pc = "peek" /\ pc' = "head"
      /\ UNCHANGED <<ours, theirs, call, walk, result, wants, pack, todo, wire, served, bounds,
                     disturbed, outcome>>
    BY DEF NotReadable
<1>2. TypeOK'
    BY <1>1 DEF IInv, TypeOK, Followed, ours, call, request, served, wire
<1>3. Owns' /\ Asking' /\ Serving' /\ Answering' /\ Packing' /\ Importing'
    BY <1>1 DEF IInv, Owns, Sent, Asking, Serving, Answering, OnlyAcks, Packing, Importing, Imports,
       Followed, ours, call, request, served, wire
<1> QED
    BY <1>2, <1>3 DEF IInv

LEMMA ReadAnswerKeeps == IInv /\ ReadAnswer => IInv'
<1> SUFFICES ASSUME IInv, ReadAnswer PROVE IInv'
    OBVIOUS
<1>1. /\ pc = "peek" /\ via = "stream" /\ down # <<>> /\ down' = Tail(down)
      /\ UNCHANGED <<ours, theirs, call, result, wants, pack, todo, up, served, bounds, disturbed, outcome>>
    BY DEF ReadAnswer
<1>2. /\ Head(down) = down[1] /\ Head(down) \in Answers /\ Len(down) \in Nat \ {0}
      /\ Tail(down) \in Seq(Answers) /\ Len(Tail(down)) = Len(down) - 1
      /\ \A i \in 1 .. Len(Tail(down)) : Tail(down)[i] = down[i + 1]
    BY <1>1, TailFacts DEF IInv, TypeOK
<1>3. OnlyAcks /\ down[1].kind = "ack" /\ (down[1].last <=> acks = "single")
    BY <1>1, <1>2 DEF IInv, Answering, OnlyAcks
<1>4. /\ walk' = Acked(walk, down[1].sha)
      /\ pc' = IF acks = "single" THEN "raise" ELSE "head"
    BY <1>2, <1>3 DEF ReadAnswer
<1>5. walk'.heads \subseteq walk.heads
    BY <1>4, AckedFacts
<1>6. OnlyAcks'
    BY <1>1, <1>2, <1>3 DEF OnlyAcks, call, request
<1>7. TypeOK'
    BY <1>1, <1>2, <1>4, <1>5 DEF IInv, TypeOK, Followed, ours, call, request, served
<1>8. Owns' /\ Asking' /\ Packing' /\ Importing'
    BY <1>1, <1>4, <1>5 DEF IInv, Owns, Sent, Asking, Packing, Importing, Imports,
       Followed, ours, call, request, served
<1>9. Serving' /\ Answering'
    BY <1>1, <1>4, <1>6 DEF IInv, Serving, Answering, ours, call, request, served
<1> QED
    BY <1>7, <1>8, <1>9 DEF IInv

LEMMA DoneKeeps == IInv /\ Done => IInv'
<1> SUFFICES ASSUME IInv, Done PROVE IInv'
    OBVIOUS
<1>1. /\ pc = "head" /\ pc' = "tail" /\ up' = up \o <<[kind |-> "done"]>>
      /\ server' = IF via = "http" THEN "wants" ELSE server
      /\ UNCHANGED <<ours, theirs, call, walk, result, wants, pack, todo, down, common, base, asked,
                     bounds, disturbed, outcome>>
    BY DEF Done, LastLine, SmartRequest
<1>2. <<[kind |-> "done"]>> \in Seq(Requests)
    BY LineFacts
<1>3. /\ up' \in Seq(Requests) /\ Len(up') = Len(up) + 1 /\ Len(up) \in Nat
      /\ \A i \in 1 .. Len(up) : up'[i] = up[i]
      /\ up'[Len(up) + 1].kind = "done"
    BY <1>1, <1>2, ConcatProperties DEF IInv, TypeOK
<1>4. TypeOK'
    BY <1>1, <1>3 DEF IInv, TypeOK, Followed, ours, call, request
<1>5. Asking'
    BY <1>1, <1>3 DEF IInv, Asking, ours
<1>6. Owns' /\ Serving' /\ Importing'
    BY <1>1 DEF IInv, TypeOK, Owns, Sent, Serving, Importing, Imports, Followed, ours, call, request
<1>7. OnlyAcks /\ \A i \in 1 .. Len(down) : down[i].kind = "ack"
    BY <1>1 DEF IInv, Answering, OnlyAcks
<1>8. \A i \in 1 .. Len(down) : \A j \in 1 .. i - 1 : Continues(down[j])
  <2> SUFFICES ASSUME NEW i \in 1 .. Len(down), NEW j \in 1 .. i - 1 PROVE Continues(down[j])
    OBVIOUS
  <2>1. Len(down) \in Nat /\ j \in 1 .. Len(down) /\ Len(down) > 1
    BY DEF IInv, TypeOK
  <2> QED
    BY <1>7, <2>1 DEF OnlyAcks, Continues
<1>9. Packing'
    BY <1>1, <1>7 DEF IInv, Packing
<1>10. OnlyAcks'
    BY <1>1, <1>7 DEF OnlyAcks, call, request
<1>11. Answering'
    BY <1>1, <1>7, <1>8, <1>10 DEF IInv, Serving, Answering, Data, Continues, call, request
<1> QED
    BY <1>4, <1>5, <1>6, <1>9, <1>11 DEF IInv

LEMMA ReadTailKeeps == IInv /\ ReadTail => IInv'
<1> SUFFICES ASSUME IInv, ReadTail PROVE IInv'
    OBVIOUS
<1>1. /\ pc = "tail" /\ down # <<>> /\ down' = Tail(down)
      /\ pc' = (IF Head(down).kind = "ack" /\ ~Head(down).last THEN "tail" ELSE "data")
      /\ walk' = (IF Head(down).kind = "ack" THEN Acked(walk, Head(down).sha) ELSE walk)
      /\ UNCHANGED <<ours, theirs, call, result, wants, pack, todo, up, served, bounds, disturbed, outcome>>
    BY DEF ReadTail
<1>2. /\ Head(down) = down[1] /\ down[1] \in Answers /\ Len(down) \in Nat \ {0}
      /\ Tail(down) \in Seq(Answers) /\ Len(Tail(down)) = Len(down) - 1
      /\ \A i \in 1 .. Len(Tail(down)) : Tail(down)[i] = down[i + 1]
    BY <1>1, TailFacts DEF IInv, TypeOK
<1>3. pc' = IF Continues(down[1]) THEN "tail" ELSE "data"
    BY <1>1, <1>2 DEF Continues
<1>4. walk'.heads \subseteq walk.heads
    BY <1>1, AckedFacts
<1>5. /\ Len(down') = Len(down) - 1 /\ down' \in Seq(Answers)
      /\ \A i \in 1 .. Len(down') : /\ i \in Nat /\ i + 1 \in 1 .. Len(down)
                                    /\ down'[i] = down[i + 1]
                                    /\ i > 1 => i - 1 \in 1 .. Len(down') /\ down'[i - 1] = down[i]
    BY <1>1, <1>2
<1>6. \A i \in 1 .. Len(down) :
         /\ down[i].kind \in {"ack", "nak", "pack", "flush"}
         /\ Data(down[i]) => i > 1 /\ ~Continues(down[i - 1])
         /\ \A j \in 1 .. i - 1 : ~Continues(down[j]) => Data(down[i])
    BY <1>1 DEF IInv, Answering
<1>7. \A i \in 1 .. Len(down) :
         /\ down[i].kind = "pack" => Enough(down[i].shas)
         /\ down[i].kind = "flush" => i # 1 /\ down[i - 1].kind = "pack"
    BY <1>1 DEF IInv, Packing
<1>8. ~Data(down[1])
    BY <1>2, <1>6
<1>9. TypeOK'
    BY <1>1, <1>4, <1>5 DEF IInv, TypeOK, Followed, ours, call, request, served
<1>10. Owns' /\ Asking' /\ Importing'
    BY <1>1, <1>4 DEF IInv, Owns, Sent, Asking, Importing, Imports, Followed, ours, call, request, served
<1>11. Serving'
    BY <1>1 DEF IInv, Serving, ours, call, request, served
<1>12. \A v : Enough(v) => Enough(v)'
    BY <1>1 DEF Enough, ours
<1>13. CASE Continues(down[1])
  <2>1. Packing'
    <3>1. ASSUME NEW i \in 1 .. Len(down')
          PROVE  /\ down'[i].kind = "pack" => Enough(down'[i].shas)
                 /\ down'[i].kind = "flush" => i # 1 /\ down'[i - 1].kind = "pack"
      <4>1. down'[i] = down[i + 1] /\ i + 1 \in 1 .. Len(down)
        BY <1>5
      <4>2. CASE i = 1
        BY <1>7, <4>1, <4>2, <1>8 DEF Data
      <4>3. CASE i # 1
        BY <1>5, <1>7, <4>1, <4>3
      <4> QED
        BY <4>2, <4>3
    <3> QED
      BY <1>1, <1>3, <1>12, <1>13, <3>1 DEF IInv, Packing
  <2>2. OnlyAcks => OnlyAcks'
    BY <1>1, <1>2, <1>5 DEF OnlyAcks, call, request
  <2>3. server # "off" /\ acks = "single" => FALSE
    <3>1. server # "off" => OnlyAcks
      BY <1>1 DEF IInv, Answering
    <3> QED
      BY <1>2, <1>13, <3>1 DEF OnlyAcks, Continues
  <2>4. ASSUME NEW i \in 1 .. Len(down')
        PROVE  /\ down'[i].kind \in {"ack", "nak", "pack", "flush"}
               /\ Data(down'[i]) => i > 1 /\ ~Continues(down'[i - 1])
               /\ \A j \in 1 .. i - 1 : ~Continues(down'[j]) => Data(down'[i])
    <3>1. down'[i] = down[i + 1] /\ i + 1 \in 1 .. Len(down) /\ i \in Nat
      BY <1>5
    <3>2. Data(down'[i]) => i > 1
      BY <1>6, <1>13, <3>1
    <3>3. i > 1 => down'[i - 1] = down[i]
      BY <1>5
    <3>4. ASSUME NEW j \in 1 .. i - 1, ~Continues(down'[j]) PROVE Data(down'[i])
      <4>1. down'[j] = down[j + 1] /\ j + 1 \in 1 .. i
        BY <1>5, <3>1
      <4> QED
        BY <1>6, <3>1, <3>4, <4>1
    <3> QED
      BY <1>6, <3>1, <3>2, <3>3, <3>4
  <2>5. Answering'
    BY <1>1, <1>3, <1>13, <2>2, <2>3, <2>4 DEF IInv, Answering, Data, Continues, served, call, request
  <2> QED
    BY <1>9, <1>10, <1>11, <2>1, <2>5 DEF IInv
<1>14. CASE ~Continues(down[1])
  <2>1. \A i \in 1 .. Len(down') : Data(down'[i])
    BY <1>5, <1>6, <1>14
  <2>2. server # "off" => server = "haves" /\ acks = "single" /\ common # <<>> /\ down' = <<>>
    <3> SUFFICES ASSUME server # "off"
                 PROVE  server = "haves" /\ acks = "single" /\ common # <<>> /\ down' = <<>>
      OBVIOUS
    <3>1. OnlyAcks
      BY <1>1 DEF IInv, Answering
    <3>2. acks = "single"
      BY <1>2, <1>14, <3>1 DEF OnlyAcks, Continues
    <3>3. common # <<>>
      BY <1>1, <3>2 DEF IInv, Answering
    <3>4. server = "haves"
      BY <3>3 DEF IInv, TypeOK, Serving
    <3>5. Len(down') = 0
      BY <1>2, <1>5, <3>1, <3>2 DEF OnlyAcks
    <3> QED
      BY <1>5, <3>2, <3>3, <3>4, <3>5, EmptySeq
  <2>3. Answering'
    BY <1>1, <1>3, <1>14, <2>1, <2>2 DEF Answering, Data, served, call, request
  <2>4. ASSUME NEW i \in 1 .. Len(down')
        PROVE  /\ down'[i].kind = "pack" => Enough(down'[i].shas)
               /\ down'[i].kind = "flush" => i # 1 /\ down'[i - 1].kind = "pack"
    <3>1. down'[i] = down[i + 1] /\ i + 1 \in 1 .. Len(down)
      BY <1>5
    <3>2. CASE i = 1
      BY <1>7, <3>1, <3>2, <1>8 DEF Data
    <3>3. CASE i # 1
      BY <1>5, <1>7, <3>1, <3>3
    <3> QED
      BY <3>2, <3>3
  <2>5. pack' = {}
    BY <1>1 DEF IInv, Packing
  <2>6. Packing'
    BY <1>3, <1>12, <1>14, <2>4, <2>5 DEF Packing
  <2> QED
    BY <1>9, <1>10, <1>11, <2>3, <2>6 DEF IInv
<1> QED
    BY <1>13, <1>14

LEMMA ReadDataKeeps == IInv /\ ReadData => IInv'
<1> SUFFICES ASSUME IInv, ReadData PROVE IInv'
    OBVIOUS
<1>1. /\ pc = "data" /\ down # <<>> /\ down' = Tail(down)
      /\ UNCHANGED <<ours, theirs, call, walk, result, wants, todo, up, served, bounds, disturbed, outcome>>
    BY DEF ReadData
<1>2. /\ Head(down) = down[1] /\ down[1] \in Answers /\ Len(down) \in Nat \ {0}
      /\ Tail(down) \in Seq(Answers) /\ Len(Tail(down)) = Len(down) - 1
      /\ \A i \in 1 .. Len(Tail(down)) : Tail(down)[i] = down[i + 1]
    BY <1>1, TailFacts DEF IInv, TypeOK
<1>3. /\ Len(down') = Len(down) - 1 /\ down' \in Seq(Answers)
      /\ \A i \in 1 .. Len(down') : /\ i \in Nat /\ i + 1 \in 1 .. Len(down)
                                    /\ down'[i] = down[i + 1]
                                    /\ i > 1 => down'[i - 1] = down[i]
    BY <1>1, <1>2
<1>4. Data(down[1]) /\ \A i \in 1 .. Len(down') : Data(down'[i])
    BY <1>1, <1>2, <1>3 DEF IInv, Answering
<1>5. \A i \in 1 .. Len(down) :
         /\ down[i].kind = "pack" => Enough(down[i].shas)
         /\ down[i].kind = "flush" => IF i = 1 THEN Enough(pack) ELSE down[i - 1].kind = "pack"
    BY <1>1 DEF IInv, Packing
<1>6. \A v : Enough(v) => Enough(v)'
    BY <1>1 DEF Enough, ours
<1>7. server = "off"
    BY <1>1 DEF IInv, Answering
<1>8. CASE down[1].kind = "pack"
  <2>1. pack' = pack \cup down[1].shas /\ pc' = "data" /\ down[1].shas \in SUBSET Objects
    BY <1>1, <1>2, <1>8, AnswerFacts DEF ReadData
  <2>2. Enough(pack')
    <3>1. Enough(down[1].shas)
      BY <1>2, <1>5, <1>8
    <3>2. CASE pack = {}
      BY <2>1, <3>1, <3>2
    <3>3. CASE Enough(pack)
      <4>1. Complete((pack \cup store) \cup (down[1].shas \cup store))
        BY <3>1, <3>3, CompleteUnion DEF Enough
      <4>2. (pack \cup store) \cup (down[1].shas \cup store) = pack' \cup store
        BY <2>1
      <4> QED
        BY <2>1, <3>1, <3>3, <4>1, <4>2 DEF Enough
    <3> QED
      BY <1>1, <3>2, <3>3 DEF IInv, Packing
  <2>3. TypeOK'
    BY <1>1, <1>3, <2>1 DEF IInv, TypeOK, Followed, ours, call, request, served
  <2>4. ASSUME NEW i \in 1 .. Len(down')
        PROVE  /\ down'[i].kind = "pack" => Enough(down'[i].shas)
               /\ down'[i].kind = "flush" => IF i = 1 THEN Enough(pack') ELSE down'[i - 1].kind = "pack"
    <3>1. down'[i] = down[i + 1] /\ i + 1 \in 1 .. Len(down) /\ i \in Nat
      BY <1>3
    <3>2. CASE i = 1
      BY <1>5, <2>2, <3>1, <3>2
    <3>3. CASE i # 1
      BY <1>3, <1>5, <3>1, <3>3
    <3> QED
      BY <3>2, <3>3
  <2>5. Packing'
    BY <1>6, <2>1, <2>2, <2>4 DEF Packing
  <2>6. Owns' /\ Asking' /\ Serving' /\ Answering' /\ Importing'
    BY <1>1, <1>4, <1>7, <2>1 DEF IInv, Owns, Sent, Asking, Serving, Answering, Importing, Imports,
       Followed, ours, call, request, served
  <2> QED
    BY <2>3, <2>5, <2>6 DEF IInv
<1>9. CASE down[1].kind = "flush"
  <2>1. pack' = pack /\ pc' = "store" /\ Enough(pack)
    BY <1>1, <1>2, <1>5, <1>9 DEF ReadData
  <2>2. TypeOK'
    BY <1>1, <1>3, <2>1 DEF IInv, TypeOK, Followed, ours, call, request, served
  <2>3. Packing'
    BY <1>6, <2>1 DEF Packing
  <2>4. Owns' /\ Asking' /\ Serving' /\ Answering' /\ Importing'
    BY <1>1, <1>7, <2>1 DEF IInv, Owns, Sent, Asking, Serving, Answering, Importing, Imports,
       Followed, ours, call, request, served
  <2> QED
    BY <2>2, <2>3, <2>4 DEF IInv
<1> QED
    BY <1>4, <1>8, <1>9 DEF Data

LEMMA HangupKeeps == IInv /\ Hangup => IInv'
<1> SUFFICES ASSUME IInv, Hangup PROVE IInv'
    OBVIOUS
<1>1. /\ pc \in {"refs", "tail", "data"} /\ server = "off" /\ pc' = "raise"
      /\ UNCHANGED <<ours, theirs, call, walk, result, wants, pack, todo, wire, served, bounds,
                     disturbed, outcome>>
    BY DEF Hangup
<1>2. TypeOK'
    BY <1>1 DEF IInv, TypeOK, Followed, ours, call, request, served, wire
<1>3. Owns'
    BY <1>1, OwnsKept DEF IInv, served
<1>4. Asking' /\ Serving' /\ Answering' /\ Packing' /\ Importing'
    BY <1>1 DEF IInv, Asking, Serving, Answering, Packing, Importing, ours, call, request, served, wire
<1> QED
    BY <1>2, <1>3, <1>4 DEF IInv

LEMMA StoreKeeps == IInv /\ Store => IInv'
<1> SUFFICES ASSUME IInv, Store PROVE IInv'
    OBVIOUS
<1>1. /\ pc = "store" /\ pc' = (IF via = "local" THEN "again" ELSE "import")
      /\ store' = store \cup pack /\ todo' = Imports
      /\ UNCHANGED <<refs, tracking, unsent, theirs, call, walk, result, wants, pack, wire, served, bounds,
                     disturbed, outcome>>
    BY DEF Store
<1>2. Enough(pack) /\ store' = pack \cup store
    BY <1>1 DEF IInv, Packing
<1>3. TypeOK'
    BY <1>1 DEF IInv, TypeOK, Followed, Imports, call, request, served, wire
<1>4. Owns'
    BY <1>1, <1>2 DEF IInv, Owns, Enough, Complete, Sent, served
<1>a. Asking'
    BY <1>1, <1>2 DEF IInv, Asking, wire
<1>b. Serving'
    BY <1>1 DEF IInv, Serving, call, request, served, wire
<1>c. Answering' /\ Packing'
    BY <1>1 DEF IInv, Answering, Packing, served, wire
<1>5. Importing'
    BY <1>1, <1>2 DEF IInv, Enough, Importing, Imports, Followed, call, request
<1> QED
    BY <1>3, <1>4, <1>a, <1>b, <1>c, <1>5 DEF IInv

LEMMA ReadAgainKeeps == IInv /\ ReadAgain => IInv'
<1> SUFFICES ASSUME IInv, ReadAgain PROVE IInv'
    OBVIOUS
<1>1. /\ pc = "again" /\ pc' = "import" /\ result' = theirs
      /\ moved' = {n \in Refs : theirs[n] # result[n]}
      /\ UNCHANGED <<ours, theirs, request, walk, wants, pack, todo, wire, served, bounds, disturbed, outcome>>
    BY DEF ReadAgain
<1>2. TypeOK'
    BY <1>1 DEF IInv, TypeOK, Followed, ours, request, wire, served
<1>3. Owns' /\ Asking'
    BY <1>1 DEF IInv, Owns, Sent, Asking, ours, wire, served
<1>4. Serving' /\ Answering' /\ Packing'
    BY <1>1 DEF IInv, Serving, Answering, Packing, ours, request, wire, served
<1>5. via = "local" /\ Followed(theirs) /\ Imports \subseteq Refs
    BY <1>1 DEF IInv, Serving, TypeOK, Imports
<1>6. Importing'
    BY <1>1, <1>5 DEF IInv, Importing, Imports, Followed, ours, request
<1> QED
    BY <1>2, <1>3, <1>4, <1>6 DEF IInv

LEMMA OpenLocalKeeps == IInv /\ OpenLocal => IInv'
<1> SUFFICES ASSUME IInv, OpenLocal PROVE IInv'
    OBVIOUS
<1>1. /\ pc = "open" /\ result' = theirs
      /\ UNCHANGED <<ours, theirs, call, walk, pack, wire, served, bounds, disturbed, outcome>>
    BY DEF OpenLocal
<1>2. up = <<>> /\ down = <<>> /\ server = "off" /\ pack = {}
    BY <1>1 DEF IInv, Serving, Packing
<1>3. Followed(theirs) /\ theirs \in RefValues
    BY DEF IInv, TypeOK, Followed
<1>4. Owns' /\ Asking' /\ via = "local"
    BY <1>1, <1>2, NoLines DEF IInv, Owns, Sent, Asking, Serving, ours, served, wire
<1>5. CASE op = "pull" /\ theirs[target] = None
  <2>1. pc' = "raise" /\ UNCHANGED <<wants, todo>>
    BY <1>5 DEF OpenLocal, Wants
  <2>2. TypeOK'
    BY <1>1, <2>1 DEF IInv, TypeOK, Followed, ours, call, request, served, wire
  <2>3. Serving' /\ Answering' /\ Packing' /\ Importing'
    BY <1>1, <1>2, <1>4, <2>1 DEF Serving, Answering, Packing, Importing, call, request, served, wire
  <2> QED
    BY <1>4, <2>2, <2>3 DEF IInv
<1>6. CASE ~(op = "pull" /\ theirs[target] = None) /\ Wants(theirs) = {}
  <2>1. pc' = "again" /\ UNCHANGED wants /\ todo' = Imports
    BY <1>6 DEF OpenLocal
  <2>2. \A n \in Imports : theirs[n] \in store \cup {None}
    BY <1>3, <1>6, WantsFacts DEF IInv
  <2>3. TypeOK'
    BY <1>1, <2>1 DEF IInv, TypeOK, Followed, Imports, ours, call, request, served, wire
  <2>4. Serving' /\ Answering' /\ Packing'
    BY <1>1, <1>2, <1>4, <2>1 DEF Serving, Answering, Packing, call, request, served, wire
  <2>5. Importing'
    BY <1>1, <1>3, <1>4, <2>1, <2>2 DEF Importing, Imports, Followed, ours, call, request
  <2> QED
    BY <1>4, <2>3, <2>4, <2>5 DEF IInv
<1>7. CASE ~(op = "pull" /\ theirs[target] = None) /\ Wants(theirs) # {}
  <2>1. pc' = "common" /\ wants' = Wants(theirs) /\ UNCHANGED todo
    BY <1>7 DEF OpenLocal
  <2>2. /\ Wants(theirs) \in SUBSET Objects
        /\ \A n \in Imports : theirs[n] \in store \cup Wants(theirs) \cup {None}
    BY <1>3, <1>7, WantsFacts DEF IInv
  <2>3. TypeOK'
    BY <1>1, <2>1, <2>2 DEF IInv, TypeOK, Followed, ours, call, request, served, wire
  <2>4. Serving' /\ Answering' /\ Packing'
    BY <1>1, <1>2, <2>1 DEF IInv, Serving, Answering, Packing, call, request, served, wire
  <2>5. Importing'
    BY <1>1, <1>3, <1>4, <2>1, <2>2 DEF Importing, Imports, Followed, ours, call, request
  <2> QED
    BY <1>4, <2>3, <2>4, <2>5 DEF IInv
<1> QED
    BY <1>5, <1>6, <1>7

\* What is missing on this side, whatever the other side was told of, if the
\* other side takes only what is here for common.
LEMMA MissingIsEnough ==
    ASSUME IInv, CommonSet \subseteq store
    PROVE  /\ MissingObjects(Theirs, CommonSet, wants) \in SUBSET Objects
           /\ Enough(MissingObjects(Theirs, CommonSet, wants))
<1>1. Theirs \in SUBSET Objects
    BY ToldFacts, ClosureFacts DEF IInv, TypeOK, Followed, Theirs, Complete
<1>2. CommonSet \in SUBSET Objects /\ wants \in SUBSET Objects /\ Complete(store)
    BY DEF IInv, TypeOK, Owns
<1>3. /\ Complete(MissingObjects(Theirs, CommonSet, wants) \cup store)
      /\ wants \subseteq MissingObjects(Theirs, CommonSet, wants) \cup store
    BY <1>1, <1>2, MissingObjectsSuffice
<1>4. MissingObjects(Theirs, CommonSet, wants) \in SUBSET Objects
    BY <1>1, <1>2, NothingIsMissing
<1> QED
    BY <1>3, <1>4 DEF Enough

LEMMA CommonIsHeld == IInv => CommonSet \subseteq store
<1> SUFFICES ASSUME IInv PROVE CommonSet \subseteq store
    OBVIOUS
<1>1. common \in Seq(Commits) /\ \A i \in 1 .. Len(common) : common[i] \in store
    BY DEF IInv, TypeOK, Owns
<1> QED
    BY <1>1 DEF CommonSet

LEMMA FindCommonRevisionsKeeps == IInv /\ FindCommonRevisions => IInv'
<1> SUFFICES ASSUME IInv, FindCommonRevisions PROVE IInv'
    OBVIOUS
<1>1. /\ pc = "common"
      /\ UNCHANGED <<ours, theirs, call, result, wants, todo, wire, server, base, asked, bounds,
                     disturbed, outcome>>
    BY DEF FindCommonRevisions
<1>2. Asking'
    BY <1>1 DEF IInv, Serving, Asking, ours, wire
<1>3. CASE walk.heads = {}
  <2>1. /\ pack' = MissingObjects(Theirs, CommonSet, wants)
        /\ pc' = "store" /\ UNCHANGED <<walk, common>>
    BY <1>3 DEF FindCommonRevisions, CommonSet
  <2>2. pack' \in SUBSET Objects /\ Enough(pack')
    BY <2>1, MissingIsEnough, CommonIsHeld
  <2>3. TypeOK'
    BY <1>1, <2>1, <2>2 DEF IInv, TypeOK, Followed, ours, call, request, wire
  <2>4. Packing'
    BY <1>1, <2>1, <2>2 DEF Packing, Enough, ours
  <2>5. Owns' /\ Serving' /\ Answering' /\ Importing'
    BY <1>1, <2>1 DEF IInv, Owns, Sent, Serving, Answering, Importing, Imports, Followed, ours, call, request, wire
  <2> QED
    BY <1>2, <2>3, <2>4, <2>5 DEF IInv
<1>4. CASE walk.heads # {}
  <2>0. pack' = pack /\ pc' \in {pc, "raise"}
    <3>1. PICK c \in walk.heads :
             CASE c \notin store -> pc' = "raise" /\ UNCHANGED <<walk, common>>
               [] c \in store /\ c \in Theirs ->
                    walk' = Acked(Taken(walk, c), c) /\ common' = Append(common, c) /\ UNCHANGED pc
               [] OTHER -> walk' = Taken(walk, c) /\ UNCHANGED <<common, pc>>
      BY <1>4 DEF FindCommonRevisions
    <3> QED
      BY <1>4, <3>1 DEF FindCommonRevisions
  <2>1. CASE UNCHANGED <<walk, common>>
    <3>1. TypeOK' /\ Owns'
      BY <1>1, <2>0, <2>1 DEF IInv, TypeOK, Followed, Owns, Sent, ours, call, request, wire
    <3>2. Serving' /\ Answering' /\ Packing' /\ Importing'
      BY <1>1, <2>0, <2>1 DEF IInv, Serving, Answering, Packing, Importing, Imports, Followed,
         ours, call, request, wire
    <3> QED
      BY <1>2, <3>1, <3>2 DEF IInv
  <2>2. CASE \E c \in walk.heads \cap store :
                /\ walk' = Acked(Taken(walk, c), c) \/ walk' = Taken(walk, c)
                /\ common' = Append(common, c) \/ common' = common
    <3>1. PICK c \in walk.heads \cap store :
             /\ walk' = Acked(Taken(walk, c), c) \/ walk' = Taken(walk, c)
             /\ common' = Append(common, c) \/ common' = common
      BY <2>2
    <3>3. /\ c \in Commits /\ c \in store /\ Taken(walk, c).heads \in SUBSET Commits
      BY <3>1, TakenFacts DEF IInv, TypeOK
    <3>4. walk'.heads \in SUBSET Commits
      BY <3>1, <3>3, AckedFacts
    <3>5. common' \in Seq(Commits) /\ \A i \in 1 .. Len(common') : common'[i] \in store
      <4>1. common \in Seq(Commits) /\ \A i \in 1 .. Len(common) : common[i] \in store
        BY DEF IInv, TypeOK, Owns
      <4>2. CASE common' = Append(common, c)
        BY <3>3, <4>1, <4>2, AppendFacts
      <4> QED
        BY <3>1, <4>1, <4>2
    <3>6. TypeOK'
      BY <1>1, <2>0, <3>4, <3>5 DEF IInv, TypeOK, Followed, ours, call, request, wire
    <3>7. Owns'
      BY <1>1, <3>5 DEF IInv, Owns, Sent, ours
    <3>8. Serving' /\ Answering' /\ Packing' /\ Importing'
      BY <1>1, <2>0 DEF IInv, Serving, Answering, Packing, Importing, Imports, Followed, ours, call,
         request, wire
    <3> QED
      BY <1>2, <3>6, <3>7, <3>8 DEF IInv
  <2>3. UNCHANGED <<walk, common>> \/
           \E c \in walk.heads \cap store :
                /\ walk' = Acked(Taken(walk, c), c) \/ walk' = Taken(walk, c)
                /\ common' = Append(common, c) \/ common' = common
    <3>1. PICK c \in walk.heads :
             CASE c \notin store -> pc' = "raise" /\ UNCHANGED <<walk, common>>
               [] c \in store /\ c \in Theirs ->
                    walk' = Acked(Taken(walk, c), c) /\ common' = Append(common, c) /\ UNCHANGED pc
               [] OTHER -> walk' = Taken(walk, c) /\ UNCHANGED <<common, pc>>
      BY <1>4 DEF FindCommonRevisions
    <3> QED
      BY <3>1
  <2> QED
    BY <2>1, <2>2, <2>3
<1> QED
    BY <1>3, <1>4

LEMMA ImportKeeps == IInv /\ Import => IInv'
<1> SUFFICES ASSUME IInv, Import PROVE IInv'
    OBVIOUS
<1>1. PICK n \in todo :
         /\ todo' = todo \ {n}
         /\ IF result[n] = None THEN UNCHANGED <<refs, tracking, unsent>>
            ELSE IF op = "pull"
            THEN /\ refs' = [refs EXCEPT ![into] = result[n]] /\ UNCHANGED tracking
                 /\ unsent' = Marked(<<"refs", into>>, n \in moved)
            ELSE /\ tracking' = [tracking EXCEPT ![n] = result[n]] /\ UNCHANGED refs
                 /\ unsent' = Marked(<<"tracking", n>>, n \in moved)
    BY DEF Import
<1>2. /\ pc = "import"
      /\ UNCHANGED <<store, theirs, call, pc, walk, result, wants, pack, wire, served, bounds,
                     disturbed, outcome>>
    BY DEF Import
<1>3. n \in Refs /\ n \in Imports /\ (result[n] \in store \cup {None} \/ n \in moved)
    BY <1>2 DEF IInv, TypeOK, Importing
<1>4. /\ n \in Refs /\ into \in Refs /\ result \in RefValues
      /\ op = "pull" => result[n] \in Branch
    BY <1>2 DEF IInv, TypeOK, Importing, Followed, Imports
<1>5. refs \in [Refs -> Branch] /\ tracking \in RefValues /\ Owns /\ TypeOK
    BY DEF IInv, TypeOK
<1>6. /\ refs' \in [Refs -> Branch] /\ tracking' \in RefValues
      /\ Sent("refs", refs)' \cup Sent("tracking", tracking)' \subseteq store
  <2>1. CASE result[n] = None
    BY <1>1, <1>5, <2>1 DEF Sent, Owns
  <2>2. CASE result[n] # None /\ op = "pull"
    <3>1. refs' \in [Refs -> Branch] /\ tracking' = tracking
      BY <1>1, <1>4, <1>5, <2>2
    <3>2. result[n] \in store \/ n \in moved
      BY <1>3, <2>2
    <3>a. /\ refs' = [refs EXCEPT ![into] = result[n]]
          /\ unsent' = Marked(<<"refs", into>>, n \in moved)
      BY <1>1, <2>2
    <3>3. Sent("refs", refs)' \cup Sent("tracking", tracking)' \subseteq store
      <4>1. /\ unsent' \cup {<<"refs", into>>} = unsent \cup {<<"refs", into>>}
            /\ result[n] \in store \/ <<"refs", into>> \in unsent'
        BY <3>2, <3>a DEF Marked
      <4> QED
        BY <1>4, <1>5, <3>1, <3>a, <4>1, MarkedFacts
    <3> QED
      BY <1>5, <3>1, <3>3
  <2>3. CASE result[n] # None /\ op # "pull"
    <3>1. /\ refs' = refs /\ tracking' = [tracking EXCEPT ![n] = result[n]]
          /\ unsent' = Marked(<<"tracking", n>>, n \in moved) /\ tracking' \in RefValues
      BY <1>1, <1>4, <1>5, <2>3 DEF RefValues
    <3>2. result[n] \in store \/ n \in moved
      BY <1>3, <2>3
    <3>3. Sent("refs", refs)' = Sent("refs", refs)
      BY <3>1 DEF Sent, Marked
    <3>4. ASSUME NEW m \in Refs, <<"tracking", m>> \notin unsent' PROVE tracking'[m] \in store \cup {None}
      <4>1. CASE m = n
        BY <1>5, <3>1, <3>2, <3>4, <4>1 DEF Marked, RefValues
      <4>2. CASE m # n
        <5>1. <<"tracking", m>> \notin unsent /\ tracking'[m] = tracking[m]
          BY <1>5, <3>1, <3>4, <4>2 DEF Marked, RefValues
        <5> QED
          BY <1>5, <5>1 DEF Owns, Sent
      <4> QED
        BY <4>1, <4>2
    <3>5. Sent("tracking", tracking)' \subseteq store
      BY <3>4 DEF Sent
    <3> QED
      BY <1>5, <3>1, <3>3, <3>5 DEF Owns
  <2> QED
    BY <2>1, <2>2, <2>3
<1>7. TypeOK'
    BY <1>1, <1>2, <1>6 DEF IInv, TypeOK, Followed, call, request, served, wire
<1>8. Owns' /\ Asking'
    BY <1>2, <1>6 DEF IInv, Owns, Asking, served, wire
<1>9. Serving' /\ Answering' /\ Packing' /\ Importing'
    BY <1>1, <1>2 DEF IInv, Serving, Answering, Packing, Importing, Imports, Followed, call, request,
       served, wire
<1> QED
    BY <1>7, <1>8, <1>9 DEF IInv

-----------------------------------------------------------------------------
(* The server                                                              *)

LEMMA AdvertiseKeeps == IInv /\ Advertise => IInv'
<1> SUFFICES ASSUME IInv, Advertise PROVE IInv'
    OBVIOUS
<1>1. /\ server = "advertise" /\ down' = Append(down, [kind |-> "refs", refs |-> theirs])
      /\ server' = (IF via = "http" THEN "off" ELSE "wants")
      /\ UNCHANGED <<ours, theirs, call, client, up, common, base, bounds, disturbed, outcome>>
    BY DEF Advertise
<1>2. pc = "refs" /\ down = <<>> /\ common = <<>>
    BY <1>1 DEF IInv, Serving
<1>3. Followed(theirs) /\ [kind |-> "refs", refs |-> theirs] \in Answers
    BY LineFacts DEF IInv, TypeOK, Followed
<1>4. /\ down' \in Seq(Answers) /\ Len(down') = 1
      /\ down'[1] = [kind |-> "refs", refs |-> theirs]
    BY <1>1, <1>2, <1>3, NoLines, AppendFacts
<1>5. TypeOK'
    BY <1>1, <1>4 DEF IInv, TypeOK, Followed, ours, call, request, client
<1>6. Owns' /\ Asking' /\ Serving' /\ Packing' /\ Importing'
    BY <1>1, <1>2 DEF IInv, Owns, Sent, Asking, Serving, Packing, Importing, Imports, Followed, ours, call, request, client
<1>7. (\A i \in 1 .. Len(down) : down[i].kind = "refs" /\ Followed(down[i].refs))'
    BY <1>1, <1>3, <1>4 DEF Followed, call, request
<1>8. Answering'
    BY <1>1, <1>2, <1>4, <1>7 DEF Answering, client
<1> QED
    BY <1>5, <1>6, <1>8 DEF IInv

LEMMA ReadWantsKeeps == IInv /\ ReadWants => IInv'
<1> SUFFICES ASSUME IInv, ReadWants PROVE IInv'
    OBVIOUS
<1>1. /\ server = "wants" /\ up # <<>> /\ up' = Tail(up)
      /\ UNCHANGED <<ours, theirs, call, client, down, common, base, bounds, disturbed, outcome>>
    BY DEF ReadWants
<1>2. /\ Head(up) = up[1] /\ up[1] \in Requests /\ Len(up) \in Nat \ {0}
      /\ up' \in Seq(Requests) /\ Len(up') = Len(up) - 1
      /\ \A i \in 1 .. Len(up') : up'[i] = up[i + 1] /\ i + 1 \in 1 .. Len(up)
    BY <1>1, TailFacts DEF IInv, TypeOK
<1>3. server' \in {"off", "haves"} /\ (server' = "haves" => asked' = wants)
    BY <1>1, <1>2 DEF IInv, Asking, ReadWants
<1>4. pc \notin {"idle", "refs", "open", "common"}
    BY <1>1 DEF IInv, Serving
<1>5. ~(via = "http" /\ pc \in {"head", "peek"}) /\ common = <<>>
    BY <1>1 DEF IInv, Serving
<1>6. pc # "data"
    BY <1>1 DEF IInv, Answering
<1>7. TypeOK'
    BY <1>1, <1>2, <1>3 DEF IInv, TypeOK, Followed, ours, call, request, client
<1>8. Asking'
    BY <1>1, <1>2 DEF IInv, Asking, ours, client
<1>9. Owns' /\ Serving' /\ Packing' /\ Importing'
    BY <1>1, <1>3, <1>4, <1>5 DEF IInv, Owns, Sent, Serving, Packing, Enough, Importing, Imports, Followed,
       ours, call, request, client
<1>10. Answering'
    BY <1>1, <1>3, <1>4, <1>6 DEF IInv, Answering, OnlyAcks, Data, Continues, call, request, client
<1> QED
    BY <1>7, <1>8, <1>9, <1>10 DEF IInv

LEMMA ReadHaveKeeps == IInv /\ ReadHave => IInv'
<1> SUFFICES ASSUME IInv, ReadHave PROVE IInv'
    OBVIOUS
<1> DEFINE c == Head(up).sha
           here == c \in Theirs
           answered == CASE acks = "single" -> here /\ common = <<>>
                         [] acks = "multi" -> here \/ base
                         [] OTHER -> here
<1>1. /\ server = "haves" /\ up # <<>> /\ Head(up).kind = "have" /\ up' = Tail(up)
      /\ common' = (IF here THEN Append(common, c) ELSE common)
      /\ down' = (IF answered THEN Append(down, Ack(c, acks = "single")) ELSE down)
      /\ UNCHANGED <<ours, theirs, call, client, server, asked, bounds, disturbed, outcome>>
    BY DEF ReadHave
<1>2. /\ Head(up) = up[1] /\ up[1] \in Requests /\ Len(up) \in Nat \ {0}
      /\ up' \in Seq(Requests) /\ Len(up') = Len(up) - 1
      /\ \A i \in 1 .. Len(up') : up'[i] = up[i + 1] /\ i + 1 \in 1 .. Len(up)
    BY <1>1, TailFacts DEF IInv, TypeOK
<1>3. c \in Commits /\ c \in store
    BY <1>1, <1>2, RequestFacts DEF IInv, Asking
<1>4. acks = "single" => (answered <=> here /\ common = <<>>)
    OBVIOUS
<1>5. /\ pc \notin {"idle", "refs", "open", "common", "again"}
      /\ ~(via = "http" /\ pc \in {"head", "peek"})
    BY <1>1 DEF IInv, Serving
<1> HIDE DEF c, here, answered
<1>6. Ack(c, acks = "single") \in Answers /\ Ack(c, acks = "single").kind = "ack"
      /\ (Ack(c, acks = "single").last <=> acks = "single")
    BY <1>3, LineFacts DEF Ack
<1>7. /\ common' \in Seq(Commits) /\ (common' = <<>> <=> common = <<>> /\ ~here)
      /\ \A i \in 1 .. Len(common') : common'[i] \in store
  <2>1. common \in Seq(Commits) /\ \A i \in 1 .. Len(common) : common[i] \in store
    BY DEF IInv, TypeOK, Owns
  <2>2. CASE here
    BY <1>1, <1>3, <2>1, <2>2, AppendFacts
  <2> QED
    BY <1>1, <2>1, <2>2
<1>8. /\ down' \in Seq(Answers) /\ Len(down) \in Nat
      /\ Len(down') = (IF answered THEN Len(down) + 1 ELSE Len(down))
      /\ \A i \in 1 .. Len(down) : down'[i] = down[i]
      /\ answered => down' # <<>> /\ down'[Len(down) + 1] = Ack(c, acks = "single")
      /\ ~answered => down' = down
  <2>1. down \in Seq(Answers)
    BY DEF IInv, TypeOK
  <2>2. CASE answered
    BY <1>1, <1>6, <2>1, <2>2, AppendFacts
  <2> QED
    BY <1>1, <2>1, <2>2
<1>9. TypeOK'
    BY <1>1, <1>2, <1>7, <1>8 DEF IInv, TypeOK, Followed, ours, call, request, client
<1>10. Asking'
    BY <1>1, <1>2 DEF IInv, Asking, ours, client
<1>11. Owns' /\ Importing'
    BY <1>1, <1>7 DEF IInv, Owns, Sent, Importing, Imports, Followed, ours, call, request, client
<1>12. Serving'
    BY <1>1, <1>5 DEF IInv, Serving, ours, call, request, client
<1>13. CASE pc \in {"head", "peek", "tail"}
  <2>1. OnlyAcks /\ (acks = "single" => (common = <<>> <=> down = <<>>))
    BY <1>1, <1>13 DEF IInv, Answering
  <2>2. acks = "single" /\ answered => Len(down) = 0
    BY <1>4, <2>1, NoLines
  <2>3. OnlyAcks'
    BY <1>1, <1>6, <1>8, <2>1, <2>2 DEF OnlyAcks, call, request
  <2>4. acks = "single" => (common' = <<>> <=> down' = <<>>)
    BY <1>4, <1>7, <1>8, <2>1
  <2>5. \A i \in 1 .. Len(down') :
           /\ down'[i].kind = "ack"
           /\ \A j \in 1 .. i - 1 : Continues(down'[j])
    <3> SUFFICES ASSUME NEW i \in 1 .. Len(down')
                 PROVE  down'[i].kind = "ack" /\ \A j \in 1 .. i - 1 : Continues(down'[j])
      OBVIOUS
    <3>1. down'[i].kind = "ack"
      BY <2>3 DEF OnlyAcks
    <3>2. ASSUME NEW j \in 1 .. i - 1 PROVE Continues(down'[j])
      <4>1. j \in 1 .. Len(down') /\ Len(down') > 1
        BY <1>8
      <4> QED
        BY <2>3, <4>1 DEF OnlyAcks, Continues
    <3> QED
      BY <3>1, <3>2
  <2>6. Answering'
    BY <1>1, <1>13, <2>3, <2>4, <2>5 DEF Answering, Data, call, request, client
  <2>7. Packing'
    BY <1>1, <1>13, <2>5 DEF IInv, Packing, client
  <2> QED
    BY <1>9, <1>10, <1>11, <1>12, <2>6, <2>7 DEF IInv
<1>14. CASE pc = "data"
  <2>1. acks = "single" /\ common # <<>> /\ down = <<>>
    BY <1>1, <1>14 DEF IInv, Answering
  <2>2. down' = <<>> /\ common' # <<>>
    BY <1>4, <1>7, <1>8, <2>1
  <2>3. Answering'
    BY <1>1, <1>14, <2>1, <2>2, NoLines DEF Answering, call, request, client
  <2>4. Packing'
    BY <1>1, <1>14, <2>2, NoLines DEF IInv, Packing, Enough, ours, client
  <2> QED
    BY <1>9, <1>10, <1>11, <1>12, <2>3, <2>4 DEF IInv
<1>15. CASE pc \in {"store", "import", "raise"}
  <2>1. Answering' /\ Packing'
    BY <1>1, <1>15 DEF IInv, Answering, Packing, Enough, ours, client
  <2> QED
    BY <1>9, <1>10, <1>11, <1>12, <2>1 DEF IInv
<1> QED
    BY <1>5, <1>13, <1>14, <1>15 DEF IInv, TypeOK

\* What the server says at the end: is there one more answer, and then the pack.
Final == IF common # <<>> /\ acks = "single" THEN 0 ELSE 1

Reply(objects) ==
    LastAnswer \o <<[kind |-> "pack", shas |-> objects], [kind |-> "flush"]>>

LEMMA ReplyFacts ==
    ASSUME TypeOK, NEW objects \in SUBSET Objects
    PROVE  /\ Reply(objects) \in Seq(Answers) /\ Len(Reply(objects)) = Final + 2
           /\ Final = 1 => /\ Reply(objects)[1].kind \in {"ack", "nak"}
                           /\ ~Continues(Reply(objects)[1])
           /\ Reply(objects)[Final + 1] = [kind |-> "pack", shas |-> objects]
           /\ Reply(objects)[Final + 2] = [kind |-> "flush"]
<1> DEFINE packed == <<[kind |-> "pack", shas |-> objects], [kind |-> "flush"]>>
<1>1. /\ LastAnswer \in Seq(Answers) /\ Len(LastAnswer) = Final
      /\ Final = 1 => LastAnswer[1].kind \in {"ack", "nak"} /\ ~Continues(LastAnswer[1])
  <2>1. CASE common = <<>>
    <3>1. LastAnswer = <<[kind |-> "nak"]>> /\ [kind |-> "nak"] \in Answers
      BY <2>1, LineFacts DEF LastAnswer
    <3> QED
      BY <2>1, <3>1, OneLine DEF Continues, Final
  <2>2. CASE common # <<>> /\ acks = "single"
    BY <2>2, NoLines DEF LastAnswer, Final
  <2>3. CASE common # <<>> /\ acks # "single"
    <3>1. LastAnswer = <<Ack(common[Len(common)], TRUE)>>
      BY <2>3 DEF LastAnswer
    <3>2. common[Len(common)] \in Commits
      BY <2>3, EmptySeq DEF TypeOK
    <3>3. Ack(common[Len(common)], TRUE) \in Answers
      BY <3>2, LineFacts DEF Ack
    <3> QED
      BY <2>3, <3>1, <3>3, OneLine DEF Continues, Ack, Final
  <2> QED
    BY <2>1, <2>2, <2>3
<1>2. /\ packed \in Seq(Answers) /\ Len(packed) = 2
      /\ packed[1] = [kind |-> "pack", shas |-> objects] /\ packed[2] = [kind |-> "flush"]
  <2>1. [kind |-> "pack", shas |-> objects] \in Answers /\ [kind |-> "flush"] \in Answers
    BY LineFacts
  <2> QED
    BY <2>1
<1>3. Reply(objects) = LastAnswer \o packed
    BY DEF Reply
<1> HIDE DEF packed
<1>4. Final \in {0, 1}
    BY DEF Final
<1>5. /\ Reply(objects) \in Seq(Answers) /\ Len(Reply(objects)) = Final + 2
      /\ \A i \in 1 .. Final + 2 :
            Reply(objects)[i] = IF i <= Final THEN LastAnswer[i] ELSE packed[i - Final]
  <2>1. LastAnswer \in Seq(Answers) /\ packed \in Seq(Answers)
    BY <1>1, <1>2
  <2>2. /\ LastAnswer \o packed \in Seq(Answers)
        /\ Len(LastAnswer \o packed) = Len(LastAnswer) + Len(packed)
        /\ \A i \in 1 .. Len(LastAnswer) + Len(packed) : (LastAnswer \o packed)[i] =
              IF i <= Len(LastAnswer) THEN LastAnswer[i] ELSE packed[i - Len(LastAnswer)]
    BY <2>1, ConcatProperties
  <2> QED
    BY <1>1, <1>2, <1>3, <1>4, <2>2
<1>6. Final = 1 => Reply(objects)[1] = LastAnswer[1]
    BY <1>5
<1>7. /\ Reply(objects)[Final + 1] = packed[1]
      /\ Reply(objects)[Final + 2] = packed[2]
  <2>1. CASE Final = 0
    BY <1>5, <2>1
  <2>2. CASE Final = 1
    BY <1>5, <2>2
  <2> QED
    BY <1>4, <2>1, <2>2
<1> QED
    BY <1>1, <1>2, <1>5, <1>6, <1>7

\* The last answer and the pack follow the acknowledgements.
LEMMA ReadDoneKeeps == IInv /\ ReadDone => IInv'
<1> SUFFICES ASSUME IInv, ReadDone PROVE IInv'
    OBVIOUS
<1> DEFINE objects == MissingObjects(Theirs, CommonSet, asked)
           reply == IF objects = {} THEN <<>> ELSE Reply(objects)
<1>1. /\ server = "haves" /\ up # <<>> /\ Head(up).kind = "done" /\ up' = Tail(up)
      /\ server' = "off" /\ down' = down \o reply
      /\ UNCHANGED <<ours, theirs, call, client, common, base, asked, bounds, disturbed, outcome>>
    BY DEF ReadDone, Close, Reply
<1>2. /\ Head(up) = up[1] /\ up[1] \in Requests /\ Len(up) \in Nat \ {0}
      /\ up' \in Seq(Requests) /\ Len(up') = Len(up) - 1
      /\ \A i \in 1 .. Len(up') : up'[i] = up[i + 1] /\ i + 1 \in 1 .. Len(up)
    BY <1>1, TailFacts DEF IInv, TypeOK
<1>3. pc \in {"tail", "data", "store", "import", "raise"}
    BY <1>1, <1>2 DEF IInv, TypeOK, Asking, Serving
<1>4. asked = wants
    BY <1>1 DEF IInv, Serving
<1>5. objects \in SUBSET Objects /\ Enough(objects)
    BY <1>4, MissingIsEnough, CommonIsHeld
<1>6. /\ reply \in Seq(Answers)
      /\ objects = {} => reply = <<>>
      /\ objects # {} =>
            /\ Len(reply) = Final + 2
            /\ Final = 1 => reply[1].kind \in {"ack", "nak"} /\ ~Continues(reply[1])
            /\ reply[Final + 1] = [kind |-> "pack", shas |-> objects]
            /\ reply[Final + 2] = [kind |-> "flush"]
  <2>1. TypeOK
    BY DEF IInv
  <2> QED
    BY <1>5, <2>1, ReplyFacts, NoLines DEF Reply
<1> HIDE DEF objects, reply
<1>9. /\ down' \in Seq(Answers) /\ Len(down) \in Nat /\ Len(down') = Len(down) + Len(reply)
      /\ \A i \in 1 .. Len(down') : down'[i] = IF i <= Len(down) THEN down[i] ELSE reply[i - Len(down)]
  <2>1. down \in Seq(Answers)
    BY DEF IInv, TypeOK
  <2> QED
    BY <1>1, <1>6, <2>1, ConcatProperties
<1>10. TypeOK'
    BY <1>1, <1>2, <1>9 DEF IInv, TypeOK, Followed, ours, call, request, client
<1>11. Asking'
    BY <1>1, <1>2 DEF IInv, Asking, ours, client
<1>12. Owns' /\ Serving' /\ Importing'
    BY <1>1, <1>3 DEF IInv, Owns, Sent, Serving, Importing, Imports, Followed, ours, call, request, client
<1>13. \A v : Enough(v) => Enough(v)'
    BY <1>1 DEF Enough, ours, client
<1>14. CASE objects = {} /\ pc \in {"tail", "data"}
  <2>1. down' = down
    BY <1>1, <1>6, <1>14, ConcatEmptySeq DEF IInv, TypeOK
  <2>2. Answering' /\ Packing'
    BY <1>1, <1>13, <1>14, <2>1 DEF IInv, Answering, Packing, call, request, client
  <2> QED
    BY <1>10, <1>11, <1>12, <2>2 DEF IInv
<1>15. CASE objects # {} /\ pc = "tail"
  <2>1. /\ OnlyAcks /\ (acks = "single" => (common = <<>> <=> down = <<>>))
        /\ \A i \in 1 .. Len(down) : down[i].kind = "ack"
    BY <1>1, <1>15 DEF IInv, Answering, OnlyAcks
  <2>2. Final \in {0, 1}
    BY DEF Final
  <2>3. CASE Final = 1
    <3>1. \A j \in 1 .. Len(down) : Continues(down[j])
      <4>1. CASE acks = "single"
        BY <2>1, <2>3, <4>1, NoLines DEF Final
      <4>2. CASE acks # "single"
        BY <2>1, <4>2 DEF OnlyAcks, Continues
      <4> QED
        BY <4>1, <4>2
    <3>2. /\ Len(down') = Len(down) + 3
          /\ \A j \in 1 .. Len(down) : down'[j] = down[j]
          /\ down'[Len(down) + 1].kind \in {"ack", "nak"} /\ ~Continues(down'[Len(down) + 1])
          /\ down'[Len(down) + 2] = [kind |-> "pack", shas |-> objects]
          /\ down'[Len(down) + 3] = [kind |-> "flush"]
      <4>1. /\ Len(reply) = 3 /\ reply[1].kind \in {"ack", "nak"} /\ ~Continues(reply[1])
            /\ reply[2] = [kind |-> "pack", shas |-> objects] /\ reply[3] = [kind |-> "flush"]
        BY <1>6, <1>15, <2>3
      <4>2. Len(down') = Len(down) + 3 /\ \A j \in 1 .. Len(down) : down'[j] = down[j]
        BY <1>9, <4>1
      <4>3. \A k \in {1, 2, 3} : down'[Len(down) + k] = reply[k]
        BY <1>9, <4>1
      <4>4. /\ down'[Len(down) + 1] = reply[1] /\ down'[Len(down) + 2] = reply[2]
            /\ down'[Len(down) + 3] = reply[3]
        BY <4>3
      <4> QED
        BY <4>1, <4>2, <4>4
    <3>3. \A i \in 1 .. Len(down') : \/ i \in 1 .. Len(down) \/ i = Len(down) + 1
                                     \/ i = Len(down) + 2 \/ i = Len(down) + 3
      BY <1>9, <3>2
    <3>4. ASSUME NEW i \in 1 .. Len(down')
          PROVE  /\ down'[i].kind \in {"ack", "nak", "pack", "flush"}
                 /\ Data(down'[i]) <=> i = Len(down) + 2 \/ i = Len(down) + 3
                 /\ ~Continues(down'[i]) => i > Len(down)
      BY <1>9, <2>1, <3>1, <3>2, <3>3 DEF Data
    <3>5. ASSUME NEW i \in 1 .. Len(down')
          PROVE  /\ Data(down'[i]) => i > 1 /\ ~Continues(down'[i - 1])
                 /\ \A j \in 1 .. i - 1 : ~Continues(down'[j]) => Data(down'[i])
      <4>1. Data(down'[i]) => i > 1 /\ ~Continues(down'[i - 1])
        <5>1. CASE i = Len(down) + 2
          BY <1>9, <3>2, <5>1
        <5>2. CASE i = Len(down) + 3
          <6>1. down'[i - 1].kind = "pack"
            BY <1>9, <3>2, <5>2
          <6> QED
            BY <1>9, <5>2, <6>1 DEF Continues
        <5> QED
          BY <3>4, <5>1, <5>2
      <4>2. ASSUME NEW j \in 1 .. i - 1, ~Continues(down'[j]) PROVE Data(down'[i])
        <5>1. j \in 1 .. Len(down') /\ j < i
          BY <1>9
        <5>2. j > Len(down)
          BY <3>4, <4>2, <5>1
        <5> QED
          BY <1>9, <3>3, <3>4, <5>1, <5>2
      <4> QED
        BY <4>1, <4>2
    <3>6. ASSUME NEW i \in 1 .. Len(down')
          PROVE  /\ down'[i].kind = "pack" => Enough(down'[i].shas)
                 /\ down'[i].kind = "flush" => i # 1 /\ down'[i - 1].kind = "pack"
      <4>1. CASE i = Len(down) + 2
        BY <1>5, <3>2, <4>1
      <4>2. CASE i = Len(down) + 3
        BY <1>9, <3>2, <4>2
      <4>3. CASE i \notin {Len(down) + 2, Len(down) + 3}
        BY <3>4, <4>3 DEF Data
      <4> QED
        BY <4>1, <4>2, <4>3
    <3>7. Answering'
      BY <1>1, <1>15, <3>4, <3>5 DEF Answering, Data, Continues, call, request, client
    <3>8. Packing'
      BY <1>1, <1>13, <1>15, <3>6 DEF IInv, Packing, client
    <3> QED
      BY <1>10, <1>11, <1>12, <3>7, <3>8 DEF IInv
  <2>4. CASE Final = 0
    <3>1. Len(down) = 1 /\ down[1].kind = "ack" /\ ~Continues(down[1])
      <4>1. acks = "single" /\ common # <<>>
        BY <2>4 DEF Final
      <4>2. down # <<>> /\ down \in Seq(Answers)
        BY <2>1, <4>1 DEF IInv, TypeOK
      <4>3. Len(down) = 1
        <5>1. Len(down) \in Nat \ {0} /\ Len(down) <= 1
          BY <2>1, <4>1, <4>2, EmptySeq DEF OnlyAcks
        <5> QED
          BY <5>1
      <4> QED
        BY <2>1, <4>1, <4>3 DEF OnlyAcks, Continues
    <3>2. /\ Len(down') = 3 /\ down'[1] = down[1]
          /\ down'[2] = [kind |-> "pack", shas |-> objects] /\ down'[3] = [kind |-> "flush"]
      BY <1>6, <1>9, <1>15, <2>4, <3>1
    <3>3. \A i \in 1 .. Len(down') : i \in {1, 2, 3}
      BY <3>2
    <3>4. ASSUME NEW i \in 1 .. Len(down')
          PROVE  /\ down'[i].kind \in {"ack", "nak", "pack", "flush"}
                 /\ Data(down'[i]) => i > 1 /\ ~Continues(down'[i - 1])
                 /\ \A j \in 1 .. i - 1 : ~Continues(down'[j]) => Data(down'[i])
      <4>1. CASE i = 1
        BY <3>1, <3>2, <4>1 DEF Data
      <4>2. CASE i = 2
        BY <3>1, <3>2, <4>2 DEF Data
      <4>3. CASE i = 3
        BY <3>1, <3>2, <4>3 DEF Data, Continues
      <4> QED
        BY <3>3, <4>1, <4>2, <4>3
    <3>5. ASSUME NEW i \in 1 .. Len(down')
          PROVE  /\ down'[i].kind = "pack" => Enough(down'[i].shas)
                 /\ down'[i].kind = "flush" => i # 1 /\ down'[i - 1].kind = "pack"
      BY <1>5, <3>1, <3>2, <3>3
    <3>6. Answering'
      BY <1>1, <1>15, <3>4 DEF Answering, Data, Continues, call, request, client
    <3>7. Packing'
      BY <1>1, <1>13, <1>15, <3>5 DEF IInv, Packing, client
    <3> QED
      BY <1>10, <1>11, <1>12, <3>6, <3>7 DEF IInv
  <2> QED
    BY <2>2, <2>3, <2>4
<1>16. CASE objects # {} /\ pc = "data"
  <2>1. acks = "single" /\ common # <<>> /\ down = <<>>
    BY <1>1, <1>16 DEF IInv, Answering
  <2>2. Final = 0 /\ Len(down) = 0
    BY <2>1, NoLines DEF Final
  <2>3. /\ Len(down') = 2
        /\ down'[1] = [kind |-> "pack", shas |-> objects] /\ down'[2] = [kind |-> "flush"]
    BY <1>6, <1>9, <1>16, <2>2
  <2>4. \A i \in 1 .. Len(down') : i \in {1, 2}
    BY <2>3
  <2>5. ASSUME NEW i \in 1 .. Len(down')
        PROVE  /\ Data(down'[i])
               /\ down'[i].kind = "pack" => Enough(down'[i].shas)
               /\ down'[i].kind = "flush" => i # 1 /\ down'[i - 1].kind = "pack"
    BY <1>5, <2>3, <2>4 DEF Data
  <2>6. Answering'
    BY <1>1, <1>16, <2>5 DEF Answering, Data, client
  <2>7. Packing'
    BY <1>1, <1>13, <1>16, <2>5 DEF IInv, Packing, client
  <2> QED
    BY <1>10, <1>11, <1>12, <2>6, <2>7 DEF IInv
<1>17. CASE pc \in {"store", "import", "raise"}
  <2>1. Answering' /\ Packing'
    BY <1>1, <1>13, <1>17 DEF IInv, Answering, Packing, client
  <2> QED
    BY <1>10, <1>11, <1>12, <2>1 DEF IInv
<1> QED
    BY <1>3, <1>14, <1>15, <1>16, <1>17

-----------------------------------------------------------------------------
(* The rest of the world                                                   *)

LEMMA PushedKeeps == IInv /\ Pushed => IInv'
<1> SUFFICES ASSUME IInv, Pushed PROVE IInv'
    OBVIOUS
<1>1. PICK n \in Refs, c \in Commits :
         theirs[n] \in Parents[c] /\ theirs' = [theirs EXCEPT ![n] = c]
    BY DEF Pushed
<1>2. /\ disturbed' = TRUE
      /\ UNCHANGED <<ours, call, client, wire, served, fetches, faults, outcome>>
    BY DEF Pushed
<1>3. Followed(theirs)'
    BY <1>1, <1>2 DEF IInv, TypeOK, Followed, RefValues, Branch, Objects, call, request
<1>4. TypeOK'
    BY <1>2, <1>3 DEF IInv, TypeOK, ours, call, request, client, wire, served
<1>5. Owns' /\ Asking' /\ Serving'
    BY <1>2 DEF IInv, Owns, Sent, Asking, Serving, ours, call, request, client, wire, served
<1>6. Answering' /\ Packing'
    BY <1>2 DEF IInv, Answering, OnlyAcks, Followed, Packing, Enough,
       ours, call, request, client, wire, served
<1>7. Importing'
    BY <1>2 DEF IInv, Importing, Imports, Followed, ours, call, request, client
<1> QED
    BY <1>4, <1>5, <1>6, <1>7 DEF IInv

LEMMA CutKeeps == IInv /\ Cut => IInv'
<1> SUFFICES ASSUME IInv, Cut PROVE IInv'
    OBVIOUS
<1>1. /\ \/ pc \in {"refs", "tail", "data"}
         \/ pc \in {"head", "peek"} /\ via = "stream"
      /\ disturbed' = TRUE /\ down' \in {down, <<>>} /\ pc' \in {pc, "raise"}
      /\ up' = <<>> /\ server' = "off"
      /\ UNCHANGED <<ours, theirs, call, walk, result, wants, pack, todo, common, base, asked, outcome>>
    BY DEF Cut
<1>2. TypeOK'
    BY <1>1, NoLines DEF IInv, TypeOK, Followed, ours, call, request
<1>3. Owns' /\ Asking' /\ Serving' /\ Importing'
    BY <1>1, NoLines DEF IInv, Owns, Sent, Asking, Serving, Importing, Imports, Followed, ours, call, request
<1>4. CASE down' = down
  <2>1. Answering' /\ Packing'
    BY <1>1, <1>4 DEF IInv, Answering, OnlyAcks, Followed, Data, Continues, Packing, Enough, ours, call, request
  <2> QED
    BY <1>2, <1>3, <2>1 DEF IInv
<1>5. CASE down' = <<>>
  <2>1. OnlyAcks'
    BY <1>5, NoLines DEF OnlyAcks
  <2>2. Answering' /\ Packing'
    BY <1>1, <1>5, <2>1, NoLines DEF IInv, Answering, Packing, Enough, ours
  <2> QED
    BY <1>2, <1>3, <2>2 DEF IInv
<1> QED
    BY <1>1, <1>4, <1>5

-----------------------------------------------------------------------------
LEMMA Steps == IInv /\ [Next]_vars => IInv'
<1> SUFFICES ASSUME IInv, [Next]_vars PROVE IInv'
    OBVIOUS
<1>1. CASE Start
    BY <1>1, StartKeeps
<1>2. CASE ClientStep
    BY <1>2, ReadRefsKeeps, HaveKeeps, NotReadableKeeps, ReadAnswerKeeps, DoneKeeps, ReadTailKeeps,
       ReadDataKeeps, HangupKeeps, RaiseKeeps, StoreKeeps, OpenLocalKeeps, FindCommonRevisionsKeeps,
       ReadAgainKeeps, ImportKeeps, FinishKeeps DEF ClientStep
<1>3. CASE ServerStep
    BY <1>3, AdvertiseKeeps, ReadWantsKeeps, ReadHaveKeeps, ReadDoneKeeps DEF ServerStep
<1>4. CASE Pushed \/ Cut \/ Kill
    BY <1>4, PushedKeeps, CutKeeps, KillKeeps
<1>5. CASE UNCHANGED vars
  <2>1. UNCHANGED <<ours, theirs, call, client, wire, served, disturbed, outcome>>
    BY <1>5 DEF vars
  <2>2. TypeOK' /\ Asking' /\ Serving'
    BY <2>1 DEF IInv, TypeOK, Followed, Asking, Serving, ours, call, request, client, wire, served
  <2>3. Owns'
    BY <2>1, OwnsKept DEF IInv, served
  <2>4. Answering' /\ Packing'
    BY <2>1 DEF IInv, Answering, OnlyAcks, Followed, Packing, Enough, ours, call, request, client,
       wire, served
  <2>5. Importing'
    BY <2>1 DEF IInv, Importing, Imports, Followed, ours, call, request, client
  <2> QED
    BY <2>2, <2>3, <2>4, <2>5 DEF IInv
<1> QED
    BY <1>1, <1>2, <1>3, <1>4, <1>5 DEF Next

(* In every reachable state: what client and server have sent each other   *)
(* is what the other one is to read where it is, every have is of a commit *)
(* the client has, and every pack on its way is enough for what it asked.  *)
THEOREM Invariance == Spec => []IInv
<1> QED
    BY InitialStates, Steps, PTL DEF Spec

(* On any history, with any refs on both sides and however the lines are   *)
(* cut, delayed or followed by pushes and kills: what a ref of the client  *)
(* names is in its store, with all that it needs, unless it was set to a   *)
(* value the client did not ask for: what moved between the two readings   *)
(* of a local fetch, and HEAD after a pull into another branch.            *)
THEOREM RefsStayComplete == Spec => []RefsComplete
<1>1. IInv => RefsComplete
  <2> SUFFICES ASSUME IInv PROVE RefsComplete
    OBVIOUS
  <2>1. /\ Complete(store) /\ store \in SUBSET Objects
        /\ Sent("refs", refs) \cup Sent("tracking", tracking) \subseteq store
    BY DEF IInv, TypeOK, Owns
  <2> QED
    BY <2>1, ClosureFacts DEF RefsComplete
<1> QED
    BY <1>1, Invariance, PTL

-----------------------------------------------------------------------------
(* A call nobody disturbs                                                  *)

\* Such a call was one before each of its steps.
LEMMA SoundBefore ==
    ASSUME ClientStep \/ ServerStep \/ Pushed \/ Cut \/ Kill, Sound'
    PROVE  /\ Sound /\ ~Pushed /\ ~Cut /\ ~Kill
           /\ ReadAgain \/ UNCHANGED <<theirs, call>>
<1>1. ~Pushed /\ ~Cut /\ ~Kill
    BY DEF Sound, Pushed, Cut, Kill
<1>2. UNCHANGED <<theirs, request, disturbed>>
    BY <1>1 DEF ClientStep, ServerStep, ReadRefs, Have, NotReadable, ReadAnswer, Done, ReadTail,
       ReadData, Hangup, Raise, Store, OpenLocal, FindCommonRevisions, ReadAgain, Import, Finish,
       Advertise, ReadWants, ReadHave, ReadDone, call
<1>3. ReadAgain \/ UNCHANGED moved
    BY <1>1 DEF ClientStep, ServerStep, ReadRefs, Have, NotReadable, ReadAnswer, Done, ReadTail,
       ReadData, Hangup, Raise, Store, OpenLocal, FindCommonRevisions, Import, Finish,
       Advertise, ReadWants, ReadHave, ReadDone, call
<1> QED
    BY <1>1, <1>2, <1>3 DEF Sound, request, call

LEMMA GoingStarts == Start /\ Sound' => Going'
<1> SUFFICES ASSUME Start, Sound' PROVE Going'
    OBVIOUS
<1>1. /\ pc' = (IF via' = "local" THEN "open" ELSE "refs")
      /\ server' = (IF via' = "local" THEN "off" ELSE "advertise")
      /\ outcome' = None /\ moved' = {} /\ walk'.heads = Told(refs) /\ UNCHANGED <<ours, theirs>>
      /\ ready' = (Told(refs) \subseteq store /\ (op' = "pull" => theirs[target'] \notin store))
    BY DEF Start, DiscoverReferences
<1>2. Told(refs) \subseteq store' /\ (op' = "pull" => theirs'[target'] \notin store')
    BY <1>1 DEF Sound, ours
<1> QED
    BY <1>1, <1>2, FetchAssumption DEF Going

LEMMA GoingReadRefs ==
    ASSUME IInv, Sound, Going, ReadRefs, UNCHANGED <<theirs, call>>
    PROVE  Going'
<1>1. /\ pc = "refs" /\ down # <<>> /\ result' = ReadPktRefs(Head(down))
      /\ UNCHANGED <<store, server, asked, outcome, walk>> /\ UNCHANGED <<op, target, into, via, moved>>
    BY DEF ReadRefs, ours, served, call, request
<1>2. /\ up = <<>> /\ via # "local" /\ server # "advertise" /\ TypeOK
    BY <1>1 DEF IInv, Serving
<1>3. /\ down = <<[kind |-> "refs", refs |-> theirs]>> /\ asked = Told(theirs)
      /\ server = IF via = "http" THEN "off" ELSE "wants"
    BY <1>1, <1>2 DEF Going
<1>4. ReadPktRefs(Head(down)) = theirs
    BY <1>3 DEF ReadPktRefs
<1>5. ~(op = "pull" /\ theirs[target] = None)
    BY DEF Sound
<1>6. CASE Wants(theirs) = {}
  <2>1. pc' = "import"
    BY <1>4, <1>5, <1>6 DEF ReadRefs
  <2> QED
    BY <1>1, <1>4, <2>1 DEF Going
<1>7. CASE Wants(theirs) # {}
  <2>1. /\ pc' = "head" /\ wants' = Wants(theirs)
        /\ up' = Append(up, [kind |-> "want", shas |-> Wants(theirs)])
    BY <1>4, <1>5, <1>7 DEF ReadRefs
  <2>2. up' # <<>> /\ up'[1].kind = "want"
    BY <1>2, <2>1
  <2>3. Wants(theirs) \subseteq Told(theirs)
    BY <1>2, <1>5, WantsFacts DEF TypeOK, Followed
  <2>4. Wants(theirs) \cap store = {}
    BY <1>1 DEF Wants, Going
  <2>5. Told(theirs)' = Told(theirs)
    BY DEF Told
  <2> QED
    BY <1>1, <1>2, <1>3, <1>4, <1>7, <2>1, <2>2, <2>3, <2>4, <2>5 DEF Going, TypeOK
<1> QED
    BY <1>6, <1>7

LEMMA GoingNegotiates ==
    ASSUME IInv, Sound, Going, Have \/ NotReadable \/ ReadAnswer \/ Done, UNCHANGED <<theirs, call>>
    PROVE  Going'
<1>1. Told(theirs)' = Told(theirs) /\ TypeOK
    BY DEF Told, IInv
<1>0. UNCHANGED <<op, target, into, via, moved>>
    BY DEF call, request
<1>2. CASE Have
  <2>1. PICK c \in walk.heads :
             IF c \in store
             THEN /\ walk' = Taken(walk, c) /\ up' = Append(up, [kind |-> "have", sha |-> c])
                  /\ pc' = "peek"
             ELSE pc' = "raise" /\ UNCHANGED <<walk, up>>
    BY <1>2 DEF Have
  <2>a. pc = "head" /\ UNCHANGED <<store, wants, server, asked, outcome, result>>
    BY <1>2 DEF Have, ours, served
  <2>b. walk.heads \subseteq store
    BY <2>a DEF Going
  <2>c. pc' = "peek" /\ walk' = Taken(walk, c) /\ up' = Append(up, [kind |-> "have", sha |-> c])
    BY <2>1, <2>b
  <2>2. /\ [kind |-> "have", sha |-> c] \in Requests /\ up \in Seq(Requests)
        /\ walk'.heads \subseteq store
    BY <1>1, <2>1, <2>b, <2>c, LineFacts, TakenFacts DEF TypeOK, IInv
  <2>3. up # <<>> => up' # <<>> /\ up'[1] = up[1]
    BY <2>2, <2>c, AppendFacts, EmptySeq
  <2> QED
    BY <1>0, <1>1, <2>2, <2>3, <2>a, <2>c DEF Going
<1>3. CASE NotReadable
    BY <1>1, <1>3 DEF Going, NotReadable, ours, call, request, served, wire
<1>4. CASE ReadAnswer
  <2>1. down # <<>> /\ down \in Seq(Answers) /\ pc = "peek"
    BY <1>1, <1>4 DEF ReadAnswer, TypeOK
  <2>2. Head(down) = down[1] /\ Len(down) \in Nat \ {0}
    BY <2>1, TailFacts
  <2>3. ~down[1].last /\ down[1].kind = "ack"
    BY <2>1, <2>2 DEF IInv, Answering, OnlyAcks, Sound
  <2>4. /\ pc' = "head" /\ UNCHANGED <<store, wants, up, server, asked, outcome, result>>
        /\ walk'.heads \subseteq walk.heads
    BY <1>4, <2>2, <2>3, AckedFacts DEF ReadAnswer, ours, served
  <2> QED
    BY <1>0, <1>1, <2>1, <2>4 DEF Going
<1>5. CASE Done
  <2>1. /\ pc = "head" /\ pc' = "tail" /\ up' = up \o <<[kind |-> "done"]>>
        /\ server' = (IF via = "http" THEN "wants" ELSE server)
        /\ UNCHANGED <<store, wants, asked, outcome, result>>
    BY <1>5 DEF Done, LastLine, SmartRequest, ours
  <2>2. <<[kind |-> "done"]>> \in Seq(Requests) /\ up \in Seq(Requests)
    BY <1>1, LineFacts DEF TypeOK
  <2>3. up # <<>> => up' # <<>> /\ up'[1] = up[1]
    <3> SUFFICES ASSUME up # <<>> PROVE up' # <<>> /\ up'[1] = up[1]
      OBVIOUS
    <3>1. Len(up) \in Nat \ {0} /\ Len(<<[kind |-> "done"]>>) = 1
      BY <2>2, EmptySeq
    <3>2. Len(up') = Len(up) + 1 /\ up'[1] = up[1]
      BY <2>1, <2>2, <3>1, ConcatProperties
    <3> QED
      BY <3>1, <3>2, NoLines
  <2>4. via \in {"stream", "http"}
    BY <1>1, <2>1 DEF IInv, Serving, TypeOK, Sound
  <2> QED
    BY <1>0, <1>1, <2>1, <2>3, <2>4 DEF Going
<1> QED
    BY <1>2, <1>3, <1>4, <1>5

\* What is left when a line that is not the flush at the end is taken away.
LEMMA GoingReads ==
    ASSUME IInv, Sound, Going, ReadTail \/ ReadData, UNCHANGED <<theirs, call>>
    PROVE  Going'
<1>1. /\ Told(theirs)' = Told(theirs) /\ pc \in {"tail", "data"}
      /\ down # <<>> /\ down \in Seq(Answers) /\ down' = Tail(down)
      /\ UNCHANGED <<store, wants, up, server, asked, outcome, result>>
      /\ UNCHANGED <<op, target, into, via, moved>>
    BY DEF Told, ReadTail, ReadData, IInv, TypeOK, ours, served, call, request
<1>2. /\ Head(down) = down[1] /\ Len(down) \in Nat \ {0}
      /\ Len(down') = Len(down) - 1 /\ \A i \in 1 .. Len(down') : down'[i] = down[i + 1]
    BY <1>1, TailFacts
<1>3. pc' \in {"tail", "data"} => down[1].kind # "flush"
  <2>1. CASE pc = "tail"
    BY <1>2, <2>1 DEF IInv, Answering, Data
  <2>2. CASE pc = "data"
    BY <1>2, <2>2 DEF ReadData, ReadTail
  <2> QED
    BY <1>1, <2>1, <2>2
<1>4. pc' \in {"tail", "data"} /\ server = "off" =>
         down' # <<>> /\ down'[Len(down')].kind = "flush"
  <2> SUFFICES ASSUME pc' \in {"tail", "data"}, server = "off"
               PROVE  down' # <<>> /\ down'[Len(down')].kind = "flush"
    OBVIOUS
  <2>1. down[Len(down)].kind = "flush" /\ Len(down) # 1
    BY <1>1, <1>3 DEF Going
  <2>2. Len(down') \in 1 .. Len(down') /\ Len(down') + 1 = Len(down)
    BY <1>2, <2>1
  <2> QED
    BY <1>2, <2>1, <2>2, NoLines
<1>5. pc' \in {"tail", "data", "store"}
  <2>1. CASE ReadTail
    BY <2>1 DEF ReadTail
  <2>2. CASE ReadData
    <3>1. Data(down[1])
      BY <1>2, <2>2 DEF IInv, Answering, ReadData
    <3> QED
      BY <1>2, <2>2, <3>1 DEF ReadData, Data
  <2> QED
    BY <2>1, <2>2
<1> QED
    BY <1>1, <1>4, <1>5 DEF Going

LEMMA GoingEnds ==
    ASSUME IInv, Sound, Going, UNCHANGED <<theirs, call>>,
           Hangup \/ Raise \/ Store \/ OpenLocal \/ FindCommonRevisions \/ Import \/ Finish
    PROVE  Going'
<1>0. UNCHANGED <<op, target, into, via, moved>>
    BY DEF call, request
<1>1. CASE Hangup
    BY <1>1 DEF Hangup, Going
<1>2. CASE Raise
    BY <1>2 DEF Raise, Going
<1>3. CASE Store
  <2>1. pc = "store" /\ pc' \in {"again", "import"} /\ UNCHANGED <<outcome, result>>
    BY <1>3 DEF Store
  <2> QED
    BY <1>0, <2>1, FetchAssumption DEF Going
<1>4. CASE OpenLocal
  <2>1. /\ pc = "open" /\ pc' \in {"again", "common"} /\ outcome' = outcome
        /\ result' = theirs /\ UNCHANGED <<walk, store>>
    BY <1>4 DEF OpenLocal, Sound, ours
  <2> QED
    BY <1>0, <2>1, FetchAssumption DEF Going
<1>5. CASE FindCommonRevisions
  <2>1. pc = "common" /\ UNCHANGED <<outcome, result, store>> /\ walk.heads \subseteq store
    BY <1>5 DEF FindCommonRevisions, Going, ours
  <2>2. CASE walk.heads = {}
    <3>1. pc' = "store"
      BY <1>5, <2>2 DEF FindCommonRevisions
    <3> QED
      BY <1>0, <2>1, <3>1, FetchAssumption DEF Going
  <2>3. CASE walk.heads # {}
    <3>1. PICK c \in walk.heads :
             CASE c \notin store -> pc' = "raise" /\ UNCHANGED <<walk, common>>
               [] c \in store /\ c \in Theirs ->
                    walk' = Acked(Taken(walk, c), c) /\ common' = Append(common, c) /\ UNCHANGED pc
               [] OTHER -> walk' = Taken(walk, c) /\ UNCHANGED <<common, pc>>
      BY <1>5, <2>3 DEF FindCommonRevisions
    <3>2. pc' = "common" /\ (walk' = Acked(Taken(walk, c), c) \/ walk' = Taken(walk, c))
      BY <2>1, <3>1
    <3>3. Taken(walk, c).heads \subseteq store
      BY <2>1, TakenFacts DEF IInv, TypeOK
    <3>4. walk'.heads \subseteq store
      BY <3>2, <3>3, AckedFacts
    <3> QED
      BY <1>0, <2>1, <3>2, <3>4, FetchAssumption DEF Going
  <2> QED
    BY <2>2, <2>3
<1>6. CASE Import
  <2>1. pc = "import" /\ pc' = "import" /\ UNCHANGED <<outcome, result>>
    BY <1>6 DEF Import
  <2> QED
    BY <1>0, <2>1, FetchAssumption DEF Going
<1>7. CASE Finish
  <2>1. pc = "import" /\ result = theirs /\ moved = {} /\ store' = store
    BY <1>7 DEF Finish, Going
  <2>2. pc' = "idle" /\ outcome' = IF op = "pull" /\ result[into] \notin store THEN "failed" ELSE "ok"
    BY <1>7 DEF Finish, PullHead, CloneHead, End
  <2>3. op = "pull" /\ into = target => result[into] \in store
    BY <2>1 DEF IInv, Importing, Imports, Sound
  <2> QED
    BY <1>0, <2>1, <2>2, <2>3 DEF Going
<1> QED
    BY <1>1, <1>2, <1>3, <1>4, <1>5, <1>6, <1>7

LEMMA GoingReadsAgain ==
    ASSUME Sound, Going, ReadAgain
    PROVE  Going'
<1>1. /\ pc = "again" /\ pc' = "import" /\ result' = theirs /\ UNCHANGED <<outcome, theirs>>
      /\ moved' = {n \in Refs : theirs[n] # result[n]}
    BY DEF ReadAgain
<1>2. result = theirs /\ outcome = None
    BY <1>1 DEF Going
<1> QED
    BY <1>1, <1>2, FetchAssumption DEF Going

LEMMA GoingServes ==
    ASSUME IInv, Sound, Going, ServerStep, UNCHANGED <<theirs, call>>
    PROVE  Going'
<1>1. /\ Told(theirs)' = Told(theirs) /\ TypeOK
      /\ UNCHANGED <<pc, store, wants, result, walk, op, target, into, via, moved, outcome>>
    BY DEF Told, IInv, ServerStep, Advertise, ReadWants, ReadHave, ReadDone, ours, client, call, request
<1>2. CASE Advertise
  <2>1. pc = "refs" /\ down = <<>>
    BY <1>2 DEF Advertise, IInv, Serving
  <2>2. /\ down' = <<[kind |-> "refs", refs |-> theirs]>> /\ asked' = Told(theirs)
        /\ server' = IF via = "http" THEN "off" ELSE "wants"
    BY <1>2, <2>1 DEF Advertise
  <2> QED
    BY <1>1, <2>1, <2>2 DEF Going
<1>3. CASE ReadWants
  <2>1. server = "wants" /\ up # <<>> /\ up \in Seq(Requests)
    BY <1>1, <1>3 DEF ReadWants, TypeOK
  <2>2. Head(up) = up[1] /\ Len(up) \in Nat \ {0}
    BY <2>1, TailFacts
  <2>3. CASE pc \in {"head", "peek", "tail", "data"}
    <3>1. up[1].kind = "want" /\ up[1].shas = wants /\ wants \subseteq Told(theirs)
      BY <2>1, <2>2, <2>3 DEF Going, IInv, Asking
    <3>2. via = "stream" => asked = Told(theirs)
      BY <2>1, <2>3 DEF Going
    <3>3. via \in {"stream", "http"}
      BY <1>1, <2>3 DEF IInv, Serving, TypeOK, Sound
    <3>4. server' = "haves"
      BY <1>3, <2>2, <3>1, <3>2, <3>3 DEF ReadWants, Values, RequiredCapabilities, Sound
    <3>5. ~(via = "http" /\ pc \in {"head", "peek"})
      BY <2>1 DEF IInv, Serving
    <3> QED
      BY <1>1, <2>3, <3>4, <3>5 DEF Going
  <2>4. CASE pc \notin {"head", "peek", "tail", "data"}
    <3>1. pc # "refs"
      BY <2>1 DEF IInv, Serving
    <3> QED
      BY <1>1, <2>4, <3>1 DEF Going
  <2> QED
    BY <2>3, <2>4
<1>4. CASE ReadHave
  <2>1. server = "haves" /\ server' = "haves" /\ pc # "refs"
    BY <1>4 DEF ReadHave, IInv, Serving
  <2>2. ~(via = "http" /\ pc \in {"head", "peek"})
    BY <2>1 DEF IInv, Serving
  <2> QED
    BY <1>1, <2>1, <2>2 DEF Going
<1>5. CASE ReadDone
  <2>1. /\ server = "haves" /\ server' = "off" /\ pc # "refs" /\ up # <<>>
        /\ Head(up).kind = "done" /\ up \in Seq(Requests)
    BY <1>1, <1>5 DEF ReadDone, Close, IInv, Serving, TypeOK
  <2>2. pc \notin {"head", "peek"}
    <3>1. Head(up) = up[1] /\ Len(up) \in Nat \ {0}
      BY <2>1, TailFacts
    <3> QED
      BY <2>1, <3>1 DEF IInv, Asking
  <2>3. CASE pc \in {"tail", "data"}
    <3> DEFINE objects == MissingObjects(Theirs, CommonSet, asked)
    <3>1. objects \in SUBSET Objects /\ Enough(objects)
      BY <2>1, MissingIsEnough, CommonIsHeld DEF IInv, Serving
    <3>2. objects # {}
      BY <2>3, <3>1 DEF Enough, Going
    <3>3. down' = down \o Reply(objects)
      BY <1>5, <3>2 DEF ReadDone, Close, Reply
    <3> HIDE DEF objects
    <3>4. /\ Reply(objects) \in Seq(Answers) /\ Len(Reply(objects)) = Final + 2
          /\ Reply(objects)[Final + 2] = [kind |-> "flush"] /\ Final \in {0, 1}
      BY <1>1, <3>1, ReplyFacts DEF Final
    <3>5. down \in Seq(Answers) /\ Len(down) \in Nat
      BY <1>1 DEF TypeOK
    <3>6. Len(down') = Len(down) + Final + 2 /\ down'[Len(down')] = Reply(objects)[Final + 2]
      BY <3>3, <3>4, <3>5, ConcatProperties
    <3>7. down' # <<>>
      BY <3>4, <3>5, <3>6, NoLines
    <3> QED
      BY <1>1, <2>1, <2>3, <3>4, <3>6, <3>7 DEF Going
  <2>4. CASE pc \notin {"tail", "data"}
    BY <1>1, <2>1, <2>2, <2>4 DEF Going
  <2> QED
    BY <2>3, <2>4
<1> QED
    BY <1>2, <1>3, <1>4, <1>5 DEF ServerStep

LEMMA UndisturbedSteps == IInv /\ Undisturbed /\ [Next]_vars => Undisturbed'
<1> SUFFICES ASSUME IInv, Undisturbed, [Next]_vars, Sound' PROVE Going'
    BY DEF Undisturbed
<1>1. CASE Start
    BY <1>1, GoingStarts
<1>2. CASE ClientStep \/ ServerStep \/ Pushed \/ Cut \/ Kill
  <2>1. Sound /\ Going /\ ~Pushed /\ ~Cut /\ ~Kill /\ (ReadAgain \/ UNCHANGED <<theirs, call>>)
    BY <1>2, SoundBefore DEF Undisturbed
  <2>2. CASE ReadAgain
    BY <2>1, <2>2, GoingReadsAgain
  <2>3. CASE UNCHANGED <<theirs, call>> /\ ~ReadAgain
    BY <1>2, <2>1, <2>3, GoingReadRefs, GoingNegotiates, GoingReads, GoingEnds, GoingServes
       DEF ClientStep
  <2> QED
    BY <2>1, <2>2, <2>3
<1>3. CASE UNCHANGED vars
    BY <1>3 DEF Undisturbed, Sound, Going, Told, vars, ours, call, request, client, wire, served
<1> QED
    BY <1>1, <1>2, <1>3 DEF Next

(* A call that nobody disturbs does not fail, over each transport: neither *)
(* side waits for a line or reads one that is not the one it is at.  Left  *)
(* out are a server that was not told of thin packs, acknowledgements of   *)
(* two parts, a client with a branch whose commit is not there, and a pull *)
(* of what is not there, of what was there already, or into a name the     *)
(* server has nothing the client has by.                                   *)
THEOREM UndisturbedCallsSucceed == Spec => []UndisturbedSucceeds
<1>1. Init => Undisturbed
    BY DEF Init, Undisturbed, Sound
<1>2. IInv /\ Undisturbed => UndisturbedSucceeds
    BY DEF Undisturbed, Sound, Going, UndisturbedSucceeds
<1> QED
    BY <1>1, <1>2, UndisturbedSteps, Invariance, PTL DEF Spec

-----------------------------------------------------------------------------
(* Sequences without repetition                                            *)

LEMMA AppendedFacts ==
    ASSUME NEW S, NEW q \in Seq(S), NEW e \in S
    PROVE  /\ Append(q, e) \in Seq(S) /\ Len(Append(q, e)) = Len(q) + 1
           /\ ToSet(Append(q, e)) = ToSet(q) \cup {e}
           /\ e \notin ToSet(q) /\ IsInjective(q) => IsInjective(Append(q, e))
<1>1. Len(q) \in Nat /\ DOMAIN q = 1 .. Len(q) /\ DOMAIN Append(q, e) = 1 .. Len(q) + 1
  OBVIOUS
<1>2. (\A i \in 1 .. Len(q) : Append(q, e)[i] = q[i]) /\ Append(q, e)[Len(q) + 1] = e
  OBVIOUS
<1>3. ToSet(Append(q, e)) = ToSet(q) \cup {e}
  <2>1. \A i \in 1 .. Len(q) + 1 : i \in 1 .. Len(q) \/ i = Len(q) + 1
    BY <1>1
  <2>2. \A i \in 1 .. Len(q) : i \in 1 .. Len(q) + 1
    BY <1>1
  <2>3. Len(q) + 1 \in 1 .. Len(q) + 1
    BY <1>1
  <2> QED
    BY <1>1, <1>2, <2>1, <2>2, <2>3 DEF ToSet
<1>4. ASSUME e \notin ToSet(q), IsInjective(q),
             NEW i \in 1 .. Len(q) + 1, NEW j \in 1 .. Len(q) + 1, Append(q, e)[i] = Append(q, e)[j]
      PROVE  i = j
  <2>1. CASE i \in 1 .. Len(q) /\ j \in 1 .. Len(q)
    BY <1>1, <1>2, <1>4, <2>1 DEF IsInjective
  <2>2. CASE i = Len(q) + 1 /\ j \in 1 .. Len(q)
    BY <1>1, <1>2, <1>4, <2>2 DEF ToSet
  <2>3. CASE j = Len(q) + 1 /\ i \in 1 .. Len(q)
    BY <1>1, <1>2, <1>4, <2>3 DEF ToSet
  <2> QED
    BY <1>1, <2>1, <2>2, <2>3
<1>5. e \notin ToSet(q) /\ IsInjective(q) => IsInjective(Append(q, e))
  BY <1>1, <1>4 DEF IsInjective
<1> QED
  BY <1>3, <1>5

LEMMA TailIsRest ==
    ASSUME NEW S, NEW q \in Seq(S), q # <<>>
    PROVE  /\ Head(q) \in S /\ Tail(q) \in Seq(S) /\ Len(Tail(q)) = Len(q) - 1
           /\ ToSet(q) = {Head(q)} \cup ToSet(Tail(q))
           /\ IsInjective(q) => IsInjective(Tail(q)) /\ Head(q) \notin ToSet(Tail(q))
<1>1. /\ Len(q) \in Nat \ {0} /\ DOMAIN q = 1 .. Len(q) /\ Head(q) = q[1]
      /\ Tail(q) \in Seq(S) /\ DOMAIN Tail(q) = 1 .. Len(q) - 1 /\ Len(Tail(q)) = Len(q) - 1
  OBVIOUS
<1>2. \A i \in 1 .. Len(q) - 1 : Tail(q)[i] = q[i + 1] /\ i + 1 \in 1 .. Len(q) /\ i + 1 # 1
  BY <1>1
<1>3. \A i \in 1 .. Len(q) : i = 1 \/ (i - 1 \in 1 .. Len(q) - 1 /\ (i - 1) + 1 = i)
  BY <1>1
<1>4. 1 \in 1 .. Len(q)
  BY <1>1
<1>5. ToSet(q) = {Head(q)} \cup ToSet(Tail(q))
  <2>1. ToSet(Tail(q)) \subseteq ToSet(q)
    BY <1>1, <1>2 DEF ToSet
  <2>2. Head(q) \in ToSet(q)
    BY <1>1, <1>4 DEF ToSet
  <2>3. ASSUME NEW i \in 1 .. Len(q), i # 1 PROVE q[i] \in ToSet(Tail(q))
    <3>1. Tail(q)[i - 1] = q[i] /\ i - 1 \in DOMAIN Tail(q)
      BY <1>1, <1>2, <1>3, <2>3
    <3> QED
      BY <3>1 DEF ToSet
  <2> QED
    BY <1>1, <2>1, <2>2, <2>3 DEF ToSet
<1>6. IsInjective(q) => IsInjective(Tail(q))
  <2> SUFFICES ASSUME IsInjective(q), NEW i \in 1 .. Len(q) - 1, NEW j \in 1 .. Len(q) - 1,
                      Tail(q)[i] = Tail(q)[j]
               PROVE  i = j
    BY <1>1 DEF IsInjective
  <2>1. i + 1 = j + 1
    BY <1>1, <1>2 DEF IsInjective
  <2> QED
    BY <2>1
<1>7. IsInjective(q) => Head(q) \notin ToSet(Tail(q))
  BY <1>1, <1>2, <1>4 DEF IsInjective, ToSet
<1> QED
  BY <1>1, <1>5, <1>6, <1>7

-----------------------------------------------------------------------------
(* The turns of a revision walk                                            *)

\* What a walk is called with
Asked(arg) ==
    /\ arg.include \in SUBSET Commits /\ arg.exclude \in SUBSET Commits
    /\ arg.since \in Nat /\ arg.until \in Int /\ arg.clock \in [Commits -> 0 .. LastTime]

LEMMA NewestIsThere ==
    ASSUME NEW arg, Asked(arg), NEW S \in SUBSET Commits, S # {}
    PROVE  Newest(arg, S) \in S /\ \A d \in S : arg.clock[d] <= arg.clock[Newest(arg, S)]
<1> DEFINE T == {LastTime - arg.clock[c] : c \in S}
<1>1. LastTime \in Nat /\ \A c \in S : arg.clock[c] \in 0 .. LastTime
  BY WalkAssumption DEF Asked
<1>2. T \in SUBSET Nat /\ T # {}
  BY <1>1
<1> HIDE DEF T
<1>3. PICK m \in T : \A n \in T : m <= n
  BY <1>2, LeastNumber
<1>4. PICK c \in S : m = LastTime - arg.clock[c]
  BY <1>3 DEF T
<1>5. ASSUME NEW d \in S PROVE arg.clock[d] <= arg.clock[c]
  <2>1. LastTime - arg.clock[c] <= LastTime - arg.clock[d]
    BY <1>3, <1>4 DEF T
  <2> QED
    BY <1>1, <2>1
<1> QED
  BY <1>5 DEF Newest

LEMMA ParentsAreCommits == DOMAIN Parents = Commits /\ \A c \in Commits : Parents[c] \subseteq Commits
    BY GraphAssumption

LEMMA AncestorFacts ==
    ASSUME NEW heads \in SUBSET Commits
    PROVE  /\ heads \subseteq Ancestors(heads) /\ Ancestors(heads) \subseteq Commits
           /\ \A c \in Ancestors(heads) : Parents[c] \subseteq Ancestors(heads)
           /\ \A A \in SUBSET Commits :
                 heads \subseteq A /\ (\A c \in A : Parents[c] \subseteq A) => Ancestors(heads) \subseteq A
<1>1. /\ \A c \in heads : c \in Before[c] /\ Before[c] \subseteq Commits
      /\ \A c \in heads : \A d \in Before[c] : Parents[d] \subseteq Before[c]
  BY BeforeFacts
<1>2. ASSUME NEW A \in SUBSET Commits, heads \subseteq A, \A c \in A : Parents[c] \subseteq A,
             NEW c \in heads
      PROVE  Before[c] \subseteq A
  <2>1. Before[c] = Reached(Parents, {c})
    BY DEF Before, BeforeBy
  <2>2. A \in SUBSET DOMAIN Parents /\ {c} \subseteq A
    BY <1>2, ParentsAreCommits
  <2> QED
    BY <1>2, <2>1, <2>2, ReachedIsLeast
<1> QED
  BY <1>1, <1>2 DEF Ancestors, AncestorsIn

LEMMA ExcludeFacts ==
    ASSUME NEW c \in Commits, NEW excluded \in SUBSET Commits, NEW seen \in SUBSET Commits
    PROVE  /\ excluded \subseteq ExcludeParents(c, excluded, seen)
           /\ ExcludeParents(c, excluded, seen) \subseteq Commits
           /\ Parents[c] \subseteq ExcludeParents(c, excluded, seen)
           /\ \A x \in ExcludeParents(c, excluded, seen) :
                 x \in seen \ excluded => Parents[x] \subseteq ExcludeParents(c, excluded, seen)
           /\ \A A \in SUBSET Commits :
                 excluded \subseteq A /\ c \in A /\ (\A x \in A : Parents[x] \subseteq A)
                   => ExcludeParents(c, excluded, seen) \subseteq A
<1> DEFINE S == SUBSET Commits
           More(B) == B \cup {p \in UNION {Parents[d] : d \in B} : p \notin excluded /\ p \in seen}
           u == [B \in S |-> More(B)]
           IsBehind(h) == h = [n \in Nat |-> IF n = 0 THEN {c} ELSE More(h[n - 1])]
           f == CHOOSE behind : IsBehind(behind)
<1>1. ExcludeParents(c, excluded, seen) = excluded \cup UNION {Parents[d] : d \in f[Cardinality(Commits)]}
  BY DEF ExcludeParents
<1>2. u \in [S -> S] /\ {c} \in S
  BY ParentsAreCommits
<1>3. PICK e \in [Nat -> S] : Iterates(e, {c}, u)
  <2> HIDE DEF S, u
  <2> QED
    BY <1>2, Iteration
<1>4. ASSUME NEW n \in Nat, n # 0 PROVE u[e[n - 1]] = More(e[n - 1])
  <2>1. n - 1 \in Nat
    BY <1>4
  <2>2. e[n - 1] \in S
    BY <1>3, <2>1
  <2> QED
    BY <1>4, <2>2
<1>5. IsBehind(e)
  <2> HIDE DEF u, More
  <2> QED
    BY <1>3, <1>4 DEF Iterates
<1>6. IsBehind(f)
  <2> HIDE DEF IsBehind
  <2> QED
    BY <1>5
<1> HIDE DEF f
<1>7. f[0] = {c} /\ \A n \in Nat : f[n + 1] = More(f[n])
  <2> HIDE DEF More
  <2>1. f[0] = {c}
    BY <1>6
  <2>2. ASSUME NEW n \in Nat PROVE f[n + 1] = More(f[n])
    <3>1. n + 1 \in Nat /\ n + 1 # 0 /\ (n + 1) - 1 = n
      OBVIOUS
    <3> QED
      BY <1>6, <3>1
  <2> QED
    BY <2>1, <2>2
<1>8. ASSUME NEW A, c \in A, \A B \in SUBSET A : More(B) \subseteq A
      PROVE  \A n \in Nat : f[n] \subseteq A
  <2> DEFINE J == {n \in Nat : f[n] \subseteq A}
  <2>1. 0 \in J
    BY <1>7, <1>8
  <2>2. ASSUME NEW n \in Nat, n \in J PROVE n + 1 \in J
    <3> HIDE DEF More
    <3> QED
      BY <1>7, <1>8, <2>2
  <2> HIDE DEF J
  <2>3. Nat \subseteq J
    BY <2>1, <2>2, Counting
  <2> QED
    BY <2>3 DEF J
<1>9. \A n \in Nat : f[n] \in S
  <2>1. \A B \in SUBSET Commits : More(B) \subseteq Commits
    BY ParentsAreCommits
  <2> QED
    BY <1>8, <2>1
<1> DEFINE N == Cardinality(Commits)
           E == ExcludeParents(c, excluded, seen)
<1>10. IsFiniteSet(Commits) /\ N \in Nat
  BY WalkAssumption, FS_CardinalityType
<1>11. More(f[N]) = f[N]
  <2>1. Growing(f, u)
    BY <1>7, <1>9 DEF Growing
  <2>2. f = [n \in Nat |-> f[n]]
    BY <1>6
  <2>3. f \in [Nat -> SUBSET Commits]
    BY <1>9, <2>2
  <2>4. u[f[N]] = f[N]
    <3> HIDE DEF u
    <3> QED
      BY <1>10, <2>1, <2>3, GrowsToTheEnd
  <2> QED
    BY <1>9, <1>10, <2>4
<1>12. \A n \in Nat : c \in f[n]
  <2> DEFINE J == {n \in Nat : c \in f[n]}
  <2>1. 0 \in J
    BY <1>7
  <2>2. ASSUME NEW n \in Nat, n \in J PROVE n + 1 \in J
    BY <1>7, <2>2
  <2> HIDE DEF J
  <2>3. Nat \subseteq J
    BY <2>1, <2>2, Counting
  <2> QED
    BY <2>3 DEF J
<1>13. c \in f[N] /\ f[N] \in S
  BY <1>9, <1>10, <1>12
<1>14. ASSUME NEW x \in E, x \in seen \ excluded PROVE Parents[x] \subseteq E
  <2>1. x \in f[N]
    BY <1>1, <1>11, <1>14
  <2> QED
    BY <1>1, <2>1
<1>15. ASSUME NEW A \in SUBSET Commits, excluded \subseteq A, c \in A, \A x \in A : Parents[x] \subseteq A
       PROVE  E \subseteq A
  <2>1. f[N] \subseteq A
    BY <1>8, <1>10, <1>15
  <2> QED
    BY <1>1, <1>15, <2>1
<1>16. excluded \subseteq E /\ E \subseteq Commits /\ Parents[c] \subseteq E
  BY <1>1, <1>13, ParentsAreCommits
<1> QED
  BY <1>14, <1>15, <1>16

\* The fields of a state of the walk
Fields(s) ==
    /\ s.pq \in SUBSET Commits /\ s.seen \in SUBSET Commits /\ s.done \in SUBSET Commits
    /\ s.excluded \in SUBSET Commits /\ s.last \in SUBSET Commits
    /\ s.extra \in Int /\ s.finished \in BOOLEAN
    /\ s.outQueue \in Seq(Commits) /\ s.listed \in Seq(Commits)

\* What is in the queue once c was looked at
Queued(s, c, t) ==
    IF ~t.finished /\ c \notin s.excluded THEN Append(s.outQueue, c) ELSE s.outQueue

\* t is what a turn makes of s, with c the commit it looks at.
Turned(arg, s, c, t) ==
    /\ c \in s.pq /\ \A q \in s.pq : arg.clock[q] <= arg.clock[c]
    /\ t.done = s.done \cup {c}
    /\ t.pq = (s.pq \cup (Parents[c] \ (s.pq \cup s.done))) \ {c}
    /\ t.seen = s.seen \cup (Parents[c] \ (s.pq \cup s.done))
    /\ t.excluded = IF c \in s.excluded THEN ExcludeParents(c, s.excluded, t.seen) ELSE s.excluded
    /\ t.finished \in BOOLEAN /\ (t.finished <=> t.extra = 0)
    /\ \/ t.extra = MaxExtraCommits
       \/ /\ t.extra = s.extra - 1
          /\ (c \in s.excluded /\ t.pq \subseteq t.excluded) \/ arg.clock[c] < arg.since
    /\ t.outQueue = HandedOut(arg, s, t.excluded, Queued(s, c, t)).outQueue
    /\ t.listed = HandedOut(arg, s, t.excluded, Queued(s, c, t)).listed
    /\ t.last \in {{c}, s.last}

LEMMA TurnTurns ==
    ASSUME NEW arg, Asked(arg), NEW s, Fields(s), s.pq # {}
    PROVE  Turned(arg, s, Newest(arg, s.pq), Turn(arg, s))
<1> DEFINE c == Newest(arg, s.pq)
           t == Turn(arg, s)
<1>1. c \in s.pq /\ \A q \in s.pq : arg.clock[q] <= arg.clock[c]
  BY NewestIsThere DEF Fields
<1>2. /\ t.done = s.done \cup {c}
      /\ t.pq = (s.pq \cup (Parents[c] \ (s.pq \cup s.done))) \ {c}
      /\ t.seen = s.seen \cup (Parents[c] \ (s.pq \cup s.done))
  BY DEF Turn
<1>3. t.excluded = IF c \in s.excluded THEN ExcludeParents(c, s.excluded, t.seen) ELSE s.excluded
  BY DEF Turn
<1>4. t.finished \in BOOLEAN /\ (t.finished <=> t.extra = 0)
  <2>1. t.finished = (t.extra = 0)
    BY DEF Turn
  <2> HIDE DEF t
  <2> QED
    BY <2>1
<1>5. \/ t.extra = MaxExtraCommits
      \/ /\ t.extra = s.extra - 1
         /\ (c \in s.excluded /\ t.pq \subseteq t.excluded) \/ arg.clock[c] < arg.since
  BY DEF Turn
<1>6. Queued(s, c, t) = IF ~t.finished /\ ~(c \in s.excluded) THEN Append(s.outQueue, c) ELSE s.outQueue
  BY DEF Queued
<1>7. /\ t.outQueue = HandedOut(arg, s, t.excluded, Queued(s, c, t)).outQueue
      /\ t.listed = HandedOut(arg, s, t.excluded, Queued(s, c, t)).listed
  BY <1>6 DEF Turn
<1>8. t.last \in {{c}, s.last}
  BY DEF Turn
<1> HIDE DEF c, t
<1> QED
  BY <1>1, <1>2, <1>3, <1>4, <1>5, <1>7, <1>8 DEF Turned, c, t

\* Handing out the first of the queue loses nothing that is to be listed.
LEMMA HandedOutFacts ==
    ASSUME NEW arg, Asked(arg), NEW s, NEW excluded, NEW queue \in Seq(Commits), s.listed \in Seq(Commits),
           IsInjective(queue), IsInjective(s.listed), ToSet(queue) \cap ToSet(s.listed) = {},
           ToSet(s.listed) \subseteq InTime(arg), NEW out, out = HandedOut(arg, s, excluded, queue)
    PROVE  /\ out.outQueue \in Seq(Commits) /\ out.listed \in Seq(Commits)
           /\ IsInjective(out.outQueue) /\ IsInjective(out.listed)
           /\ ToSet(out.outQueue) \cap ToSet(out.listed) = {}
           /\ ToSet(out.listed) \subseteq InTime(arg)
           /\ ToSet(out.outQueue) \cup ToSet(out.listed) \subseteq ToSet(queue) \cup ToSet(s.listed)
           /\ \A d \in (ToSet(queue) \cup ToSet(s.listed)) \cap InTime(arg) :
                 d \in ToSet(out.outQueue) \cup ToSet(out.listed) \cup excluded
           /\ Len(queue) <= MaxExtraCommits => out.listed = s.listed
<1>1. CASE ~(Len(queue) > MaxExtraCommits)
  <2>1. out.outQueue = queue /\ out.listed = s.listed
    BY <1>1 DEF HandedOut
  <2> QED
    BY <2>1
<1>2. CASE Len(queue) > MaxExtraCommits
  <2> DEFINE c == Head(queue)
  <2>1. queue # <<>> /\ ~(Len(queue) <= MaxExtraCommits)
    BY <1>2, WalkAssumption
  <2>2. /\ c \in Commits /\ Tail(queue) \in Seq(Commits)
        /\ ToSet(queue) = {c} \cup ToSet(Tail(queue))
        /\ IsInjective(Tail(queue)) /\ c \notin ToSet(Tail(queue))
    BY <2>1, TailIsRest
  <2>3. out.outQueue = Tail(queue)
    BY <1>2 DEF HandedOut
  <2>4. CASE ShouldReturn(arg, excluded, c)
    <3>1. out.listed = Append(s.listed, c)
      BY <1>2, <2>4 DEF HandedOut
    <3>2. c \in InTime(arg) /\ c \notin ToSet(s.listed)
      BY <2>2, <2>4 DEF ShouldReturn, InTime
    <3>3. /\ out.listed \in Seq(Commits) /\ ToSet(out.listed) = ToSet(s.listed) \cup {c}
          /\ IsInjective(out.listed)
      BY <2>2, <3>1, <3>2, AppendedFacts
    <3> HIDE DEF c
    <3> QED
      BY <2>1, <2>2, <2>3, <3>2, <3>3
  <2>5. CASE ~ShouldReturn(arg, excluded, c)
    <3>1. out.listed = s.listed
      BY <1>2, <2>5 DEF HandedOut
    <3>2. c \in InTime(arg) => c \in excluded
      BY <2>2, <2>5 DEF ShouldReturn, InTime
    <3> HIDE DEF c
    <3> QED
      BY <2>1, <2>2, <2>3, <3>1, <3>2
  <2> QED
    BY <2>4, <2>5
<1> QED
  BY <1>1, <1>2

\* What was met, and what of it is done
Visited(arg, s) ==
    /\ s.seen = s.pq \cup s.done /\ s.pq \cap s.done = {}
    /\ arg.include \cup arg.exclude \subseteq s.seen
    /\ s.seen \subseteq Ancestors(arg.include \cup arg.exclude)
    /\ \A d \in s.done : Parents[d] \subseteq s.seen

\* What is excluded is so rightly; what is met and not is of the included history.
Excluding(arg, s) ==
    /\ arg.exclude \subseteq s.excluded /\ s.excluded \subseteq Ancestors(arg.exclude)
    /\ \A d \in s.done \cap s.excluded : Parents[d] \subseteq s.excluded
    /\ \A d \in s.seen \ s.excluded : d \in Ancestors(arg.include)

Entered(s) == ToSet(s.listed) \cup ToSet(s.outQueue)

\* What is done is listed or in the queue, unless it is excluded or not in time.
Listing(arg, s) ==
    /\ IsInjective(s.listed) /\ IsInjective(s.outQueue)
    /\ ToSet(s.outQueue) \cap ToSet(s.listed) = {}
    /\ ToSet(s.listed) \subseteq InTime(arg)
    /\ Entered(s) \subseteq s.done /\ Entered(s) \subseteq Ancestors(arg.include)
    /\ \A d \in s.done \cap InTime(arg) : d \in Entered(s) \cup s.excluded

\* Why it has ended; it takes a turn for each of the extra commits.
Ending(arg, s) ==
    /\ s.finished =>
          /\ s.extra = 0
          /\ s.pq \subseteq s.excluded \/ \E c \in s.done : arg.clock[c] < arg.since
    /\ s.extra >= MaxExtraCommits - Cardinality(s.done)

\* With a clock that is right commits come from young to old, and what is excluded
\* is known when they come.
Younger(arg, s) ==
    ClockIsRight(arg.clock) =>
       /\ \A d \in s.done, q \in s.pq : arg.clock[q] <= arg.clock[d]
       /\ \A e \in Ancestors(arg.exclude) : e \in s.excluded \/ \E q \in s.pq \cap s.excluded : e \in Before[q]
       /\ Entered(s) \cap Ancestors(arg.exclude) = {}

\* Of few commits none is handed out before the end.
Short(arg, s) == FewCommits(arg) => s.listed = <<>>

Sensible(arg, s) ==
    Fields(s) /\ Visited(arg, s) /\ Excluding(arg, s) /\ Listing(arg, s)
    /\ Ending(arg, s) /\ Younger(arg, s) /\ Short(arg, s)

LEMMA VisitedStep ==
    ASSUME NEW arg, Asked(arg), NEW s, Fields(s), Visited(arg, s), NEW c, NEW t, Turned(arg, s, c, t)
    PROVE  /\ Visited(arg, t) /\ c \notin s.done /\ c \in Commits
           /\ t.pq \subseteq (s.pq \ {c}) \cup Parents[c] /\ Parents[c] \subseteq t.seen
           /\ s.pq \ {c} \subseteq t.pq
<1>1. c \in s.pq /\ c \in Commits /\ c \notin s.done /\ Parents[c] \subseteq Commits
  BY ParentsAreCommits DEF Turned, Fields, Visited
<1>2. arg.include \cup arg.exclude \in SUBSET Commits
  BY DEF Asked
<1>3. Parents[c] \subseteq Ancestors(arg.include \cup arg.exclude)
  BY <1>1, <1>2, AncestorFacts DEF Visited
<1>4. /\ t.done = s.done \cup {c}
      /\ t.pq = (s.pq \cup (Parents[c] \ (s.pq \cup s.done))) \ {c}
      /\ t.seen = s.seen \cup (Parents[c] \ (s.pq \cup s.done))
  BY DEF Turned
<1>5. t.seen = t.pq \cup t.done /\ t.pq \cap t.done = {} /\ Parents[c] \subseteq t.seen
  BY <1>1, <1>4 DEF Visited
<1>6. \A d \in t.done : Parents[d] \subseteq t.seen
  BY <1>4, <1>5 DEF Visited
<1> QED
  BY <1>1, <1>3, <1>4, <1>5, <1>6 DEF Visited

LEMMA ExcludingStep ==
    ASSUME NEW arg, Asked(arg), NEW s, Fields(s), Visited(arg, s), Excluding(arg, s),
           NEW c, NEW t, Turned(arg, s, c, t)
    PROVE  /\ Excluding(arg, t) /\ s.excluded \subseteq t.excluded /\ t.excluded \in SUBSET Commits
           /\ c \in s.excluded => Parents[c] \subseteq t.excluded
<1>1. /\ Visited(arg, t) /\ c \notin s.done /\ c \in Commits /\ Parents[c] \subseteq t.seen
      /\ t.done = s.done \cup {c} /\ c \in s.seen
      /\ t.seen = s.seen \cup (Parents[c] \ (s.pq \cup s.done))
  BY VisitedStep DEF Turned, Visited
<1>2. CASE c \notin s.excluded
  <2>1. t.excluded = s.excluded
    BY <1>2 DEF Turned
  <2>2. \A d \in t.done \cap t.excluded : Parents[d] \subseteq t.excluded
    BY <1>1, <1>2, <2>1 DEF Excluding
  <2>3. c \in Ancestors(arg.include)
    BY <1>1, <1>2 DEF Excluding
  <2>4. Parents[c] \subseteq Ancestors(arg.include)
    BY <2>3, AncestorFacts DEF Asked
  <2>5. \A d \in t.seen \ t.excluded : d \in Ancestors(arg.include)
    BY <1>1, <2>1, <2>4 DEF Excluding
  <2> QED
    BY <1>2, <2>1, <2>2, <2>5 DEF Excluding, Fields
<1>3. CASE c \in s.excluded
  <2> DEFINE E == ExcludeParents(c, s.excluded, t.seen)
  <2>1. t.excluded = E
    BY <1>3 DEF Turned
  <2>2. s.excluded \in SUBSET Commits /\ t.seen \in SUBSET Commits
    BY <1>1, ParentsAreCommits DEF Fields
  <2>3. /\ s.excluded \subseteq E /\ E \subseteq Commits /\ Parents[c] \subseteq E
        /\ \A x \in E : x \in t.seen \ s.excluded => Parents[x] \subseteq E
    BY <1>1, <2>2, ExcludeFacts
  <2>4. E \subseteq Ancestors(arg.exclude)
    <3>1. /\ Ancestors(arg.exclude) \in SUBSET Commits
          /\ \A x \in Ancestors(arg.exclude) : Parents[x] \subseteq Ancestors(arg.exclude)
      BY AncestorFacts DEF Asked
    <3>2. s.excluded \subseteq Ancestors(arg.exclude) /\ c \in Ancestors(arg.exclude)
      BY <1>3 DEF Excluding
    <3> QED
      BY <1>1, <2>2, <3>1, <3>2, ExcludeFacts
  <2> HIDE DEF E
  <2>5. ASSUME NEW d \in t.done \cap t.excluded PROVE Parents[d] \subseteq t.excluded
    <3>1. CASE d = c
      BY <2>1, <2>3, <3>1
    <3>2. CASE d \in s.done /\ d \in s.excluded
      BY <2>1, <2>3, <3>2 DEF Excluding
    <3>3. CASE d \in s.done /\ d \notin s.excluded
      BY <1>1, <2>1, <2>3, <2>5, <3>3 DEF Visited
    <3> QED
      BY <1>1, <2>5, <3>1, <3>2, <3>3
  <2>6. \A d \in t.seen \ t.excluded : d \in Ancestors(arg.include)
    BY <1>1, <2>1, <2>3 DEF Excluding
  <2> QED
    BY <2>1, <2>3, <2>4, <2>5, <2>6 DEF Excluding
<1> QED
  BY <1>2, <1>3

LEMMA QueuedFacts ==
    ASSUME NEW arg, Asked(arg), NEW s, Fields(s), Visited(arg, s), Excluding(arg, s), Listing(arg, s),
           NEW c, NEW t, Turned(arg, s, c, t)
    PROVE  /\ Queued(s, c, t) \in Seq(Commits) /\ IsInjective(Queued(s, c, t))
           /\ ToSet(Queued(s, c, t)) \cap ToSet(s.listed) = {}
           /\ ToSet(s.outQueue) \subseteq ToSet(Queued(s, c, t))
           /\ ToSet(Queued(s, c, t)) \subseteq ToSet(s.outQueue) \cup {c}
           /\ c \in ToSet(Queued(s, c, t)) <=> (~t.finished /\ c \notin s.excluded)
<1>1. c \in Commits /\ c \notin s.done /\ c \notin Entered(s)
  BY VisitedStep DEF Listing
<1>2. s.outQueue \in Seq(Commits) /\ IsInjective(s.outQueue) /\ ToSet(s.outQueue) \cap ToSet(s.listed) = {}
  BY DEF Fields, Listing
<1>3. CASE ~t.finished /\ c \notin s.excluded
  <2>1. Queued(s, c, t) = Append(s.outQueue, c)
    BY <1>3 DEF Queued
  <2> QED
    BY <1>1, <1>2, <1>3, <2>1, AppendedFacts DEF Entered
<1>4. CASE ~(~t.finished /\ c \notin s.excluded)
  <2>1. Queued(s, c, t) = s.outQueue
    BY <1>4 DEF Queued
  <2> QED
    BY <1>1, <1>2, <1>4, <2>1 DEF Entered
<1> QED
  BY <1>3, <1>4

LEMMA OutFacts ==
    ASSUME NEW arg, Asked(arg), NEW s, Fields(s), Visited(arg, s), Excluding(arg, s), Listing(arg, s),
           NEW c, NEW t, Turned(arg, s, c, t)
    PROVE  /\ t.outQueue \in Seq(Commits) /\ t.listed \in Seq(Commits)
           /\ IsInjective(t.outQueue) /\ IsInjective(t.listed)
           /\ ToSet(t.outQueue) \cap ToSet(t.listed) = {}
           /\ ToSet(t.listed) \subseteq InTime(arg)
           /\ Entered(t) \subseteq ToSet(Queued(s, c, t)) \cup ToSet(s.listed)
           /\ \A d \in (ToSet(Queued(s, c, t)) \cup ToSet(s.listed)) \cap InTime(arg) :
                 d \in Entered(t) \cup t.excluded
           /\ Len(Queued(s, c, t)) <= MaxExtraCommits => t.listed = s.listed
<1> DEFINE out == HandedOut(arg, s, t.excluded, Queued(s, c, t))
<1>1. t.outQueue = out.outQueue /\ t.listed = out.listed
  BY DEF Turned
<1>2. /\ Queued(s, c, t) \in Seq(Commits) /\ IsInjective(Queued(s, c, t))
      /\ ToSet(Queued(s, c, t)) \cap ToSet(s.listed) = {}
      /\ s.listed \in Seq(Commits) /\ IsInjective(s.listed) /\ ToSet(s.listed) \subseteq InTime(arg)
  BY QueuedFacts DEF Fields, Listing
<1>3. /\ out.outQueue \in Seq(Commits) /\ out.listed \in Seq(Commits)
      /\ IsInjective(out.outQueue) /\ IsInjective(out.listed)
      /\ ToSet(out.outQueue) \cap ToSet(out.listed) = {}
      /\ ToSet(out.listed) \subseteq InTime(arg)
      /\ ToSet(out.outQueue) \cup ToSet(out.listed) \subseteq ToSet(Queued(s, c, t)) \cup ToSet(s.listed)
      /\ \A d \in (ToSet(Queued(s, c, t)) \cup ToSet(s.listed)) \cap InTime(arg) :
            d \in ToSet(out.outQueue) \cup ToSet(out.listed) \cup t.excluded
      /\ Len(Queued(s, c, t)) <= MaxExtraCommits => out.listed = s.listed
  BY <1>2, HandedOutFacts
<1> HIDE DEF out
<1> QED
  BY <1>1, <1>3 DEF Entered

LEMMA EnteredStep ==
    ASSUME NEW arg, Asked(arg), NEW s, Fields(s), Visited(arg, s), Excluding(arg, s), Listing(arg, s),
           NEW c, NEW t, Turned(arg, s, c, t)
    PROVE  /\ Entered(t) \subseteq Entered(s) \cup {c}
           /\ c \in Entered(t) => c \notin s.excluded
           /\ \A d \in Entered(s) \cap InTime(arg) : d \in Entered(t) \cup t.excluded
           /\ c \in InTime(arg) => c \in Entered(t) \cup t.excluded
<1>1. /\ ToSet(Queued(s, c, t)) \subseteq ToSet(s.outQueue) \cup {c}
      /\ ToSet(s.outQueue) \subseteq ToSet(Queued(s, c, t))
      /\ c \in ToSet(Queued(s, c, t)) <=> (~t.finished /\ c \notin s.excluded)
  BY QueuedFacts
<1>2. /\ Entered(t) \subseteq ToSet(Queued(s, c, t)) \cup ToSet(s.listed)
      /\ \A d \in (ToSet(Queued(s, c, t)) \cup ToSet(s.listed)) \cap InTime(arg) :
            d \in Entered(t) \cup t.excluded
  BY OutFacts
<1>3. c \notin Entered(s) /\ s.excluded \subseteq t.excluded
  BY VisitedStep, ExcludingStep DEF Listing
<1>4. ASSUME c \in InTime(arg), t.finished, c \notin s.excluded PROVE FALSE
  <2>1. t.extra = 0 /\ MaxExtraCommits # 0 /\ ~(c \in s.excluded)
    BY <1>4, WalkAssumption DEF Turned
  <2>2. arg.clock[c] < arg.since
    BY <2>1 DEF Turned
  <2>3. arg.clock[c] \in arg.since .. arg.until
    BY <1>4 DEF InTime
  <2>4. arg.since <= arg.clock[c] /\ arg.clock[c] \in Nat /\ arg.since \in Nat
    <3>1. c \in Commits /\ arg.clock \in [Commits -> 0 .. LastTime]
      BY VisitedStep DEF Asked
    <3> QED
      BY <2>3, <3>1 DEF Asked
  <2> QED
    BY <2>2, <2>4
<1> QED
  BY <1>1, <1>2, <1>3, <1>4 DEF Entered

LEMMA ListingStep ==
    ASSUME NEW arg, Asked(arg), NEW s, Fields(s), Visited(arg, s), Excluding(arg, s), Listing(arg, s),
           NEW c, NEW t, Turned(arg, s, c, t)
    PROVE  Listing(arg, t)
<1>1. /\ Entered(t) \subseteq Entered(s) \cup {c}
      /\ c \in Entered(t) => c \notin s.excluded
      /\ \A d \in Entered(s) \cap InTime(arg) : d \in Entered(t) \cup t.excluded
      /\ c \in InTime(arg) => c \in Entered(t) \cup t.excluded
  BY EnteredStep
<1>2. t.done = s.done \cup {c} /\ c \in s.seen /\ s.excluded \subseteq t.excluded
  BY ExcludingStep DEF Turned, Visited
<1>3. Entered(t) \subseteq t.done
  BY <1>1, <1>2 DEF Listing
<1>4. Entered(t) \subseteq Ancestors(arg.include)
  BY <1>1, <1>2 DEF Listing, Excluding
<1>5. \A d \in t.done \cap InTime(arg) : d \in Entered(t) \cup t.excluded
  BY <1>1, <1>2 DEF Listing
<1>6. /\ IsInjective(t.outQueue) /\ IsInjective(t.listed)
      /\ ToSet(t.outQueue) \cap ToSet(t.listed) = {} /\ ToSet(t.listed) \subseteq InTime(arg)
  BY OutFacts
<1> QED
  BY <1>3, <1>4, <1>5, <1>6 DEF Listing

LEMMA CommitsAreFinite ==
    ASSUME NEW S \in SUBSET Commits
    PROVE  IsFiniteSet(S) /\ Cardinality(S) \in Nat /\ Cardinality(S) <= Cardinality(Commits)
           /\ Cardinality(Commits) \in Nat
    BY WalkAssumption, FS_Subset, FS_CardinalityType

LEMMA DoneStep ==
    ASSUME NEW arg, Asked(arg), NEW s, Fields(s), Visited(arg, s), NEW c, NEW t, Turned(arg, s, c, t)
    PROVE  Cardinality(t.done) = Cardinality(s.done) + 1
           /\ Cardinality(s.done) \in Nat /\ Cardinality(t.done) \in Nat
<1>1. t.done = s.done \cup {c} /\ c \notin s.done /\ IsFiniteSet(s.done) /\ Cardinality(s.done) \in Nat
  BY VisitedStep, CommitsAreFinite DEF Turned, Fields
<1>2. Cardinality(t.done) = Cardinality(s.done) + 1
  BY <1>1, FS_AddElement
<1> QED
  BY <1>1, <1>2

LEMMA EndingStep ==
    ASSUME NEW arg, Asked(arg), NEW s, Fields(s), Visited(arg, s), Ending(arg, s),
           NEW c, NEW t, Turned(arg, s, c, t)
    PROVE  Ending(arg, t) /\ t.extra \in Int /\ t.finished \in BOOLEAN
<1>1. /\ \/ t.extra = MaxExtraCommits
         \/ /\ t.extra = s.extra - 1
            /\ (c \in s.excluded /\ t.pq \subseteq t.excluded) \/ arg.clock[c] < arg.since
      /\ t.finished <=> t.extra = 0
      /\ c \in t.done
  BY DEF Turned
<1>2. MaxExtraCommits \in Nat /\ MaxExtraCommits # 0 /\ s.extra \in Int
  BY WalkAssumption DEF Fields
<1>3. t.extra \in Int
  BY <1>1, <1>2
<1>4. t.extra >= MaxExtraCommits - Cardinality(t.done)
  <2>1. /\ Cardinality(t.done) = Cardinality(s.done) + 1
        /\ Cardinality(s.done) \in Nat /\ Cardinality(t.done) \in Nat
    BY DoneStep
  <2>2. s.extra >= MaxExtraCommits - Cardinality(s.done)
    BY DEF Ending
  <2>3. t.extra = MaxExtraCommits \/ t.extra = s.extra - 1
    BY <1>1
  <2> QED
    BY <1>2, <2>1, <2>2, <2>3
<1>5. t.finished => t.extra = 0 /\ (t.pq \subseteq t.excluded \/ \E d \in t.done : arg.clock[d] < arg.since)
  BY <1>1, <1>2
<1>6. t.finished \in BOOLEAN
  BY DEF Turned
<1> QED
  BY <1>3, <1>4, <1>5, <1>6 DEF Ending

\* With a clock that is right, what comes before a commit is older.
LEMMA OlderBefore ==
    ASSUME NEW clock \in [Commits -> 0 .. LastTime], ClockIsRight(clock), NEW q \in Commits, NEW e \in Before[q]
    PROVE  e = q \/ (e \in Commits /\ clock[e] < clock[q] /\ \E p \in Parents[q] : e \in Before[p])
<1> DEFINE A == {q} \cup {d \in Commits : clock[d] < clock[q] /\ \E p \in Parents[q] : d \in Before[p]}
<1>1. A \in SUBSET Commits /\ {q} \subseteq A
  OBVIOUS
<1>2. ASSUME NEW a \in A, NEW p \in Parents[a] PROVE p \in A
  <2>1. p \in Commits /\ clock[p] < clock[a] /\ clock[p] \in 0 .. LastTime /\ clock[a] \in 0 .. LastTime
        /\ clock[q] \in 0 .. LastTime /\ p \in Before[p]
    BY ParentsAreCommits, BeforeFacts DEF ClockIsRight
  <2>2. CASE a = q
    BY <1>2, <2>1, <2>2
  <2>3. CASE a # q
    <3>1. clock[a] < clock[q] /\ \E r \in Parents[q] : a \in Before[r]
      BY <2>3
    <3>2. clock[p] < clock[q]
      BY <2>1, <3>1, WalkAssumption
    <3>3. \E r \in Parents[q] : p \in Before[r]
      BY <3>1, BeforeFacts, ParentsAreCommits
    <3> QED
      BY <2>1, <3>2, <3>3
  <2> QED
    BY <2>2, <2>3
<1> HIDE DEF A
<1>3. Ancestors({q}) \subseteq A
  BY <1>1, <1>2, AncestorFacts
<1>4. e \in Ancestors({q})
  BY DEF Ancestors, AncestorsIn
<1> QED
  BY <1>3, <1>4 DEF A

LEMMA YoungerStep ==
    ASSUME NEW arg, Asked(arg), NEW s, Fields(s), Visited(arg, s), Excluding(arg, s), Listing(arg, s),
           Younger(arg, s), NEW c, NEW t, Turned(arg, s, c, t)
    PROVE  Younger(arg, t)
<1> SUFFICES ASSUME ClockIsRight(arg.clock)
             PROVE  /\ \A d \in t.done, q \in t.pq : arg.clock[q] <= arg.clock[d]
                    /\ \A e \in Ancestors(arg.exclude) :
                          e \in t.excluded \/ \E q \in t.pq \cap t.excluded : e \in Before[q]
                    /\ Entered(t) \cap Ancestors(arg.exclude) = {}
  BY DEF Younger
<1>1. /\ \A d \in s.done, q \in s.pq : arg.clock[q] <= arg.clock[d]
      /\ \A e \in Ancestors(arg.exclude) :
            e \in s.excluded \/ \E q \in s.pq \cap s.excluded : e \in Before[q]
      /\ Entered(s) \cap Ancestors(arg.exclude) = {}
  BY DEF Younger
<1>2. /\ c \in Commits /\ c \in s.pq /\ t.done = s.done \cup {c}
      /\ \A q \in s.pq : arg.clock[q] <= arg.clock[c]
      /\ t.pq \subseteq (s.pq \ {c}) \cup Parents[c] /\ s.pq \ {c} \subseteq t.pq
      /\ Parents[c] \subseteq t.seen /\ t.seen = t.pq \cup t.done
  BY VisitedStep DEF Turned, Visited
<1>3. \A x \in Commits : arg.clock[x] \in Nat
  BY WalkAssumption DEF Asked
<1>4. \A p \in Parents[c] : p \in Commits /\ arg.clock[p] < arg.clock[c]
  BY <1>2, ParentsAreCommits DEF ClockIsRight
<1>5. s.done \subseteq Commits /\ s.pq \subseteq Commits
  BY DEF Fields
<1>6. ASSUME NEW d \in t.done, NEW q \in t.pq PROVE arg.clock[q] <= arg.clock[d]
  <2>1. q \in Commits /\ d \in Commits /\ arg.clock[q] <= arg.clock[c]
    BY <1>2, <1>3, <1>4, <1>5
  <2>2. arg.clock[c] <= arg.clock[d]
    BY <1>1, <1>2, <1>3
  <2> QED
    BY <1>2, <1>3, <2>1, <2>2
<1>7. s.excluded \subseteq t.excluded /\ (c \in s.excluded => Parents[c] \subseteq t.excluded)
  BY ExcludingStep
<1>8. ASSUME NEW e \in Ancestors(arg.exclude), e \notin t.excluded
      PROVE  \E q \in t.pq \cap t.excluded : e \in Before[q]
  <2>1. PICK q \in s.pq \cap s.excluded : e \in Before[q]
    BY <1>1, <1>7, <1>8
  <2>2. CASE q # c
    BY <1>2, <1>7, <2>1, <2>2
  <2>3. CASE q = c
    <3>1. e # c
      BY <1>7, <1>8, <2>1, <2>3
    <3>2. PICK p \in Parents[c] : e \in Before[p]
      BY <1>2, <2>1, <2>3, <3>1, OlderBefore DEF Asked
    <3>3. p \in t.excluded
      BY <1>7, <2>1, <2>3, <3>2
    <3>4. p \notin t.done
      <4>1. p # c
        BY <1>2, <1>3, <1>4, <3>2
      <4>2. p \notin s.done
        <5>1. p \in s.done => arg.clock[c] <= arg.clock[p]
          BY <1>1, <1>2
        <5> QED
          BY <1>2, <1>3, <1>4, <3>2, <5>1
      <4> QED
        BY <1>2, <4>1, <4>2
    <3> QED
      BY <1>2, <3>2, <3>3, <3>4
  <2> QED
    BY <2>2, <2>3
<1>9. Entered(t) \cap Ancestors(arg.exclude) = {}
  <2>1. Entered(t) \subseteq Entered(s) \cup {c} /\ (c \in Entered(t) => c \notin s.excluded)
    BY EnteredStep
  <2>2. ASSUME c \in Ancestors(arg.exclude), c \notin s.excluded PROVE FALSE
    <3>1. PICK q \in s.pq \cap s.excluded : c \in Before[q]
      BY <1>1, <2>2
    <3>2. c # q /\ q \in Commits
      BY <1>5, <2>2, <3>1
    <3>3. arg.clock[c] < arg.clock[q]
      BY <3>1, <3>2, OlderBefore DEF Asked
    <3> QED
      BY <1>2, <1>3, <3>1, <3>2, <3>3
  <2> QED
    BY <1>1, <2>1, <2>2
<1> QED
  BY <1>6, <1>8, <1>9

\* A sequence without repetition is as long as the set of what is in it.
LEMMA LengthOfSet ==
    ASSUME NEW S, NEW q \in Seq(S), IsInjective(q)
    PROVE  IsFiniteSet(ToSet(q)) /\ Cardinality(ToSet(q)) = Len(q)
<1>1. Len(q) \in Nat /\ DOMAIN q = 1 .. Len(q)
  OBVIOUS
<1>2. q \in Bijection(1 .. Len(q), ToSet(q))
  <2>1. q \in [1 .. Len(q) -> ToSet(q)]
    BY <1>1 DEF ToSet
  <2>2. IsInjective(q) => \A i, j \in 1 .. Len(q) : q[i] = q[j] => i = j
    BY <1>1 DEF IsInjective
  <2>3. \A e \in ToSet(q) : \E i \in 1 .. Len(q) : q[i] = e
    BY <1>1 DEF ToSet
  <2> QED
    BY <1>1, <2>1, <2>2, <2>3 DEF Bijection, Injection, Surjection, IsInjective
<1>3. ExistsBijection(1 .. Len(q), ToSet(q))
  BY <1>2 DEF ExistsBijection
<1>4. IsFiniteSet(ToSet(q))
  BY <1>1, <1>3, FS_NatBijection
<1> QED
  BY <1>1, <1>3, <1>4, FS_CountingElements

LEMMA ShortStep ==
    ASSUME NEW arg, Asked(arg), NEW s, Fields(s), Visited(arg, s), Excluding(arg, s), Listing(arg, s),
           Short(arg, s), NEW c, NEW t, Turned(arg, s, c, t)
    PROVE  Short(arg, t)
<1> SUFFICES ASSUME FewCommits(arg) PROVE t.listed = <<>>
  BY DEF Short
<1> DEFINE A == Ancestors(arg.include \cup arg.exclude)
           q == Queued(s, c, t)
<1>1. q \in Seq(Commits) /\ IsInjective(q) /\ ToSet(q) \subseteq ToSet(s.outQueue) \cup {c}
  BY QueuedFacts
<1>2. ToSet(q) \subseteq A
  BY <1>1 DEF Listing, Entered, Visited, Turned
<1>3. A \in SUBSET Commits
  BY AncestorFacts DEF Asked
<1>4. Cardinality(ToSet(q)) <= Cardinality(A) /\ Cardinality(A) \in Nat
  BY <1>2, <1>3, CommitsAreFinite, FS_Subset
<1>5. Cardinality(A) <= MaxExtraCommits
  BY DEF FewCommits
<1>6. Len(q) = Cardinality(ToSet(q)) /\ Len(q) \in Nat /\ MaxExtraCommits \in Nat
  BY <1>1, LengthOfSet, WalkAssumption
<1>7. Len(q) <= MaxExtraCommits
  BY <1>4, <1>5, <1>6
<1> HIDE DEF q
<1>8. t.listed = s.listed
  BY <1>7, OutFacts DEF q
<1> QED
  BY <1>8 DEF Short

-----------------------------------------------------------------------------
(* The end of a revision walk                                              *)

WalkStates ==
    [pq : SUBSET Commits, seen : SUBSET Commits, done : SUBSET Commits, excluded : SUBSET Commits,
     last : SUBSET Commits, extra : Int, finished : BOOLEAN, outQueue : Seq(Commits), listed : Seq(Commits)]

IsState(s) ==
    s = [pq |-> s.pq, seen |-> s.seen, done |-> s.done, excluded |-> s.excluded, last |-> s.last,
         extra |-> s.extra, finished |-> s.finished, outQueue |-> s.outQueue, listed |-> s.listed]

LEMMA StateFields ==
    ASSUME NEW s
    PROVE  (IsState(s) /\ Fields(s)) <=> s \in WalkStates
<1> DEFINE Qs == Seq(Commits)
           Ps == SUBSET Commits
<1>1. WalkStates = [pq : Ps, seen : Ps, done : Ps, excluded : Ps, last : Ps, extra : Int,
                    finished : BOOLEAN, outQueue : Qs, listed : Qs]
  BY DEF WalkStates
<1>2. Fields(s) <=> /\ s.pq \in Ps /\ s.seen \in Ps /\ s.done \in Ps /\ s.excluded \in Ps /\ s.last \in Ps
                    /\ s.extra \in Int /\ s.finished \in BOOLEAN /\ s.outQueue \in Qs /\ s.listed \in Qs
  BY DEF Fields
<1> HIDE DEF Qs, Ps
<1>3. s \in WalkStates => IsState(s) /\ Fields(s)
  BY <1>1, <1>2 DEF IsState
<1>4. IsState(s) /\ Fields(s) => s \in WalkStates
  BY <1>1, <1>2 DEF IsState
<1> QED
  BY <1>3, <1>4

LEMMA TurnIsSensible ==
    ASSUME NEW arg, Asked(arg), NEW s, Sensible(arg, s), s.pq # {}
    PROVE  /\ Turn(arg, s) \in WalkStates /\ Sensible(arg, Turn(arg, s))
           /\ Cardinality(Turn(arg, s).done) = Cardinality(s.done) + 1
<1> DEFINE c == Newest(arg, s.pq)
           t == Turn(arg, s)
<1>1. Turned(arg, s, c, t)
  BY TurnTurns DEF Sensible
<1>2. IsState(t)
  BY DEF Turn, IsState
<1> HIDE DEF c, t
<1>3. Visited(arg, t) /\ c \in Commits
  BY <1>1, VisitedStep DEF Sensible
<1>4. Excluding(arg, t) /\ t.excluded \in SUBSET Commits
  BY <1>1, ExcludingStep DEF Sensible
<1>5. Listing(arg, t) /\ t.outQueue \in Seq(Commits) /\ t.listed \in Seq(Commits)
  BY <1>1, ListingStep, OutFacts DEF Sensible
<1>6. Ending(arg, t) /\ t.extra \in Int /\ t.finished \in BOOLEAN
  BY <1>1, EndingStep DEF Sensible
<1>7. Younger(arg, t)
  BY <1>1, YoungerStep DEF Sensible
<1>8. Short(arg, t)
  BY <1>1, ShortStep DEF Sensible
<1>9. Fields(t)
  <2>1. t.pq \in SUBSET Commits /\ t.seen \in SUBSET Commits /\ t.done \in SUBSET Commits
    BY <1>1, <1>3, ParentsAreCommits DEF Turned, Sensible, Fields
  <2>2. t.last \in SUBSET Commits
    BY <1>1, <1>3 DEF Turned, Sensible, Fields
  <2> QED
    BY <1>4, <1>5, <1>6, <2>1, <2>2 DEF Fields
<1>10. Cardinality(t.done) = Cardinality(s.done) + 1
  BY <1>1, DoneStep DEF Sensible
<1>11. t \in WalkStates
  BY <1>2, <1>9, StateFields
<1> QED
  BY <1>3, <1>4, <1>5, <1>6, <1>7, <1>8, <1>9, <1>10, <1>11 DEF Sensible, t

LEMMA BegunIsSensible ==
    ASSUME NEW arg, Asked(arg)
    PROVE  Begun(arg) \in WalkStates /\ Sensible(arg, Begun(arg)) /\ Cardinality(Begun(arg).done) = 0
<1> DEFINE b == Begun(arg)
           start == arg.include \cup arg.exclude
<1>1. /\ IsState(b) /\ b.pq = start /\ b.seen = start /\ b.done = {} /\ b.excluded = arg.exclude
      /\ b.last = {} /\ b.extra = MaxExtraCommits /\ b.finished = FALSE
      /\ b.outQueue = <<>> /\ b.listed = <<>>
  BY DEF Begun, IsState
<1>2. start \in SUBSET Commits /\ MaxExtraCommits \in Nat /\ Cardinality({}) = 0
  BY WalkAssumption, FS_EmptySet DEF Asked
<1> HIDE DEF b, start
<1>3. Fields(b)
  <2>1. <<>> \in Seq(Commits) /\ MaxExtraCommits \in Int /\ arg.exclude \in SUBSET Commits
    BY <1>2 DEF Asked
  <2> QED
    BY <1>1, <1>2, <2>1 DEF Fields
<1>4. start \subseteq Ancestors(start) /\ arg.exclude \subseteq Ancestors(arg.exclude)
      /\ arg.include \subseteq Ancestors(arg.include)
  BY <1>2, AncestorFacts DEF Asked
<1>5. Visited(arg, b)
  BY <1>1, <1>4 DEF Visited, start
<1>6. Excluding(arg, b)
  BY <1>1, <1>4 DEF Excluding, start
<1>7. ToSet(<<>>) = {} /\ IsInjective(<<>>)
  BY DEF ToSet, IsInjective
<1>8. Listing(arg, b)
  BY <1>1, <1>7 DEF Listing, Entered
<1>9. Ending(arg, b)
  BY <1>1, <1>2 DEF Ending
<1>10. Younger(arg, b)
  <2>1. \A e \in Ancestors(arg.exclude) : \E q \in b.pq \cap b.excluded : e \in Before[q]
    BY <1>1 DEF Ancestors, AncestorsIn, start
  <2> QED
    BY <1>1, <1>7, <2>1 DEF Younger, Entered
<1>11. Short(arg, b)
  BY <1>1 DEF Short
<1>12. b \in WalkStates
  BY <1>1, <1>3, StateFields
<1> QED
  BY <1>1, <1>2, <1>3, <1>5, <1>6, <1>8, <1>9, <1>10, <1>11, <1>12 DEF Sensible, b

\* What the walk lists in the end, with what is left in the queue
Flushed(arg, end) ==
    LET listed[n \in 0 .. Len(end.outQueue)] ==
          IF n = 0 THEN end.listed
          ELSE IF ShouldReturn(arg, end.excluded, end.outQueue[n])
               THEN Append(listed[n - 1], end.outQueue[n]) ELSE listed[n - 1]
    IN  listed[Len(end.outQueue)]

LEMMA FlushedFacts ==
    ASSUME NEW arg, NEW end, Fields(end), Listing(arg, end)
    PROVE  /\ Flushed(arg, end) \in Seq(Commits) /\ IsInjective(Flushed(arg, end))
           /\ ToSet(Flushed(arg, end)) =
                ToSet(end.listed) \cup {d \in ToSet(end.outQueue) : ShouldReturn(arg, end.excluded, d)}
<1> DEFINE S == Seq(Commits)
           q == end.outQueue
           Returned(d) == ShouldReturn(arg, end.excluded, d)
           g == [n \in Nat |-> [l \in S |-> IF n \in 1 .. Len(q) /\ Returned(q[n]) THEN Append(l, q[n]) ELSE l]]
           IsFlush(h) == h = [n \in 0 .. Len(q) |->
                                IF n = 0 THEN end.listed
                                ELSE IF Returned(q[n]) THEN Append(h[n - 1], q[n]) ELSE h[n - 1]]
           f == CHOOSE listed : IsFlush(listed)
<1>1. Flushed(arg, end) = f[Len(q)]
  BY DEF Flushed
<1>2. q \in Seq(Commits) /\ Len(q) \in Nat /\ end.listed \in S /\ \A i \in 1 .. Len(q) : q[i] \in Commits
  BY DEF Fields
<1> HIDE DEF q, f, Returned
<1>3. g \in [Nat -> [S -> S]]
  BY <1>2, AppendedFacts
<1>4. PICK h \in [0 .. Len(q) -> S] : IsRecursiveTo(h, Len(q), end.listed, g)
  <2> HIDE DEF S, g
  <2> QED
    BY <1>2, <1>3, RecursionTo
<1>5. ASSUME NEW n \in 0 .. Len(q), n # 0
      PROVE  g[n][h[n - 1]] = IF Returned(q[n]) THEN Append(h[n - 1], q[n]) ELSE h[n - 1]
  <2>1. n - 1 \in 0 .. Len(q) /\ n \in Nat /\ n \in 1 .. Len(q)
    BY <1>2, <1>5
  <2>2. h[n - 1] \in S
    BY <1>4, <2>1
  <2> QED
    BY <2>1, <2>2
<1>6. IsFlush(h)
  <2> HIDE DEF g
  <2> QED
    BY <1>4, <1>5 DEF IsRecursiveTo
<1>7. IsFlush(f)
  <2> HIDE DEF IsFlush
  <2> QED
    BY <1>6 DEF f
<1> DEFINE Upto(n) == {q[i] : i \in {i \in 1 .. n : Returned(q[i])}}
           Good(n) == f[n] \in S /\ IsInjective(f[n]) /\ ToSet(f[n]) = ToSet(end.listed) \cup Upto(n)
           J == {n \in Nat : n <= Len(q) => Good(n)}
<1>8. 0 \in J
  <2>1. f[0] = end.listed
    BY <1>2, <1>7
  <2>2. Upto(0) = {}
    OBVIOUS
  <2> HIDE DEF Upto, IsFlush
  <2> QED
    BY <1>2, <2>1, <2>2 DEF Listing
<1>9. ASSUME NEW n \in Nat, n \in J PROVE n + 1 \in J
  <2> SUFFICES ASSUME n + 1 <= Len(q) PROVE Good(n + 1)
    OBVIOUS
  <2>1. n + 1 \in 0 .. Len(q) /\ n + 1 # 0 /\ (n + 1) - 1 = n /\ n <= Len(q) /\ n + 1 \in 1 .. Len(q)
    BY <1>2
  <2>2. f[n + 1] = IF Returned(q[n + 1]) THEN Append(f[n], q[n + 1]) ELSE f[n]
    BY <1>7, <2>1
  <2>3. Good(n)
    BY <1>9, <2>1
  <2>4. Upto(n + 1) = Upto(n) \cup IF Returned(q[n + 1]) THEN {q[n + 1]} ELSE {}
    <3>1. \A i \in 1 .. n + 1 : i \in 1 .. n \/ i = n + 1
      OBVIOUS
    <3>2. (\A i \in 1 .. n : i \in 1 .. n + 1) /\ n + 1 \in 1 .. n + 1
      OBVIOUS
    <3> QED
      BY <3>1, <3>2
  <2>5. q[n + 1] \notin ToSet(f[n])
    <3>1. q[n + 1] \in ToSet(q) /\ q[n + 1] \notin ToSet(end.listed)
      <4>1. DOMAIN q = 1 .. Len(q)
        BY <1>2
      <4>2. q[n + 1] \in ToSet(q)
        BY <2>1, <4>1 DEF ToSet
      <4>3. ToSet(q) \cap ToSet(end.listed) = {}
        BY DEF Listing, q
      <4> QED
        BY <4>2, <4>3
    <3>2. ASSUME NEW i \in 1 .. n, q[i] = q[n + 1] PROVE FALSE
      <4>1. i \in DOMAIN q /\ n + 1 \in DOMAIN q /\ i # n + 1
        BY <1>2, <2>1
      <4> QED
        BY <3>2, <4>1 DEF Listing, IsInjective, q
    <3>3. q[n + 1] \notin Upto(n)
      BY <3>2
    <3> QED
      BY <2>3, <3>1, <3>3
  <2> HIDE DEF Upto, IsFlush, J
  <2> QED
    BY <1>2, <2>1, <2>2, <2>3, <2>4, <2>5, AppendedFacts
<1> HIDE DEF J
<1>10. Nat \subseteq J
  BY <1>8, <1>9, Counting
<1>11. Good(Len(q))
  <2>1. Len(q) \in J /\ Len(q) <= Len(q)
    BY <1>2, <1>10
  <2> HIDE DEF Good
  <2> QED
    BY <2>1 DEF J
<1>12. Upto(Len(q)) = {d \in ToSet(q) : Returned(d)}
  <2>1. DOMAIN q = 1 .. Len(q)
    BY <1>2
  <2> QED
    BY <2>1 DEF ToSet
<1> HIDE DEF Upto
<1> QED
  BY <1>1, <1>11, <1>12 DEF q, Returned

Advance(arg, s) == IF s.finished \/ s.pq = {} THEN s ELSE Turn(arg, s)

\* The walk ends within the number of turns that Log gives it.
LEMMA LogEnds ==
    ASSUME NEW arg, Asked(arg)
    PROVE  \E end : Sensible(arg, end) /\ (end.finished \/ end.pq = {}) /\ Log(arg) = Flushed(arg, end)
<1> DEFINE S == {s \in WalkStates : Sensible(arg, s)}
           step == [s \in S |-> Advance(arg, s)]
           IsTurns(h) == h = [n \in Nat |-> IF n = 0 THEN Begun(arg) ELSE Advance(arg, h[n - 1])]
           f == CHOOSE turns : IsTurns(turns)
           N == Cardinality(Commits)
<1>1. Log(arg) = Flushed(arg, f[N])
  BY DEF Log, Flushed, Advance
<1>2. step \in [S -> S] /\ Begun(arg) \in S
  BY TurnIsSensible, BegunIsSensible DEF Advance
<1>3. PICK e \in [Nat -> S] : Iterates(e, Begun(arg), step)
  <2> HIDE DEF S, step
  <2> QED
    BY <1>2, Iteration
<1>4. ASSUME NEW n \in Nat, n # 0 PROVE step[e[n - 1]] = Advance(arg, e[n - 1])
  <2>1. n - 1 \in Nat
    BY <1>4
  <2>2. e[n - 1] \in S
    BY <1>3, <2>1
  <2> QED
    BY <2>2
<1>5. IsTurns(e)
  <2> HIDE DEF step
  <2> QED
    BY <1>3, <1>4 DEF Iterates
<1>6. IsTurns(f)
  <2> HIDE DEF IsTurns
  <2> QED
    BY <1>5
<1> HIDE DEF f
<1> DEFINE Far(n) == f[n].finished \/ f[n].pq = {} \/ Cardinality(f[n].done) >= n
           J == {n \in Nat : f[n] \in S /\ Far(n)}
<1>7. 0 \in J
  <2>1. f[0] = Begun(arg)
    BY <1>6
  <2> QED
    BY <2>1, BegunIsSensible
<1>8. ASSUME NEW n \in Nat, n \in J PROVE n + 1 \in J
  <2>1. n + 1 \in Nat /\ n + 1 # 0 /\ (n + 1) - 1 = n
    OBVIOUS
  <2>2. f[n + 1] = Advance(arg, f[n])
    BY <1>6, <2>1
  <2>3. f[n] \in WalkStates /\ Sensible(arg, f[n]) /\ Far(n)
    BY <1>8
  <2>4. CASE f[n].finished \/ f[n].pq = {}
    <3>1. f[n + 1] = f[n]
      BY <2>2, <2>4 DEF Advance
    <3> HIDE DEF IsTurns
    <3> QED
      BY <2>1, <2>3, <2>4, <3>1
  <2>5. CASE ~(f[n].finished \/ f[n].pq = {})
    <3>1. f[n + 1] = Turn(arg, f[n])
      BY <2>2, <2>5 DEF Advance
    <3>2. /\ f[n + 1] \in WalkStates /\ Sensible(arg, f[n + 1])
          /\ Cardinality(f[n + 1].done) = Cardinality(f[n].done) + 1
      BY <2>3, <2>5, <3>1, TurnIsSensible
    <3>3. Cardinality(f[n].done) \in Nat
      BY <2>3, CommitsAreFinite DEF Sensible, Fields
    <3>4. Cardinality(f[n].done) >= n
      BY <2>3, <2>5
    <3>5. Cardinality(f[n + 1].done) >= n + 1
      BY <3>2, <3>3, <3>4
    <3> HIDE DEF IsTurns
    <3> QED
      BY <2>1, <3>2, <3>5
  <2> QED
    BY <2>4, <2>5
<1> HIDE DEF J
<1>9. Nat \subseteq J
  BY <1>7, <1>8, Counting
<1>10. IsFiniteSet(Commits) /\ N \in Nat
  BY WalkAssumption, FS_CardinalityType
<1>11. Sensible(arg, f[N]) /\ Far(N)
  BY <1>9, <1>10 DEF J
<1>12. ASSUME Cardinality(f[N].done) >= N PROVE f[N].pq = {}
  <2>1. f[N].done \in SUBSET Commits /\ f[N].pq \in SUBSET Commits /\ f[N].pq \cap f[N].done = {}
    BY <1>11 DEF Sensible, Fields, Visited
  <2>2. Cardinality(f[N].done) <= N /\ Cardinality(f[N].done) \in Nat
    BY <2>1, CommitsAreFinite
  <2>3. Cardinality(f[N].done) = N
    BY <1>10, <1>12, <2>2
  <2>4. f[N].done = Commits
    BY <1>10, <2>1, <2>3, FS_Subset
  <2> QED
    BY <2>1, <2>4
<1> QED
  BY <1>1, <1>11, <1>12

\* What is new is done in the end, unless the walk gave up too early.
LEMMA NewsIsDone ==
    ASSUME NEW arg, Asked(arg), NEW end, Sensible(arg, end), end.finished \/ end.pq = {}
    PROVE  /\ arg.since = 0 => News(arg) \subseteq end.done
           /\ ClockIsRight(arg.clock) => News(arg) \cap InTime(arg) \subseteq end.done
           /\ FewCommits(arg) => end.done = Ancestors(arg.include \cup arg.exclude)
<1> DEFINE A == Ancestors(arg.include \cup arg.exclude)
<1>1. /\ end.seen = end.pq \cup end.done /\ arg.include \cup arg.exclude \subseteq end.seen
      /\ end.seen \subseteq A /\ \A d \in end.done : Parents[d] \subseteq end.seen
      /\ end.seen \in SUBSET Commits /\ end.done \in SUBSET Commits /\ end.pq \in SUBSET Commits
      /\ arg.include \in SUBSET Commits /\ arg.exclude \in SUBSET Commits
  BY DEF Sensible, Visited, Fields, Asked
<1>2. ASSUME NEW D \in SUBSET Commits, end.done \subseteq D, end.pq \subseteq D,
             \A d \in D \ end.done : Parents[d] \subseteq D
      PROVE  A \subseteq D
  <2>1. \A d \in D : Parents[d] \subseteq D
    BY <1>1, <1>2
  <2> QED
    BY <1>1, <1>2, <2>1, AncestorFacts
<1>3. News(arg) \subseteq A /\ News(arg) \cap Ancestors(arg.exclude) = {}
  <2>1. A \in SUBSET Commits /\ arg.include \subseteq A /\ \A d \in A : Parents[d] \subseteq A
    BY <1>1, AncestorFacts
  <2>2. Ancestors(arg.include) \subseteq A
    BY <1>1, <2>1, AncestorFacts
  <2> QED
    BY <2>2 DEF News
<1> HIDE DEF A
<1>4. CASE end.pq = {}
  <2>1. A \subseteq end.done
    BY <1>1, <1>2, <1>4
  <2> QED
    BY <1>1, <1>3, <2>1 DEF A
<1>5. CASE end.finished
  <2>1. /\ end.extra = 0 /\ end.extra >= MaxExtraCommits - Cardinality(end.done)
        /\ end.pq \subseteq end.excluded \/ \E c \in end.done : arg.clock[c] < arg.since
    BY <1>5 DEF Sensible, Ending
  <2>2. ASSUME end.pq \subseteq end.excluded PROVE News(arg) \subseteq end.done
    <3> DEFINE X == Ancestors(arg.exclude)
    <3>1. end.excluded \subseteq X /\ X \subseteq Commits /\ \A d \in X : Parents[d] \subseteq X
      BY <1>1, AncestorFacts DEF Sensible, Excluding
    <3>2. A \subseteq end.done \cup X
      BY <1>1, <1>2, <2>2, <3>1
    <3> QED
      BY <1>3, <3>2
  <2>3. ASSUME arg.since = 0, NEW c \in end.done, arg.clock[c] < arg.since PROVE FALSE
    BY <1>1, <2>3, WalkAssumption DEF Asked
  <2>4. ASSUME ClockIsRight(arg.clock), NEW c \in end.done, arg.clock[c] < arg.since
        PROVE  News(arg) \cap InTime(arg) \subseteq end.done
    <3> DEFINE Old == {d \in Commits : arg.clock[d] < arg.since}
    <3>1. /\ \A d \in Commits : arg.clock[d] \in Nat /\ arg.since \in Nat
          /\ \A d \in Commits : \A p \in Parents[d] : p \in Commits /\ arg.clock[p] < arg.clock[d]
      BY <2>4, ParentsAreCommits, WalkAssumption DEF Asked, ClockIsRight
    <3>2. end.pq \subseteq Old
      <4> SUFFICES ASSUME NEW q \in end.pq PROVE arg.clock[q] < arg.since
        BY <1>1
      <4>1. arg.clock[q] <= arg.clock[c]
        BY <2>4 DEF Sensible, Younger
      <4> QED
        BY <1>1, <2>4, <3>1, <4>1
    <3>3. ASSUME NEW d \in Old, NEW p \in Parents[d] PROVE p \in Old
      BY <3>1
    <3>4. A \subseteq end.done \cup Old
      <4> HIDE DEF Old
      <4>1. end.done \cup Old \in SUBSET Commits
        BY <1>1 DEF Old
      <4> QED
        BY <1>2, <3>2, <3>3, <4>1
    <3>5. Old \cap InTime(arg) = {}
      <4> SUFFICES ASSUME NEW d \in Old, d \in InTime(arg) PROVE FALSE
        OBVIOUS
      <4>1. arg.clock[d] \in arg.since .. arg.until
        BY DEF InTime
      <4> QED
        BY <3>1, <4>1 DEF Asked
    <3> HIDE DEF Old
    <3> QED
      BY <1>3, <3>4, <3>5
  <2>5. ASSUME FewCommits(arg) PROVE end.done = A
    <3>1. A \in SUBSET Commits /\ end.done \subseteq A
      BY <1>1, AncestorFacts DEF A
    <3>2. /\ Cardinality(A) <= MaxExtraCommits /\ MaxExtraCommits \in Nat /\ Cardinality(A) \in Nat
          /\ Cardinality(end.done) \in Nat /\ Cardinality(end.done) <= Cardinality(A) /\ IsFiniteSet(A)
      BY <2>5, <3>1, CommitsAreFinite, FS_Subset, WalkAssumption DEF FewCommits, A
    <3>3. Cardinality(end.done) = Cardinality(A)
      <4>1. 0 >= MaxExtraCommits - Cardinality(end.done)
        BY <2>1
      <4> QED
        BY <3>2, <4>1
    <3> QED
      BY <3>1, <3>2, <3>3, FS_Subset
  <2> QED
    BY <2>1, <2>2, <2>3, <2>4, <2>5 DEF A
<1> QED
  BY <1>4, <1>5

\* Nothing excluded is listed, where the walk knows in time what is.
LEMMA LoggedIsNew ==
    ASSUME NEW arg, Asked(arg), NEW end, Sensible(arg, end), end.finished \/ end.pq = {},
           ClockIsRight(arg.clock) \/ FewCommits(arg) \/ arg.exclude = {},
           NEW d \in ToSet(end.listed) \cup (ToSet(end.outQueue) \ end.excluded)
    PROVE  d \in News(arg)
<1>1. d \in Entered(end) /\ d \in end.done /\ d \in Ancestors(arg.include)
  BY DEF Entered, Sensible, Listing
<1>2. SUFFICES d \notin Ancestors(arg.exclude)
  BY <1>1 DEF News
<1>3. CASE ClockIsRight(arg.clock)
  BY <1>1, <1>3 DEF Sensible, Younger
<1>4. CASE arg.exclude = {}
  BY <1>4 DEF Ancestors, AncestorsIn
<1>5. CASE FewCommits(arg)
  <2>1. end.listed = <<>> /\ d \notin end.excluded
    <3>1. end.listed = <<>> /\ ToSet(<<>>) = {}
      BY <1>5 DEF Sensible, Short, ToSet
    <3> QED
      BY <3>1
  <2>2. end.done = Ancestors(arg.include \cup arg.exclude)
    BY <1>5, NewsIsDone
  <2> DEFINE X == end.done \cap end.excluded
  <2>3. arg.include \cup arg.exclude \in SUBSET Commits /\ arg.exclude \in SUBSET Commits
    BY DEF Asked
  <2>4. arg.exclude \subseteq X
    BY <2>2, <2>3, AncestorFacts DEF Sensible, Excluding
  <2>5. \A x \in X : Parents[x] \subseteq X
    BY <2>2, <2>3, AncestorFacts DEF Sensible, Excluding
  <2>6. X \in SUBSET Commits
    BY DEF Sensible, Fields
  <2> HIDE DEF X
  <2>7. Ancestors(arg.exclude) \subseteq X
    BY <2>3, <2>4, <2>5, <2>6, AncestorFacts
  <2> QED
    BY <2>1, <2>7 DEF X
<1> QED
  BY <1>3, <1>4, <1>5

\* A log lists what is new and in time.
LEMMA LogFacts ==
    ASSUME NEW arg \in Args
    PROVE  /\ Log(arg) \in Seq(Commits) /\ IsInjective(Log(arg))
           /\ ToSet(Log(arg)) \subseteq Ancestors(arg.include)
           /\ ClockIsRight(arg.clock) \/ FewCommits(arg) => ToSet(Log(arg)) = News(arg) \cap InTime(arg)
           /\ arg.since = 0 => News(arg) \cap InTime(arg) \subseteq ToSet(Log(arg))
           /\ arg.since = 0 /\ arg.exclude = {} => ToSet(Log(arg)) = News(arg) \cap InTime(arg)
<1>1. Asked(arg)
  BY WalkAssumption DEF Args, Asked
<1>2. PICK end : Sensible(arg, end) /\ (end.finished \/ end.pq = {}) /\ Log(arg) = Flushed(arg, end)
  BY <1>1, LogEnds
<1>3. /\ Log(arg) \in Seq(Commits) /\ IsInjective(Log(arg))
      /\ ToSet(Log(arg)) =
           ToSet(end.listed) \cup {d \in ToSet(end.outQueue) : ShouldReturn(arg, end.excluded, d)}
  BY <1>2, FlushedFacts DEF Sensible
<1>4. ToSet(Log(arg)) \subseteq Entered(end)
  BY <1>3 DEF Entered
<1>5. ToSet(Log(arg)) \subseteq Ancestors(arg.include)
  BY <1>2, <1>4 DEF Sensible, Listing
<1>6. ToSet(Log(arg)) \subseteq InTime(arg)
  <2>1. ToSet(end.listed) \subseteq InTime(arg) /\ Entered(end) \subseteq Commits
    BY <1>2 DEF Sensible, Listing, Fields
  <2> QED
    BY <1>3, <2>1 DEF ShouldReturn, InTime, Entered
<1>7. News(arg) \cap InTime(arg) \cap end.done \subseteq ToSet(Log(arg))
  <2> SUFFICES ASSUME NEW d \in end.done, d \in News(arg), d \in InTime(arg) PROVE d \in ToSet(Log(arg))
    OBVIOUS
  <2>1. d \notin end.excluded
    BY <1>2 DEF News, Sensible, Excluding
  <2>2. d \in Entered(end)
    BY <1>2, <2>1 DEF Sensible, Listing
  <2>3. ShouldReturn(arg, end.excluded, d)
    BY <2>1 DEF ShouldReturn, InTime
  <2> QED
    BY <1>3, <2>2, <2>3 DEF Entered
<1>8. ASSUME ClockIsRight(arg.clock) \/ FewCommits(arg) \/ arg.exclude = {}
      PROVE  ToSet(Log(arg)) \subseteq News(arg)
  <2>1. ToSet(Log(arg)) \subseteq ToSet(end.listed) \cup (ToSet(end.outQueue) \ end.excluded)
    BY <1>3 DEF ShouldReturn
  <2> QED
    BY <1>1, <1>2, <1>8, <2>1, LoggedIsNew
<1>9. ASSUME FewCommits(arg) PROVE News(arg) \subseteq end.done
  <2>1. end.done = Ancestors(arg.include \cup arg.exclude)
    BY <1>1, <1>2, <1>9, NewsIsDone
  <2> QED
    BY <2>1 DEF News, Ancestors, AncestorsIn
<1>10. /\ arg.since = 0 => News(arg) \subseteq end.done
       /\ ClockIsRight(arg.clock) => News(arg) \cap InTime(arg) \subseteq end.done
  BY <1>1, <1>2, NewsIsDone
<1> QED
  BY <1>3, <1>5, <1>6, <1>7, <1>8, <1>9, <1>10

LEMMA LogsListNews == LogListsNews
  BY LogFacts DEF LogListsNews



-----------------------------------------------------------------------------
(* The order of a log that puts children first                             *)

LEMMA SetToSeqFacts ==
    ASSUME NEW S, IsFiniteSet(S)
    PROVE  SetToSeq(S) \in Seq(S) /\ IsInjective(SetToSeq(S)) /\ ToSet(SetToSeq(S)) = S
<1> DEFINE n == Cardinality(S)
           q == SetToSeq(S)
<1>1. n \in Nat /\ ExistsBijection(1 .. n, S)
  BY FS_CardinalityType
<1>2. \E f \in [1 .. n -> S] : IsInjective(f)
  <2>1. PICK f \in Bijection(1 .. n, S) : TRUE
    BY <1>1 DEF ExistsBijection
  <2>2. f \in [1 .. n -> S] /\ \A i, j \in 1 .. n : f[i] = f[j] => i = j
    BY <2>1 DEF Bijection, Injection, IsInjective
  <2>3. DOMAIN f = 1 .. n
    BY <2>2
  <2> QED
    BY <2>2, <2>3 DEF IsInjective
<1>3. q \in [1 .. n -> S] /\ IsInjective(q)
  BY <1>2 DEF SetToSeq
<1> HIDE DEF q
<1>4. q \in Seq(S) /\ Len(q) = n /\ DOMAIN q = 1 .. n
  BY <1>1, <1>3
<1>5. ToSet(q) \subseteq S
  BY <1>3, <1>4 DEF ToSet
<1>6. Cardinality(ToSet(q)) = Cardinality(S)
  BY <1>3, <1>4, LengthOfSet
<1>7. ToSet(q) = S
  BY <1>5, <1>6, FS_Subset
<1> QED
  BY <1>3, <1>4, <1>7 DEF q

LEMMA JoinFacts ==
    ASSUME NEW S, NEW p \in Seq(S), NEW q \in Seq(S)
    PROVE  /\ p \o q \in Seq(S) /\ ToSet(p \o q) = ToSet(p) \cup ToSet(q)
           /\ IsInjective(p) /\ IsInjective(q) /\ ToSet(p) \cap ToSet(q) = {} => IsInjective(p \o q)
<1> DEFINE m == Len(p)
           n == Len(q)
           r == p \o q
<1>1. /\ m \in Nat /\ n \in Nat /\ DOMAIN p = 1 .. m /\ DOMAIN q = 1 .. n
      /\ r \in Seq(S) /\ Len(r) = m + n /\ DOMAIN r = 1 .. m + n
      /\ \A i \in 1 .. m + n : r[i] = IF i <= m THEN p[i] ELSE q[i - m]
  BY ConcatProperties
<1> HIDE DEF m, n, r
<1>2. \A i \in 1 .. m : i \in 1 .. m + n /\ r[i] = p[i]
  BY <1>1
<1>3. \A i \in 1 .. n : m + i \in 1 .. m + n /\ r[m + i] = q[i]
  BY <1>1
<1>4. \A i \in 1 .. m + n : i \in 1 .. m \/ (i - m \in 1 .. n /\ i = m + (i - m))
  BY <1>1
<1>5. ToSet(p) \cup ToSet(q) \subseteq ToSet(r)
  <2>1. ToSet(p) \subseteq ToSet(r)
    <3>1. \A i \in 1 .. m : i \in DOMAIN r /\ r[i] = p[i]
      BY <1>1, <1>2
    <3> QED
      BY <1>1, <3>1 DEF ToSet
  <2>2. ToSet(q) \subseteq ToSet(r)
    <3>1. \A i \in 1 .. n : m + i \in DOMAIN r /\ r[m + i] = q[i]
      BY <1>1, <1>3
    <3> QED
      BY <1>1, <3>1 DEF ToSet
  <2> QED
    BY <2>1, <2>2
<1>6. ToSet(r) \subseteq ToSet(p) \cup ToSet(q)
  <2> SUFFICES ASSUME NEW i \in 1 .. m + n PROVE r[i] \in ToSet(p) \cup ToSet(q)
    BY <1>1 DEF ToSet
  <2>1. CASE i \in 1 .. m
    BY <1>1, <1>2, <2>1 DEF ToSet
  <2>2. CASE i - m \in 1 .. n /\ i = m + (i - m)
    BY <1>1, <1>3, <2>2 DEF ToSet
  <2> QED
    BY <1>4, <2>1, <2>2
<1>7. ASSUME IsInjective(p), IsInjective(q), ToSet(p) \cap ToSet(q) = {},
             NEW i \in 1 .. m + n, NEW j \in 1 .. m + n, r[i] = r[j]
      PROVE  i = j
  <2>1. \A k \in 1 .. m : p[k] \in ToSet(p)
    BY <1>1 DEF ToSet
  <2>2. \A k \in 1 .. n : q[k] \in ToSet(q)
    BY <1>1 DEF ToSet
  <2>3. CASE i \in 1 .. m /\ j \in 1 .. m
    BY <1>1, <1>2, <1>7, <2>3 DEF IsInjective
  <2>4. CASE i - m \in 1 .. n /\ j - m \in 1 .. n
    <3>1. q[i - m] = q[j - m]
      BY <1>1, <1>3, <1>7, <2>4
    <3>2. i - m = j - m
      BY <1>1, <1>7, <2>4, <3>1 DEF IsInjective
    <3> QED
      BY <1>1, <3>2
  <2>5. CASE i \in 1 .. m /\ j - m \in 1 .. n
    <3>1. r[i] \in ToSet(p) /\ r[j] \in ToSet(q)
      BY <1>1, <1>2, <1>3, <2>1, <2>2, <2>5
    <3> QED
      BY <1>7, <3>1
  <2>6. CASE i - m \in 1 .. n /\ j \in 1 .. m
    <3>1. r[j] \in ToSet(p) /\ r[i] \in ToSet(q)
      BY <1>1, <1>2, <1>3, <2>1, <2>2, <2>6
    <3> QED
      BY <1>7, <3>1
  <2> QED
    BY <1>4, <2>3, <2>4, <2>5, <2>6
<1>8. IsInjective(p) /\ IsInjective(q) /\ ToSet(p) \cap ToSet(q) = {} => IsInjective(r)
  BY <1>1, <1>7 DEF IsInjective
<1> QED
  BY <1>1, <1>5, <1>6, <1>8 DEF r

\* The commits of a log that have c for a parent
ChildrenIn(E, c) == {d \in E : c \in Parents[d]}

\* A turn of the reordering
Reordered(E, s) ==
    LET c == Head(s.todo)
        out == Append(s.out, c)
        free == {p \in s.pending \cap Parents[c] : AllListed(ChildrenIn(E, p), out)}
    IN  IF ~AllListed(ChildrenIn(E, c), s.out)
        THEN [s EXCEPT !.todo = Tail(@), !.pending = @ \cup {c}]
        ELSE [todo |-> SetToSeq(free) \o Tail(s.todo), pending |-> s.pending \ free, out |-> out]

\* The commits are to come, waiting or listed; those that are listed come after
\* their children, and those that wait have a child that is not listed.
Orderly(E, s) ==
    /\ s.todo \in Seq(Commits) /\ s.out \in Seq(Commits) /\ s.pending \in SUBSET Commits
    /\ IsInjective(s.todo) /\ IsInjective(s.out)
    /\ E = ToSet(s.todo) \cup s.pending \cup ToSet(s.out)
    /\ ToSet(s.todo) \cap s.pending = {} /\ ToSet(s.out) \cap (ToSet(s.todo) \cup s.pending) = {}
    /\ \A i \in 1 .. Len(s.out) : \A d \in ChildrenIn(E, s.out[i]) : \E k \in 1 .. i - 1 : s.out[k] = d
    /\ \A c \in s.pending : ~(ChildrenIn(E, c) \subseteq ToSet(s.out))

\* The commits that need not wait any more
Freed(E, s) == {c \in E : c \in ToSet(s.todo) => ChildrenIn(E, c) \subseteq ToSet(s.out)}

OrderStates == [todo : Seq(Commits), pending : SUBSET Commits, out : Seq(Commits)]

LEMMA ReorderedIsOrderly ==
    ASSUME NEW E \in SUBSET Commits, NEW s \in OrderStates, Orderly(E, s), s.todo # <<>>
    PROVE  LET t == Reordered(E, s)
           IN  /\ t \in OrderStates /\ Orderly(E, t)
               /\ Len(t.out) + Cardinality(Freed(E, t)) > Len(s.out) + Cardinality(Freed(E, s))
<1> DEFINE c == Head(s.todo)
           rest == Tail(s.todo)
           out == Append(s.out, c)
           free == {p \in s.pending \cap Parents[c] : AllListed(ChildrenIn(E, p), out)}
           t == Reordered(E, s)
<1>1. /\ s.todo \in Seq(Commits) /\ s.out \in Seq(Commits) /\ s.pending \in SUBSET Commits
      /\ s = [todo |-> s.todo, pending |-> s.pending, out |-> s.out]
  <2> DEFINE Qs == Seq(Commits)
             Ps == SUBSET Commits
  <2>1. s \in [todo : Qs, pending : Ps, out : Qs]
    BY DEF OrderStates
  <2> HIDE DEF Qs, Ps
  <2>2. s.todo \in Qs /\ s.out \in Qs /\ s.pending \in Ps
        /\ s = [todo |-> s.todo, pending |-> s.pending, out |-> s.out]
    BY <2>1
  <2> QED
    BY <2>2 DEF Qs, Ps
<1>2. /\ c \in Commits /\ rest \in Seq(Commits) /\ IsInjective(rest)
      /\ ToSet(s.todo) = {c} \cup ToSet(rest) /\ c \notin ToSet(rest)
  <2> HIDE DEF c, rest
  <2> QED
    BY <1>1, TailIsRest DEF Orderly, c, rest
<1>3. IsFiniteSet(E) /\ \A S \in SUBSET E : IsFiniteSet(S) /\ Cardinality(S) \in Nat
  BY CommitsAreFinite
<1>4. Len(s.out) \in Nat
  BY <1>1
<1>5. Freed(E, s) \subseteq E /\ Freed(E, t) \subseteq E
  BY DEF Freed
<1>6. CASE ~AllListed(ChildrenIn(E, c), s.out)
  <2>1. t = [todo |-> rest, pending |-> s.pending \cup {c}, out |-> s.out]
    <3>1. t = [s EXCEPT !.todo = Tail(@), !.pending = @ \cup {c}]
      BY <1>6 DEF Reordered
    <3> HIDE DEF c, t
    <3> QED
      BY <1>1, <3>1
  <2> HIDE DEF c, rest, t
  <2>2. t.todo = rest /\ t.pending = s.pending \cup {c} /\ t.out = s.out
    BY <2>1
  <2>3. t \in OrderStates
    BY <1>1, <1>2, <2>1 DEF OrderStates
  <2>4. Orderly(E, t)
    <3>1. ~(ChildrenIn(E, c) \subseteq ToSet(s.out))
      BY <1>6 DEF AllListed
    <3>2. /\ E = ToSet(rest) \cup (s.pending \cup {c}) \cup ToSet(s.out)
          /\ ToSet(rest) \cap (s.pending \cup {c}) = {}
          /\ ToSet(s.out) \cap (ToSet(rest) \cup (s.pending \cup {c})) = {}
      <4> DEFINE T == ToSet(s.todo)
                 R == ToSet(rest)
                 O == ToSet(s.out)
      <4>1. T = {c} \cup R /\ c \notin R /\ E = T \cup s.pending \cup O
            /\ T \cap s.pending = {} /\ O \cap (T \cup s.pending) = {}
        BY <1>2 DEF Orderly
      <4> HIDE DEF T, R, O
      <4>2. /\ E = R \cup (s.pending \cup {c}) \cup O /\ R \cap (s.pending \cup {c}) = {}
            /\ O \cap (R \cup (s.pending \cup {c})) = {}
        BY <4>1
      <4> QED
        BY <4>2 DEF R, O
    <3>3. \A i \in 1 .. Len(t.out) : \A d \in ChildrenIn(E, t.out[i]) : \E k \in 1 .. i - 1 : t.out[k] = d
      <4>1. \A i \in 1 .. Len(s.out) : \A d \in ChildrenIn(E, s.out[i]) : \E k \in 1 .. i - 1 : s.out[k] = d
        BY DEF Orderly
      <4> QED
        BY <2>2, <4>1
    <3>4. \A p \in t.pending : ~(ChildrenIn(E, p) \subseteq ToSet(t.out))
      BY <2>2, <3>1 DEF Orderly
    <3>5. t.todo \in Seq(Commits) /\ t.out \in Seq(Commits) /\ t.pending \in SUBSET Commits
          /\ IsInjective(t.todo) /\ IsInjective(t.out)
      BY <1>1, <1>2, <2>2 DEF Orderly
    <3> QED
      BY <2>2, <3>2, <3>3, <3>4, <3>5 DEF Orderly
  <2>5. c \notin Freed(E, s) /\ c \in Freed(E, t)
    <3>1. c \in E /\ c \in ToSet(s.todo) /\ c \notin ToSet(rest)
      BY <1>2 DEF Orderly
    <3> QED
      BY <1>6, <2>2, <3>1 DEF Freed, AllListed
  <2>6. Freed(E, s) \subseteq Freed(E, t)
    BY <1>2, <2>2 DEF Freed
  <2>7. Cardinality(Freed(E, t)) > Cardinality(Freed(E, s))
    <3>1. Cardinality(Freed(E, s)) <= Cardinality(Freed(E, t))
      BY <1>3, <1>5, <2>6, FS_Subset
    <3>2. Cardinality(Freed(E, s)) # Cardinality(Freed(E, t))
      BY <1>3, <1>5, <2>5, <2>6, FS_Subset
    <3> QED
      BY <1>3, <1>5, <3>1, <3>2
  <2>8. Len(t.out) + Cardinality(Freed(E, t)) > Len(s.out) + Cardinality(Freed(E, s))
    BY <1>3, <1>4, <1>5, <2>2, <2>7
  <2> QED
    BY <2>3, <2>4, <2>8 DEF t
<1>7. CASE AllListed(ChildrenIn(E, c), s.out)
  <2>1. t = [todo |-> SetToSeq(free) \o rest, pending |-> s.pending \ free, out |-> out]
    BY <1>7 DEF Reordered
  <2>2. free \subseteq s.pending /\ \A p \in free : ChildrenIn(E, p) \subseteq ToSet(out)
    BY DEF AllListed
  <2>3. ASSUME NEW p \in s.pending \ free PROVE ~(ChildrenIn(E, p) \subseteq ToSet(out))
    <3>1. ToSet(out) = ToSet(s.out) \cup {c}
      BY <1>1, <1>2, AppendedFacts
    <3>2. CASE p \in Parents[c]
      BY <2>3, <3>2 DEF AllListed
    <3>3. CASE p \notin Parents[c]
      <4>1. c \notin ChildrenIn(E, p) /\ ~(ChildrenIn(E, p) \subseteq ToSet(s.out))
        BY <2>3, <3>3 DEF ChildrenIn, Orderly
      <4> QED
        BY <3>1, <4>1
    <3> QED
      BY <3>2, <3>3
  <2>4. ChildrenIn(E, c) \subseteq ToSet(s.out)
    BY <1>7 DEF AllListed
  <2>5. IsFiniteSet(free) /\ free \subseteq Commits
    <3>1. free \subseteq E
      BY <2>2 DEF Orderly
    <3> QED
      BY <1>1, <1>3, <2>2, <3>1
  <2> DEFINE first == SetToSeq(free)
  <2> HIDE DEF free
  <2>6. first \in Seq(free) /\ IsInjective(first) /\ ToSet(first) = free
    BY <2>5, SetToSeqFacts
  <2> HIDE DEF first
  <2>7. first \in Seq(Commits)
    BY <2>5, <2>6
  <2>8. /\ out \in Seq(Commits) /\ Len(out) = Len(s.out) + 1 /\ ToSet(out) = ToSet(s.out) \cup {c}
        /\ c \notin ToSet(s.out) /\ IsInjective(out)
    <3> HIDE DEF c, rest
    <3>1. c \notin ToSet(s.out) /\ IsInjective(s.out)
      BY <1>2 DEF Orderly
    <3> QED
      BY <1>1, <1>2, <3>1, AppendedFacts
  <2>9. \A i \in 1 .. Len(s.out) : out[i] = s.out[i] /\ out[Len(s.out) + 1] = c
    BY <1>1, <1>2
  <2> HIDE DEF c, rest, out, t
  <2>10. t.todo = first \o rest /\ t.pending = s.pending \ free /\ t.out = out
    BY <2>1 DEF first
  <2> DEFINE T == ToSet(s.todo)
             R == ToSet(rest)
             O == ToSet(s.out)
             P == s.pending
  <2>11. /\ T = {c} \cup R /\ c \notin R /\ E = T \cup P \cup O
         /\ T \cap P = {} /\ O \cap (T \cup P) = {}
    BY <1>2 DEF Orderly
  <2>12. free \subseteq P
    BY <2>2
  <2>13. /\ t.todo \in Seq(Commits) /\ ToSet(t.todo) = free \cup R
         /\ free \cap R = {} => IsInjective(t.todo)
    BY <1>2, <2>6, <2>7, <2>10, JoinFacts
  <2>14. t.pending = P \ free /\ ToSet(t.out) = O \cup {c}
    BY <2>8, <2>10
  <2>15. P \in SUBSET Commits
    BY <1>1
  <2>16. t \in OrderStates
    BY <2>1, <2>8, <2>10, <2>13, <2>14, <2>15 DEF OrderStates, first
  <2>17. Orderly(E, t)
    <3>1. \A i \in 1 .. Len(t.out) : \A d \in ChildrenIn(E, t.out[i]) : \E k \in 1 .. i - 1 : t.out[k] = d
      <4> SUFFICES ASSUME NEW i \in 1 .. Len(s.out) + 1, NEW d \in ChildrenIn(E, out[i])
                   PROVE  \E k \in 1 .. i - 1 : out[k] = d
        BY <2>8, <2>10
      <4>1. CASE i = Len(s.out) + 1
        <5>1. out[i] = c
          BY <1>4, <2>8, <4>1 DEF out
        <5>2. d \in ToSet(s.out)
          BY <2>4, <5>1
        <5>3. PICK k \in 1 .. Len(s.out) : s.out[k] = d
          BY <1>1, <5>2 DEF ToSet
        <5> QED
          BY <1>4, <2>9, <4>1, <5>3
      <4>2. CASE i \in 1 .. Len(s.out)
        <5>1. out[i] = s.out[i]
          BY <2>9, <4>2
        <5>2. PICK k \in 1 .. i - 1 : s.out[k] = d
          BY <4>2, <5>1 DEF Orderly
        <5>3. k \in 1 .. Len(s.out)
          BY <1>4, <4>2, <5>2
        <5> QED
          BY <2>9, <5>2, <5>3
      <4> QED
        BY <1>4, <4>1, <4>2
    <3>2. \A p \in t.pending : ~(ChildrenIn(E, p) \subseteq ToSet(t.out))
      BY <2>3, <2>10
    <3>3. t.out \in Seq(Commits) /\ IsInjective(t.out) /\ t.pending \in SUBSET Commits
      BY <2>8, <2>10, <2>14, <2>15
    <3> HIDE DEF T, R, O, P
    <3>4. /\ E = (free \cup R) \cup (P \ free) \cup (O \cup {c}) /\ (free \cup R) \cap (P \ free) = {}
          /\ (O \cup {c}) \cap ((free \cup R) \cup (P \ free)) = {} /\ free \cap R = {}
      <4>1. c \notin P /\ c \notin O /\ R \cap P = {} /\ R \cap O = {} /\ P \cap O = {}
        BY <2>11
      <4>2. E = (free \cup R) \cup (P \ free) \cup (O \cup {c})
        BY <2>11, <2>12
      <4> QED
        BY <2>11, <2>12, <4>1, <4>2
    <3> QED
      BY <2>13, <2>14, <3>1, <3>2, <3>3, <3>4 DEF Orderly
  <2>18. Freed(E, s) \subseteq Freed(E, t)
    <3> SUFFICES ASSUME NEW d \in Freed(E, s), d \in ToSet(t.todo)
                 PROVE  d \in E /\ ChildrenIn(E, d) \subseteq ToSet(t.out)
      BY DEF Freed
    <3>1. d \in E
      BY DEF Freed
    <3>2. CASE d \in free
      BY <2>2, <2>10, <3>1, <3>2
    <3>3. CASE d \in R
      BY <2>11, <2>14, <3>1, <3>3 DEF Freed
    <3> QED
      BY <2>13, <3>2, <3>3
  <2>19. Len(t.out) + Cardinality(Freed(E, t)) > Len(s.out) + Cardinality(Freed(E, s))
    <3>1. Cardinality(Freed(E, s)) <= Cardinality(Freed(E, t))
      BY <1>3, <1>5, <2>18, FS_Subset
    <3> QED
      BY <1>3, <1>4, <1>5, <2>8, <2>10, <3>1
  <2> QED
    BY <2>16, <2>17, <2>19 DEF t
<1> QED
  BY <1>6, <1>7

\* The turns end within the number that TopoReorder gives them, with every commit listed.
LEMMA TopoReordered ==
    ASSUME NEW entries \in Seq(Commits), IsInjective(entries)
    PROVE  LET topo == TopoReorder(entries)
           IN  /\ Len(topo) = Len(entries) /\ ToSet(topo) = ToSet(entries)
               /\ \A i, j \in 1 .. Len(topo) : topo[j] \in Parents[topo[i]] => i < j
<1> DEFINE E == ToSet(entries)
           start == [todo |-> entries, pending |-> {}, out |-> <<>>]
           Advanced(s) == IF s.todo = <<>> THEN s ELSE Reordered(E, s)
           S == {s \in OrderStates : Orderly(E, s)}
           step == [s \in S |-> Advanced(s)]
           IsTurns(h) == h = [n \in Nat |-> IF n = 0 THEN start ELSE Advanced(h[n - 1])]
           f == CHOOSE turns : IsTurns(turns)
           N == Len(entries)
<1>1. TopoReorder(entries) = f[2 * N].out
  BY DEF TopoReorder, Reordered, ChildrenIn
<1>2. E \in SUBSET Commits /\ N \in Nat /\ IsFiniteSet(E) /\ Cardinality(E) = N
  <2>1. E \in SUBSET Commits
    BY DEF ToSet
  <2> QED
    BY <2>1, LengthOfSet
<1>3. start \in S
  <2>1. start.todo = entries /\ start.pending = {} /\ start.out = <<>>
    OBVIOUS
  <2>2. ToSet(<<>>) = {} /\ IsInjective(<<>>) /\ <<>> \in Seq(Commits) /\ Len(<<>>) = 0
    BY DEF ToSet, IsInjective
  <2>3. start \in OrderStates
    BY <2>2 DEF OrderStates
  <2> HIDE DEF start
  <2>4. Orderly(E, start)
    BY <2>1, <2>2 DEF Orderly
  <2> QED
    BY <2>3, <2>4
<1>4. step \in [S -> S]
  BY <1>2, ReorderedIsOrderly
<1>5. PICK e \in [Nat -> S] : Iterates(e, start, step)
  <2> HIDE DEF S, step, start
  <2> QED
    BY <1>3, <1>4, Iteration
<1>6. ASSUME NEW n \in Nat, n # 0 PROVE step[e[n - 1]] = Advanced(e[n - 1])
  <2>1. n - 1 \in Nat
    BY <1>6
  <2>2. e[n - 1] \in S
    BY <1>5, <2>1
  <2> QED
    BY <2>2
<1>7. IsTurns(e)
  <2> HIDE DEF step
  <2> QED
    BY <1>5, <1>6 DEF Iterates
<1>8. IsTurns(f)
  <2> HIDE DEF IsTurns
  <2> QED
    BY <1>7
<1> HIDE DEF f, E, N
<1> DEFINE Far(n) == f[n].todo = <<>> \/ Len(f[n].out) + Cardinality(Freed(E, f[n])) >= n
           J == {n \in Nat : f[n] \in S /\ Far(n)}
<1>9. ASSUME NEW s, Orderly(E, s)
      PROVE  /\ Len(s.out) \in Nat /\ Cardinality(Freed(E, s)) \in Nat /\ Cardinality(Freed(E, s)) <= N
             /\ Len(s.out) <= N /\ (Len(s.out) = N => ToSet(s.out) = E)
  <2>1. Freed(E, s) \subseteq E /\ ToSet(s.out) \subseteq E
    BY <1>9 DEF Freed, Orderly
  <2>2. Cardinality(Freed(E, s)) \in Nat /\ Cardinality(Freed(E, s)) <= N
    BY <1>2, <2>1, FS_Subset, FS_CardinalityType
  <2>3. Len(s.out) \in Nat /\ Cardinality(ToSet(s.out)) = Len(s.out)
    <3>1. s.out \in Seq(Commits) /\ IsInjective(s.out)
      BY <1>9 DEF Orderly
    <3> QED
      BY <3>1, LengthOfSet
  <2>4. Len(s.out) <= N /\ (Len(s.out) = N => ToSet(s.out) = E)
    BY <1>2, <2>1, <2>3, FS_Subset
  <2> QED
    BY <2>2, <2>3, <2>4
<1>10. 0 \in J
  <2>1. f[0] = start
    BY <1>8
  <2>2. Len(start.out) + Cardinality(Freed(E, start)) >= 0
    <3> HIDE DEF start
    <3>1. Orderly(E, start)
      BY <1>3
    <3> QED
      BY <1>9, <3>1
  <2> HIDE DEF start, IsTurns, S
  <2> QED
    BY <1>3, <2>1, <2>2
<1>11. ASSUME NEW n \in Nat, n \in J PROVE n + 1 \in J
  <2>1. n + 1 \in Nat /\ n + 1 # 0 /\ (n + 1) - 1 = n
    OBVIOUS
  <2>2. f[n + 1] = Advanced(f[n])
    BY <1>8, <2>1
  <2>3. f[n] \in OrderStates /\ Orderly(E, f[n]) /\ Far(n)
    BY <1>11
  <2>4. CASE f[n].todo = <<>>
    <3>1. f[n + 1] = f[n]
      BY <2>2, <2>4
    <3> HIDE DEF IsTurns
    <3> QED
      BY <2>1, <2>3, <2>4, <3>1
  <2>5. CASE f[n].todo # <<>>
    <3>1. f[n + 1] = Reordered(E, f[n])
      BY <2>2, <2>5
    <3>2. /\ f[n + 1] \in OrderStates /\ Orderly(E, f[n + 1])
          /\ Len(f[n + 1].out) + Cardinality(Freed(E, f[n + 1])) > Len(f[n].out) + Cardinality(Freed(E, f[n]))
      BY <1>2, <2>3, <2>5, <3>1, ReorderedIsOrderly
    <3>3. /\ Len(f[n].out) + Cardinality(Freed(E, f[n])) \in Nat
          /\ Len(f[n + 1].out) + Cardinality(Freed(E, f[n + 1])) \in Nat
      <4> DEFINE s1 == f[n]
                 t1 == f[n + 1]
      <4>1. Orderly(E, s1) /\ Orderly(E, t1)
        BY <2>3, <3>2
      <4> HIDE DEF s1, t1
      <4>2. /\ Len(s1.out) \in Nat /\ Cardinality(Freed(E, s1)) \in Nat
            /\ Len(t1.out) \in Nat /\ Cardinality(Freed(E, t1)) \in Nat
        BY <1>9, <4>1
      <4>3. Len(s1.out) + Cardinality(Freed(E, s1)) \in Nat /\ Len(t1.out) + Cardinality(Freed(E, t1)) \in Nat
        BY <4>2
      <4> QED
        BY <4>3 DEF s1, t1
    <3>4. Len(f[n].out) + Cardinality(Freed(E, f[n])) >= n
      BY <2>3, <2>5
    <3>5. Len(f[n + 1].out) + Cardinality(Freed(E, f[n + 1])) >= n + 1
      BY <3>2, <3>3, <3>4
    <3> HIDE DEF IsTurns
    <3> QED
      BY <2>1, <3>2, <3>5
  <2> QED
    BY <2>4, <2>5
<1> HIDE DEF J
<1>12. Nat \subseteq J
  BY <1>10, <1>11, Counting
<1> DEFINE s == f[2 * N]
           topo == s.out
<1>13. Orderly(E, s) /\ Far(2 * N)
  BY <1>2, <1>12 DEF J
<1> HIDE DEF s
<1>14. s.todo = <<>>
  <2> SUFFICES ASSUME Len(s.out) + Cardinality(Freed(E, s)) >= 2 * N PROVE s.todo = <<>>
    BY <1>13 DEF s
  <2>1. Len(s.out) = N
    <3>1. /\ Len(s.out) \in Nat /\ Cardinality(Freed(E, s)) \in Nat
          /\ Cardinality(Freed(E, s)) <= N /\ Len(s.out) <= N
      BY <1>9, <1>13
    <3>2. N \in Nat
      BY <1>2
    <3> QED
      BY <3>1, <3>2
  <2>2. ToSet(s.todo) = {} /\ s.todo \in Seq(Commits)
    <3>1. ToSet(s.out) = E
      BY <1>9, <1>13, <2>1
    <3> QED
      BY <1>13, <3>1 DEF Orderly
  <2>3. ASSUME s.todo # <<>> PROVE FALSE
    <3> DEFINE q == s.todo
    <3>1. q \in Seq(Commits) /\ q # <<>> /\ ToSet(q) = {}
      BY <2>2, <2>3
    <3> HIDE DEF q
    <3>2. ToSet(q) = {Head(q)} \cup ToSet(Tail(q))
      BY <3>1, TailIsRest
    <3> QED
      BY <3>1, <3>2
  <2> QED
    BY <2>3
<1>15. s.pending = {}
  <2> SUFFICES ASSUME s.pending # {} PROVE FALSE
    OBVIOUS
  <2>1. PICK c \in s.pending : \A d \in s.pending : c \notin Parents[d]
    BY <1>13, WalkAssumption DEF Orderly
  <2>2. PICK d \in ChildrenIn(E, c) : d \notin ToSet(s.out)
    BY <1>13 DEF Orderly
  <2>3. d \in s.pending
    <3>1. ToSet(s.todo) = {}
      BY <1>14 DEF ToSet
    <3> QED
      BY <1>13, <2>2, <3>1 DEF Orderly, ChildrenIn
  <2> QED
    BY <2>1, <2>2, <2>3 DEF ChildrenIn
<1>16. ToSet(topo) = E
  <2>1. ToSet(s.todo) = {}
    BY <1>14 DEF ToSet
  <2> QED
    BY <1>13, <1>15, <2>1 DEF Orderly
<1>17. Len(topo) = N
  <2>1. s.out \in Seq(Commits) /\ IsInjective(s.out)
    BY <1>13 DEF Orderly
  <2> QED
    BY <1>2, <1>16, <2>1, LengthOfSet
<1>18. ASSUME NEW i \in 1 .. Len(topo), NEW j \in 1 .. Len(topo), topo[j] \in Parents[topo[i]] PROVE i < j
  <2>1. topo \in Seq(Commits) /\ IsInjective(topo) /\ DOMAIN topo = 1 .. Len(topo) /\ Len(topo) \in Nat
    BY <1>13 DEF Orderly
  <2>2. topo[i] \in ChildrenIn(E, topo[j])
    BY <1>16, <1>18, <2>1 DEF ToSet, ChildrenIn
  <2>3. PICK k \in 1 .. j - 1 : topo[k] = topo[i]
    BY <1>13, <1>18, <2>2 DEF Orderly
  <2>4. k \in 1 .. Len(topo)
    BY <1>18, <2>1, <2>3
  <2>5. k = i
    BY <1>18, <2>1, <2>3, <2>4 DEF IsInjective
  <2> QED
    BY <1>18, <2>3, <2>5
<1> QED
  BY <1>1, <1>16, <1>17, <1>18 DEF s, E, N

LEMMA ChildrenAreFirst == ChildrenComeFirst
  BY LogFacts, TopoReordered DEF ChildrenComeFirst


-----------------------------------------------------------------------------
(* What a tag leads to                                                     *)

LEMMA PeelShaFacts ==
    ASSUME NEW o \in Objects
    PROVE  /\ PeelSha(o) \in Peel[o] /\ PeelSha(o) \in Objects \ Tags
           /\ \A p \in Peel[o] \ Tags : p = PeelSha(o)
<1>1. \A q \in Objects \ Tags : Peel[q] = {q}
  <2> SUFFICES ASSUME NEW q \in Objects \ Tags PROVE Peel[q] = {q}
    OBVIOUS
  <2>1. {q} \in SUBSET Objects /\ \A g \in {q} \cap Tags : Target[g] \in {q}
    OBVIOUS
  <2>2. q \in Peel[q] /\ Peel[q] \subseteq {q}
    BY <2>1, PeelFacts
  <2> QED
    BY <2>2
<1>2. \E p \in Peel[o] : p \notin Tags
  <2>1. CASE o \in Tags
    BY <2>1, ShallowAssumption
  <2>2. CASE o \notin Tags
    BY <2>2, PeelFacts
  <2> QED
    BY <2>1, <2>2
<1>3. PeelSha(o) \in Peel[o] /\ PeelSha(o) \notin Tags
  BY <1>2 DEF PeelSha
<1>4. PeelSha(o) \in Objects
  BY <1>3, PeelFacts
<1>5. ASSUME NEW p \in Peel[o] \ Tags PROVE p = PeelSha(o)
  <2> DEFINE S == {q \in Objects : p \in Peel[q]}
  <2>1. ASSUME NEW g \in S \cap Tags PROVE Target[g] \in S
    <3>1. g \in Objects /\ p \in Peel[g] /\ p # g /\ Target[g] \in Objects
      BY <1>5, <2>1, ContentsAreObjects
    <3> DEFINE T == {g} \cup Peel[Target[g]]
    <3>2. g \in T /\ T \in SUBSET Objects
      BY <3>1, PeelFacts
    <3>3. \A h \in T \cap Tags : Target[h] \in T
      BY <3>1, PeelFacts
    <3> HIDE DEF T
    <3>4. Peel[g] \subseteq T
      BY <3>1, <3>2, <3>3, PeelFacts
    <3>5. p \in Peel[Target[g]]
      BY <3>1, <3>4 DEF T
    <3> QED
      BY <3>1, <3>5
  <2>2. o \in S /\ S \in SUBSET Objects
    BY <1>5
  <2> HIDE DEF S
  <2>3. Peel[o] \subseteq S
    BY <2>1, <2>2, PeelFacts
  <2>4. p \in Peel[PeelSha(o)]
    BY <1>3, <2>3 DEF S
  <2> QED
    BY <1>1, <1>3, <1>4, <2>4
<1> QED
  BY <1>3, <1>4, <1>5

-----------------------------------------------------------------------------
(* The border of a fetch                                                   *)

LastTurn(depth) == IF depth > 1 THEN depth ELSE 1

\* In is what is met from start on when the walk ends at the border.
Bordered(start, border, inner, In) ==
    /\ start \subseteq In /\ In \subseteq Commits
    /\ In = border \cup inner /\ border \cap inner = {}
    /\ \A c \in inner : Parents[c] \subseteq In
    /\ \A S \in SUBSET Commits :
          start \subseteq S /\ (\A c \in S \cap inner : Parents[c] \subseteq S) => In \subseteq S

LEMMA BorderIsDrawn ==
    ASSUME NEW wanted \in SUBSET Objects, NEW depth \in Nat
    PROVE  LET found == FindShallow(wanted, depth)
           IN  Bordered({PeelSha(o) : o \in wanted} \cap Commits, found.shallow \ found.notShallow,
                        found.notShallow, Within(wanted, depth))
<1> DEFINE start == {PeelSha(o) : o \in wanted} \cap Commits
           L == LastTurn(depth)
           Layers == SUBSET Commits
           Behind(S) == UNION {Parents[c] : c \in S}
           IsAt(h) == h = [n \in Nat \ {0} |-> IF n = 1 THEN start ELSE Behind(h[n - 1])]
           IsNear(h) == h = [n \in Nat |-> IF n = 0 THEN start ELSE h[n - 1] \cup Behind(h[n - 1])]
           at == CHOOSE h : IsAt(h)
           near == CHOOSE h : IsNear(h)
           border == at[L]
           inner == UNION {at[n] : n \in 1 .. L - 1}
<1>1. L \in Nat \ {0}
  BY DEF LastTurn
<1>2. FindShallow(wanted, depth) = [shallow |-> border, notShallow |-> inner]
  BY DEF FindShallow, LastTurn
<1>3. Within(wanted, depth) = near[L - 1]
  <2>1. (IF depth > 1 THEN depth - 1 ELSE 0) = L - 1
    BY DEF LastTurn
  <2>2. Within(wanted, depth) = near[IF depth > 1 THEN depth - 1 ELSE 0]
    BY DEF Within
  <2> QED
    BY <2>1, <2>2
<1> HIDE DEF start, L
<1>4. start \in Layers
  BY DEF start
<1>5. \A S \in Layers : Behind(S) \in Layers
  BY ParentsAreCommits
<1>6. PICK e \in [Nat -> Layers] : Iterates(e, start, [S \in Layers |-> Behind(S)])
  <2> DEFINE step == [S \in Layers |-> Behind(S)]
  <2>1. step \in [Layers -> Layers]
    BY <1>5
  <2> HIDE DEF step, Layers
  <2>2. \E f \in [Nat -> Layers] : Iterates(f, start, step)
    BY <1>4, <2>1, Iteration
  <2> QED
    BY <2>2 DEF step
<1>7. e[0] = start /\ \A n \in Nat : e[n + 1] = Behind(e[n]) /\ e[n] \in Layers
  <2> DEFINE step == [S \in Layers |-> Behind(S)]
  <2>1. \A S \in Layers : step[S] = Behind(S)
    OBVIOUS
  <2> HIDE DEF step
  <2>2. e = [n \in Nat |-> IF n = 0 THEN start ELSE step[e[n - 1]]]
    BY <1>6 DEF Iterates, step
  <2>3. \A n \in Nat : e[n] \in Layers
    BY <1>6
  <2>4. e[0] = start
    BY <2>2
  <2>5. ASSUME NEW n \in Nat PROVE e[n + 1] = step[e[n]]
    <3>1. n + 1 \in Nat /\ n + 1 # 0 /\ (n + 1) - 1 = n
      OBVIOUS
    <3> QED
      BY <2>2, <3>1
  <2> QED
    BY <2>1, <2>3, <2>4, <2>5
<1>8. IsAt([n \in Nat \ {0} |-> e[n - 1]])
  <2> DEFINE h == [n \in Nat \ {0} |-> e[n - 1]]
  <2>1. ASSUME NEW n \in Nat \ {0} PROVE e[n - 1] = IF n = 1 THEN start ELSE Behind(h[n - 1])
    <3>1. CASE n = 1
      BY <1>7, <3>1
    <3>2. CASE n # 1
      <4>1. n - 2 \in Nat /\ (n - 2) + 1 = n - 1 /\ n - 1 \in Nat \ {0} /\ (n - 1) - 1 = n - 2
        BY <3>2
      <4>2. h[n - 1] = e[n - 2]
        BY <4>1
      <4>3. e[n - 1] = Behind(e[n - 2])
        BY <1>7, <4>1
      <4> QED
        BY <3>2, <4>2, <4>3
    <3> QED
      BY <3>1, <3>2
  <2> QED
    BY <2>1
<1>9. IsAt(at)
  <2> HIDE DEF IsAt
  <2> QED
    BY <1>8
<1> HIDE DEF at
<1> DEFINE J == {n \in Nat : at[n + 1] = e[n]}
<1>10. Nat \subseteq J
  <2>1. 0 \in J
    BY <1>7, <1>9
  <2>2. ASSUME NEW n \in Nat, n \in J PROVE n + 1 \in J
    <3>1. n + 1 \in Nat /\ (n + 1) + 1 \in Nat \ {0} /\ (n + 1) + 1 # 1 /\ ((n + 1) + 1) - 1 = n + 1
      OBVIOUS
    <3>2. at[(n + 1) + 1] = Behind(at[n + 1])
      BY <1>9, <3>1
    <3>3. at[(n + 1) + 1] = e[n + 1]
      BY <1>7, <2>2, <3>2
    <3> HIDE DEF IsAt
    <3> QED
      BY <3>1, <3>3
  <2> HIDE DEF J
  <2> QED
    BY <2>1, <2>2, Counting
<1>11. \A n \in Nat : at[n + 1] = e[n]
  BY <1>10
<1> HIDE DEF J
<1>12. \E h \in [Nat -> Layers] : IsNear(h)
  <2> DEFINE step == [S \in Layers |-> S \cup Behind(S)]
  <2>1. step \in [Layers -> Layers] /\ \A S \in Layers : step[S] = S \cup Behind(S)
    BY <1>5
  <2> HIDE DEF step
  <2>2. PICK f \in [Nat -> Layers] : Iterates(f, start, step)
    <3> HIDE DEF Layers
    <3> QED
      BY <1>4, <2>1, Iteration
  <2>3. ASSUME NEW n \in Nat, n # 0 PROVE step[f[n - 1]] = f[n - 1] \cup Behind(f[n - 1])
    <3>1. n - 1 \in Nat
      BY <2>3
    <3>2. f[n - 1] \in Layers
      BY <2>2, <3>1
    <3> QED
      BY <2>1, <3>2
  <2>4. IsNear(f)
    BY <2>2, <2>3 DEF Iterates
  <2> HIDE DEF IsNear
  <2> QED
    BY <2>4
<1>13. IsNear(near)
  <2> HIDE DEF IsNear
  <2> QED
    BY <1>12
<1> HIDE DEF near
\* What is near is what the walk looks at up to some length.
<1> DEFINE Upto(n) == UNION {e[k] : k \in 0 .. n}
           I == {n \in Nat : near[n] = Upto(n)}
<1>14. \A n \in Nat : Upto(n + 1) = Upto(n) \cup e[n + 1]
  <2> SUFFICES ASSUME NEW n \in Nat PROVE Upto(n + 1) = Upto(n) \cup e[n + 1]
    OBVIOUS
  <2>1. \A k \in 0 .. n + 1 : k \in 0 .. n \/ k = n + 1
    OBVIOUS
  <2>2. \A k \in 0 .. n : k \in 0 .. n + 1
    OBVIOUS
  <2>3. n + 1 \in 0 .. n + 1
    OBVIOUS
  <2> QED
    BY <2>1, <2>2, <2>3
<1>15. Upto(0) = e[0]
  <2>1. 0 .. 0 = {0}
    OBVIOUS
  <2> QED
    BY <2>1
<1>16. \A n \in Nat : Upto(n) \cup Behind(Upto(n)) = Upto(n + 1)
  <2> SUFFICES ASSUME NEW n \in Nat PROVE Upto(n) \cup Behind(Upto(n)) = Upto(n + 1)
    OBVIOUS
  <2>1. Behind(Upto(n)) \subseteq Upto(n + 1)
    <3> SUFFICES ASSUME NEW k \in 0 .. n, NEW c \in e[k], NEW p \in Parents[c] PROVE p \in Upto(n + 1)
      OBVIOUS
    <3>1. k \in Nat /\ k + 1 \in 0 .. n + 1
      OBVIOUS
    <3>2. p \in e[k + 1]
      BY <1>7, <3>1
    <3> QED
      BY <3>1, <3>2
  <2>2. e[n + 1] \subseteq Behind(Upto(n))
    <3>1. e[n + 1] = Behind(e[n]) /\ e[n] \subseteq Upto(n)
      <4>1. n \in 0 .. n
        OBVIOUS
      <4> QED
        BY <1>7, <4>1
    <3> HIDE DEF Upto
    <3> QED
      BY <3>1
  <2> HIDE DEF Upto
  <2> QED
    BY <1>14, <2>1, <2>2
<1>17. Nat \subseteq I
  <2>1. near[0] = start
    BY <1>13
  <2>2. \A n \in Nat : near[n + 1] = near[n] \cup Behind(near[n])
    <3> SUFFICES ASSUME NEW n \in Nat PROVE near[n + 1] = near[n] \cup Behind(near[n])
      OBVIOUS
    <3>1. n + 1 \in Nat /\ n + 1 # 0 /\ (n + 1) - 1 = n
      OBVIOUS
    <3> QED
      BY <1>13, <3>1
  <2> HIDE DEF IsNear, Upto
  <2>3. 0 \in I
    BY <1>7, <1>15, <2>1
  <2>4. ASSUME NEW n \in Nat, n \in I PROVE n + 1 \in I
    <3>1. near[n] = Upto(n)
      BY <2>4
    <3>2. near[n + 1] = Upto(n + 1)
      BY <1>16, <2>2, <3>1
    <3> QED
      BY <3>2
  <2> HIDE DEF I
  <2> QED
    BY <2>3, <2>4, Counting
<1> DEFINE In == Upto(L - 1)
<1>18. Within(wanted, depth) = In /\ L - 1 \in Nat
  <2>1. L - 1 \in Nat
    BY <1>1
  <2> HIDE DEF Upto
  <2> QED
    BY <1>3, <1>17, <2>1
<1>19. border = e[L - 1]
  <2>1. L - 1 \in Nat /\ (L - 1) + 1 = L
    BY <1>1
  <2> QED
    BY <1>11, <2>1
<1>20. \A c \in inner : \E k \in 0 .. L - 1 : k + 1 \in 0 .. L - 1 /\ c \in e[k]
  <2> SUFFICES ASSUME NEW n \in 1 .. L - 1, NEW c \in at[n]
               PROVE  \E k \in 0 .. L - 1 : k + 1 \in 0 .. L - 1 /\ c \in e[k]
    OBVIOUS
  <2>1. n - 1 \in Nat /\ (n - 1) + 1 = n /\ n - 1 \in 0 .. L - 1 /\ n \in 0 .. L - 1
    BY <1>1
  <2> QED
    BY <1>11, <2>1
<1>21. \A k \in 0 .. L - 1 : k # L - 1 => e[k] \subseteq inner
  <2> SUFFICES ASSUME NEW k \in 0 .. L - 1, k # L - 1 PROVE e[k] \subseteq inner
    OBVIOUS
  <2>1. k \in Nat /\ k + 1 \in 1 .. L - 1
    BY <1>1
  <2> QED
    BY <1>11, <2>1
<1> HIDE DEF border, inner
<1>22. In = border \cup inner
  <2>1. inner \subseteq In
    BY <1>20
  <2>2. border \subseteq In
    BY <1>18, <1>19
  <2>3. In \subseteq border \cup inner
    BY <1>19, <1>21
  <2> HIDE DEF In
  <2> QED
    BY <2>1, <2>2, <2>3
<1>23. start \subseteq In /\ In \subseteq Commits
  <2>1. 0 \in 0 .. L - 1
    BY <1>18
  <2> QED
    BY <1>7, <2>1
<1>24. \A c \in inner : Parents[c] \subseteq In
  <2> SUFFICES ASSUME NEW c \in inner, NEW p \in Parents[c] PROVE p \in In
    OBVIOUS
  <2>1. PICK k \in 0 .. L - 1 : k + 1 \in 0 .. L - 1 /\ c \in e[k]
    BY <1>20
  <2>2. p \in e[k + 1]
    BY <1>7, <2>1
  <2> QED
    BY <2>1, <2>2
<1>25. ASSUME NEW S \in SUBSET Commits, start \subseteq S, \A c \in S \cap inner : Parents[c] \subseteq S
       PROVE  In \subseteq S
  <2> DEFINE G == {n \in Nat : n <= L - 1 => e[n] \subseteq S}
  <2>1. 0 \in G
    BY <1>7, <1>25
  <2>2. ASSUME NEW n \in Nat, n \in G PROVE n + 1 \in G
    <3> SUFFICES ASSUME n + 1 <= L - 1 PROVE e[n + 1] \subseteq S
      OBVIOUS
    <3>1. n \in 0 .. L - 1 /\ n # L - 1 /\ n <= L - 1
      BY <1>18
    <3>2. e[n] \subseteq inner /\ e[n] \subseteq S
      BY <1>21, <2>2, <3>1
    <3> QED
      BY <1>7, <1>25, <3>2
  <2> HIDE DEF G
  <2>3. Nat \subseteq G
    BY <2>1, <2>2, Counting
  <2>4. \A n \in 0 .. L - 1 : n \in G /\ n <= L - 1 /\ n \in Nat
    BY <1>18, <2>3
  <2> QED
    BY <2>4 DEF G
<1> HIDE DEF In
<1>26. Bordered(start, border \ inner, inner, In)
  BY <1>22, <1>23, <1>24, <1>25 DEF Bordered
<1> QED
  BY <1>2, <1>18, <1>26 DEF start

\* What is met from each commit of start
MetFrom(next, start) == UNION {Reached(next, {c}) : c \in start}

\* next goes no further than the border.
StopsAt(next, border, inner) ==
    /\ next \in [Commits -> SUBSET Commits]
    /\ \A c \in border : next[c] = {}
    /\ \A c \in inner : next[c] = Parents[c]

\* A history that is cut at the border, and maybe elsewhere.
LEMMA CutIsIn ==
    ASSUME NEW start \in SUBSET Commits, NEW border, NEW inner, NEW In, Bordered(start, border, inner, In),
           NEW next, StopsAt(next, border, inner)
    PROVE  Reached(next, start) = In /\ MetFrom(next, start) = In
<1>1. DOMAIN next = Commits /\ \A c \in Commits : next[c] \subseteq Commits
  BY DEF StopsAt
<1>2. In \in SUBSET DOMAIN next /\ \A c \in In : next[c] \subseteq In
  BY <1>1 DEF Bordered, StopsAt
<1>3. Reached(next, start) \subseteq In
  BY <1>2, ReachedIsLeast DEF Bordered
<1>4. \A c \in start : Reached(next, {c}) \subseteq In
  <2> SUFFICES ASSUME NEW c \in start PROVE Reached(next, {c}) \subseteq In
    OBVIOUS
  <2>1. {c} \subseteq In
    BY DEF Bordered
  <2> QED
    BY <1>2, <2>1, ReachedIsLeast
<1>5. In \subseteq Reached(next, start)
  <2> DEFINE S == Reached(next, start)
  <2>1. S \in SUBSET Commits /\ start \subseteq S
    BY <1>1 DEF Reached
  <2>2. \A c \in S : next[c] \subseteq S
    BY <1>1, <2>1, ReachedIsClosed
  <2> HIDE DEF S
  <2> QED
    BY <2>1, <2>2 DEF Bordered, StopsAt, S
<1>6. In \subseteq UNION {Reached(next, {c}) : c \in start}
  <2> DEFINE S == UNION {Reached(next, {c}) : c \in start}
  <2>1. S \in SUBSET Commits /\ start \subseteq S
    <3>1. \A c \in start : c \in Reached(next, {c}) /\ Reached(next, {c}) \subseteq Commits
      <4> SUFFICES ASSUME NEW c \in start PROVE c \in Reached(next, {c}) /\ Reached(next, {c}) \subseteq Commits
        OBVIOUS
      <4>1. c \in DOMAIN next
        BY <1>1
      <4> QED
        BY <1>1, <4>1, ReachedHasStart
    <3> QED
      BY <3>1
  <2>2. \A c \in S : next[c] \subseteq S
    <3> SUFFICES ASSUME NEW d \in start, NEW c \in Reached(next, {d}) PROVE next[c] \subseteq Reached(next, {d})
      OBVIOUS
    <3>1. c \in Commits
      BY <1>1, ReachedHasStart
    <3> QED
      BY <1>1, <3>1, ReachedIsClosed
  <2> HIDE DEF S
  <2>3. In \subseteq S
    BY <2>1, <2>2 DEF Bordered, StopsAt
  <2> QED
    BY <2>3 DEF S
<1> QED
  BY <1>3, <1>4, <1>5, <1>6 DEF MetFrom

-----------------------------------------------------------------------------
(* A repo and its fetch                                                  *)

\* The commits that o leads to, tag by tag, are the one it leads to.
LEMMA PeeledCommits ==
    ASSUME NEW wanted \in SUBSET Objects
    PROVE  /\ (UNION {Peel[o] : o \in wanted}) \cap Commits = {PeelSha(o) : o \in wanted} \cap Commits
           /\ UNION {Peel[o] : o \in wanted} \in SUBSET Objects
<1>1. \A c \in Commits : c \notin Tags
  BY KindsAssumption
<1>2. ASSUME NEW o \in wanted, NEW c \in Peel[o], c \in Commits PROVE c = PeelSha(o)
  BY <1>1, <1>2, PeelShaFacts
<1>3. \A o \in wanted : PeelSha(o) \in Peel[o]
  BY PeelShaFacts
<1>4. \A o \in wanted : Peel[o] \subseteq Objects
  BY PeelFacts
<1> QED
  BY <1>2, <1>3, <1>4

\* A repo has what the commits it sees need.
SoundRepo(repo) ==
    /\ repo.store \in SUBSET Objects /\ repo.shallow \in SUBSET Commits
    /\ \A c \in Seen(repo, repo.heads) : Below[c] \subseteq repo.store
    /\ \A t \in repo.store \cap Tags : PeelSha(t) \in repo.store

LEMMA SeenFacts ==
    ASSUME NEW repo, NEW heads
    PROVE  /\ Seen(repo, heads) \subseteq Commits /\ heads \cap Commits \subseteq Seen(repo, heads)
           /\ \A c \in Seen(repo, heads) \ repo.shallow : Parents[c] \subseteq Seen(repo, heads)
           /\ \A S \in SUBSET Commits :
                 heads \cap Commits \subseteq S /\ (\A c \in S \ repo.shallow : Parents[c] \subseteq S)
                    => Seen(repo, heads) \subseteq S
<1> DEFINE next == GetParents(ParseGraftpoints(repo.shallow))
<1>1. /\ DOMAIN next = Commits
      /\ \A c \in Commits : next[c] = IF c \in repo.shallow THEN {} ELSE Parents[c]
  BY DEF GetParents, ParseGraftpoints
<1>2. Seen(repo, heads) = Reached(next, heads \cap Commits)
  BY DEF Seen
<1> HIDE DEF next
<1>3. \A c \in Commits : next[c] \subseteq DOMAIN next
  BY <1>1, ParentsAreCommits
<1>4. Seen(repo, heads) \subseteq Commits /\ heads \cap Commits \subseteq Seen(repo, heads)
  BY <1>1, <1>2 DEF Reached
<1>5. \A c \in Seen(repo, heads) : next[c] \subseteq Seen(repo, heads)
  <2> SUFFICES ASSUME NEW c \in Reached(next, heads \cap Commits)
               PROVE  next[c] \subseteq Reached(next, heads \cap Commits)
    BY <1>2
  <2>1. next[c] \subseteq DOMAIN next
    BY <1>2, <1>3, <1>4
  <2> QED
    BY <2>1, ReachedIsClosed
<1>6. ASSUME NEW S \in SUBSET Commits, heads \cap Commits \subseteq S,
             \A c \in S \ repo.shallow : Parents[c] \subseteq S
      PROVE  Seen(repo, heads) \subseteq S
  <2>1. \A c \in S : next[c] \subseteq S
    BY <1>1, <1>6
  <2> QED
    BY <1>1, <1>2, <1>6, <2>1, ReachedIsLeast
<1> QED
  BY <1>1, <1>4, <1>5, <1>6

\* What is sent to somebody who tells of nothing: all up to the border
LEMMA AllIsSent ==
    ASSUME NEW wanted \in SUBSET Objects, NEW depth \in Nat, NEW cut,
           LET found == FindShallow(wanted, depth)
           IN  cut = [c \in Commits |-> IF c \in found.shallow \ found.notShallow THEN {} ELSE Parents[c]]
    PROVE  LET sent == MissingObjectsBy(cut, BeforeBy(cut), Objects, {}, wanted)
           IN  /\ sent \in SUBSET Objects
               /\ \A c \in Within(wanted, depth) : Below[c] \subseteq sent
               /\ sent \cap Commits = Within(wanted, depth)
               /\ \A t \in sent \cap Tags : PeelSha(t) \in sent
<1> DEFINE before == BeforeBy(cut)
           want == UNION {Peel[o] : o \in wanted}
           In == Within(wanted, depth)
           start == {PeelSha(o) : o \in wanted} \cap Commits
           sent == MissingObjectsBy(cut, before, Objects, {}, wanted)
           starts == In \cup (want \ Commits)
<1>1. want \cap Commits = start /\ want \in SUBSET Objects
  BY PeeledCommits
<1>2. Bordered(start, FindShallow(wanted, depth).shallow \ FindShallow(wanted, depth).notShallow,
               FindShallow(wanted, depth).notShallow, In)
  BY BorderIsDrawn
<1>3. AncestorsIn(before, start) = In
  <2> DEFINE border == FindShallow(wanted, depth).shallow \ FindShallow(wanted, depth).notShallow
             inner == FindShallow(wanted, depth).notShallow
  <2>1. \A c \in start : before[c] = Reached(cut, {c})
    BY DEF BeforeBy
  <2>2. cut = [c \in Commits |-> IF c \in border THEN {} ELSE Parents[c]]
    OBVIOUS
  <2>3. border \subseteq Commits /\ inner \subseteq Commits /\ border \cap inner = {} /\ start \in SUBSET Commits
    <3> HIDE DEF start, In
    <3>1. border \subseteq Commits /\ inner \subseteq Commits /\ border \cap inner = {}
      BY <1>2 DEF Bordered
    <3>2. start \in SUBSET Commits
      BY DEF start
    <3> QED
      BY <3>1, <3>2
  <2> HIDE DEF start, In, border, inner
  <2>4. cut \in [Commits -> SUBSET Commits]
    BY <2>2, ParentsAreCommits
  <2>5. (\A c \in border : cut[c] = {}) /\ \A c \in inner : cut[c] = Parents[c]
    BY <2>2, <2>3
  <2>6. Bordered(start, border, inner, In)
    BY <1>2 DEF start, In, border, inner
  <2>7. MetFrom(cut, start) = In
    <3>1. StopsAt(cut, border, inner)
      BY <2>4, <2>5 DEF StopsAt
    <3> QED
      BY <2>3, <2>6, <3>1, CutIsIn
  <2>8. AncestorsIn(before, start) = MetFrom(cut, start)
    BY <2>1 DEF AncestorsIn, MetFrom
  <2> QED
    BY <2>7, <2>8
<1>4. sent = UNION {Below[o] : o \in starts}
  <2>1. /\ AncestorsIn(before, {}) = {}
        /\ (UNION {Peel[o] : o \in {} \cap Objects}) \cap Objects = {}
    BY DEF AncestorsIn
  <2>2. sent = (UNION {IF o \in Tags /\ Target[o] \in {} THEN {o} ELSE Below[o] :
                        o \in (In \cup ((want \ Commits) \ {})) \ {}}) \ {}
    <3> HIDE DEF before, want, start, In
    <3> DEFINE have == (UNION {Peel[o] : o \in {} \cap Objects}) \cap Objects
               allAncestors == AncestorsIn(before, have \cap Commits)
               missing == AncestorsIn(before, want \cap Commits) \ allAncestors
               shared == ((want \cap Commits) \cup UNION {cut[c] : c \in missing}) \cap allAncestors
               shaDone == shared \cup (UNION {FileTreeRevs(TreeOf[c]) : c \in shared}) \cup (have \cap Tags)
               objectsToSend == missing \cup ((want \ Commits) \ have)
               Todo(o) == IF o \in Tags /\ Target[o] \in shaDone THEN {o} ELSE Below[o]
    <3>1. sent = (UNION {Todo(o) : o \in objectsToSend \ shaDone}) \ shaDone
      BY DEF MissingObjectsBy, want
    <3>2. have = {}
      BY <2>1
    <3>3. allAncestors = {}
      BY <2>1, <3>2
    <3>4. missing = In
      BY <1>1, <1>3, <3>3
    <3>5. shared = {}
      BY <3>3
    <3>6. shaDone = {}
      BY <3>2, <3>5
    <3>7. objectsToSend = In \cup ((want \ Commits) \ {})
      BY <3>2, <3>4
    <3> HIDE DEF have, allAncestors, missing, shared, shaDone, objectsToSend, sent
    <3> QED
      BY <3>1, <3>6, <3>7
  <2> HIDE DEF sent, want, In
  <2> QED
    BY <2>2
<1> HIDE DEF before, sent, start, In
<1>5. In \subseteq Commits /\ start \subseteq In
  BY <1>2 DEF Bordered
<1>6. starts \in SUBSET Objects
  BY <1>1, <1>5 DEF Objects
<1>7. sent \in SUBSET Objects
  BY <1>4, <1>6, BelowFacts
<1>8. \A c \in In : Below[c] \subseteq sent
  BY <1>4
<1>9. In \subseteq sent
  BY <1>5, <1>8, BelowFacts DEF Objects
<1>10. sent \cap Commits \subseteq In
  <2> SUFFICES ASSUME NEW o \in starts, NEW c \in Below[o], c \in Commits PROVE c \in In
    BY <1>4
  <2>1. c \in Peel[o]
    BY <1>6, CommitsBelow
  <2>2. CASE o \in In
    BY <1>5, <2>1, <2>2, PeelOfCommit
  <2>3. CASE o \in want
    <3>1. PICK w \in wanted : o \in Peel[w]
      BY <2>3
    <3>2. Peel[o] \subseteq Peel[w]
      <4>1. Peel[w] \in SUBSET Objects /\ \A g \in Peel[w] \cap Tags : Target[g] \in Peel[w]
        BY PeelFacts
      <4> QED
        BY <1>6, <3>1, <4>1, PeelFacts
    <3>3. c \in want \cap Commits
      BY <2>1, <3>2
    <3> QED
      BY <1>1, <1>5, <3>3
  <2> QED
    BY <2>2, <2>3
<1>11. ASSUME NEW t \in sent \cap Tags PROVE PeelSha(t) \in sent
  <2>1. PICK o \in starts : t \in Below[o]
    BY <1>4
  <2>2. Below[o] \in SUBSET Objects /\ \A g \in Below[o] \cap Tags : Target[g] \in Below[o]
    BY <1>6, BelowFacts, ContentsAreObjects
  <2>3. t \in Objects
    BY DEF Objects
  <2>4. Peel[t] \subseteq Below[o]
    BY <2>1, <2>2, <2>3, PeelFacts
  <2>5. PeelSha(t) \in Below[o]
    BY <2>3, <2>4, PeelShaFacts
  <2> QED
    BY <1>4, <2>5
<1>12. sent \cap Commits = In
  BY <1>5, <1>9, <1>10
<1> HIDE DEF starts, want
<1> QED
  BY <1>7, <1>8, <1>11, <1>12 DEF sent, before, In

\* A fetch of some depth keeps a repo sound and shows it the history of that depth.
LEMMA FetchIsRight ==
    ASSUME NEW repo, SoundRepo(repo), NEW wanted \in SUBSET Objects, NEW depth \in Nat, NEW includeTag,
           repo.shallow = {} \/ Moves(ShallowRequest(repo.shallow, wanted, depth))
    PROVE  LET after == Fetched(repo, wanted, depth, includeTag)
           IN  /\ SoundRepo(after)
               /\ Seen(after, {PeelSha(o) : o \in wanted}) = Within(wanted, depth)
               /\ repo.store = {} => after.store \cap Commits = Within(wanted, depth)
<1> DEFINE found == FindShallow(wanted, depth)
           inner == found.notShallow
           border == found.shallow \ inner
           move == ShallowRequest(repo.shallow, wanted, depth)
           haves == Haves(repo)
           peeled == {PeelSha(o) : o \in wanted}
           start == peeled \cap Commits
           In == Within(wanted, depth)
           cut == [c \in Commits |-> IF c \in border THEN {} ELSE Parents[c]]
           told == IF Moves(move) THEN {} ELSE haves
           sent == MissingObjectsBy(cut, BeforeBy(cut), Objects, told, wanted)
           packed == FetchObjects(move, haves, wanted, includeTag)
           after == Fetched(repo, wanted, depth, includeTag)
<1>1. Bordered(start, border, inner, In)
  BY BorderIsDrawn
<1>2. move = [shallow |-> border, unshallow |-> inner \cap repo.shallow]
  BY DEF ShallowRequest
<1>3. /\ move.shallow = border /\ move.unshallow = inner \cap repo.shallow
      /\ Moves(move) <=> border # {} \/ inner \cap repo.shallow # {}
  <2> HIDE DEF move, border, inner
  <2> QED
    BY <1>2 DEF Moves
<1> HIDE DEF found
<1>4. /\ after.store = repo.store \cup packed /\ after.heads = repo.heads \cup peeled
      /\ after.shallow = (repo.shallow \cup (move.shallow \ repo.shallow)) \ move.unshallow
  BY DEF Fetched
<1>5. packed = sent \cup {t \in GetTagged(includeTag) : PeelSha(t) \in sent}
  <2>1. cut = [c \in Commits |-> IF c \in move.shallow THEN {} ELSE Parents[c]]
    BY <1>3
  <2> HIDE DEF cut, move, haves
  <2> QED
    BY <2>1 DEF FetchObjects
<1>6. /\ repo.store \in SUBSET Objects /\ repo.shallow \in SUBSET Commits
      /\ \A c \in Seen(repo, repo.heads) : Below[c] \subseteq repo.store
      /\ \A t \in repo.store \cap Tags : PeelSha(t) \in repo.store
  BY DEF SoundRepo
<1> HIDE DEF after, packed, move, inner, border, In, start, told
<1>7. GetTagged(includeTag) \subseteq Tags
  <2>1. \A o \in {PeelSha(t) : t \in TagRefs} : (CHOOSE t \in TagRefs : PeelSha(t) = o) \in TagRefs
    OBVIOUS
  <2>2. GetTagged(includeTag) \subseteq TagRefs
    BY <2>1 DEF GetTagged
  <2> QED
    BY <2>2, ShallowAssumption
<1>8. /\ border \subseteq In /\ inner \subseteq In /\ In = border \cup inner /\ In \subseteq Commits
      /\ border \cap inner = {} /\ start \subseteq In /\ \A c \in inner : Parents[c] \subseteq In
  BY <1>1 DEF Bordered
<1>9. after.shallow = (repo.shallow \ inner) \cup border
  BY <1>3, <1>4, <1>8
<1>10. start \in SUBSET Commits /\ peeled \cap Commits = start
  BY DEF start
<1>11. Seen(after, peeled) = In
  <2> DEFINE next == GetParents(ParseGraftpoints(after.shallow))
  <2>1. next = [c \in Commits |-> IF c \in after.shallow THEN {} ELSE Parents[c]]
    BY DEF GetParents, ParseGraftpoints
  <2>2. Seen(after, peeled) = Reached(next, start)
    BY <1>10 DEF Seen
  <2> HIDE DEF next, peeled
  <2>3. next \in [Commits -> SUBSET Commits]
    BY <2>1, ParentsAreCommits
  <2>4. (\A c \in border : next[c] = {}) /\ \A c \in inner : next[c] = Parents[c]
    BY <1>8, <1>9, <2>1
  <2>5. StopsAt(next, border, inner)
    BY <2>3, <2>4 DEF StopsAt
  <2> QED
    BY <1>1, <1>10, <2>2, <2>5, CutIsIn
\* The commits seen then are those seen before and those in the depth.
<1>12. Seen(after, after.heads) \subseteq Seen(repo, repo.heads) \cup In
  <2> DEFINE Old == Seen(repo, repo.heads)
  <2>1. /\ Old \subseteq Commits /\ repo.heads \cap Commits \subseteq Old
        /\ \A c \in Old \ repo.shallow : Parents[c] \subseteq Old
    BY SeenFacts
  <2> HIDE DEF Old, peeled
  <2>2. ASSUME NEW c \in (Old \cup In) \ after.shallow PROVE Parents[c] \subseteq Old \cup In
    <3>1. c \in inner \/ c \in Old \ repo.shallow
      BY <1>8, <1>9, <2>2
    <3> QED
      BY <1>8, <2>1, <3>1
  <2>3. after.heads \cap Commits \subseteq Old \cup In
    BY <1>4, <1>8, <1>10, <2>1
  <2>4. Old \cup In \in SUBSET Commits
    BY <1>8, <2>1
  <2> DEFINE S == Old \cup In
             heads == after.heads
  <2>5. S \in SUBSET Commits /\ heads \cap Commits \subseteq S /\ \A c \in S \ after.shallow : Parents[c] \subseteq S
    BY <2>2, <2>3, <2>4
  <2> HIDE DEF S, heads
  <2>6. Seen(after, heads) \subseteq S
    BY <2>5, SeenFacts
  <2> QED
    BY <2>6 DEF Old, S, heads
<1> DEFINE Useful == /\ sent \in SUBSET Objects
                     /\ \A c \in In : Below[c] \subseteq repo.store \cup sent
                     /\ \A t \in sent \cap Tags : PeelSha(t) \in repo.store \cup sent
                     /\ repo.store = {} => sent \cap Commits = In
<1>13. ASSUME told = {} PROVE Useful
  <2>1. cut = [c \in Commits |-> IF c \in FindShallow(wanted, depth).shallow
                                           \ FindShallow(wanted, depth).notShallow
                                 THEN {} ELSE Parents[c]]
    BY DEF border, inner, found
  <2>2. sent = MissingObjectsBy(cut, BeforeBy(cut), Objects, {}, wanted)
    BY <1>13
  <2> HIDE DEF cut
  <2>3. LET all == MissingObjectsBy(cut, BeforeBy(cut), Objects, {}, wanted)
        IN  /\ all \in SUBSET Objects
            /\ \A c \in Within(wanted, depth) : Below[c] \subseteq all
            /\ all \cap Commits = Within(wanted, depth)
            /\ \A t \in all \cap Tags : PeelSha(t) \in all
    BY <2>1, AllIsSent
  <2> HIDE DEF sent
  <2> QED
    BY <2>2, <2>3 DEF In
<1>14. ASSUME told # {} PROVE Useful
  <2>1. ~Moves(move) /\ told = haves /\ haves # {}
    BY <1>14 DEF told
  <2>2. repo.shallow = {} /\ border = {}
    BY <1>3, <2>1 DEF move
  <2>3. cut = Parents
    BY <2>2, GraphAssumption
  <2>4. BeforeBy(cut) = Before
    BY <2>3 DEF Before
  <2>5. sent = MissingObjects(Objects, haves, wanted)
    <3> HIDE DEF cut, haves
    <3> QED
      BY <2>1, <2>3, <2>4 DEF MissingObjects
  <2> HIDE DEF sent, cut
  <2> DEFINE held == UNION {Below[c] : c \in haves}
  <2>6. haves \subseteq Commits /\ \A c \in haves : Parents[c] \subseteq haves
    BY <2>2, SeenFacts DEF Haves
  <2>7. held \subseteq repo.store
    BY <1>6 DEF Haves
  <2> HIDE DEF haves
  <2>8. haves \subseteq held /\ held \subseteq Objects
    BY <2>6, BelowFacts DEF Objects
  <2>9. Complete(held)
    <3> SUFFICES ASSUME NEW q \in held PROVE Links[q] \subseteq held
      BY <2>8 DEF Complete
    <3>1. PICK c \in haves : q \in Below[c]
      OBVIOUS
    <3>2. c \in Objects /\ q \in Objects
      BY <2>6, <2>8 DEF Objects
    <3>3. Contents(q) \subseteq Below[c]
      BY <3>1, <3>2, BelowFacts
    <3>4. CASE q \in Commits
      <4>1. q = c
        BY <2>6, <3>1, <3>2, <3>4, CommitsBelow, PeelOfCommit
      <4>2. Links[q] = {TreeOf[q]} \cup Parents[q] /\ Contents(q) = {TreeOf[q]}
        BY <3>4, LinksAreObjects, ContentsAreObjects
      <4>3. Parents[q] \subseteq held
        BY <2>6, <2>8, <4>1
      <4> QED
        BY <3>3, <4>2, <4>3
    <3>5. CASE q \notin Commits
      <4>1. Links[q] = Contents(q)
        BY <3>2, <3>5, LinksAreObjects
      <4> QED
        BY <3>3, <4>1
    <3> QED
      BY <3>4, <3>5
  <2> DEFINE all == sent \cup held
  <2>10. Complete(all) /\ wanted \subseteq all
    <3>1. haves \in SUBSET Objects /\ haves \cap Objects \subseteq held /\ Objects \in SUBSET Objects
      BY <2>8
    <3> HIDE DEF held
    <3> QED
      BY <2>5, <2>9, <3>1, MissingObjectsSuffice
  <2> HIDE DEF held
  <2>11. all \subseteq repo.store \cup sent
    BY <2>7
  <2>12. start \subseteq all
    <3> SUFFICES ASSUME NEW o \in wanted PROVE PeelSha(o) \in all
      BY DEF start
    <3> HIDE DEF all
    <3> QED
      BY <2>10, CompleteHasAll, PeelShaFacts
  <2> HIDE DEF all
  <2>13. In \subseteq all
    <3>1. all \cap Commits \in SUBSET Commits /\ start \subseteq all \cap Commits
      BY <1>10, <2>12
    <3>2. \A c \in all \cap Commits : Parents[c] \subseteq all \cap Commits
      <4> SUFFICES ASSUME NEW c \in all \cap Commits PROVE Parents[c] \subseteq all \cap Commits
        OBVIOUS
      <4>1. Links[c] \subseteq all
        BY <2>10 DEF Complete
      <4> QED
        BY <4>1, LinksAreObjects, ParentsAreCommits
    <3>3. In \subseteq all \cap Commits
      BY <1>1, <3>1, <3>2 DEF Bordered
    <3> QED
      BY <3>3
  <2>14. \A c \in In : Below[c] \subseteq repo.store \cup sent
    BY <2>10, <2>11, <2>13, CompleteHasAll
  <2>15. ASSUME NEW t \in sent \cap Tags PROVE PeelSha(t) \in repo.store \cup sent
    <3>1. t \in all /\ t \in Objects
      BY DEF all, Objects
    <3> QED
      BY <2>10, <2>11, <3>1, CompleteHasAll, PeelShaFacts
  <2>16. sent \in SUBSET Objects
    BY <2>10 DEF Complete, all
  <2>17. repo.store # {}
    <3>1. held # {}
      BY <2>1, <2>8
    <3> QED
      BY <2>7, <3>1
  <2> QED
    BY <2>14, <2>15, <2>16, <2>17
<1>15. Useful
  BY <1>13, <1>14
<1> HIDE DEF sent
<1>16. after.store \in SUBSET Objects /\ after.shallow \in SUBSET Commits
  BY <1>4, <1>5, <1>6, <1>7, <1>8, <1>9, <1>15 DEF Objects
<1>17. ASSUME NEW c \in Seen(after, after.heads) PROVE Below[c] \subseteq after.store
  BY <1>4, <1>5, <1>6, <1>12, <1>15
<1>18. ASSUME NEW t \in after.store \cap Tags PROVE PeelSha(t) \in after.store
  <2>1. t \in repo.store \/ t \in sent \/ PeelSha(t) \in sent
    BY <1>4, <1>5
  <2>2. PeelSha(t) \in repo.store \cup sent
    BY <1>6, <1>15, <2>1
  <2> QED
    BY <1>4, <1>5, <2>2
<1>19. repo.store = {} => after.store \cap Commits = In
  <2> SUFFICES ASSUME repo.store = {} PROVE after.store \cap Commits = In
    OBVIOUS
  <2>1. sent \cap Commits = In
    BY <1>15
  <2>2. after.store = packed
    BY <1>4
  <2>3. packed \cap Commits = sent \cap Commits
    <3>1. \A t \in GetTagged(includeTag) : t \notin Commits
      BY <1>7, KindsAssumption
    <3> QED
      BY <1>5, <3>1
  <2> QED
    BY <2>1, <2>2, <2>3
<1> QED
  BY <1>11, <1>16, <1>17, <1>18, <1>19 DEF SoundRepo, after, In

LEMMA NewClientsAreSound == \A repo \in NewClients : SoundRepo(repo) /\ repo.shallow = {}
<1> SUFFICES ASSUME NEW heads \in SUBSET Commits, NEW repo,
                    repo = [store |-> Closure(heads), heads |-> heads, shallow |-> {}]
             PROVE  SoundRepo(repo) /\ repo.shallow = {}
  BY DEF NewClients
<1>1. repo.store = Closure(heads) /\ repo.heads = heads /\ repo.shallow = {}
  OBVIOUS
<1>2. heads \subseteq Closure(heads) /\ Complete(Closure(heads))
  BY ClosureFacts DEF Objects
<1> DEFINE S == Closure(heads) \cap Commits
<1>3. \A c \in S : Parents[c] \subseteq S
  <2> SUFFICES ASSUME NEW c \in S PROVE Parents[c] \subseteq S
    OBVIOUS
  <2>1. Links[c] \subseteq Closure(heads)
    BY <1>2 DEF Complete
  <2> QED
    BY <2>1, LinksAreObjects, ParentsAreCommits
<1>4. Seen(repo, heads) \subseteq S
  <2>1. S \in SUBSET Commits /\ heads \cap Commits \subseteq S /\ \A c \in S \ repo.shallow : Parents[c] \subseteq S
    BY <1>2, <1>3
  <2> HIDE DEF S
  <2> QED
    BY <2>1, SeenFacts
<1>5. \A c \in S : Below[c] \subseteq Closure(heads)
  BY <1>2, CompleteHasAll
<1>6. ASSUME NEW t \in Closure(heads) \cap Tags PROVE PeelSha(t) \in Closure(heads)
  <2>1. t \in Objects
    BY DEF Objects
  <2> QED
    BY <1>2, <2>1, CompleteHasAll, PeelShaFacts
<1> QED
  BY <1>1, <1>2, <1>4, <1>5, <1>6 DEF SoundRepo, Complete

\* A shallow fetch shows what it is asked for.
LEMMA ShallowFetchesAreRight == ShallowIsCut
<1> SUFFICES ASSUME NEW repo \in Clients, NEW wanted \in AskedFor, NEW depth \in Depths,
                    NEW includeTag \in BOOLEAN,
                    repo.shallow = {} \/ Moves(ShallowRequest(repo.shallow, wanted, depth))
             PROVE  LET after == Fetched(repo, wanted, depth, includeTag)
                    IN  /\ Seen(after, {PeelSha(o) : o \in wanted}) = Within(wanted, depth)
                        /\ \A c \in Seen(after, after.heads) : Below[c] \subseteq after.store
                        /\ repo.store = {} => after.store \cap Commits = Within(wanted, depth)
                        /\ \A t \in after.store \cap Tags : PeelSha(t) \in after.store
  BY DEF ShallowIsCut
<1>1. AskedFor \subseteq SUBSET Objects /\ Depths \subseteq Nat
  BY ShallowAssumption
<1>2. SoundRepo(repo)
  <2>1. CASE repo \in NewClients
    BY <2>1, NewClientsAreSound
  <2>2. CASE repo \notin NewClients
    <3>1. PICK first \in NewClients, w \in AskedFor, d \in Depths, i \in BOOLEAN :
               repo = Fetched(first, w, d, i)
      BY <2>2 DEF Clients
    <3>2. SoundRepo(first) /\ first.shallow = {} /\ w \in SUBSET Objects /\ d \in Nat
      BY <1>1, NewClientsAreSound
    <3> QED
      BY <3>1, <3>2, FetchIsRight
  <2> QED
    BY <2>1, <2>2
<1>3. wanted \in SUBSET Objects /\ depth \in Nat
  BY <1>1
<1> DEFINE after == Fetched(repo, wanted, depth, includeTag)
<1>4. /\ SoundRepo(after) /\ Seen(after, {PeelSha(o) : o \in wanted}) = Within(wanted, depth)
      /\ repo.store = {} => after.store \cap Commits = Within(wanted, depth)
  BY <1>2, <1>3, FetchIsRight
<1> HIDE DEF after
<1> QED
  BY <1>4 DEF SoundRepo, after

-----------------------------------------------------------------------------
(* For every history and all clocks: a log lists what it should, once, and  *)
(* in topological order if asked to; and a client that fetches some depth   *)
(* sees that much of the history and has what belongs to it, whatever it    *)
(* had before.                                                              *)
THEOREM HistoryAlwaysRight == Spec => []HistoryIsRight
<1>1. HistoryIsRight
  BY LogsListNews, ChildrenAreFirst, ShallowFetchesAreRight DEF HistoryIsRight, LogIsRight
<1> QED
  BY <1>1, PTL
=============================================================================
