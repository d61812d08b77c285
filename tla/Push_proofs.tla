----------------------------- MODULE Push_proofs -----------------------------
(***************************************************************************)
(* However many clients push at the same time, on any graph of objects:    *)
(* the server keeps all that its refs need, and a success that a client is *)
(* told of was one.                                                        *)
(***************************************************************************)
EXTENDS Push, DeltaChain, ObjectGraph_proofs

-----------------------------------------------------------------------------
(* The inductive invariant                                                 *)

RefValues == [Refs -> Commits \cup {None}]
Wishes == UNION {[ns -> Commits \cup {None}] : ns \in SUBSET Refs}

TypeOK ==
    /\ theirs \in RefValues /\ store \in SUBSET Objects /\ deletes \in BOOLEAN
    /\ broken \in BOOLEAN
    /\ pc \in [Clients -> {"idle", "read", "send", "tail", "set"}]
    /\ via \in [Clients -> {"stream", "http", "local", None}]
    /\ new \in [Clients -> Wishes] /\ old \in [Clients -> Wishes]
    /\ handler \in [Clients -> {"off", "unpack", "refs"}]
    /\ commands \in [Clients -> SUBSET Refs]
    /\ request \in [Clients -> {None, CutOff} \cup SUBSET Objects]
    /\ report \in [Clients -> {None} \cup [unpack : BOOLEAN, refs : BOOLEAN]]
    /\ took \in [Clients -> SUBSET Refs] /\ raced \in [Clients -> SUBSET Refs]
    /\ outcome \in [Clients -> {None, "ok", "rejected", "unpack failed", "hangup", "raised"}]

\* The client was told the refs of the server.
Knows(p) == pc[p] \in {"send", "tail", "set"} \/ handler[p] # "off"

\* How far client and server are, and what the one has sent the other.
Talk(p) ==
    /\ pc[p] \in {"read", "send", "set"} => handler[p] = "off"
    /\ pc[p] = "set" => via[p] = "local"
    /\ Knows(p) => old[p] \in RefValues
    /\ handler[p] # "off" \/ pc[p] = "set" => commands[p] \subseteq Permitted(p)
    /\ handler[p] = "unpack" =>
          /\ commands[p] = Changes(p, old[p])
          /\ request[p] \in {Pack(p), CutOff} \/ (request[p] = None /\ Pack(p) = {})
          /\ report[p] = None
    /\ pc[p] \in {"read", "send"} => report[p] = None
    /\ pc[p] # "idle" => outcome[p] = None

\* The value of a ref is of use to the server.
Usable(v) == v # None => Needs[v] \subseteq store

\* The server has what its refs need, what those needed that it told of, and
\* what those will need that it is about to change.
Held(p) ==
    /\ Knows(p) => \A n \in Refs : Usable(old[p][n])
    /\ handler[p] = "refs" \/ pc[p] = "set" => \A n \in commands[p] : Usable(new[p][n])

AllHeld == ~broken => (\A n \in Refs : Usable(theirs[n])) /\ \A p \in Clients : Held(p)

\* A ref that is not what the client was told of was changed, by its push or by
\* another; what is not left to do was done, or others were faster.
Settled(p) ==
    /\ Knows(p) => \A n \in Refs : theirs[n] = old[p][n] \/ n \in took[p] \cup raced[p]
    /\ handler[p] = "refs" \/ (pc[p] = "tail" /\ handler[p] = "off" /\ report[p] # None) =>
          Changes(p, old[p]) \subseteq took[p] \cup raced[p] \cup
                                         (IF handler[p] = "refs" THEN commands[p] ELSE {})
    /\ pc[p] = "set" => DOMAIN new[p] \subseteq took[p] \cup raced[p] \cup commands[p]

IInv ==
    /\ TypeOK
    /\ \A p \in Clients : Talk(p)
    /\ AllHeld
    /\ \A p \in Clients : Settled(p)
    /\ SuccessTookEffect

-----------------------------------------------------------------------------
(* Values                                                                  *)

LEMMA WishesFacts ==
    /\ \A f \in Wishes : DOMAIN f \in SUBSET Refs
    /\ \A f \in Wishes : \A n \in DOMAIN f : f[n] \in Commits \cup {None}
    /\ \A f \in RefValues : f \in Wishes /\ DOMAIN f = Refs
    /\ <<>> \in Wishes
<1>1. \A f \in Wishes : \E ns \in SUBSET Refs : f \in [ns -> Commits \cup {None}]
    BY DEF Wishes
<1>2. <<>> \in [{} -> Commits \cup {None}]
    OBVIOUS
<1> QED
    BY <1>1, <1>2 DEF Wishes, RefValues

LEMMA ToldFacts == \A f \in RefValues : Told(f) \in SUBSET Objects
    BY DEF Told, RefValues, Objects

LEMMA PermittedFacts ==
    ASSUME TypeOK, NEW p \in Clients
    PROVE  /\ Permitted(p) \subseteq DOMAIN new[p] /\ DOMAIN new[p] \subseteq Refs
           /\ \A n \in DOMAIN new[p] : new[p][n] \in Commits \cup {None}
           /\ \A f : Changes(p, f) \subseteq Permitted(p)
           /\ \A f : News(p, f) \in SUBSET Objects
<1>1. new[p] \in Wishes
    BY DEF TypeOK
<1>2. DOMAIN new[p] \subseteq Refs /\ \A n \in DOMAIN new[p] : new[p][n] \in Commits \cup {None}
    BY <1>1, WishesFacts
<1>3. Permitted(p) \subseteq DOMAIN new[p]
    BY DEF Permitted
<1> QED
    BY <1>2, <1>3 DEF Changes, News, Objects

\* The pack is enough for all that a client may set, if the server has what the
\* refs need that the client was told of.
LEMMA PackIsEnough ==
    ASSUME TypeOK, NEW p \in Clients, old[p] \in RefValues
    PROVE  /\ Pack(p) \in SUBSET Objects
           /\ \A S : (\A n \in Refs : Usable(old[p][n])) /\ store \cup Pack(p) \subseteq S =>
                 \A n \in Permitted(p) : new[p][n] # None => Needs[new[p][n]] \subseteq S
<1>1. Told(old[p]) \in SUBSET Objects /\ Told(Mine[p]) \in SUBSET Objects
    BY ToldFacts, PushAssumption DEF RefValues
<1>2. Ours(p) \in SUBSET Objects
    BY <1>1, ClosureFacts DEF Ours, Complete
<1>3. News(p, old[p]) \in SUBSET Objects
    BY PermittedFacts
<1>4. /\ Closure(News(p, old[p])) \subseteq Pack(p) \cup Closure(Told(old[p]))
      /\ Pack(p) \in SUBSET Objects
    BY <1>1, <1>2, <1>3, NothingIsMissing DEF Pack
<1>5. ASSUME \A n \in Refs : Usable(old[p][n]), NEW S, store \cup Pack(p) \subseteq S,
             NEW n \in Permitted(p), new[p][n] # None
      PROVE  Needs[new[p][n]] \subseteq S
  <2>1. \A o \in Told(old[p]) : Needs[o] \subseteq store
    BY <1>5 DEF Told, Usable, RefValues
  <2>2. Closure(Told(old[p])) \subseteq store
    BY <2>1 DEF Closure
  <2>3. CASE new[p][n] \in Told(old[p])
    BY <1>5, <2>1, <2>3
  <2>4. CASE new[p][n] \notin Told(old[p])
    <3>1. new[p][n] \in News(p, old[p])
      BY <1>5, <2>4 DEF News
    <3>2. Needs[new[p][n]] \subseteq Closure(News(p, old[p]))
      BY <3>1 DEF Closure
    <3> QED
      BY <1>4, <1>5, <2>2, <3>2
  <2> QED
    BY <2>3, <2>4
<1> QED
    BY <1>4, <1>5

LEMMA InitialStates == Init => IInv
<1> SUFFICES ASSUME Init PROVE IInv
    OBVIOUS
<1>1. TypeOK
  <2>1. theirs \in RefValues /\ theirs \in [Refs -> Commits \cup {None}]
    BY PushAssumption DEF Init, RefValues
  <2>2. store \in SUBSET Objects
    BY <2>1, ToldFacts, ClosureFacts DEF Init, Complete
  <2> QED
    BY <2>1, <2>2, WishesFacts DEF Init, TypeOK
<1>2. \A p \in Clients : Talk(p) /\ Settled(p)
    BY DEF Init, Talk, Settled, Knows
<1>3. AllHeld
  <2>1. \A n \in Refs : Usable(theirs[n])
    BY <1>1 DEF Init, Usable, Closure, Told, TypeOK, RefValues
  <2> QED
    BY <2>1 DEF Init, AllHeld, Held, Knows
<1>4. SuccessTookEffect
    BY DEF Init, SuccessTookEffect
<1> QED
    BY <1>1, <1>2, <1>3, <1>4 DEF IInv

-----------------------------------------------------------------------------
(* Types                                                                   *)

LEMMA PutTyped ==
    ASSUME TypeOK, NEW p \in Clients, NEW n \in Refs, Put(p, n), new[p][n] \in Commits \cup {None}
    PROVE  /\ theirs' \in RefValues
           /\ took' \in [Clients -> SUBSET Refs] /\ raced' \in [Clients -> SUBSET Refs]
<1>1. CASE Unmoved(p, n)
  <2>1. /\ theirs' = [theirs EXCEPT ![n] = new[p][n]]
        /\ took' = [took EXCEPT ![p] = took[p] \cup {n}]
        /\ raced' = [q \in Clients |-> IF q = p THEN raced[q] ELSE raced[q] \cup {n}]
    BY <1>1 DEF Put
  <2> QED
    BY <2>1 DEF TypeOK, RefValues
<1>2. CASE ~Unmoved(p, n)
    BY <1>2 DEF Put, TypeOK
<1> QED
    BY <1>1, <1>2

LEMMA TypeStep ==
    ASSUME IInv, NEW p \in Clients,
           Start(p) \/ ClientStep(p) \/ ServerStep(p) \/ Cut(p) \/ RefLocked(p) \/ LocalLocked(p)
    PROVE  TypeOK'
<1> TypeOK /\ Talk(p)
    BY DEF IInv
<1>a. \A f \in RefValues : f \in Wishes
    BY WishesFacts
<1>b. Permitted(p) \subseteq Refs /\ DOMAIN new[p] \subseteq Refs
    BY PermittedFacts
<1>c. \A n \in DOMAIN new[p] : new[p][n] \in Commits \cup {None}
    BY PermittedFacts
<1>1. CASE Start(p)
  <2>1. Asked(p) \subseteq Wishes
    BY DEF Asked, Wishes
  <2>2. <<>> \in Wishes
    BY WishesFacts
  <2>3. new' \in [Clients -> Wishes] /\ old' \in [Clients -> Wishes]
    BY <1>1, <2>1, <2>2 DEF TypeOK, Start
  <2>4. via' \in [Clients -> {"stream", "http", "local", None}]
    <3>1. PICK v \in {"stream", "http", "local"} : via' = [via EXCEPT ![p] = v]
      BY <1>1 DEF Start
    <3> QED
      BY <3>1 DEF TypeOK
  <2> QED
    BY <1>1, <2>3, <2>4 DEF TypeOK, repo, Start, Goto
<1>2. CASE ReadRefs(p)
    BY <1>2, <1>a DEF TypeOK, repo, told, served, history, ReadRefs, End, Goto
<1>3. CASE Send(p)
  <2>1. Pack(p) \in SUBSET Objects
    BY <1>3, PackIsEnough DEF Send, Talk, Knows
  <2>2. Sent(p) \in {None} \cup SUBSET Objects
    BY <2>1 DEF Sent
  <2>3. Changes(p, old[p]) \in SUBSET Refs
    BY PermittedFacts
  <2> QED
    BY <1>3, <2>2, <2>3 DEF TypeOK, repo, told, served, history, Send, Goto
<1>4. CASE ReadReport(p)
    BY <1>4 DEF TypeOK, repo, told, served, history, ReadReport, End, Goto, Verdict
<1>5. CASE Hangup(p)
    BY <1>5, <1>a DEF TypeOK, repo, told, served, history, Hangup, End, Goto
<1>6. CASE AddLocal(p)
  <2>1. Pack(p) \in SUBSET Objects
    BY <1>6, PackIsEnough DEF AddLocal, Talk, Knows
  <2> QED
    BY <1>6, <2>1, <1>b DEF TypeOK, repo, told, served, history, AddLocal, Goto
<1>7. CASE SetLocal(p)
  <2>1. commands[p] \subseteq DOMAIN new[p]
    BY <1>7, PermittedFacts DEF SetLocal, Talk
  <2>2. \A n \in commands[p] : n \in Refs /\ new[p][n] \in Commits \cup {None}
    BY <1>b, <1>c, <2>1
  <2>3. CASE commands[p] = {}
    BY <1>7, <2>3 DEF TypeOK, told, SetLocal, End, Goto
  <2>4. ASSUME NEW n \in commands[p], Put(p, n), commands' = [commands EXCEPT ![p] = @ \ {n}],
               UNCHANGED <<pc, outcome>> \/ End(p, "raised")
        PROVE  TypeOK'
    <3>1. pc' \in [Clients -> {"idle", "read", "send", "tail", "set"}]
      BY <2>4 DEF TypeOK, End, Goto
    <3>2. outcome' \in [Clients -> {None, "ok", "rejected", "unpack failed", "hangup", "raised"}]
      BY <2>4 DEF TypeOK, End
    <3> QED
      BY <1>7, <2>2, <2>4, <3>1, <3>2, PutTyped DEF TypeOK, told, SetLocal
  <2> QED
    BY <1>7, <2>3, <2>4 DEF SetLocal
<1>8. CASE NoCommands(p)
    BY <1>8, <1>a DEF TypeOK, repo, told, served, history, NoCommands
<1>9. CASE Unpack(p)
  <2>1. request[p] \notin {None, CutOff} => request[p] \in SUBSET Objects
    BY DEF TypeOK
  <2>2. store' \in SUBSET Objects
    BY <1>9, <2>1 DEF Unpack, TypeOK
  <2> QED
    BY <1>9, <2>2 DEF TypeOK, told, Unpack
<1>10. CASE SetRef(p)
  <2>1. commands[p] \subseteq DOMAIN new[p]
    BY <1>10, PermittedFacts DEF SetRef, Talk
  <2>2. \A n \in commands[p] : n \in Refs /\ new[p][n] \in Commits \cup {None}
    BY <1>b, <1>c, <2>1
  <2>3. PICK n \in commands[p] : Put(p, n) /\ commands' = [commands EXCEPT ![p] = @ \ {n}]
    BY <1>10 DEF SetRef
  <2> QED
    BY <1>10, <2>2, <2>3, PutTyped DEF TypeOK, told, SetRef
<1>11. CASE Report(p)
    BY <1>11, <1>a DEF TypeOK, repo, told, served, history, Report
<1>12. CASE Cut(p)
    BY <1>12, <1>a DEF TypeOK, repo, told, served, history, Cut, End, Goto
<1>13. CASE RefLocked(p)
    BY <1>13, <1>a DEF TypeOK, repo, told, served, history, RefLocked
<1>14. CASE LocalLocked(p)
    BY <1>14, <1>a DEF TypeOK, repo, told, served, history, LocalLocked, End, Goto
<1> QED
    BY <1>1, <1>2, <1>3, <1>4, <1>5, <1>6, <1>7, <1>8, <1>9, <1>10, <1>11, <1>12, <1>13, <1>14 DEF ClientStep, ServerStep

-----------------------------------------------------------------------------
(* A step of one client, or of the server for it, leaves the talk of the   *)
(* others alone; refs it changes are noted for them.                       *)

Same(q) ==
    /\ pc'[q] = pc[q] /\ via'[q] = via[q] /\ new'[q] = new[q] /\ old'[q] = old[q]
    /\ handler'[q] = handler[q] /\ commands'[q] = commands[q]
    /\ request'[q] = request[q] /\ report'[q] = report[q]
    /\ took'[q] = took[q] /\ outcome'[q] = outcome[q]

\* What a change of a ref does, for the one who makes it and the others.
LEMMA PutFacts ==
    ASSUME TypeOK, NEW p \in Clients, NEW n \in Refs, Put(p, n)
    PROVE  /\ \A q \in Clients : raced[q] \subseteq raced'[q] /\ took[q] \subseteq took'[q]
           /\ \A q \in Clients : q # p => took'[q] = took[q]
           /\ \A m \in Refs : \/ theirs'[m] = theirs[m]
                              \/ /\ m = n /\ theirs'[m] = new[p][n]
                                 /\ \A q \in Clients : n \in took'[q] \cup raced'[q]
           /\ n \in took'[p] \/ theirs[n] # old[p][n]
<1>1. CASE Unmoved(p, n)
  <2>1. /\ theirs' = [theirs EXCEPT ![n] = new[p][n]]
        /\ took' = [took EXCEPT ![p] = took[p] \cup {n}]
        /\ raced' = [q \in Clients |-> IF q = p THEN raced[q] ELSE raced[q] \cup {n}]
    BY <1>1 DEF Put
  <2> QED
    BY <2>1 DEF TypeOK, RefValues
<1>2. CASE ~Unmoved(p, n)
    BY <1>2 DEF Put, Unmoved
<1> QED
    BY <1>1, <1>2

LEMMA OthersSame ==
    ASSUME TypeOK, NEW p \in Clients,
           Start(p) \/ ClientStep(p) \/ ServerStep(p) \/ Cut(p) \/ RefLocked(p) \/ LocalLocked(p),
           NEW q \in Clients, q # p
    PROVE  Same(q) /\ raced[q] \subseteq raced'[q]
<1>1. CASE Start(p)
  <2>1. PICK v \in {"stream", "http", "local"} : via' = [via EXCEPT ![p] = v]
    BY <1>1 DEF Start
  <2>2. PICK f \in Asked(p) : new' = [new EXCEPT ![p] = f]
    BY <1>1 DEF Start
  <2> QED
    BY <1>1, <2>1, <2>2 DEF Same, TypeOK, Start, Goto
<1>2. CASE ReadRefs(p)
    BY <1>2 DEF Same, TypeOK, repo, told, served, history, ReadRefs, End, Goto
<1>3. CASE Send(p)
    BY <1>3 DEF Same, TypeOK, repo, told, served, history, Send, Goto
<1>4. CASE ReadReport(p)
    BY <1>4 DEF Same, TypeOK, repo, told, served, history, ReadReport, End, Goto
<1>5. CASE Hangup(p)
    BY <1>5 DEF Same, TypeOK, repo, told, served, history, Hangup, End, Goto
<1>6. CASE AddLocal(p)
    BY <1>6 DEF Same, TypeOK, repo, told, served, history, AddLocal, Goto
<1>7. CASE SetLocal(p)
  <2>1. CASE commands[p] = {}
    BY <1>7, <2>1 DEF Same, TypeOK, repo, told, served, history, SetLocal, End, Goto
  <2>2. CASE commands[p] # {}
    <3>1. PICK n \in commands[p] : Put(p, n) /\ commands' = [commands EXCEPT ![p] = @ \ {n}]
      BY <1>7, <2>2 DEF SetLocal
    <3>2. n \in Refs
      BY DEF TypeOK
    <3>3. took'[q] = took[q] /\ raced[q] \subseteq raced'[q]
      BY <3>1, <3>2, PutFacts
    <3>4. UNCHANGED <<pc, outcome>> \/ End(p, "raised")
      BY <1>7, <2>2 DEF SetLocal
    <3>5. pc'[q] = pc[q] /\ outcome'[q] = outcome[q]
      BY <3>4 DEF TypeOK, End, Goto
    <3> QED
      BY <1>7, <2>2, <3>1, <3>3, <3>5 DEF Same, TypeOK, told, SetLocal
  <2> QED
    BY <2>1, <2>2
<1>8. CASE NoCommands(p)
    BY <1>8 DEF Same, TypeOK, repo, told, served, history, NoCommands
<1>9. CASE Unpack(p)
    BY <1>9 DEF Same, TypeOK, repo, told, served, history, Unpack
<1>10. CASE SetRef(p)
  <2>1. PICK n \in commands[p] : Put(p, n) /\ commands' = [commands EXCEPT ![p] = @ \ {n}]
    BY <1>10 DEF SetRef
  <2>2. n \in Refs
    BY DEF TypeOK
  <2>3. took'[q] = took[q] /\ raced[q] \subseteq raced'[q]
    BY <2>1, <2>2, PutFacts
  <2> QED
    BY <1>10, <2>1, <2>3 DEF Same, TypeOK, told, SetRef
<1>11. CASE Report(p)
    BY <1>11 DEF Same, TypeOK, repo, told, served, history, Report
<1>12. CASE Cut(p)
    BY <1>12 DEF Same, TypeOK, repo, told, served, history, Cut, End, Goto
<1>13. CASE RefLocked(p)
    BY <1>13 DEF Same, TypeOK, repo, told, served, history, RefLocked
<1>14. CASE LocalLocked(p)
    BY <1>14 DEF Same, TypeOK, repo, told, served, history, LocalLocked, End, Goto
<1> QED
    BY <1>1, <1>2, <1>3, <1>4, <1>5, <1>6, <1>7, <1>8, <1>9, <1>10, <1>11, <1>12, <1>13, <1>14 DEF ClientStep, ServerStep

\* What a client asks for and is to send follows from what it wishes and was told.
LEMMA AsksTheSame ==
    ASSUME NEW q \in Clients, via'[q] = via[q], new'[q] = new[q], old'[q] = old[q], deletes' = deletes
    PROVE  /\ Permitted(q)' = Permitted(q)
           /\ \A f : Changes(q, f)' = Changes(q, f)
           /\ Pack(q)' = Pack(q)
<1>1. Permitted(q)' = Permitted(q)
    BY DEF Permitted
<1>2. \A f : Changes(q, f)' = Changes(q, f)
    BY <1>1 DEF Changes
<1>3. News(q, old[q])' = News(q, old[q])
    BY <1>1 DEF News, Told
<1>4. Told(old[q])' = Told(old[q]) /\ Ours(q)' = Ours(q)
    BY DEF Told, Ours
<1> QED
    BY <1>1, <1>2, <1>3, <1>4 DEF Pack

LEMMA TalkKept ==
    ASSUME NEW q \in Clients, Same(q), deletes' = deletes, Talk(q)
    PROVE  Talk(q)'
<1>1. Permitted(q)' = Permitted(q) /\ Changes(q, old[q])' = Changes(q, old[q]) /\ Pack(q)' = Pack(q)
    BY AsksTheSame DEF Same
<1> QED
    BY <1>1 DEF Same, Talk, Knows

LEMMA DeletesStays ==
    ASSUME NEW p \in Clients,
           Start(p) \/ ClientStep(p) \/ ServerStep(p) \/ Cut(p) \/ RefLocked(p) \/ LocalLocked(p)
    PROVE  deletes' = deletes
    BY DEF ClientStep, ServerStep, Start, ReadRefs, Send, ReadReport, Hangup, AddLocal, SetLocal,
           NoCommands, Unpack, SetRef, Report, Cut, RefLocked, LocalLocked, End, Goto, repo

-----------------------------------------------------------------------------
(* The talk of the one who does a step                                     *)

LEMMA TalkStep ==
    ASSUME IInv, NEW p \in Clients,
           Start(p) \/ ClientStep(p) \/ ServerStep(p) \/ Cut(p) \/ RefLocked(p) \/ LocalLocked(p)
    PROVE  Talk(p)'
<1> TypeOK /\ Talk(p) /\ deletes' = deletes
    BY DeletesStays DEF IInv
<1>a. via'[p] = via[p] /\ new'[p] = new[p] /\ old'[p] = old[p] =>
         /\ Permitted(p)' = Permitted(p) /\ Pack(p)' = Pack(p)
         /\ Changes(p, old[p])' = Changes(p, old[p])
    BY AsksTheSame
<1>b. Changes(p, old[p]) \subseteq Permitted(p)
    BY DEF Changes
<1>1. CASE Start(p)
    BY <1>1 DEF Talk, Knows, TypeOK, Start, Goto
<1>2. CASE ReadRefs(p)
    BY <1>2 DEF Talk, Knows, TypeOK, served, ReadRefs, End, Goto
<1>3. CASE Send(p)
  <2>1. /\ via'[p] = via[p] /\ new'[p] = new[p] /\ old'[p] = old[p] /\ pc'[p] = "tail"
        /\ handler'[p] = "unpack" /\ commands'[p] = Changes(p, old[p]) /\ request'[p] = Sent(p)
        /\ report'[p] = report[p]
    BY <1>3 DEF TypeOK, told, Send, Goto
  <2>2. Sent(p) = Pack(p) \/ (Sent(p) = None /\ Pack(p) = {})
    BY DEF Sent
  <2> QED
    BY <1>3, <1>a, <1>b, <2>1, <2>2 DEF Talk, Knows, Send
<1>4. CASE ReadReport(p)
    BY <1>4, <1>a, <1>b DEF Talk, Knows, TypeOK, told, served, ReadReport, End, Goto
<1>5. CASE Hangup(p)
    BY <1>5, <1>a, <1>b DEF Talk, Knows, TypeOK, told, served, Hangup, End, Goto
<1>6. CASE AddLocal(p)
  <2>1. Permitted(p) = DOMAIN new[p]
    BY <1>6 DEF AddLocal, Permitted
  <2> QED
    BY <1>6, <1>a, <2>1 DEF Talk, Knows, TypeOK, told, AddLocal, Goto
<1>7. CASE SetLocal(p)
  <2>1. CASE commands[p] = {}
    BY <1>7, <1>a, <2>1 DEF Talk, Knows, TypeOK, told, SetLocal, End, Goto
  <2>2. CASE commands[p] # {}
    <3>1. PICK n \in commands[p] : commands' = [commands EXCEPT ![p] = @ \ {n}]
      BY <1>7, <2>2 DEF SetLocal
    <3>2. commands'[p] \subseteq commands[p]
      BY <3>1 DEF TypeOK
    <3>3. UNCHANGED <<told, handler, request, report>> /\ pc[p] = "set"
      BY <1>7, <2>2 DEF SetLocal
    <3>4. UNCHANGED <<pc, outcome>> \/ pc'[p] = "idle"
      BY <1>7, <2>2 DEF SetLocal, TypeOK, End, Goto
    <3> QED
      BY <1>a, <3>2, <3>3, <3>4 DEF Talk, Knows, told
  <2> QED
    BY <2>1, <2>2
<1>8. CASE NoCommands(p)
    BY <1>8, <1>a, <1>b DEF Talk, Knows, TypeOK, told, NoCommands
<1>9. CASE Unpack(p)
    BY <1>9, <1>a, <1>b DEF Talk, Knows, TypeOK, told, Unpack
<1>10. CASE SetRef(p)
  <2>1. PICK n \in commands[p] : commands' = [commands EXCEPT ![p] = @ \ {n}]
    BY <1>10 DEF SetRef
  <2>2. commands'[p] \subseteq commands[p]
    BY <2>1 DEF TypeOK
  <2>3. UNCHANGED <<pc, told, handler, request, report, outcome>> /\ handler[p] = "refs"
    BY <1>10 DEF SetRef
  <2> QED
    BY <1>a, <2>2, <2>3 DEF Talk, Knows, told
<1>11. CASE Report(p)
    BY <1>11, <1>a, <1>b DEF Talk, Knows, TypeOK, told, Report
<1>12. CASE Cut(p)
    BY <1>12, <1>a, <1>b DEF Talk, Knows, TypeOK, told, Cut, End, Goto
<1>13. CASE RefLocked(p)
    BY <1>13, <1>a, <1>b DEF Talk, Knows, TypeOK, told, RefLocked
<1>14. CASE LocalLocked(p)
    BY <1>14, <1>a, <1>b DEF Talk, Knows, TypeOK, told, served, LocalLocked, End, Goto
<1> QED
    BY <1>1, <1>2, <1>3, <1>4, <1>5, <1>6, <1>7, <1>8, <1>9, <1>10, <1>11, <1>12, <1>13, <1>14 DEF ClientStep, ServerStep

-----------------------------------------------------------------------------
(* The server has what is needed                                           *)

LEMMA StoreGrows ==
    ASSUME NEW p \in Clients,
           Start(p) \/ ClientStep(p) \/ ServerStep(p) \/ Cut(p) \/ RefLocked(p) \/ LocalLocked(p)
    PROVE  store \subseteq store' /\ (broken => broken')
<1>1. CASE Unpack(p)
    BY <1>1 DEF Unpack
<1>2. CASE AddLocal(p)
    BY <1>2 DEF AddLocal, history
<1>3. CASE ~Unpack(p) /\ ~AddLocal(p)
    BY <1>3 DEF ClientStep, ServerStep, Start, ReadRefs, Send, ReadReport, Hangup, SetLocal,
           NoCommands, SetRef, Report, Cut, RefLocked, LocalLocked, End, Goto, repo, history
<1> QED
    BY <1>1, <1>2, <1>3

\* Only a change of a ref changes one.
LEMMA RefsChange ==
    ASSUME IInv, NEW p \in Clients,
           Start(p) \/ ClientStep(p) \/ ServerStep(p) \/ Cut(p) \/ RefLocked(p) \/ LocalLocked(p)
    PROVE  \/ UNCHANGED <<theirs, took, raced>>
           \/ /\ UNCHANGED theirs
              /\ Start(p)
           \/ /\ handler[p] = "refs" \/ pc[p] = "set"
              /\ \E n \in commands[p] : Put(p, n) /\ commands' = [commands EXCEPT ![p] = @ \ {n}]
              /\ UNCHANGED <<pc, outcome>> \/ (SetLocal(p) /\ End(p, "raised"))
              /\ UNCHANGED <<via, new, old, handler, request, report, store, broken>>
<1>1. CASE SetLocal(p)
    BY <1>1 DEF SetLocal, told
<1>2. CASE SetRef(p)
    BY <1>2 DEF SetRef, told
<1>3. CASE ~SetLocal(p) /\ ~SetRef(p)
    BY <1>3 DEF ClientStep, ServerStep, Start, ReadRefs, Send, ReadReport, Hangup, AddLocal,
           NoCommands, Unpack, Report, Cut, RefLocked, LocalLocked, End, Goto, repo, history
<1> QED
    BY <1>1, <1>2, <1>3

\* What the client was told and what is to be done after the step.
LEMMA HeldStep ==
    ASSUME IInv, NEW p \in Clients,
           Start(p) \/ ClientStep(p) \/ ServerStep(p) \/ Cut(p) \/ RefLocked(p) \/ LocalLocked(p),
           ~broken', \A n \in Refs : Usable(theirs[n]), Held(p)
    PROVE  Held(p)'
<1> TypeOK /\ Talk(p)
    BY DEF IInv
<1>a. store \subseteq store'
    BY StoreGrows
<1>b. \A v : Usable(v) => Usable(v)'
    BY <1>a DEF Usable
<1>c. Knows(p) => old[p] \in RefValues
    BY DEF Talk
<1>1. CASE Start(p)
    BY <1>1 DEF Held, Knows, TypeOK, Start, Goto
<1>2. CASE ReadRefs(p)
  <2>1. old'[p] = theirs /\ pc'[p] \in {"idle", "send"} /\ handler'[p] = "off"
    BY <1>2 DEF TypeOK, Talk, served, ReadRefs, End, Goto
  <2> QED
    BY <1>b, <2>1 DEF Held
<1>3. CASE Send(p)
    BY <1>3, <1>b DEF Held, Knows, TypeOK, told, Send, Goto
<1>4. CASE ReadReport(p) \/ Hangup(p)
    BY <1>4, <1>b DEF Held, Knows, TypeOK, told, served, ReadReport, Hangup, End, Goto
<1>5. CASE AddLocal(p)
  <2>1. /\ old'[p] = old[p] /\ new'[p] = new[p] /\ commands'[p] = DOMAIN new[p]
        /\ store' = store \cup Pack(p) /\ Knows(p)
    BY <1>5 DEF TypeOK, told, AddLocal, Knows
  <2>2. Permitted(p) = DOMAIN new[p]
    BY <1>5 DEF AddLocal, Permitted
  <2>3. \A n \in Refs : Usable(old[p][n])
    BY <2>1 DEF Held
  <2>4. \A n \in commands'[p] : new[p][n] # None => Needs[new[p][n]] \subseteq store'
    BY <1>c, <2>1, <2>2, <2>3, PackIsEnough
  <2> QED
    BY <1>b, <2>1, <2>3, <2>4 DEF Held, Usable
<1>6. CASE NoCommands(p) \/ Report(p) \/ Cut(p) \/ RefLocked(p) \/ LocalLocked(p)
    BY <1>6, <1>b DEF Held, Knows, TypeOK, told, served, NoCommands, Report, Cut, RefLocked, LocalLocked,
                      End, Goto
<1>7. CASE Unpack(p)
  <2>1. /\ old'[p] = old[p] /\ new'[p] = new[p] /\ commands'[p] = commands[p] /\ Knows(p)
        /\ handler[p] = "unpack" /\ pc'[p] = pc[p]
    BY <1>7 DEF told, Unpack, Knows
  <2>2. commands[p] \subseteq Permitted(p)
    BY <2>1 DEF Talk
  <2>3. \A n \in Refs : Usable(old[p][n])
    BY <2>1 DEF Held
  <2>4. Sets(p) => store \cup Pack(p) \subseteq store'
    <3> SUFFICES ASSUME Sets(p) PROVE store \cup Pack(p) \subseteq store'
      OBVIOUS
    <3>1. request[p] # CutOff
      BY <1>7 DEF Unpack
    <3>2. CASE request[p] = Pack(p)
      <4>1. Pack(p) # None
        BY <1>c, <2>1, PackIsEnough, NoneAssumption
      <4> QED
        BY <1>7, <3>1, <3>2, <4>1 DEF Unpack
    <3>3. CASE Pack(p) = {}
      BY <1>a, <3>3
    <3> QED
      BY <2>1, <3>1, <3>2, <3>3 DEF Talk
  <2>5. ASSUME NEW n \in commands[p], new[p][n] # None PROVE Needs[new[p][n]] \subseteq store'
    <3>1. Sets(p)
      BY <2>5 DEF Sets
    <3> QED
      BY <1>c, <2>1, <2>2, <2>3, <2>4, <2>5, <3>1, PackIsEnough
  <2> QED
    BY <1>b, <2>1, <2>3, <2>5 DEF Held, Usable
<1>8. CASE SetLocal(p) \/ SetRef(p)
  <2>1. CASE commands[p] = {}
    BY <1>8, <1>b, <2>1 DEF Held, Knows, TypeOK, told, SetLocal, SetRef, End, Goto
  <2>2. CASE commands[p] # {}
    <3>1. PICK n \in commands[p] : commands' = [commands EXCEPT ![p] = @ \ {n}]
      BY <1>8, <2>2 DEF SetLocal, SetRef
    <3>2. commands'[p] \subseteq commands[p]
      BY <3>1 DEF TypeOK
    <3>3. UNCHANGED <<told, handler>> /\ (pc'[p] = pc[p] \/ pc'[p] = "idle")
      BY <1>8, <2>2 DEF SetLocal, SetRef, TypeOK, End, Goto
    <3> QED
      BY <1>b, <3>2, <3>3 DEF Held, Knows, told
  <2> QED
    BY <2>1, <2>2
<1> QED
    BY <1>1, <1>2, <1>3, <1>4, <1>5, <1>6, <1>7, <1>8 DEF ClientStep, ServerStep

LEMMA AllHeldStep ==
    ASSUME IInv, NEW p \in Clients,
           Start(p) \/ ClientStep(p) \/ ServerStep(p) \/ Cut(p) \/ RefLocked(p) \/ LocalLocked(p)
    PROVE  AllHeld'
<1> SUFFICES ASSUME ~broken'
             PROVE  (\A n \in Refs : Usable(theirs[n])') /\ \A q \in Clients : Held(q)'
    BY DEF AllHeld
<1>1. TypeOK /\ (\A n \in Refs : Usable(theirs[n])) /\ \A q \in Clients : Held(q)
    BY StoreGrows DEF IInv, AllHeld
<1>2. \A v : Usable(v) => Usable(v)'
    BY StoreGrows DEF Usable
<1>3. ASSUME NEW n \in Refs PROVE Usable(theirs[n])'
  <2>1. CASE theirs' = theirs
    BY <1>1, <1>2, <2>1
  <2>2. CASE theirs' # theirs
    <3>1. /\ handler[p] = "refs" \/ pc[p] = "set"
          /\ \E m \in commands[p] : Put(p, m)
      BY <2>2, RefsChange
    <3>2. PICK m \in commands[p] : Put(p, m)
      BY <3>1
    <3>3. m \in Refs
      BY <1>1 DEF TypeOK
    <3>4. theirs'[n] = theirs[n] \/ (m = n /\ theirs'[n] = new[p][n])
      BY <1>1, <3>2, <3>3, PutFacts
    <3>5. Usable(new[p][m])
      BY <1>1, <3>1 DEF Held
    <3> QED
      BY <1>1, <1>2, <3>4, <3>5
  <2> QED
    BY <2>1, <2>2
<1>4. ASSUME NEW q \in Clients PROVE Held(q)'
  <2>1. CASE q = p
    BY <1>1, <2>1, HeldStep
  <2>2. CASE q # p
    <3>1. Same(q)
      BY <1>1, <2>2, OthersSame
    <3> QED
      BY <1>1, <1>2, <3>1 DEF Held, Knows, Same
  <2> QED
    BY <2>1, <2>2
<1> QED
    BY <1>3, <1>4

-----------------------------------------------------------------------------
(* What was done                                                           *)

\* Refs that were taken or raced for stay so until the next push, and a ref that
\* changes becomes one of them, for every client.
LEMMA DoneGrows ==
    ASSUME IInv, NEW p \in Clients,
           Start(p) \/ ClientStep(p) \/ ServerStep(p) \/ Cut(p) \/ RefLocked(p) \/ LocalLocked(p),
           NEW q \in Clients, ~(q = p /\ Start(p))
    PROVE  /\ took[q] \cup raced[q] \subseteq took'[q] \cup raced'[q]
           /\ \A m \in Refs : theirs'[m] = theirs[m] \/ m \in took'[q] \cup raced'[q]
<1>1. TypeOK
    BY DEF IInv
<1>2. CASE UNCHANGED <<theirs, took, raced>>
    BY <1>2
<1>3. CASE UNCHANGED theirs /\ Start(p)
    BY <1>1, <1>3, OthersSame DEF Same
<1>4. CASE \E n \in commands[p] : Put(p, n)
  <2>1. PICK n \in commands[p] : Put(p, n)
    BY <1>4
  <2>2. n \in Refs
    BY <1>1 DEF TypeOK
  <2> QED
    BY <1>1, <2>1, <2>2, PutFacts
<1> QED
    BY <1>2, <1>3, <1>4, RefsChange

\* A ref whose turn came is one of those.
LEMMA PutSettles ==
    ASSUME IInv, NEW p \in Clients, Knows(p), NEW n \in Refs, Put(p, n)
    PROVE  n \in took'[p] \cup raced'[p]
<1>1. TypeOK /\ Settled(p)
    BY DEF IInv
<1>2. n \in took'[p] \/ theirs[n] # old[p][n]
    BY <1>1, PutFacts
<1>3. theirs[n] # old[p][n] => n \in took[p] \cup raced[p]
    BY <1>1 DEF Settled
<1>4. took[p] \subseteq took'[p] /\ raced[p] \subseteq raced'[p]
    BY <1>1, PutFacts
<1> QED
    BY <1>2, <1>3, <1>4

LEMMA SettledStep ==
    ASSUME IInv, NEW p \in Clients,
           Start(p) \/ ClientStep(p) \/ ServerStep(p) \/ Cut(p) \/ RefLocked(p) \/ LocalLocked(p)
    PROVE  Settled(p)'
<1> TypeOK /\ Talk(p) /\ Settled(p) /\ deletes' = deletes
    BY DeletesStays DEF IInv
<1>1. CASE Start(p)
    BY <1>1 DEF Settled, Talk, Knows, TypeOK, Start, Goto
<1>2. CASE ReadRefs(p)
  <2>1. /\ old'[p] = theirs /\ theirs' = theirs /\ pc'[p] \in {"idle", "send"}
        /\ handler'[p] = "off"
    BY <1>2 DEF TypeOK, Talk, repo, served, ReadRefs, End, Goto
  <2> QED
    BY <2>1 DEF Settled
<1> SUFFICES ASSUME ~Start(p), ~ReadRefs(p) PROVE Settled(p)'
    BY <1>1, <1>2
<1>3. /\ took[p] \cup raced[p] \subseteq took'[p] \cup raced'[p]
      /\ \A m \in Refs : theirs'[m] = theirs[m] \/ m \in took'[p] \cup raced'[p]
    BY DoneGrows
<1>4. via'[p] = via[p] /\ new'[p] = new[p] /\ old'[p] = old[p] =>
         Changes(p, old[p])' = Changes(p, old[p])
    BY AsksTheSame
<1>5. CASE Send(p)
    BY <1>3, <1>5 DEF Settled, Knows, TypeOK, told, Send, Goto
<1>6. CASE ReadReport(p) \/ Hangup(p)
    BY <1>3, <1>6 DEF Settled, Talk, Knows, TypeOK, told, served, ReadReport, Hangup, End, Goto
<1>7. CASE AddLocal(p)
    BY <1>3, <1>7 DEF Settled, Talk, Knows, TypeOK, told, AddLocal, Goto
<1>8. CASE NoCommands(p)
    BY <1>3, <1>8 DEF Settled, Talk, Knows, TypeOK, told, NoCommands
<1>9. CASE Unpack(p)
    BY <1>3, <1>4, <1>9 DEF Settled, Talk, Knows, TypeOK, told, Unpack
<1>10. CASE Report(p)
  <2>1. Changes(p, old[p]) \subseteq took[p] \cup raced[p]
    BY <1>10 DEF Report, Settled
  <2> QED
    BY <1>3, <1>4, <1>10, <2>1 DEF Settled, Talk, Knows, TypeOK, told, Report
<1>11. CASE Cut(p)
    BY <1>3, <1>11 DEF Settled, Talk, Knows, TypeOK, told, Cut, End, Goto
<1>12. CASE RefLocked(p)
    BY <1>3, <1>12 DEF Settled, Talk, Knows, TypeOK, told, RefLocked
<1>15. CASE LocalLocked(p)
    BY <1>3, <1>15 DEF Settled, Talk, Knows, TypeOK, told, served, LocalLocked, End, Goto
<1>13. CASE SetLocal(p) /\ commands[p] = {}
    BY <1>3, <1>13 DEF Settled, Talk, Knows, TypeOK, told, SetLocal, End, Goto
<1>14. CASE (SetLocal(p) \/ SetRef(p)) /\ commands[p] # {}
  <2>1. PICK n \in commands[p] : Put(p, n) /\ commands' = [commands EXCEPT ![p] = @ \ {n}]
    BY <1>14 DEF SetLocal, SetRef
  <2>2. n \in Refs /\ Knows(p)
    BY <1>14 DEF TypeOK, Knows, SetLocal, SetRef
  <2>3. n \in took'[p] \cup raced'[p]
    BY <2>1, <2>2, PutSettles
  <2>4. commands'[p] = commands[p] \ {n}
    BY <2>1 DEF TypeOK
  <2>5. /\ UNCHANGED <<told, handler, report>> /\ (handler[p] = "refs" \/ pc[p] = "set")
        /\ pc'[p] = pc[p] \/ (pc[p] = "set" /\ pc'[p] = "idle")
    BY <1>14 DEF SetLocal, SetRef, TypeOK, End, Goto
  <2> QED
    BY <1>3, <1>4, <2>2, <2>3, <2>4, <2>5 DEF Settled, Talk, Knows, told
<1> QED
    BY <1>5, <1>6, <1>7, <1>8, <1>9, <1>10, <1>11, <1>12, <1>13, <1>14, <1>15 DEF ClientStep, ServerStep, SetRef

LEMMA SettledKept ==
    ASSUME IInv, NEW p \in Clients,
           Start(p) \/ ClientStep(p) \/ ServerStep(p) \/ Cut(p) \/ RefLocked(p) \/ LocalLocked(p),
           NEW q \in Clients, q # p
    PROVE  Settled(q)'
<1>1. TypeOK /\ Settled(q) /\ deletes' = deletes
    BY DeletesStays DEF IInv
<1>2. Same(q)
    BY <1>1, OthersSame
<1>3. /\ took[q] \cup raced[q] \subseteq took'[q] \cup raced'[q]
      /\ \A m \in Refs : theirs'[m] = theirs[m] \/ m \in took'[q] \cup raced'[q]
    BY DoneGrows
<1>4. Changes(q, old[q])' = Changes(q, old[q])
    BY <1>1, <1>2, AsksTheSame DEF Same
<1> QED
    BY <1>1, <1>2, <1>3, <1>4 DEF Settled, Knows, Same

\* SuccessTookEffect, for one client.
Succeeded(p) ==
    outcome[p] = "ok" =>
       \A n \in DOMAIN new[p] :
          \/ n \in took[p] \cup raced[p]
          \/ new[p][n] = old[p][n]
          \/ n \notin Permitted(p) /\ Changes(p, old[p]) = {}

LEMMA SuccessStep ==
    ASSUME IInv, NEW p \in Clients,
           Start(p) \/ ClientStep(p) \/ ServerStep(p) \/ Cut(p) \/ RefLocked(p) \/ LocalLocked(p),
           NEW q \in Clients
    PROVE  Succeeded(q)'
<1> TypeOK /\ Talk(p) /\ Settled(p) /\ Succeeded(q) /\ deletes' = deletes
    BY DeletesStays DEF IInv, SuccessTookEffect, Succeeded
<1>1. ASSUME new'[q] = new[q], old'[q] = old[q], via'[q] = via[q], ~(q = p /\ Start(p)),
             outcome'[q] = outcome[q]
      PROVE  Succeeded(q)'
  <2>1. took[q] \cup raced[q] \subseteq took'[q] \cup raced'[q]
    BY <1>1, DoneGrows
  <2>2. Permitted(q)' = Permitted(q) /\ Changes(q, old[q])' = Changes(q, old[q])
    BY <1>1, AsksTheSame
  <2> QED
    BY <1>1, <2>1, <2>2 DEF Succeeded
<1>2. CASE q # p
    BY <1>1, <1>2, OthersSame DEF Same
<1> SUFFICES ASSUME q = p PROVE Succeeded(p)'
    BY <1>2
<1>3. CASE Start(p)
  <2>1. outcome'[p] = None
    BY <1>3 DEF TypeOK, Start
  <2> QED
    BY <2>1, NoneAssumption DEF Succeeded
<1>4. CASE ReadRefs(p)
  <2>1. new'[p] = new[p] /\ via'[p] = via[p] /\ old'[p] = theirs /\ theirs' = theirs
    BY <1>4 DEF TypeOK, repo, ReadRefs
  <2>2. Permitted(p)' = Permitted(p)
    BY <2>1 DEF Permitted
  <2>3. SUFFICES ASSUME outcome'[p] = "ok" PROVE Succeeded(p)'
    BY DEF Succeeded
  <2>4. CASE \A n \in Permitted(p) : new[p][n] # None /\ new[p][n] = theirs[n]
    <3>1. Changes(p, old[p])' = {}
      BY <2>1, <2>2, <2>4 DEF Changes
    <3> QED
      BY <2>1, <2>2, <2>4, <3>1 DEF Succeeded
  <2>5. CASE ~(\A n \in Permitted(p) : new[p][n] # None /\ new[p][n] = theirs[n])
    <3>1. outcome'[p] \in {None, "rejected"}
      BY <1>4, <2>5 DEF ReadRefs, End, TypeOK, Talk
    <3> QED
      BY <2>3, <3>1, NoneAssumption
  <2> QED
    BY <2>4, <2>5
<1>5. CASE ReadReport(p)
  <2>1. SUFFICES ASSUME outcome'[p] = "ok" PROVE Succeeded(p)'
    BY DEF Succeeded
  <2>2. Verdict(p) = "ok"
    BY <1>5, <2>1 DEF ReadReport, End, TypeOK
  <2>3. report[p] \in [unpack : BOOLEAN, refs : BOOLEAN]
    BY <1>5 DEF ReadReport, TypeOK
  <2>4. Permitted(p) = DOMAIN new[p]
    BY <2>2, <2>3 DEF Verdict
  <2>5. Changes(p, old[p]) \subseteq took[p] \cup raced[p]
    BY <1>5 DEF ReadReport, Settled
  <2>6. UNCHANGED <<new, old, took, raced>>
    BY <1>5 DEF ReadReport, told, history
  <2> QED
    BY <2>4, <2>5, <2>6 DEF Succeeded, Changes
<1>6. CASE Hangup(p) \/ Cut(p) \/ LocalLocked(p)
    BY <1>6 DEF Succeeded, TypeOK, Hangup, Cut, LocalLocked, End
<1>7. CASE Send(p) \/ AddLocal(p) \/ NoCommands(p) \/ Unpack(p) \/ SetRef(p) \/ Report(p) \/ RefLocked(p)
    BY <1>1, <1>7 DEF Start, Talk, Send, AddLocal, NoCommands, Unpack, SetRef, Report, RefLocked, told
<1>8. CASE SetLocal(p)
  <2>1. CASE commands[p] = {}
    <3>1. DOMAIN new[p] \subseteq took[p] \cup raced[p]
      BY <1>8, <2>1 DEF SetLocal, Settled
    <3>2. UNCHANGED <<new, took, raced>>
      BY <1>8, <2>1 DEF SetLocal, told
    <3> QED
      BY <3>1, <3>2 DEF Succeeded
  <2>2. CASE commands[p] # {}
    <3>1. CASE UNCHANGED outcome
      BY <1>1, <1>8, <2>2, <3>1 DEF SetLocal, told, Start
    <3>2. CASE End(p, "raised")
      BY <3>2 DEF Succeeded, TypeOK, End
    <3> QED
      BY <1>8, <2>2, <3>1, <3>2 DEF SetLocal
  <2> QED
    BY <2>1, <2>2
<1> QED
    BY <1>3, <1>4, <1>5, <1>6, <1>7, <1>8 DEF ClientStep, ServerStep

-----------------------------------------------------------------------------
LEMMA Steps == IInv /\ [Next]_vars => IInv'
<1> SUFFICES ASSUME IInv, [Next]_vars PROVE IInv'
    OBVIOUS
<1>1. ASSUME NEW p \in Clients,
             Start(p) \/ ClientStep(p) \/ ServerStep(p) \/ Cut(p) \/ RefLocked(p) \/ LocalLocked(p)
      PROVE  IInv'
  <2>1. TypeOK' /\ AllHeld'
    BY <1>1, TypeStep, AllHeldStep
  <2>2. ASSUME NEW q \in Clients PROVE Talk(q)' /\ Settled(q)'
    <3>1. CASE q = p
      BY <1>1, <3>1, TalkStep, SettledStep
    <3>2. CASE q # p
      <4>1. Same(q) /\ deletes' = deletes /\ Talk(q)
        BY <1>1, <3>2, OthersSame, DeletesStays DEF IInv
      <4> QED
        BY <1>1, <3>2, <4>1, TalkKept, SettledKept
    <3> QED
      BY <3>1, <3>2
  <2>3. \A q \in Clients : Succeeded(q)'
    BY <1>1, SuccessStep
  <2>4. SuccessTookEffect'
    BY <2>3 DEF SuccessTookEffect, Succeeded
  <2> QED
    BY <2>1, <2>2, <2>4 DEF IInv
<1>2. CASE UNCHANGED vars
  <2>1. UNCHANGED <<repo, pc, told, served, history, outcome>>
    BY <1>2 DEF vars
  <2>2. TypeOK'
    BY <2>1 DEF IInv, TypeOK, repo, told, served, history
  <2>3. ASSUME NEW q \in Clients PROVE Same(q) /\ Talk(q)'
    BY <2>1, TalkKept DEF IInv, Same, repo, told, served, history
  <2>4. AllHeld'
    BY <2>1 DEF IInv, AllHeld, Held, Usable, Knows, repo, told, served, history
  <2>5. ASSUME NEW q \in Clients PROVE Settled(q)' /\ Succeeded(q)'
    <3>1. /\ Permitted(q)' = Permitted(q) /\ Changes(q, old[q])' = Changes(q, old[q])
          /\ Settled(q) /\ Succeeded(q)
      BY <2>1, AsksTheSame DEF repo, told, IInv, SuccessTookEffect, Succeeded
    <3> QED
      BY <2>1, <3>1 DEF Settled, Succeeded, Knows, repo, told, served, history
  <2> QED
    BY <2>2, <2>3, <2>4, <2>5 DEF IInv, SuccessTookEffect, Succeeded
<1> QED
    BY <1>1, <1>2 DEF Next

(* What client and server hold of each other in every reachable state: the *)
(* server has what the refs need that it has, has told of, or is about to  *)
(* set, and every ref of a push is still to do, done, or taken by another. *)
THEOREM Invariance == Spec => []IInv
<1> QED
    BY InitialStates, Steps, PTL DEF Spec

(* However many pushes overlap, on any history and with any refs: unless a *)
(* pack broke on its way, the server has all that its refs need.           *)
THEOREM ServerStaysComplete == Spec => []ServerComplete
<1>1. IInv => ServerComplete
  <2> SUFFICES ASSUME IInv, ~broken PROVE Closure(Told(theirs)) \subseteq store
    BY DEF ServerComplete
  <2>1. \A n \in Refs : Usable(theirs[n])
    BY DEF IInv, AllHeld
  <2>2. DOMAIN theirs = Refs
    BY DEF IInv, TypeOK, RefValues
  <2>3. \A o \in Told(theirs) : Needs[o] \subseteq store
    BY <2>1, <2>2 DEF Told, Usable
  <2> QED
    BY <2>3 DEF Closure
<1> QED
    BY <1>1, Invariance, PTL

(* A client that is told of a success had every ref changed as it asked,   *)
(* or it was so before, or others changed it meanwhile, on all three       *)
(* transports.                                                             *)
THEOREM SuccessIsTrue == Spec => []SuccessTookEffect
<1>1. IInv => SuccessTookEffect
    BY DEF IInv
<1> QED
    BY <1>1, Invariance, PTL

-----------------------------------------------------------------------------
(* The pack that a push or a fetch has brought                             *)

LEMMA PlacesAreFinite ==
    ASSUME NEW pack, Len(pack) \in Nat
    PROVE  IsFiniteSet(Places(pack)) /\ Cardinality(Places(pack)) = Len(pack)
    BY FS_Interval DEF Places

\* What hangs on some places and on what hangs on them
Hanging(pack, A) == A \cup UNION {Unblocked(pack, j) : j \in A}

Closed(pack, A) == \A j \in A : Unblocked(pack, j) \subseteq A

\* Follow finds the least set of places that has the ones it begins with and all that
\* hangs on what it has.
LEMMA FollowIsLeast ==
    ASSUME NEW pack, Len(pack) \in Nat, NEW from \in SUBSET Places(pack)
    PROVE  /\ from \subseteq Follow(pack, from) /\ Follow(pack, from) \subseteq Places(pack)
           /\ Closed(pack, Follow(pack, from))
           /\ \A T : from \subseteq T /\ Closed(pack, T) => Follow(pack, from) \subseteq T
<1> DEFINE S == SUBSET Places(pack)
           u == [A \in S |-> Hanging(pack, A)]
           g == [n \in Nat |-> u]
           f == CHOOSE f : f = [n \in Nat |-> IF n = 0 THEN from
                                 ELSE f[n - 1] \cup UNION {Unblocked(pack, j) : j \in f[n - 1]}]
<1>1. u \in [S -> S]
  BY DEF Hanging, Unblocked
<1>2. g \in [Nat -> [S -> S]]
  BY <1>1
<1>3. PICK e \in [Nat -> S] : IsRecursive(e, from, g)
  <2>1. from \in S
    OBVIOUS
  <2> HIDE DEF S, g, u, f
  <2> QED
    BY <1>2, <2>1, Recursion
<1>4. ASSUME NEW n \in Nat, n # 0
      PROVE  g[n][e[n - 1]] = e[n - 1] \cup UNION {Unblocked(pack, j) : j \in e[n - 1]}
  <2>1. n - 1 \in Nat
    BY <1>4
  <2>2. e[n - 1] \in S
    BY <1>3, <2>1
  <2> QED
    BY <1>4, <2>2 DEF Hanging
<1>5. e = [n \in Nat |-> IF n = 0 THEN from
                         ELSE e[n - 1] \cup UNION {Unblocked(pack, j) : j \in e[n - 1]}]
  <2> HIDE DEF g
  <2> QED
    BY <1>3, <1>4 DEF IsRecursive
<1>6. f = [n \in Nat |-> IF n = 0 THEN from
                         ELSE f[n - 1] \cup UNION {Unblocked(pack, j) : j \in f[n - 1]}]
  <2> HIDE DEF S, g, u
  <2> QED
    BY <1>5
<1>7. Follow(pack, from) = f[Len(pack)]
  BY DEF Follow
<1> HIDE DEF f
<1>8. f[0] = from /\ \A n \in Nat : f[n + 1] = Hanging(pack, f[n])
  <2>1. f[0] = from
    BY <1>6
  <2>2. ASSUME NEW n \in Nat PROVE f[n + 1] = Hanging(pack, f[n])
    <3>1. n + 1 \in Nat /\ n + 1 # 0 /\ (n + 1) - 1 = n
      OBVIOUS
    <3> QED
      BY <1>6, <3>1 DEF Hanging
  <2> QED
    BY <2>1, <2>2
<1>9. \A n \in Nat : f[n] \in S
  <2> DEFINE J == {n \in Nat : f[n] \in S}
  <2>1. 0 \in J
    BY <1>8
  <2>2. ASSUME NEW n \in Nat, n \in J PROVE n + 1 \in J
    BY <1>8, <2>2 DEF Hanging, Unblocked
  <2> HIDE DEF J
  <2>3. Nat \subseteq J
    BY <2>1, <2>2, Counting
  <2> QED
    BY <2>3 DEF J
<1>10. f \in [Nat -> S]
  <2>1. f = [n \in Nat |-> f[n]]
    BY <1>6
  <2> QED
    BY <1>9, <2>1
<1>11. Hanging(pack, Follow(pack, from)) = Follow(pack, from)
  <2>1. Growing(f, u)
    BY <1>8, <1>9 DEF Hanging, Growing
  <2>2. IsFiniteSet(Places(pack)) /\ Cardinality(Places(pack)) = Len(pack)
    BY PlacesAreFinite
  <2>3. u[f[Len(pack)]] = f[Len(pack)]
    <3> HIDE DEF u, S
    <3>1. f \in [Nat -> SUBSET Places(pack)]
      BY <1>10 DEF S
    <3> QED
      BY <2>1, <2>2, <3>1, GrowsToTheEnd
  <2> QED
    BY <1>7, <1>9, <2>3
<1>12. ASSUME NEW T, from \subseteq T, Closed(pack, T)
       PROVE  Follow(pack, from) \subseteq T
  <2> DEFINE J == {n \in Nat : f[n] \subseteq T}
  <2>1. 0 \in J
    BY <1>8, <1>12
  <2>2. ASSUME NEW n \in Nat, n \in J PROVE n + 1 \in J
    BY <1>8, <1>12, <2>2 DEF Hanging, Closed
  <2> HIDE DEF J
  <2>3. Nat \subseteq J
    BY <2>1, <2>2, Counting
  <2> QED
    BY <1>7, <2>3 DEF J
<1>13. from \subseteq Follow(pack, from)
  <2> DEFINE J == {n \in Nat : from \subseteq f[n]}
  <2>1. 0 \in J
    BY <1>8
  <2>2. ASSUME NEW n \in Nat, n \in J PROVE n + 1 \in J
    BY <1>8, <2>2 DEF Hanging
  <2> HIDE DEF J
  <2>3. Nat \subseteq J
    BY <2>1, <2>2, Counting
  <2> QED
    BY <1>7, <2>3 DEF J
<1>14. Follow(pack, from) \subseteq Places(pack) /\ Closed(pack, Follow(pack, from))
  BY <1>7, <1>9, <1>11 DEF Hanging, Closed
<1> QED
  BY <1>12, <1>13, <1>14

-----------------------------------------------------------------------------
(* The walk of the chains                                                    *)

\* What is there without anything of the pack
Given(pack, have) ==
    {k \in Places(pack) : \/ pack[k].kind = "full"
                          \/ pack[k].kind = "ref" /\ pack[k].base \in have}

\* The base is an external one that was taken, or something in the pack.
HasBase(pack, ext, k) ==
    pack[k].kind = "ref" => pack[k].base \in ext \/ \E j \in Places(pack) : pack[j].id = pack[k].base

\* What the walk knows when it has looked at the external bases up to n.
Walked(pack, have, n, w) ==
    /\ {k \in Places(pack) : pack[k].kind = "full"} \subseteq w.done
    /\ Closed(pack, w.done)
    /\ \A k \in Places(pack) \ w.done :
          pack[k].kind = "ref" /\ pack[k].base \in 1 .. n => pack[k].base \notin have
    /\ \A T : Closed(pack, T) /\ Given(pack, have) \subseteq T => w.done \subseteq T
    /\ w.ext \subseteq have \cap (1 .. n)
    /\ \A k \in w.done : HasBase(pack, w.ext, k)

Pending(pack, n, before) ==
    {k \in Places(pack) \ before.done : pack[k].kind = "ref" /\ pack[k].base = n}

Onward(pack, have, n, before) ==
    IF Pending(pack, n, before) # {} /\ n \in have
    THEN [done |-> before.done \cup Follow(pack, Pending(pack, n, before)), ext |-> before.ext \cup {n}]
    ELSE before

Outset(pack) == [done |-> Follow(pack, {j \in Places(pack) : pack[j].kind = "full"}), ext |-> {}]

Walks(pack) == [done : SUBSET Places(pack), ext : SUBSET Nat]

LEMMA EntryTyped ==
    ASSUME NEW pack, WellFormed(pack), NEW k \in Places(pack)
    PROVE  pack[k].id \in Nat /\ pack[k].kind \in {"full", "ofs", "ref"} /\ pack[k].base \in Nat
<1>1. pack \in Seq(PackEntries)
  BY DEF WellFormed
<1>2. pack[k] \in PackEntries
  BY <1>1 DEF Places
<1> QED
  BY <1>2 DEF PackEntries

LEMMA FollowedHasBase ==
    ASSUME NEW pack, Len(pack) \in Nat, NEW from \in SUBSET Places(pack), NEW ext,
           \A k \in from : HasBase(pack, ext, k)
    PROVE  \A k \in Follow(pack, from) : HasBase(pack, ext, k)
<1> DEFINE T == {k \in Places(pack) : HasBase(pack, ext, k)}
<1>1. from \subseteq T
  OBVIOUS
<1>2. Closed(pack, T)
  <2>1. SUFFICES ASSUME NEW j \in T, NEW k \in Unblocked(pack, j) PROVE k \in T
    BY DEF Closed
  <2>2. k \in Places(pack) /\ (pack[k].kind = "ofs" \/ pack[k].base = pack[j].id)
    BY DEF Unblocked
  <2>3. HasBase(pack, ext, k)
    BY <2>2 DEF HasBase
  <2> QED
    BY <2>2, <2>3
<1> HIDE DEF T
<1>3. Follow(pack, from) \subseteq T
  BY <1>1, <1>2, FollowIsLeast
<1> QED
  BY <1>3 DEF T

LEMMA OutsetWalked ==
    ASSUME NEW pack, WellFormed(pack), NEW have
    PROVE  Outset(pack) \in Walks(pack) /\ Walked(pack, have, 0, Outset(pack))
<1> DEFINE full == {j \in Places(pack) : pack[j].kind = "full"}
           w == Outset(pack)
<1>1. Len(pack) \in Nat /\ full \in SUBSET Places(pack)
  BY DEF WellFormed
<1>2. w.done = Follow(pack, full) /\ w.ext = {} /\ w = [done |-> w.done, ext |-> w.ext]
  BY DEF Outset
<1>3. /\ full \subseteq w.done /\ w.done \subseteq Places(pack) /\ Closed(pack, w.done)
      /\ \A T : full \subseteq T /\ Closed(pack, T) => w.done \subseteq T
  <2> HIDE DEF full, w
  <2> QED
    BY <1>1, <1>2, FollowIsLeast
<1>4. \A k \in w.done : HasBase(pack, w.ext, k)
  <2>1. \A k \in full : HasBase(pack, {}, k)
    BY DEF HasBase
  <2> HIDE DEF full, w
  <2> QED
    BY <1>1, <1>2, <2>1, FollowedHasBase
<1>5. full \subseteq Given(pack, have)
  BY DEF Given
<1>6. 1 .. 0 = {}
  OBVIOUS
<1> HIDE DEF w
<1> QED
  BY <1>2, <1>3, <1>4, <1>5, <1>6 DEF Walked, Walks, w

LEMMA OnwardWalked ==
    ASSUME NEW pack, WellFormed(pack), NEW have, NEW n \in Nat \ {0}, NEW before \in Walks(pack),
           Walked(pack, have, n - 1, before)
    PROVE  /\ Onward(pack, have, n, before) \in Walks(pack)
           /\ Walked(pack, have, n, Onward(pack, have, n, before))
<1> DEFINE pending == Pending(pack, n, before)
           w == Onward(pack, have, n, before)
           more == Follow(pack, pending)
<1>1. Len(pack) \in Nat /\ pending \in SUBSET Places(pack)
  BY DEF WellFormed, Pending
<1>2. /\ pending \subseteq more /\ more \subseteq Places(pack) /\ Closed(pack, more)
      /\ \A T : pending \subseteq T /\ Closed(pack, T) => more \subseteq T
  <2> HIDE DEF pending
  <2> QED
    BY <1>1, FollowIsLeast
<1>3. \A b \in Nat : b \in 1 .. n <=> b \in 1 .. n - 1 \/ b = n
  OBVIOUS
<1>4. \A k \in Places(pack) : pack[k].base \in Nat
  BY EntryTyped
<1>5. before.done \in SUBSET Places(pack) /\ before.ext \in SUBSET Nat
  BY DEF Walks
<1>6. CASE pending # {} /\ n \in have
  <2>1. w = [done |-> before.done \cup more, ext |-> before.ext \cup {n}]
    BY <1>6 DEF Onward
  <2>2. w.done = before.done \cup more /\ w.ext = before.ext \cup {n}
    BY <2>1
  <2>3. w \in Walks(pack)
    BY <1>2, <1>5, <2>1 DEF Walks
  <2>4. Closed(pack, w.done)
    BY <1>2, <2>2 DEF Walked, Closed
  <2>5. ASSUME NEW k \in Places(pack) \ w.done, pack[k].kind = "ref", pack[k].base \in 1 .. n
        PROVE  pack[k].base \notin have
    <3>1. k \notin pending /\ k \notin before.done
      BY <1>2, <2>2
    <3>2. pack[k].base # n
      BY <2>5, <3>1 DEF Pending
    <3> QED
      BY <1>3, <1>4, <2>5, <3>1, <3>2 DEF Walked
  <2>6. ASSUME NEW T, Closed(pack, T), Given(pack, have) \subseteq T PROVE w.done \subseteq T
    <3>1. pending \subseteq T
      BY <1>6, <2>6 DEF Pending, Given
    <3> QED
      BY <1>2, <2>2, <2>6, <3>1 DEF Walked
  <2>7. w.ext \subseteq have \cap (1 .. n)
    BY <1>3, <1>5, <1>6, <2>2 DEF Walked
  <2>8. ASSUME NEW k \in w.done PROVE HasBase(pack, w.ext, k)
    <3>1. CASE k \in before.done
      BY <2>2, <3>1 DEF Walked, HasBase
    <3>2. CASE k \in more
      <4>1. \A i \in pending : HasBase(pack, w.ext, i)
        BY <2>2 DEF HasBase, Pending
      <4> HIDE DEF pending, w
      <4> QED
        BY <1>1, <3>2, <4>1, FollowedHasBase
    <3> QED
      BY <2>2, <2>8, <3>1, <3>2
  <2>9. {k \in Places(pack) : pack[k].kind = "full"} \subseteq w.done
    BY <2>2 DEF Walked
  <2> HIDE DEF w
  <2>10. Walked(pack, have, n, w)
    BY <2>4, <2>5, <2>6, <2>7, <2>8, <2>9 DEF Walked
  <2> QED
    BY <2>3, <2>10 DEF w
<1>7. CASE ~(pending # {} /\ n \in have)
  <2>1. w = before
    BY <1>7 DEF Onward
  <2>2. ASSUME NEW k \in Places(pack) \ before.done, pack[k].kind = "ref", pack[k].base \in 1 .. n
        PROVE  pack[k].base \notin have
    <3>1. CASE pack[k].base = n
      BY <1>7, <2>2, <3>1 DEF Pending
    <3>2. CASE pack[k].base # n
      BY <1>3, <1>4, <2>2, <3>2 DEF Walked
    <3> QED
      BY <3>1, <3>2
  <2>3. before.ext \subseteq have \cap (1 .. n)
    BY <1>3, <1>5 DEF Walked
  <2>4. Walked(pack, have, n, before)
    BY <2>2, <2>3 DEF Walked
  <2> QED
    BY <2>1, <2>4
<1> QED
  BY <1>6, <1>7


LEMMA OnwardTyped ==
    ASSUME NEW pack, Len(pack) \in Nat, NEW have, NEW n \in Nat, NEW w \in Walks(pack)
    PROVE  Onward(pack, have, n, w) \in Walks(pack)
<1>1. Pending(pack, n, w) \in SUBSET Places(pack)
  BY DEF Pending
<1>2. Follow(pack, Pending(pack, n, w)) \subseteq Places(pack)
  BY <1>1, FollowIsLeast
<1> QED
  BY <1>2 DEF Onward, Walks

LEMMA WalkIsWalked ==
    ASSUME NEW pack, WellFormed(pack), NEW have, NEW top \in Nat
    PROVE  Walk(pack, have, top) \in Walks(pack) /\ Walked(pack, have, top, Walk(pack, have, top))
<1> DEFINE S == Walks(pack)
           g == [n \in Nat |-> [w \in S |-> Onward(pack, have, n, w)]]
           f == CHOOSE walked : walked =
                  [n \in 0 .. top |->
                     IF n = 0
                     THEN [done |-> Follow(pack, {j \in Places(pack) : pack[j].kind = "full"}), ext |-> {}]
                     ELSE LET before == walked[n - 1]
                              pending == {k \in Places(pack) \ before.done :
                                            pack[k].kind = "ref" /\ pack[k].base = n}
                          IN  IF pending # {} /\ n \in have
                              THEN [done |-> before.done \cup Follow(pack, pending),
                                    ext |-> before.ext \cup {n}]
                              ELSE before]
           IsWalk(h) == h = [n \in 0 .. top |-> IF n = 0 THEN Outset(pack)
                                                ELSE Onward(pack, have, n, h[n - 1])]
<1>1. Walk(pack, have, top) = f[top]
  BY DEF Walk
<1>2. f = CHOOSE h : IsWalk(h)
  BY DEF Outset, Onward, Pending
<1>3. g \in [Nat -> [S -> S]]
  BY OnwardTyped DEF WellFormed
<1>4. Outset(pack) \in S
  BY OutsetWalked
<1>5. PICK h \in [0 .. top -> S] : IsRecursiveTo(h, top, Outset(pack), g)
  <2> HIDE DEF S, g
  <2> QED
    BY <1>3, <1>4, RecursionTo
<1>6. ASSUME NEW n \in 0 .. top, n # 0 PROVE g[n][h[n - 1]] = Onward(pack, have, n, h[n - 1])
  <2>1. n - 1 \in 0 .. top
    BY <1>6
  <2>2. h[n - 1] \in S
    BY <1>5, <2>1
  <2> QED
    BY <1>6, <2>2
<1>7. IsWalk(h)
  <2> HIDE DEF g
  <2> QED
    BY <1>5, <1>6 DEF IsRecursiveTo
<1>8. IsWalk(f)
  <2> HIDE DEF IsWalk, f
  <2> QED
    BY <1>2, <1>7
<1> HIDE DEF f
<1> DEFINE J == {n \in Nat : n <= top => f[n] \in S /\ Walked(pack, have, n, f[n])}
<1>9. 0 \in J
  BY <1>8, OutsetWalked
<1>10. ASSUME NEW n \in Nat, n \in J PROVE n + 1 \in J
  <2>1. SUFFICES ASSUME n + 1 <= top PROVE f[n + 1] \in S /\ Walked(pack, have, n + 1, f[n + 1])
    OBVIOUS
  <2>2. n + 1 \in 0 .. top /\ n + 1 # 0 /\ (n + 1) - 1 = n /\ n <= top
    BY <2>1
  <2>3. f[n + 1] = Onward(pack, have, n + 1, f[n])
    BY <1>8, <2>2
  <2>4. f[n] \in S /\ Walked(pack, have, (n + 1) - 1, f[n]) /\ n + 1 \in Nat \ {0}
    BY <1>10, <2>2
  <2> HIDE DEF IsWalk, S, J
  <2> QED
    BY <2>3, <2>4, OnwardWalked DEF S
<1> HIDE DEF J
<1>11. Nat \subseteq J
  BY <1>9, <1>10, Counting
<1> QED
  BY <1>1, <1>11 DEF J

\* The deltas are all placed just if from each a way leads to something whole.
LEMMA IndexedIfSound ==
    ASSUME NEW pack, WellFormed(pack), NEW top \in Nat, NEW have \in SUBSET (1 .. top)
    PROVE  Indexed(pack, have, top) <=> Sound(pack, have)
<1> DEFINE w == Walk(pack, have, top)
<1>1. w.done \subseteq Places(pack) /\ Walked(pack, have, top, w)
  BY WalkIsWalked DEF Walks
<1> HIDE DEF w
<1>2. Indexed(pack, have, top) <=> w.done = Places(pack)
  BY DEF Indexed, w
<1>3. ASSUME Sound(pack, have), w.done # Places(pack) PROVE FALSE
  <2> DEFINE S == Places(pack) \ w.done
  <2>1. S \in SUBSET Places(pack) /\ S # {} /\ \A j \in S : pack[j].kind # "full"
    BY <1>1, <1>3 DEF Walked
  <2>2. PICK j \in S : \/ pack[j].kind = "ofs" /\ pack[j].base \notin S
                       \/ /\ pack[j].kind = "ref"
                          /\ \/ pack[j].base \in have
                             \/ \E k \in Places(pack) \ S : pack[k].id = pack[j].base
    <3> HIDE DEF S
    <3> QED
      BY <1>3, <2>1 DEF Sound
  <2>3. ASSUME NEW k \in w.done, j \in Unblocked(pack, k) PROVE FALSE
    BY <1>1, <2>3 DEF Walked, Closed
  <2>4. CASE pack[j].kind = "ofs" /\ pack[j].base \notin S
    <3>1. pack[j].base \in 1 .. j - 1 /\ j \in 1 .. Len(pack) /\ Len(pack) \in Nat
      BY <2>4 DEF WellFormed, Places
    <3>2. pack[j].base \in Places(pack)
      BY <3>1 DEF Places
    <3> QED
      BY <2>3, <2>4, <3>2 DEF Unblocked
  <2>5. CASE pack[j].kind = "ref" /\ pack[j].base \in have
    BY <1>1, <2>5 DEF Walked
  <2>6. CASE pack[j].kind = "ref" /\ \E k \in Places(pack) \ S : pack[k].id = pack[j].base
    BY <2>3, <2>6 DEF Unblocked
  <2> QED
    BY <2>2, <2>4, <2>5, <2>6
<1>4. ASSUME w.done = Places(pack) PROVE Sound(pack, have)
  <2>1. SUFFICES ASSUME NEW S \in SUBSET Places(pack), S # {}, \A j \in S : pack[j].kind # "full",
                        ~\E j \in S : \/ pack[j].kind = "ofs" /\ pack[j].base \notin S
                                      \/ /\ pack[j].kind = "ref"
                                         /\ \/ pack[j].base \in have
                                            \/ \E k \in Places(pack) \ S : pack[k].id = pack[j].base
                 PROVE FALSE
    BY DEF Sound
  <2> DEFINE T == Places(pack) \ S
  <2>2. Given(pack, have) \subseteq T
    BY <2>1 DEF Given
  <2>3. Closed(pack, T)
    BY <2>1 DEF Closed, Unblocked
  <2>4. w.done \subseteq T
    <3> HIDE DEF T
    <3> QED
      BY <1>1, <2>2, <2>3 DEF Walked
  <2> QED
    BY <1>4, <2>1, <2>4
<1> QED
  BY <1>2, <1>3, <1>4
-----------------------------------------------------------------------------
(* The completed pack                                                        *)


\* The pack, and behind it the whole objects of ext up to n.
Extended(pack, ext, n, l) ==
    /\ l \in Seq(PackEntries) /\ Len(pack) <= Len(l)
    /\ \A i \in Places(pack) : l[i] = pack[i]
    /\ \A i \in Places(l) \ Places(pack) : l[i].kind = "full"
    /\ \A e \in ext \cap (1 .. n) : \E i \in Places(l) : l[i].id = e

LEMMA ExtendedByOne ==
    ASSUME NEW pack, WellFormed(pack), NEW ext, NEW n \in Nat, NEW l, Extended(pack, ext, n, l)
    PROVE  Extended(pack, ext, n + 1, IF n + 1 \in ext THEN Append(l, Full(n + 1)) ELSE l)
<1>1. l \in Seq(PackEntries) /\ Len(l) \in Nat /\ Len(pack) \in Nat /\ Len(pack) <= Len(l)
  BY DEF Extended, WellFormed
<1>2. \A e \in 1 .. n + 1 : e \in 1 .. n \/ e = n + 1
  OBVIOUS
<1>3. CASE n + 1 \notin ext
  BY <1>2, <1>3 DEF Extended
<1>4. CASE n + 1 \in ext
  <2> DEFINE m == Append(l, Full(n + 1))
  <2>1. Full(n + 1) \in PackEntries /\ Full(n + 1).id = n + 1 /\ Full(n + 1).kind = "full"
    BY DEF Full, PackEntries
  <2>2. /\ m \in Seq(PackEntries) /\ Len(m) = Len(l) + 1 /\ m[Len(l) + 1] = Full(n + 1)
        /\ \A i \in 1 .. Len(l) : m[i] = l[i]
    BY <1>1, <2>1
  <2>3. /\ Places(pack) \subseteq 1 .. Len(l) /\ Places(l) = 1 .. Len(l)
        /\ \A i \in Places(m) : i \in 1 .. Len(l) \/ i = Len(l) + 1
        /\ Places(l) \subseteq Places(m) /\ Len(l) + 1 \in Places(m)
    BY <1>1, <2>2 DEF Places
  <2> HIDE DEF m
  <2>4. \A i \in Places(pack) : m[i] = pack[i]
    BY <2>2, <2>3 DEF Extended
  <2>5. \A i \in Places(m) \ Places(pack) : m[i].kind = "full"
    BY <2>1, <2>2, <2>3 DEF Extended
  <2>6. ASSUME NEW e \in ext \cap (1 .. n + 1) PROVE \E i \in Places(m) : m[i].id = e
    <3>1. CASE e = n + 1
      BY <2>1, <2>2, <2>3, <3>1
    <3>2. CASE e # n + 1
      <4>1. PICK i \in Places(l) : l[i].id = e
        BY <1>2, <2>6, <3>2 DEF Extended
      <4> QED
        BY <2>2, <2>3, <4>1
    <3> QED
      BY <3>1, <3>2
  <2>7. Len(pack) <= Len(m)
    BY <1>1, <2>2
  <2>8. Extended(pack, ext, n + 1, m)
    BY <2>2, <2>4, <2>5, <2>6, <2>7 DEF Extended
  <2> QED
    BY <1>4, <2>8 DEF m
<1> QED
  BY <1>3, <1>4

LEMMA CompletedIsExtended ==
    ASSUME NEW pack, WellFormed(pack), NEW have, NEW top \in Nat
    PROVE  Extended(pack, Walk(pack, have, top).ext, top, Completed(pack, have, top))
<1> DEFINE ext == Walk(pack, have, top).ext
           S == Seq(PackEntries)
           g == [n \in Nat |-> [l \in S |-> IF n \in ext THEN Append(l, Full(n)) ELSE l]]
           IsList(h) == h = [n \in 0 .. top |->
                               IF n = 0 THEN pack
                               ELSE IF n \in ext THEN Append(h[n - 1], Full(n)) ELSE h[n - 1]]
           f == CHOOSE h : IsList(h)
<1>1. Completed(pack, have, top) = f[top]
  BY DEF Completed
<1> HIDE DEF ext
<1>2. g \in [Nat -> [S -> S]]
  <2>1. \A n \in Nat : Full(n) \in PackEntries
    BY DEF Full, PackEntries
  <2> QED
    BY <2>1
<1>3. pack \in S
  BY DEF WellFormed, PackEntries
<1>4. PICK h \in [0 .. top -> S] : IsRecursiveTo(h, top, pack, g)
  <2> HIDE DEF S, g
  <2> QED
    BY <1>2, <1>3, RecursionTo
<1>5. ASSUME NEW n \in 0 .. top, n # 0
      PROVE  g[n][h[n - 1]] = IF n \in ext THEN Append(h[n - 1], Full(n)) ELSE h[n - 1]
  <2>1. n - 1 \in 0 .. top
    BY <1>5
  <2>2. h[n - 1] \in S
    BY <1>4, <2>1
  <2> QED
    BY <1>5, <2>2
<1>6. IsList(h)
  <2> HIDE DEF g
  <2> QED
    BY <1>4, <1>5 DEF IsRecursiveTo
<1>7. IsList(f)
  <2> HIDE DEF IsList
  <2> QED
    BY <1>6
<1> HIDE DEF f
<1> DEFINE J == {n \in Nat : n <= top => Extended(pack, ext, n, f[n])}
<1>8. 0 \in J
  <2>1. f[0] = pack
    BY <1>7
  <2>2. 1 .. 0 = {} /\ Len(pack) <= Len(pack)
    BY DEF WellFormed
  <2>3. Extended(pack, ext, 0, pack)
    BY <1>3, <2>2 DEF Extended
  <2> QED
    BY <2>1, <2>3
<1>9. ASSUME NEW n \in Nat, n \in J PROVE n + 1 \in J
  <2>1. SUFFICES ASSUME n + 1 <= top PROVE Extended(pack, ext, n + 1, f[n + 1])
    OBVIOUS
  <2>2. n + 1 \in 0 .. top /\ n + 1 # 0 /\ (n + 1) - 1 = n /\ n <= top
    BY <2>1
  <2>3. f[n + 1] = IF n + 1 \in ext THEN Append(f[n], Full(n + 1)) ELSE f[n]
    BY <1>7, <2>2
  <2>4. Extended(pack, ext, n, f[n])
    BY <1>9, <2>2
  <2> HIDE DEF IsList, J
  <2> QED
    BY <2>3, <2>4, ExtendedByOne
<1> HIDE DEF J
<1>10. Nat \subseteq J
  BY <1>8, <1>9, Counting
<1> QED
  BY <1>1, <1>10 DEF J, ext

-----------------------------------------------------------------------------
(* Reading an object down its chain                                          *)

\* The places of a pack that are read through those in A.
ReadThrough(pack, A) ==
    {i \in Places(pack) :
       \/ pack[i].kind = "full"
       \/ pack[i].kind = "ofs" /\ pack[i].base \in A
       \/ pack[i].kind = "ref" /\ Located(pack, pack[i].base) # {}
                               /\ Located(pack, pack[i].base) \subseteq A}

LEMMA ReadsMore ==
    ASSUME NEW pack, NEW A, NEW B, A \subseteq B
    PROVE  ReadThrough(pack, A) \subseteq ReadThrough(pack, B)
<1>1. \A L : L \subseteq A => L \subseteq B
  OBVIOUS
<1> QED
  BY <1>1 DEF ReadThrough

\* The places that are read are those of a set which is read through itself.
LEMMA ResolvesIsFixed ==
    ASSUME NEW pack, WellFormed(pack)
    PROVE  \E A \in SUBSET Places(pack) :
              ReadThrough(pack, A) = A /\ \A j \in A : Resolves(pack, j)
<1> DEFINE P == Places(pack)
           S == SUBSET P
           u == [A \in S |-> ReadThrough(pack, A)]
           g == [n \in Nat |-> u]
           full == {i \in P : pack[i].kind = "full"}
           IsDown(h) == h = [n \in Nat |->
              IF n = 0 THEN [i \in Places(pack) |-> pack[i].kind = "full"]
              ELSE [i \in Places(pack) |->
                      CASE pack[i].kind = "full" -> TRUE
                        [] pack[i].kind = "ofs" -> h[n - 1][pack[i].base]
                        [] OTHER -> /\ Located(pack, pack[i].base) # {}
                                    /\ \A k \in Located(pack, pack[i].base) : h[n - 1][k]]]
           f == CHOOSE h : IsDown(h)
<1>1. \A j : Resolves(pack, j) <=> f[Len(pack)][j]
  BY DEF Resolves
<1>2. Len(pack) \in Nat /\ P = 1 .. Len(pack)
  BY DEF WellFormed, Places
<1>3. ASSUME NEW i \in P
      PROVE  /\ pack[i].kind \in {"full", "ofs", "ref"}
             /\ pack[i].kind = "ofs" => pack[i].base \in P
             /\ Located(pack, pack[i].base) \subseteq P
  <2>1. pack[i].kind \in {"full", "ofs", "ref"} /\ Located(pack, pack[i].base) \subseteq P
    BY EntryTyped DEF Located
  <2>2. ASSUME pack[i].kind = "ofs" PROVE pack[i].base \in P
    <3>1. pack[i].base \in 1 .. i - 1 /\ i \in 1 .. Len(pack)
      BY <1>2, <2>2 DEF WellFormed
    <3> QED
      BY <1>2, <3>1
  <2> QED
    BY <2>1, <2>2
<1>4. PICK a \in [Nat -> S] : IsRecursive(a, full, g)
  <2>1. full \in S /\ g \in [Nat -> [S -> S]]
    BY DEF ReadThrough
  <2> HIDE DEF S, full, g
  <2> QED
    BY <2>1, Recursion
<1>5. a[0] = full /\ \A n \in Nat : a[n + 1] = ReadThrough(pack, a[n])
  <2>1. ASSUME NEW n \in Nat PROVE a[n + 1] = ReadThrough(pack, a[n])
    <3>1. n + 1 \in Nat /\ n + 1 # 0 /\ (n + 1) - 1 = n /\ a[n] \in S
      BY <1>4
    <3>2. a[n + 1] = g[n + 1][a[n]]
      <4> HIDE DEF g
      <4> QED
        BY <1>4, <3>1 DEF IsRecursive
    <3> QED
      BY <3>1, <3>2
  <2>2. a[0] = full
    <3> HIDE DEF g, full
    <3> QED
      BY <1>4 DEF IsRecursive
  <2> QED
    BY <2>1, <2>2
<1> DEFINE Value(e, i) ==
             CASE pack[i].kind = "full" -> TRUE
               [] pack[i].kind = "ofs" -> e[pack[i].base]
               [] OTHER -> /\ Located(pack, pack[i].base) # {}
                           /\ \A k \in Located(pack, pack[i].base) : e[k]
<1>6. ASSUME NEW A \in S, NEW e, \A k \in P : e[k] = (k \in A), NEW i \in P
      PROVE  Value(e, i) = (i \in ReadThrough(pack, A))
  <2>1. CASE pack[i].kind = "full"
    BY <2>1 DEF ReadThrough
  <2>2. CASE pack[i].kind = "ofs"
    <3>1. e[pack[i].base] = (pack[i].base \in A)
      BY <1>3, <1>6, <2>2
    <3>2. Value(e, i) = e[pack[i].base]
      BY <2>2
    <3>3. (i \in ReadThrough(pack, A)) = (pack[i].base \in A)
      BY <2>2 DEF ReadThrough
    <3> QED
      BY <3>1, <3>2, <3>3
  <2>3. CASE pack[i].kind = "ref"
    <3> DEFINE L == Located(pack, pack[i].base)
    <3>1. (\A k \in L : e[k]) <=> L \subseteq A
      <4>1. L \subseteq P
        BY <1>3
      <4> HIDE DEF L, P
      <4> QED
        BY <1>6, <4>1
    <3>2. Value(e, i) = (L # {} /\ \A k \in L : e[k])
      BY <2>3
    <3>3. (i \in ReadThrough(pack, A)) = (L # {} /\ L \subseteq A)
      BY <2>3 DEF ReadThrough
    <3> QED
      BY <3>1, <3>2, <3>3
  <2> QED
    BY <1>3, <2>1, <2>2, <2>3
<1>7. \A h : IsDown(h) <=> h = [n \in Nat |-> IF n = 0 THEN [i \in P |-> pack[i].kind = "full"]
                                              ELSE [i \in P |-> Value(h[n - 1], i)]]
  OBVIOUS
<1> HIDE DEF Value, IsDown
<1> DEFINE d == [n \in Nat |-> [i \in P |-> i \in a[n]]]
<1>8. IsDown(d)
  <2>1. ASSUME NEW n \in Nat, n # 0, NEW i \in P PROVE (i \in a[n]) = Value(d[n - 1], i)
    <3>1. n - 1 \in Nat /\ (n - 1) + 1 = n
      BY <2>1
    <3>2. a[n] = ReadThrough(pack, a[n - 1]) /\ a[n - 1] \in S
      BY <1>4, <1>5, <3>1
    <3>3. \A k \in P : d[n - 1][k] = (k \in a[n - 1])
      BY <3>1
    <3> HIDE DEF d, S, P
    <3> QED
      BY <1>6, <3>2, <3>3
  <2>2. \A i \in P : (i \in a[0]) = (pack[i].kind = "full")
    BY <1>5
  <2>3. \A n \in Nat : [i \in P |-> i \in a[n]] =
          IF n = 0 THEN [i \in P |-> pack[i].kind = "full"] ELSE [i \in P |-> Value(d[n - 1], i)]
    <3> HIDE DEF d
    <3> QED
      BY <2>1, <2>2
  <2>4. d = [n \in Nat |-> IF n = 0 THEN [i \in P |-> pack[i].kind = "full"]
                           ELSE [i \in P |-> Value(d[n - 1], i)]]
    BY <2>3
  <2> QED
    BY <1>7, <2>4
<1>9. IsDown(f)
  BY <1>8
<1> HIDE DEF f
<1>10. \A n \in Nat : \A i \in P : f[n][i] = (i \in a[n])
  <2> DEFINE J == {n \in Nat : \A i \in P : f[n][i] = (i \in a[n])}
  <2>1. f = [n \in Nat |-> IF n = 0 THEN [i \in P |-> pack[i].kind = "full"]
                           ELSE [i \in P |-> Value(f[n - 1], i)]]
    BY <1>7, <1>9
  <2>2. 0 \in J
    <3>1. f[0] = [i \in P |-> pack[i].kind = "full"]
      BY <2>1
    <3>2. \A i \in P : f[0][i] = (i \in a[0])
      BY <1>5, <3>1
    <3> QED
      BY <3>2
  <2>3. ASSUME NEW n \in Nat, n \in J PROVE n + 1 \in J
    <3>1. f[n + 1] = [i \in P |-> Value(f[n], i)]
      <4>1. n + 1 \in Nat /\ n + 1 # 0 /\ (n + 1) - 1 = n
        OBVIOUS
      <4> QED
        BY <2>1, <4>1
    <3>2. \A i \in P : f[n + 1][i] = Value(f[n], i)
      BY <3>1
    <3>3. a[n] \in S /\ a[n + 1] = ReadThrough(pack, a[n])
      BY <1>4, <1>5
    <3>4. \A k \in P : f[n][k] = (k \in a[n])
      BY <2>3
    <3>5. \A i \in P : f[n + 1][i] = (i \in a[n + 1])
      <4> HIDE DEF P, S, J
      <4> QED
        BY <1>6, <3>2, <3>3, <3>4
    <3> QED
      BY <3>5
  <2> HIDE DEF J
  <2>4. Nat \subseteq J
    BY <2>2, <2>3, Counting
  <2> QED
    BY <2>4 DEF J
<1>11. Growing(a, u)
  <2> DEFINE J == {n \in Nat : a[n] \subseteq a[n + 1]}
  <2>1. 0 \in J
    BY <1>5 DEF ReadThrough
  <2>2. ASSUME NEW n \in Nat, n \in J PROVE n + 1 \in J
    <3>1. a[n] \subseteq a[n + 1] /\ a[n + 1] = ReadThrough(pack, a[n])
          /\ a[(n + 1) + 1] = ReadThrough(pack, a[n + 1])
      BY <1>5, <2>2
    <3> QED
      BY <3>1, ReadsMore
  <2> HIDE DEF J
  <2>3. Nat \subseteq J
    BY <2>1, <2>2, Counting
  <2>4. \A n \in Nat : a[n + 1] = u[a[n]]
    BY <1>4, <1>5
  <2> QED
    BY <2>3, <2>4 DEF Growing, J
<1>12. ReadThrough(pack, a[Len(pack)]) = a[Len(pack)]
  <2>1. IsFiniteSet(P) /\ Cardinality(P) = Len(pack)
    BY <1>2, PlacesAreFinite
  <2>2. u[a[Len(pack)]] = a[Len(pack)]
    <3>1. a \in [Nat -> SUBSET P]
      BY <1>4
    <3> HIDE DEF u, P
    <3> QED
      BY <1>11, <2>1, <3>1, GrowsToTheEnd
  <2> QED
    BY <1>2, <1>4, <2>2
<1> QED
  <2>1. a[Len(pack)] \in S
    BY <1>2, <1>4
  <2>2. \A j \in a[Len(pack)] : Resolves(pack, j)
    BY <1>1, <1>2, <1>10, <2>1
  <2> QED
    BY <1>12, <2>1, <2>2

\* An indexed pack, completed, is read from its first to its last place.
LEMMA CompletedIsRead ==
    ASSUME NEW pack, WellFormed(pack), NoCircle(pack), NEW top \in Nat, NEW have \in SUBSET (1 .. top),
           Indexed(pack, have, top)
    PROVE  \A j \in Places(Completed(pack, have, top)) : Resolves(Completed(pack, have, top), j)
<1> DEFINE w == Walk(pack, have, top)
           c == Completed(pack, have, top)
<1>1. w.done = Places(pack) /\ Walked(pack, have, top, w)
  BY WalkIsWalked DEF Indexed
<1>2. Extended(pack, w.ext, top, c)
  BY CompletedIsExtended
<1> HIDE DEF w, c
<1>3. Len(pack) \in Nat /\ Len(c) \in Nat /\ Places(pack) \subseteq Places(c)
  BY <1>2 DEF WellFormed, Extended, Places
<1>4. WellFormed(c)
  <2>1. c \in Seq(PackEntries)
    BY <1>2 DEF Extended
  <2>2. ASSUME NEW j \in Places(c), c[j].kind = "ofs" PROVE c[j].base \in 1 .. j - 1
    <3>1. j \in Places(pack) /\ c[j] = pack[j]
      BY <1>2, <2>2 DEF Extended
    <3> QED
      BY <2>2, <3>1 DEF WellFormed
  <2> QED
    BY <2>1, <2>2 DEF WellFormed, PackEntries
<1>5. PICK A \in SUBSET Places(c) : ReadThrough(c, A) = A /\ \A j \in A : Resolves(c, j)
  BY <1>4, ResolvesIsFixed
<1>6. SUFFICES ASSUME Places(c) \ A # {} PROVE FALSE
  BY <1>5 DEF c
<1> DEFINE S == Places(c) \ A
<1>7. \A i \in Places(c) \ Places(pack) : i \in A
  BY <1>2, <1>5 DEF Extended, ReadThrough
<1>8. S \in SUBSET Places(pack)
  BY <1>7
<1>9. PICK j \in S : Behind(pack, j) \cap S = {}
  BY <1>6, <1>8 DEF NoCircle
<1>10. j \in Places(pack) /\ c[j] = pack[j] /\ j \in Places(c) /\ j \notin ReadThrough(c, A)
  BY <1>2, <1>5, <1>8, <1>9 DEF Extended
<1>11. CASE pack[j].kind = "full"
  BY <1>10, <1>11 DEF ReadThrough
<1>12. CASE pack[j].kind = "ofs"
  <2>1. pack[j].base \in Places(pack)
    <3>1. pack[j].base \in 1 .. j - 1 /\ j \in 1 .. Len(pack)
      BY <1>10, <1>12 DEF WellFormed, Places
    <3> QED
      BY <1>3, <3>1 DEF Places
  <2>2. pack[j].base \notin S
    BY <1>9, <1>12 DEF Behind
  <2>3. pack[j].base \in A
    BY <1>3, <2>1, <2>2
  <2> QED
    BY <1>10, <1>12, <2>3 DEF ReadThrough
<1>13. CASE pack[j].kind = "ref"
  <2>1. \E i \in Places(c) : c[i].id = pack[j].base
    <3>1. HasBase(pack, w.ext, j)
      BY <1>1, <1>10 DEF Walked
    <3>2. CASE \E i \in Places(pack) : pack[i].id = pack[j].base
      BY <1>2, <1>3, <3>2 DEF Extended
    <3>3. CASE pack[j].base \in w.ext
      <4>1. pack[j].base \in w.ext \cap (1 .. top)
        BY <1>1, <3>3 DEF Walked
      <4> QED
        BY <1>2, <4>1 DEF Extended
    <3> QED
      BY <1>13, <3>1, <3>2, <3>3 DEF HasBase
  <2>2. ASSUME NEW i \in Located(c, pack[j].base) PROVE i \in A
    <3>1. i \in Places(c) /\ c[i].id = pack[j].base
      BY DEF Located
    <3>2. CASE i \in Places(pack)
      <4>1. i \in Behind(pack, j)
        BY <1>2, <1>13, <3>1, <3>2 DEF Behind, Extended
      <4> QED
        BY <1>9, <3>1, <4>1
    <3> QED
      BY <1>7, <3>1, <3>2
  <2>3. Located(c, pack[j].base) # {}
    BY <2>1 DEF Located
  <2> QED
    BY <1>10, <1>13, <2>2, <2>3 DEF ReadThrough
<1> QED
  BY <1>10, <1>11, <1>12, <1>13, EntryTyped

(* A thin pack is taken exactly if its deltas lead to something that is    *)
(* known, and what is stored of it is read from its first to its last      *)
(* object without any other pack: for every pack, whatever the order of    *)
(* its entries and however long its chains of deltas.                      *)
THEOREM ThinPacksAreReadable == ThinPacksReadable
<1> SUFFICES ASSUME NEW pack \in Streams, NEW have \in SUBSET (1 .. NObjects)
             PROVE  ThinPackReadable(pack, have, NObjects)
    BY DEF ThinPacksReadable
<1>1. WellFormed(pack) /\ NoCircle(pack) /\ NObjects \in Nat
    BY DeltaChainAssumption
<1> QED
    BY <1>1, IndexedIfSound, CompletedIsRead DEF ThinPackReadable
=============================================================================
