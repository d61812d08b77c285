------------------------------- MODULE PackStore -------------------------------
(***************************************************************************)
(* The object store on disk: DiskObjectStore of dulwich/object_store.py    *)
(* with the packs of dulwich/pack.py.                                      *)
(*                                                                         *)
(* Several processes work on one store at a time: they add objects and     *)
(* packs, look objects up, and pack what is there again.  No lock is held     *)
(* on the store: whatever a process finds may be gone at its next step.  A *)
(* process may be killed between any two steps.                            *)
(***************************************************************************)
EXTENDS Dulwich, DeltaChain, FiniteSets

CONSTANTS
    Stores,      \* what is in the store at first: loose objects and packs
    PackAdds,    \* the sets of objects that come as a pack
    ThinPacks,   \* the thin packs that come over a connection
    MaxJobs, MaxClock  \* bounds

Objects == 1 .. NObjects

\* A pack is named after the objects in it: _get_pack_basepath and Pack.name.
PackNames == (SUBSET Objects) \ {{}}

\* How a lookup may end.
Answers == {"found", "missing", "IOError", "ChecksumMismatch", "misread"}

ASSUME PackStoreAssumption ==
    /\ None \notin Nat \cup Answers
    /\ PackAdds \subseteq PackNames
    /\ Stores \subseteq [loose : SUBSET Objects, packs : SUBSET PackNames]

VARIABLES
    looseObjects,  \* the objects in files of their own
    data, idx,     \* which job wrote the .pack and the .idx file of each pack
    idxLock,       \* which job made the .idx.lock file of each pack
    clock, mtime,  \* the time, and when the pack directory last changed
    step, job,     \* where each process is, in what job
    todo,          \* the packs that step still has to go through
    packCache, bypath, \* _pack_cache: what was listed, what it wrote itself
    opened,        \* the files of each pack that are open: which job wrote them
    stamp,         \* _pack_cache_time
    jobs,
    safe,          \* history: the objects that were stored with success
    contended,     \* history: packs two jobs wrote at once, or one left half written
    disturbed,     \* history: what was moved or written over during a job
    blind          \* history: what changed between listdir and taking the time

packDir == <<data, idx, idxLock, mtime>>
storeDisk == <<looseObjects, packDir>>
known == <<packCache, bypath, opened, stamp>>
history == <<safe, contended, disturbed, blind>>
storeVars == <<storeDisk, clock, step, job, todo, known, jobs, history>>

\* The packs whose two files are there, and those that can be read:
\* check_length_and_checksum finds that the files belong together.
Pairs == {S \in PackNames : data[S] # None /\ idx[S] # None}
Sane == {S \in Pairs : data[S] = idx[S]}

Stored == looseObjects \cup UNION Sane

\* Of a pack that was not looked into yet, no file is open.
Closed == [idx |-> None, data |-> None]

\* What a process is doing: with which object, pack, old packs and loose objects (those
\* not removed yet), what it has listed, whether the object was there, what was found.
NoJob == [kind |-> "none", id |-> 0, object |-> None, pack |-> {}, old |-> {}, objects |-> {},
          listed |-> {}, there |-> FALSE, answer |-> None]

StoreInit ==
    /\ \E at \in Stores :
         /\ looseObjects = at.loose
         /\ data = [S \in PackNames |-> IF S \in at.packs THEN 0 ELSE None]
         /\ idx = data
         /\ safe = at.loose \cup UNION at.packs
    /\ idxLock = [S \in PackNames |-> None]
    /\ clock = 0 /\ mtime = 0
    /\ step = [p \in Procs |-> "idle"]
    /\ job = [p \in Procs |-> NoJob]
    /\ todo = [p \in Procs |-> {}]
    /\ packCache = [p \in Procs |-> {}] /\ bypath = [p \in Procs |-> {}]
    /\ opened = [p \in Procs |-> [S \in PackNames |-> Closed]]
    /\ stamp = [p \in Procs |-> 0]
    /\ jobs = 0
    /\ contended = {}
    /\ disturbed = [p \in Procs |-> {}] /\ blind = [p \in Procs |-> {}]

Tick ==
    /\ clock < MaxClock
    /\ clock' = clock + 1
    /\ UNCHANGED <<storeDisk, step, job, todo, known, jobs, history>>

Proceed(p, where) == step' = [step EXCEPT ![p] = where]

\* The operation returns, or raises.
Over(p) == Proceed(p, "idle") /\ todo' = [todo EXCEPT ![p] = {}]

\* On the way with a list to go through.
Through(p, where, list) == Proceed(p, where) /\ todo' = [todo EXCEPT ![p] = list]

Disturb(objs) == disturbed' = [q \in Procs |-> disturbed[q] \cup objs]

Begin(p, what, where) ==
    /\ step[p] = "idle" /\ jobs < MaxJobs
    /\ jobs' = jobs + 1
    /\ job' = [job EXCEPT ![p] = [what EXCEPT !.id = jobs']]
    /\ disturbed' = [disturbed EXCEPT ![p] = {}]
    /\ Proceed(p, where)
    /\ UNCHANGED <<looseObjects, data, idx, idxLock, clock, todo, known, safe, contended, blind>>

-----------------------------------------------------------------------------
(* The packs a process knows                                               *)

Cached(p) == packCache[p] \cup bypath[p]

\* A mistake: a change in the very moment of the listing is taken for listed.
NewerOnly(p) == mtime > stamp[p]

\* _pack_cache_stale
Stale(p) == mtime >= stamp[p]

\* The step that "packs" was asked for at.
Then(p, list) ==
    CASE step[p] \in {"look?", "look!"} -> Through(p, "look", list)
      [] step[p] \in {"read?", "read!"} -> Through(p, "read", list)
      [] step[p] \in {"place?", "place!"} -> Proceed(p, "place") /\ UNCHANGED todo
      [] OTHER -> Over(p)

\* packs: what is in the cache, if it is not stale.
UseCache(p) ==
    /\ step[p] \in {"look?", "read?", "place?"} /\ ~Stale(p)
    /\ Then(p, Cached(p))
    /\ UNCHANGED <<storeDisk, clock, job, known, jobs, history>>

\* _update_pack_cache: listdir ...
List(p) ==
    /\ \/ step[p] = "update"
       \/ step[p] \in {"look?", "read?", "place?"} /\ Stale(p)
    /\ job' = [job EXCEPT ![p].listed = Pairs]
    /\ Proceed(p, CASE step[p] = "look?" -> "look!" [] step[p] = "read?" -> "read!"
                 [] step[p] = "place?" -> "place!" [] OTHER -> "update!")
    /\ UNCHANGED <<storeDisk, clock, todo, known, jobs, history>>

\* ... then the time is taken, and what was listed is what is known.  A change
\* in between that is older than this is not noticed until the next one.
Stamp(p) ==
    /\ step[p] \in {"look!", "read!", "place!", "update!"}
    /\ stamp' = [stamp EXCEPT ![p] = clock]
    /\ LET list == job[p].listed
       IN  /\ packCache' = [packCache EXCEPT ![p] = list]
           /\ opened' = [opened EXCEPT ![p] =
                [S \in PackNames |-> IF S \in list \cap packCache[p] THEN opened[p][S] ELSE Closed]]
           /\ blind' = [blind EXCEPT ![p] =
                          UNION (IF mtime < clock THEN (Pairs \ list) \cup (list \ Pairs) ELSE {})]
           /\ Then(p, list)
    /\ bypath' = [bypath EXCEPT ![p] = {}]
    /\ UNCHANGED <<storeDisk, clock, job, jobs, safe, contended, disturbed>>

-----------------------------------------------------------------------------
(* Looking up an object: get_raw                                           *)

Lookup(p) ==
    \E x \in Objects :
       /\ Begin(p, [NoJob EXCEPT !.kind = "lookup", !.object = x, !.there = x \in Stored], "look?")
       /\ UNCHANGED mtime

Answer(p, a) == Over(p) /\ job' = [job EXCEPT ![p].answer = a]

\* The index and the data a process works with: those it has open.
Index(p, S) == IF opened[p][S].idx # None THEN opened[p][S].idx ELSE idx[S]
Data(p, S) == IF opened[p][S].data # None THEN opened[p][S].data ELSE data[S]

\* The next pack.  Its files are opened when they are needed, the index for every
\* lookup: IOError if they are gone, ChecksumMismatch if they do not belong
\* together.  That is looked at once: the data is kept before it is, and the next
\* lookup takes another object, or none, for the one that was asked for.
LookPack(p) ==
    /\ step[p] = "look"
    /\ \E S \in todo[p] :
         LET wanted == job[p].object \in S
             index == Index(p, S)
             content == IF wanted /\ index # None THEN Data(p, S) ELSE opened[p][S].data
         IN  /\ opened' = [opened EXCEPT ![p][S] = [idx |-> index, data |-> content]]
             /\ \/ index # None /\ ~wanted /\ Through(p, "look", todo[p] \ {S}) /\ UNCHANGED job
                \/ (index = None \/ (wanted /\ content = None)) /\ Answer(p, "IOError")
                \/ index # None /\ wanted /\ content = index /\ Answer(p, "found")
                \/ /\ index # None /\ wanted /\ content \notin {None, index}
                   /\ Answer(p, IF opened[p][S].data = None THEN "ChecksumMismatch" ELSE "misread")
    /\ UNCHANGED <<storeDisk, clock, packCache, bypath, stamp, jobs, history>>

\* In no pack: _get_loose_object.
LookLoose(p) ==
    /\ step[p] = "look" /\ todo[p] = {}
    /\ Answer(p, IF job[p].object \in looseObjects THEN "found" ELSE "missing")
    /\ UNCHANGED <<storeDisk, clock, known, jobs, history>>

-----------------------------------------------------------------------------
(* Adding                                                                  *)

\* add_object: nothing to do if the file is there; else it is written aside and
\* renamed.
AddObject(p) ==
    /\ step[p] = "idle" /\ jobs < MaxJobs
    /\ jobs' = jobs + 1
    /\ \E x \in Objects : looseObjects' = looseObjects \cup {x} /\ safe' = safe \cup {x}
    /\ UNCHANGED <<packDir, clock, step, job, todo, known, contended, disturbed, blind>>

\* add_pack and its commit, or add_objects: the data is written to a file aside,
\* in the directory.
AddPack(p) ==
    \E S \in PackAdds : Begin(p, [NoJob EXCEPT !.kind = "pack", !.pack = S], "index") /\ mtime' = clock

\* add_thin_pack: the pack is read and indexed; the external bases are looked up
\* here.  A pack of nothing adds nothing.
AddThinPack(p) ==
    /\ step[p] = "idle" /\ jobs < MaxJobs
    /\ \E s \in ThinPacks :
         /\ Indexed(s, Stored, NObjects)
         /\ LET S == Ids(Completed(s, Stored, NObjects))
            IN  S \in PackNames /\ Begin(p, [NoJob EXCEPT !.kind = "thin", !.pack = S], "data")
    /\ UNCHANGED mtime

Thin(p) == job[p].kind = "thin"

\* Between the renaming of the two files of a pack: move_in_pack writes the index
\* first, _complete_thin_pack the data.
Between(p, S) ==
    /\ job[p].pack = S
    /\ IF Thin(p) THEN step[p] \in {"index", "write"}
       ELSE step[p] \in {"unlock", "place?", "place!", "place"}

\* The files of S may not belong together: another job is between them, or this
\* one came to a lock that is not its own.
Contend(p, S, robbed) ==
    contended' = IF robbed \/ \E q \in Procs \ {p} : Between(q, S) THEN contended \cup {S} ELSE contended

\* _complete_thin_pack renames the data before there is an index.
ThinData(p) ==
    /\ step[p] = "data"
    /\ LET S == job[p].pack
       IN  /\ data' = [data EXCEPT ![S] = job[p].id]
           /\ Contend(p, S, FALSE) /\ Disturb(S)
    /\ mtime' = clock
    /\ Proceed(p, "index")
    /\ UNCHANGED <<looseObjects, idx, idxLock, clock, job, todo, known, jobs, safe, blind>>

\* GitFile(..., 'wb') of the index, under the name of the pack.  FileLocked is
\* raised if the lock file is there: of a job at work, or of one that was killed.
LockIndex(p) ==
    /\ step[p] = "index"
    /\ LET S == job[p].pack
       IN  IF idxLock[S] = None
           THEN /\ idxLock' = [idxLock EXCEPT ![S] = job[p].id] /\ mtime' = clock
                /\ Proceed(p, "write") /\ UNCHANGED <<todo, contended>>
           ELSE /\ Over(p) /\ Contend(p, S, Thin(p)) /\ UNCHANGED <<idxLock, mtime>>
    /\ UNCHANGED <<looseObjects, data, idx, clock, job, known, jobs, safe, disturbed, blind>>

\* The lock file is renamed, whoever made it by now, if it is there ...
WriteIndex(p) ==
    /\ step[p] = "write"
    /\ LET S == job[p].pack
       IN  IF idxLock[S] = None
           THEN /\ Proceed(p, "fail") /\ Contend(p, S, Thin(p))
                /\ UNCHANGED <<idx, idxLock, mtime, disturbed>>
           ELSE /\ idx' = [idx EXCEPT ![S] = idxLock[S]] /\ idxLock' = [idxLock EXCEPT ![S] = None]
                /\ mtime' = clock
                /\ Proceed(p, "unlock") /\ Contend(p, S, idxLock[S] # job[p].id) /\ Disturb(S)
    /\ UNCHANGED <<looseObjects, data, clock, job, todo, known, jobs, safe, blind>>

\* ... and removed by its name, which may be another's that came in between.
\* A rename that failed is raised now.
UnlockIndex(p) ==
    /\ step[p] \in {"unlock", "fail"}
    /\ LET S == job[p].pack
       IN  idxLock' = [idxLock EXCEPT ![S] = None] /\ mtime' = (IF idxLock[S] = None THEN mtime ELSE clock)
    /\ IF step[p] = "fail" THEN Over(p)
       ELSE Proceed(p, IF Thin(p) THEN "check" ELSE "place?") /\ UNCHANGED todo
    /\ UNCHANGED <<looseObjects, data, idx, clock, job, known, jobs, history>>

\* The pack is known by its path.  What was listed is in the cache by name, and
\* comes first.
Know(p, S, files) ==
    /\ bypath' = [bypath EXCEPT ![p] = @ \cup {S}]
    /\ opened' = IF S \in packCache[p] THEN opened ELSE [opened EXCEPT ![p][S] = files]

\* A mistake: a pack that was listed is taken for the one just written.
InCacheAtAll(p, S) == S \in Cached(p)

\* The cache is asked for the pack by its path; what was listed is in it by name.
InCache(p, S) == S \in bypath[p]

\* The loose objects that were packed are removed next; a pack job is done.
AfterPack(p) ==
    CASE job[p].kind = "pack" -> Over(p)
      [] job[p].kind = "loose" -> Proceed(p, "remove") /\ UNCHANGED todo
      [] OTHER -> Proceed(p, "name") /\ UNCHANGED todo

\* move_in_pack: the cache is brought up to date, and the pack is renamed.
PlaceData(p) ==
    /\ step[p] = "place"
    /\ LET S == job[p].pack
       IN  /\ IF InCache(p, S) THEN UNCHANGED <<data, mtime, bypath, opened, disturbed>>
              ELSE /\ data' = [data EXCEPT ![S] = job[p].id]
                   /\ mtime' = clock
                   /\ Know(p, S, Closed)
                   /\ Disturb(S)
           /\ safe' = safe \cup S
    /\ AfterPack(p)
    /\ UNCHANGED <<looseObjects, idx, idxLock, clock, job, packCache, stamp, jobs, contended, blind>>

\* _complete_thin_pack: do the files belong together?
CheckThin(p) ==
    /\ step[p] = "check"
    /\ LET S == job[p].pack
       IN  IF S \in Sane
           THEN safe' = safe \cup S /\ Know(p, S, [idx |-> idx[S], data |-> data[S]])
           ELSE UNCHANGED <<safe, bypath, opened>>
    /\ Over(p)
    /\ UNCHANGED <<storeDisk, clock, job, packCache, stamp, jobs, contended, disturbed, blind>>

-----------------------------------------------------------------------------
(* Packing what is there: pack_loose_objects and repack                    *)

Pack(p, kind) ==
    Begin(p, [NoJob EXCEPT !.kind = kind], "loose") /\ UNCHANGED mtime

\* The loose objects are listed ...
ListLoose(p) ==
    /\ step[p] = "loose"
    /\ job' = [job EXCEPT ![p].objects = looseObjects]
    /\ Proceed(p, "get")
    /\ UNCHANGED <<storeDisk, clock, todo, known, jobs, history>>

\* The new pack is begun: a file aside, in the directory.
BeginPack(p) == Proceed(p, "index") /\ UNCHANGED todo /\ mtime' = clock

\* ... and read; one that is gone by then makes the operation fail.
ReadLoose(p) ==
    /\ step[p] = "get"
    /\ job' = [job EXCEPT ![p].pack = @ \cup job[p].objects]
    /\ LET objs == job[p].objects
           all == job[p].kind = "repack"
       IN  CASE ~(objs \subseteq looseObjects) \/ (objs = {} /\ ~all) -> Over(p) /\ UNCHANGED mtime
             [] objs \subseteq looseObjects /\ all -> Proceed(p, "read?") /\ UNCHANGED <<todo, mtime>>
             [] OTHER -> BeginPack(p)
    /\ UNCHANGED <<looseObjects, data, idx, idxLock, clock, known, jobs, history>>

\* repack reads all packs, from their data, and fails if one cannot be opened.
ReadPack(p) ==
    /\ step[p] = "read" /\ todo[p] # {}
    /\ \E S \in todo[p] :
         LET index == Index(p, S)
             content == IF index = None THEN opened[p][S].data ELSE Data(p, S)
             sound == opened[p][S].data # None \/ content = index
         IN  /\ opened' = [opened EXCEPT ![p][S] = [idx |-> index, data |-> content]]
             /\ IF None \notin {index, content} /\ sound
                THEN /\ job' = [job EXCEPT ![p].pack = @ \cup S, ![p].old = @ \cup {S}]
                     /\ Through(p, "read", todo[p] \ {S})
                ELSE Over(p) /\ UNCHANGED job
    /\ UNCHANGED <<storeDisk, clock, packCache, bypath, stamp, jobs, history>>

\* All read: _flush_pack_cache.  Of nothing no pack is made, and its name is
\* asked for all the same: AttributeError.
Flush(p) ==
    /\ step[p] = "read" /\ todo[p] = {}
    /\ packCache' = [packCache EXCEPT ![p] = {}] /\ bypath' = [bypath EXCEPT ![p] = {}]
    /\ opened' = [opened EXCEPT ![p] = [S \in PackNames |-> Closed]]
    /\ IF job[p].pack = {} THEN Over(p) /\ UNCHANGED mtime ELSE BeginPack(p)
    /\ UNCHANGED <<looseObjects, data, idx, idxLock, clock, job, stamp, jobs, history>>

\* consolidated.name(): repack opens the index of the new pack.
NamePack(p) ==
    /\ step[p] = "name"
    /\ LET S == job[p].pack
       IN  /\ opened' = [opened EXCEPT ![p][S].idx = Index(p, S)]
           /\ IF Index(p, S) = None THEN Over(p) ELSE Proceed(p, "remove") /\ UNCHANGED todo
    /\ UNCHANGED <<storeDisk, clock, job, packCache, bypath, stamp, jobs, history>>

\* A mistake: the pack just written may be among the old ones.
AllOld(p) == job[p].old

OldPacks(p) == job[p].old \ {job[p].pack}

\* _remove_loose_object, one after the other.
RemoveLoose(p) ==
    /\ step[p] = "remove"
    /\ \E x \in job[p].objects :
         IF x \in looseObjects
         THEN /\ looseObjects' = looseObjects \ {x} /\ Disturb({x})
              /\ job' = [job EXCEPT ![p].objects = @ \ {x}]
              /\ UNCHANGED <<step, todo>>
         ELSE Over(p) /\ UNCHANGED <<looseObjects, disturbed, job>>
    /\ UNCHANGED <<packDir, clock, known, jobs, safe, contended, blind>>

LooseRemoved(p) ==
    /\ step[p] = "remove" /\ job[p].objects = {}
    /\ IF job[p].kind = "repack" THEN Through(p, "drop", OldPacks(p)) ELSE Over(p)
    /\ UNCHANGED <<storeDisk, clock, job, known, jobs, history>>

\* _remove_pack: the data, then the index.
RemoveData(p) ==
    /\ step[p] = "drop" /\ todo[p] # {}
    /\ \E S \in todo[p] :
         IF data[S] = None THEN Over(p) /\ UNCHANGED <<data, mtime, disturbed, job>>
         ELSE /\ data' = [data EXCEPT ![S] = None] /\ mtime' = clock
              /\ Disturb(S)
              /\ job' = [job EXCEPT ![p].objects = S]
              /\ Through(p, "dropindex", todo[p] \ {S})
    /\ UNCHANGED <<looseObjects, idx, idxLock, clock, known, jobs, safe, contended, blind>>

RemoveIndex(p) ==
    /\ step[p] = "dropindex"
    /\ LET S == job[p].objects
       IN  IF idx[S] = None THEN Over(p) /\ UNCHANGED <<idx, mtime, disturbed>>
           ELSE /\ idx' = [idx EXCEPT ![S] = None] /\ mtime' = clock
                /\ Disturb(S)
                /\ Proceed(p, "drop") /\ UNCHANGED todo
    /\ UNCHANGED <<looseObjects, data, idxLock, clock, job, known, jobs, safe, contended, blind>>

PacksRemoved(p) ==
    /\ step[p] = "drop" /\ todo[p] = {}
    /\ Proceed(p, "update")
    /\ UNCHANGED <<storeDisk, clock, job, todo, known, jobs, history>>

-----------------------------------------------------------------------------
\* The process is killed, and started again.  A lock file it made stays.
Killed(p) ==
    /\ step[p] # "idle"
    /\ Over(p)
    /\ packCache' = [packCache EXCEPT ![p] = {}] /\ bypath' = [bypath EXCEPT ![p] = {}]
    /\ opened' = [opened EXCEPT ![p] = [S \in PackNames |-> Closed]]
    /\ stamp' = [stamp EXCEPT ![p] = 0]
    /\ blind' = [blind EXCEPT ![p] = {}]
    /\ contended' = contended \cup {S \in PackNames : Between(p, S)}
    /\ UNCHANGED <<storeDisk, clock, job, jobs, safe, disturbed>>

Work(p) ==
    \/ UseCache(p) \/ List(p) \/ Stamp(p)
    \/ Lookup(p) \/ LookPack(p) \/ LookLoose(p)
    \/ AddObject(p) \/ AddPack(p) \/ AddThinPack(p)
    \/ ThinData(p) \/ LockIndex(p) \/ WriteIndex(p) \/ UnlockIndex(p)
    \/ PlaceData(p) \/ CheckThin(p)
    \/ Pack(p, "loose") \/ Pack(p, "repack")
    \/ ListLoose(p) \/ ReadLoose(p) \/ ReadPack(p) \/ Flush(p) \/ NamePack(p)
    \/ RemoveLoose(p) \/ LooseRemoved(p)
    \/ RemoveData(p) \/ RemoveIndex(p) \/ PacksRemoved(p)

StoreNext == Tick \/ \E p \in Procs : Work(p) \/ Killed(p)

StoreSpec == StoreInit /\ [][StoreNext]_storeVars

-----------------------------------------------------------------------------
(* Properties.                                                             *)

\* The values of the variables.
Labels ==
    {"idle", "look?", "look!", "look", "read?", "read!", "read", "place?", "place!", "place",
     "update", "update!", "data", "index", "write", "unlock", "fail", "check", "loose", "get", "name",
     "remove", "drop", "dropindex"}

Jobs ==
    [kind : {"none", "lookup", "pack", "thin", "loose", "repack"}, id : Nat, object : Objects \cup {None},
     pack : SUBSET Objects, old : SUBSET PackNames, objects : SUBSET Objects, listed : SUBSET PackNames,
     there : BOOLEAN, answer : Answers \cup {None}]

StoreTypeOK ==
    /\ looseObjects \in SUBSET Objects /\ safe \in SUBSET Objects
    /\ data \in [PackNames -> Nat \cup {None}] /\ idx \in [PackNames -> Nat \cup {None}]
    /\ idxLock \in [PackNames -> Nat \cup {None}]
    /\ clock \in Nat /\ mtime \in Nat /\ jobs \in Nat
    /\ step \in [Procs -> Labels] /\ job \in [Procs -> Jobs]
    /\ todo \in [Procs -> SUBSET PackNames]
    /\ packCache \in [Procs -> SUBSET PackNames] /\ bypath \in [Procs -> SUBSET PackNames]
    /\ opened \in [Procs -> [PackNames -> [idx : Nat \cup {None}, data : Nat \cup {None}]]]
    /\ stamp \in [Procs -> Nat]
    /\ contended \in SUBSET PackNames
    /\ disturbed \in [Procs -> SUBSET Objects] /\ blind \in [Procs -> SUBSET Objects]

\* What was stored with success stays stored, whatever is added and packed at
\* the same time and whoever is killed; only a pack may be in the way whose two
\* files were left apart: by two jobs that wrote them at once, by one that was
\* killed between them, or by a thin pack that had its data in place and then
\* found a lock on the index that is not its own, or had lost its own.
NothingLost ==
    \A x \in safe :
       \/ x \in Stored
       \/ \E S \in Pairs : x \in S /\ (S \in contended \/ \E p \in Procs : Between(p, S))

\* The two files of a pack belong together, unless they are just being written
\* or were left apart as said above.
FilesMatch ==
    \A S \in Pairs :
       data[S] = idx[S] \/ S \in contended \/ \E p \in Procs : Between(p, S)

\* An object that was there when its lookup began is found, unless it was moved
\* or its pack written over meanwhile, or the process had not seen it come: it
\* came just when the directory was listed.  A pack that goes away, whatever is
\* in it, makes the lookup raise IOError.  (A pack whose files do not match is in
\* the way of the same object elsewhere: ChecksumMismatch, and the next time what
\* is in its data; see FilesMatch.)
FoundUnlessMoved ==
    \A p \in Procs :
       job[p].kind = "lookup" /\ job[p].there =>
          /\ job[p].answer = "missing" => job[p].object \in disturbed[p] \cup blind[p]
          /\ job[p].answer = "IOError" => disturbed[p] \cup blind[p] # {}
=============================================================================
