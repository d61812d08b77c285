---------------------------- MODULE BuildArtifact ----------------------------
(***************************************************************************)
(* The packaging script: build_artifact.py names the version of the        *)
(* working copy (vcs_id), installs the tool jonchki if it is not there     *)
(* (jonchkihere), and runs it.                                             *)
(*                                                                         *)
(* The tool comes in two kinds: the full version for one platform, a tar   *)
(* on Linux and a zip on Windows, and the light version, a zip of Lua      *)
(* files.  An installation is a folder named after kind and version; it    *)
(* is taken over by the next call if its tool answers with that version.   *)
(*                                                                         *)
(* Faults: the script is killed, also in the middle of a member of an      *)
(* archive, a server has no file, cannot be reached or ends the connection *)
(* early, an archive holds another version than its name says.             *)
(***************************************************************************)
EXTENDS Integers, Sequences, FiniteSets, FiniteSetsExt, Functions

CONSTANTS Versions,  \* of jonchki
          Hosts,     \* what the host tells of itself
          Argvs,     \* the command lines of build_artifact.py
          Released,  \* the platforms <<id, architecture>> with a full version
          Layouts,   \* the orders of the members in an archive
          Trees,     \* the states of the working copy
          MaxCalls,  \* bound on the runs of the script
          MaxMishaps, \* bound on the faults
          Nothing       \* a model value: nothing, unknown

Kinds == {"full", "light"}
Members == {"tool", "lib"}
Raised == "raise"
Tags == {"v1.2", "beta"} \* a version and a name that is none

\* An archive from the servers has all parts of the tool, or a name outside of its folder.
ASSUME PackageAssumption ==
    /\ Nothing \notin Members \cup {"torn", "cut", "outside", Raised} \cup Tags
    /\ Nothing \notin Kinds \X Versions
    /\ Layouts \subseteq Seq(Members \cup {"outside"})
    /\ \A layout \in Layouts : "outside" \in Range(layout) \/ Members \subseteq Range(layout)
    /\ \A t \in Trees : t.walk \in Seq(Tags \cup {Nothing})

Absent == [has |-> {Nothing}, reports |-> Nothing]

VARIABLES
    phase,     \* where the script is
    host,      \* the host, the same for all runs
    target,    \* tPlatform["platform_id"]
    tree,      \* the working copy
    id,        \* strProjectVersionVcs
    version,   \* strCfg_JonchkiVersion
    disk,      \* the installation folders of each kind and version
    local,     \* the local archives
    file,      \* tFile
    unpacked,  \* the members extracted
    foundKind, \* fFoundJonchki and fFoundJonchkiLight
    cmd,       \* strJonchkiCmd
    cmdFile,   \* the contents of .jonchki.cmd
    exit,      \* of the last run
    calls,
    mishaps,
    calm,      \* history: no fault in this run
    fresh      \* history: this run has extracted an archive

settings == <<target, tree, id, version>>
history == <<calls, mishaps, calm, fresh>>
packageVars == <<phase, host, settings, disk, local, file, unpacked, foundKind, cmd, cmdFile, exit,
                 history>>

-----------------------------------------------------------------------------
(* PlatformDetect *)

CpuArchitectureEnv(h) ==
    IF "amd64" \in {h.arch, h.w6432} THEN "x86_64"
    ELSE IF h.arch = "x86" /\ h.w6432 = Nothing THEN "x86" ELSE Nothing

OsArchitectureGetconf(h) ==
    CASE h.longBit = 32 -> "x86" [] h.longBit = 64 -> "x86_64" [] OTHER -> Nothing

CpuArchitectureLscpu(h) ==
    IF h.machine \in {"i386", "i486", "i586", "i686"} THEN "x86" ELSE h.machine

\* Both components or none.
EtcLsbRelease(h) == IF Nothing \in {h.distribution, h.release} THEN Nothing ELSE h.distribution

Detect(h) ==
    CASE h.system = "Windows" ->
            [arch |-> CpuArchitectureEnv(h), id |-> "windows", format |-> "zip"]
      [] h.system = "Linux" ->
            LET conf == OsArchitectureGetconf(h)
            IN  [arch |-> IF conf = Nothing THEN CpuArchitectureLscpu(h) ELSE conf,
                 id |-> EtcLsbRelease(h), format |-> "tar.gz"]

\* An unknown system, or lscpu without an architecture when getconf knows none.
DetectRaises(h) ==
    \/ h.system \notin {"Windows", "Linux"}
    \/ h.system = "Linux" /\ OsArchitectureGetconf(h) = Nothing /\ h.machine = Nothing

(* cli_args.parse: the host, or two or three arguments. *)
Parse(argv) ==
    CASE Len(argv) = 0 -> <<Detect(host).id, Detect(host).arch>>
      [] Len(argv) = 2 -> IF argv[1] = "windows" THEN argv ELSE Nothing
      [] Len(argv) = 3 -> argv
      [] OTHER -> Nothing

-----------------------------------------------------------------------------
(* porcelain.describe: the walk goes from the head back, each commit with  *)
(* its annotated tag or none.  What follows is the hash of the head.       *)
Describe(t) ==
    LET tagged == {i \in DOMAIN t.walk : t.walk[i] # Nothing}
        first == Min(tagged)
    IN  [tag |-> IF tagged = {} THEN Nothing ELSE t.walk[first],
         since |-> IF tagged = {} THEN 0 ELSE first - 1, dirty |-> t.dirty]

\* A mistake: any tag of the history names the version.
VcsIdAnyTag(t) == [name |-> Describe(t).tag, dirty |-> t.dirty]

(* vcs_id.get: "GIT" and the tag without its "v" on the commit of a tag,   *)
(* the hash elsewhere, the whole description if the tag is no version.     *)
VcsId(t) ==
    LET d == Describe(t)
    IN  IF ~t.readable THEN [name |-> "unknown", dirty |-> FALSE]
        ELSE [name |-> CASE d.tag = Nothing -> "hash"
                         [] d.tag = "v1.2" /\ d.since = 0 -> d.tag
                         [] d.tag = "v1.2" /\ d.since > 0 -> "hash"
                         [] OTHER -> "description",
              dirty |-> d.dirty]

-----------------------------------------------------------------------------
(* An archive: the version its folder is named after, the one its tool     *)
(* reports, the members, and how many of them arrived.                     *)
Archives ==
    UNION {[kind : Kinds, root : Versions, reports : Versions,
            members : {layout}, whole : 0 .. Len(layout)] : layout \in Layouts}

Sound(a) ==
    /\ a.root = version /\ a.reports = version
    /\ a.whole = Len(a.members) /\ \A i \in DOMAIN a.members : a.members[i] \in Members

IsZip == file.kind = "light" \/ Detect(host).format = "zip"

PackageInit ==
    /\ phase = "idle"
    /\ host \in Hosts
    /\ target = Nothing /\ tree \in Trees /\ id = Nothing /\ version \in Versions
    /\ disk = [kv \in Kinds \X Versions |-> Absent]
    /\ local \in [Kinds -> BOOLEAN]
    /\ file = Nothing /\ unpacked = 0 /\ foundKind = Nothing /\ cmd = Nothing /\ cmdFile = Nothing
    /\ exit = Nothing
    /\ calls = 0 /\ mishaps = 0 /\ calm = TRUE /\ fresh = FALSE

Folder == disk[<<foundKind, version>>]

Mishap == mishaps < MaxMishaps /\ mishaps' = mishaps + 1 /\ calm' = FALSE
NoMishap == UNCHANGED <<mishaps, calm>>

ExitWith(how) == phase' = "idle" /\ exit' = how
Goto(where) == phase' = where /\ exit' = Nothing

(* The script is started on a working copy that may have been edited, and  *)
(* with JONCHKI_VERSION_OVERWRITE perhaps for another version.             *)
StartScript ==
    /\ phase = "idle" /\ calls < MaxCalls
    /\ calls' = calls + 1 /\ calm' = TRUE /\ fresh' = FALSE
    /\ cmd' = Nothing /\ file' = Nothing /\ unpacked' = 0
    /\ \E argv \in Argvs, v \in Versions, t \in Trees :
         /\ version' = v /\ tree' = t
         /\ IF DetectRaises(host) \/ Parse(argv) = Nothing
            THEN id' = Nothing /\ target' = Nothing /\ foundKind' = Nothing /\ ExitWith(Raised)
            ELSE id' = VcsId(t) /\ target' = Parse(argv) /\ foundKind' = "full" /\ Goto("mbs")
    /\ UNCHANGED <<host, disk, local, cmdFile, mishaps>>

\* check_call raises when the build fails.
Build ==
    /\ phase = "mbs"
    /\ \/ Goto("check") /\ NoMishap
       \/ Mishap /\ ExitWith(Raised)
    /\ UNCHANGED <<host, settings, disk, local, file, unpacked, foundKind, cmd, cmdFile, calls, fresh>>

-----------------------------------------------------------------------------
(* __check_jonchki_version: a tool that lacks a part of its folder may or  *)
(* may not get as far as telling its version.                              *)
PossibleAnswers == {b \in BOOLEAN : Members \subseteq Folder.has => b}

Tools == {"tool", "torn", "cut"}

\* The interpreter for the light version is not there.
NoInterpreter == foundKind = "light" /\ ~host.lua /\ Folder.has \cap Tools # {}

(* The full version is a program of its own.  A tar gives the tool its     *)
(* mode after its contents, so a tool that was not finished cannot be      *)
(* executed; one that was written over an older tool has the mode of that  *)
(* tool and part of the contents: it may start or not.                     *)
IsProgram == foundKind = "full" /\ Detect(host).format = "tar.gz"
NotStarted == NoInterpreter \/ (IsProgram /\ "torn" \in Folder.has)
PerhapsNotStarted == NotStarted \/ (IsProgram /\ "cut" \in Folder.has)

\* A mistake: any answer will do.
ToolAnswers(answer) == "tool" \in Folder.has /\ answer

ToolMatches(answer) == "tool" \in Folder.has /\ answer /\ Folder.reports = version

FolderRemoved == [disk EXCEPT ![<<foundKind, version>>] = Absent]

Takes == cmd' = <<foundKind, version>> /\ cmdFile' = <<foundKind, version>> /\ UNCHANGED disk
Drops == cmd' = Nothing /\ disk' = FolderRemoved /\ UNCHANGED cmdFile

\* Before the installation: the full version, then the light one.
Check ==
    /\ phase = "check" /\ ~NotStarted
    /\ \E answer \in PossibleAnswers :
         IF ToolMatches(answer) THEN Takes /\ Goto("run") /\ UNCHANGED foundKind
         ELSE /\ Drops
              /\ IF foundKind = "full" THEN foundKind' = "light" /\ Goto("check")
                 ELSE foundKind' = Nothing /\ Goto("search")
    /\ UNCHANGED <<host, settings, local, file, unpacked, history>>

\* After it: the kind that was extracted; no command if it is no use.
Validate ==
    /\ phase = "validate" /\ ~NotStarted
    /\ \E answer \in PossibleAnswers :
         IF ToolMatches(answer) THEN Takes /\ UNCHANGED foundKind
         ELSE Drops /\ foundKind' = Nothing
    /\ Goto("run")
    /\ UNCHANGED <<host, settings, local, file, unpacked, history>>

\* A tool that does not start is an OSError, which is not caught: the folder stays.
CheckRaises ==
    /\ phase \in {"check", "validate"} /\ PerhapsNotStarted
    /\ ExitWith(Raised)
    /\ UNCHANGED <<host, settings, disk, local, file, unpacked, foundKind, cmd, cmdFile, history>>

-----------------------------------------------------------------------------
\* A mistake: the light version is looked for where the full one would be.
UseAsFull(a) ==
    /\ file' = a /\ foundKind' = "full" /\ unpacked' = 0
    /\ IF Sound(a) THEN NoMishap ELSE Mishap

Use(a) ==
    /\ file' = a /\ foundKind' = a.kind /\ unpacked' = 0
    /\ IF Sound(a) THEN NoMishap ELSE Mishap

\* The local archives: the full version first.  Their names may lie.
FindLocal ==
    /\ phase = "search" /\ \E kind \in Kinds : local[kind]
    /\ LET kind == IF local["full"] THEN "full" ELSE "light"
       IN  \E a \in Archives : a.kind = kind /\ a.whole = Len(a.members) /\ Use(a)
    /\ Goto("extract")
    /\ UNCHANGED <<host, settings, disk, local, cmd, cmdFile, calls, fresh>>

Offered(kind) == kind = "light" \/ <<Detect(host).id, Detect(host).arch>> \in Released

(* download_to_file: an HTTP error is a download that failed; the end of   *)
(* the connection is the end of the file; a host that is not found, a      *)
(* connection that is refused or reset ends the script.                    *)
DownloadToFile(kind) ==
    \E a \in Archives : a.kind = kind /\ a.root = version /\ a.reports = version /\ Use(a)

DownloadFull ==
    /\ phase = "search" /\ \A kind \in Kinds : ~local[kind]
    /\ \/ Offered("full") /\ DownloadToFile("full") /\ Goto("extract")
       \/ /\ IF Offered("full") THEN Mishap ELSE NoMishap
          /\ Goto("light") /\ UNCHANGED <<file, foundKind, unpacked>>
       \/ Mishap /\ ExitWith(Raised) /\ UNCHANGED <<file, foundKind, unpacked>>
    /\ UNCHANGED <<host, settings, disk, local, cmd, cmdFile, calls, fresh>>

DownloadLight ==
    /\ phase = "light"
    /\ \/ DownloadToFile("light") /\ Goto("extract")
       \/ Mishap /\ ExitWith(Raised) /\ UNCHANGED <<file, foundKind, unpacked>>
    /\ UNCHANGED <<host, settings, disk, local, cmd, cmdFile, calls, fresh>>

-----------------------------------------------------------------------------
Extracted(member) ==
    [disk EXCEPT ![<<file.kind, file.root>>] =
        [has |-> ((@.has \ {Nothing}) \ IF member \in Tools THEN Tools ELSE {}) \cup {member},
         reports |-> IF member = "tool" THEN file.reports ELSE @.reports]]

(* A member that was begun and not finished: its file has been opened for  *)
(* writing, which keeps the mode of one that was there.                    *)
Begun(member) ==
    IF member = "tool"
    THEN Extracted(IF disk[<<file.kind, file.root>>].has \cap {"tool", "cut"} = {} THEN "torn" ELSE "cut")
    ELSE [disk EXCEPT ![<<file.kind, file.root>>].has = @ \ {Nothing, member}]

LastMember == Len(file.members)

\* A zip has its list of contents at the end, so it is read whole or not at all.
Cut == IF IsZip THEN unpacked = 0 /\ file.whole < LastMember
       ELSE unpacked = file.whole /\ unpacked < LastMember

\* A zip is looked through for names outside of the folder before, a tar on the way.
NameRefused ==
    IF IsZip THEN \E i \in DOMAIN file.members : file.members[i] = "outside"
    ELSE file.members[unpacked + 1] = "outside"

ExtractMember ==
    /\ phase = "extract" /\ unpacked < LastMember /\ ~Cut /\ ~NameRefused
    /\ disk' = Extracted(file.members[unpacked + 1])
    /\ unpacked' = unpacked + 1
    /\ Goto("extract")
    /\ UNCHANGED <<host, settings, local, file, foundKind, cmd, cmdFile, history>>

\* The member the tar breaks off in is begun.
ExtractRaises ==
    /\ phase = "extract" /\ unpacked < LastMember /\ (Cut \/ NameRefused)
    /\ \/ UNCHANGED disk
       \/ Cut /\ ~IsZip /\ ~NameRefused /\ disk' = Begun(file.members[unpacked + 1])
    /\ ExitWith(Raised)
    /\ UNCHANGED <<host, settings, local, file, unpacked, foundKind, cmd, cmdFile, history>>

ExtractDone ==
    /\ phase = "extract" /\ unpacked = LastMember
    /\ Goto("validate") /\ fresh' = TRUE
    /\ UNCHANGED <<host, settings, disk, local, file, unpacked, foundKind, cmd, cmdFile, calls, mishaps, calm>>

(* The command is one element of the argument list: only the full version  *)
(* is a program of that name, the light one is "lua5.1 tool" and no        *)
(* installation is None, and both raise.                                   *)
RunJonchki ==
    /\ phase = "run"
    /\ ExitWith(IF cmd # Nothing /\ cmd[1] = "full" THEN "ran" ELSE Raised)
    /\ UNCHANGED <<host, settings, disk, local, file, unpacked, foundKind, cmd, cmdFile, history>>

\* The script is killed, perhaps in the middle of a member.
Crash ==
    /\ phase # "idle" /\ Mishap /\ ExitWith("killed")
    /\ \/ UNCHANGED disk
       \/ /\ phase = "extract" /\ unpacked < LastMember /\ ~Cut /\ ~NameRefused
          /\ disk' = Begun(file.members[unpacked + 1])
    /\ UNCHANGED <<host, settings, local, file, unpacked, foundKind, cmd, cmdFile, calls, fresh>>

NoMoreRuns == phase = "idle" /\ calls = MaxCalls /\ UNCHANGED packageVars

PackageNext ==
    \/ StartScript \/ Build \/ Check \/ Validate \/ CheckRaises
    \/ FindLocal \/ DownloadFull \/ DownloadLight
    \/ ExtractMember \/ ExtractRaises \/ ExtractDone
    \/ RunJonchki \/ Crash \/ NoMoreRuns

PackageSpec == PackageInit /\ [][PackageNext]_packageVars

-----------------------------------------------------------------------------
(* The values of the variables. *)
InstalledParts == Members \cup Tools

PackageTypeOK ==
    /\ phase \in {"idle", "mbs", "check", "search", "light", "extract", "validate", "run"}
    /\ tree \in Trees /\ version \in Versions
    /\ disk \in [Kinds \X Versions ->
                    [has : SUBSET (InstalledParts \cup {Nothing}), reports : Versions \cup {Nothing}]]
    /\ local \in [Kinds -> BOOLEAN]
    /\ file \in Archives \cup {Nothing} /\ unpacked \in Nat
    /\ foundKind \in Kinds \cup {Nothing}
    /\ cmd \in (Kinds \X Versions) \cup {Nothing}
    /\ cmdFile \in (Kinds \X Versions) \cup {Nothing}
    /\ exit \in {Nothing, Raised, "ran", "killed"}
    /\ calls \in Nat /\ mishaps \in Nat /\ calm \in BOOLEAN /\ fresh \in BOOLEAN

-----------------------------------------------------------------------------
(* Properties.                                                             *)

(* The command install() hands out belongs to a tool that is there and is  *)
(* of the version asked for, and the command file says the same, whatever  *)
(* earlier runs, of this version or of others, have left in the folders.   *)
CommandUsable ==
    phase = "run" /\ cmd # Nothing =>
        /\ cmd[2] = version /\ disk[cmd].reports = version /\ "tool" \in disk[cmd].has
        /\ cmdFile = cmd

(* An installation that this very run has unpacked has all of its parts:   *)
(* no leftover of a run that was killed, and no archive that broke off,    *)
(* is taken for one.                                                       *)
UnpackedIsWhole == phase = "run" /\ fresh /\ cmd # Nothing => Members \subseteq disk[cmd].has

\* The tool that is handed out can be used, and what was unpacked for it is whole.
InstalledIsUsable == CommandUsable /\ UnpackedIsWhole

\* What no later run gets past: the full tool, begun by a tar and not finished.
HalfTool == Detect(host).format = "tar.gz" /\ disk[<<"full", version>>].has \cap {"torn", "cut"} # {}

(* A run without a fault gets a command, whatever the runs before it met   *)
(* and left behind, with one exception: the full tool of this version that *)
(* a tar did not finish cannot be executed, and its folder is not removed. *)
(* Apart from that such a run raises only on a host without an interpreter *)
(* or one the script cannot serve, and for the light version's command.    *)
UndisturbedInstalls ==
    /\ calm /\ phase = "run" => cmd # Nothing
    /\ calm /\ exit = Raised =>
          target = Nothing \/ ~host.lua \/ (cmd # Nothing /\ cmd[1] = "light") \/ HalfTool

(* The version of a package tells the state it was built from: a tag is    *)
(* named only on the very commit of the tag, and changed files show.       *)
VersionTellsTree ==
    id # Nothing /\ tree.readable =>
        /\ id.dirty = tree.dirty
        /\ id.name = "v1.2" => tree.walk[1] = "v1.2"
=============================================================================
