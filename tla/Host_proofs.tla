------------------------------ MODULE Host_proofs ------------------------------
(***************************************************************************)
(* The scripts of the host: the jobs of cli_flash.lua and wfp.lua, the     *)
(* regression test and the packaging script, for every flash, every board, *)
(* every campaign and every archive, wherever they fail or are cut off.    *)
(*                                                                         *)
(* A job tells the truth, whatever the flash holds, however large it, its  *)
(* erase blocks and the buffer are and whatever jobs there are.  Of the    *)
(* flasher on the netX only the contract of a call is used (FlashService). *)
(* The inductive invariant says, for each answer the script may wait for,  *)
(* what it has asked for (Asked) and what it knows already (Known), and    *)
(* that an answer OK means what the contract promises (Told).              *)
(*                                                                         *)
(* The invariant of the regression test (TestsInvariant) follows a failure *)
(* on its way from the command to the result, and the files of the log     *)
(* folder; that of the packaging script (PackageInvariant) says what the   *)
(* folders of the installations hold while an archive is unpacked.         *)
(***************************************************************************)
EXTENDS HostFlasher, Regression, BuildArtifact, FiniteSetTheorems, WellFoundedInduction, TLAPS


-----------------------------------------------------------------------------
(* Addresses and the borders of blocks                                     *)

\* An address is so many whole blocks and an offset into the next one.
LEMMA Division ==
    ASSUME NEW n \in Nat \ {0}, NEW a \in Nat
    PROVE  /\ a \div n \in Nat
           /\ a % n \in 0 .. n - 1
           /\ a = n * (a \div n) + (a % n)
    BY SMT

\* Whole blocks are on a border, and only they are.
LEMMA Multiple ==
    ASSUME NEW n \in Nat \ {0}, NEW q \in Nat
    PROVE  (n * q) % n = 0 /\ (n * q) \div n = q /\ n * q \in Nat
    BY SMT

\* The start of the block of an address.
LEMMA BlockStart ==
    ASSUME NEW n \in Nat \ {0}, NEW a \in Nat
    PROVE  /\ a - (a % n) \in Nat
           /\ a - (a % n) <= a
           /\ a < a - (a % n) + n
           /\ (a - (a % n)) % n = 0
    BY Division, Multiple

-----------------------------------------------------------------------------
(* The inductive invariant                                                 *)

RangeEnd(p) == IF p.len = EndOfChip THEN Size ELSE p.offset + p.len

\* The blocks a job may change while it works on this part.
Touched(p) == UNION {Block[a] : a \in (RangeCells(p) \cup {p.offset}) \cap Cells}

EraseLabels == {"end", "checked", "area", "erased", "rechecked"}

\* Which jobs wait for which answers.
Waiting ==
    /\ pc \in EraseLabels => job.mode \in {"Flash", "Erase"}
    /\ pc = "flashed" => job.mode = "Flash"
    /\ pc = "verified" => job.mode = "Verify"
    /\ pc = "read" => job.mode = "Read"
    /\ pc = "hashed" => job.mode \in {"Hash", "VerifyHash"}
    /\ pc = "total" => job.mode \in {"Read", "Hash"} /\ P.len = EndOfChip
    /\ pc = "answered" => job.mode = "IsErased"

\* A part that is worked on in chunks lies in the flash: cli_flash has compared it with
\* the size, and what wfp flashes has been found blank by the flasher, or made so.
\* The end of a range to erase is not taken for the end of the chip.
Fits ==
    /\ pc \in {"flashed", "verified", "read", "hashed", "total"} => RangeEnd(P) <= Size
    /\ pc \in EraseLabels => RangeEnd(P) # EndOfChip

Request(mode, s, e) == req = [mode |-> mode, start |-> s, end |-> e]

\* What the script has asked for.
Asked ==
    /\ pc = "size" => Request("GetEraseArea", 0, EndOfChip) /\ span = <<>>
    /\ pc = "end" => P.len = EndOfChip /\ Request("GetEraseArea", P.offset, EndOfChip)
    /\ pc = "checked" => Request("IsErased", P.offset, RangeEnd(P)) /\ (span = <<>> => P.len # EndOfChip)
    /\ pc = "area" => P.len # EndOfChip /\ Request("GetEraseArea", P.offset, RangeEnd(P))
    /\ pc = "erased" => span # <<>> /\ Request("Erase", span[1], span[2])
    /\ pc = "rechecked" => span # <<>> /\ Request("IsErased", P.offset, RangeEnd(P))
    /\ pc = "total" => Request("GetEraseArea", 0, EndOfChip)
    /\ pc = "hashed" => Request("Checksum", P.offset, RangeEnd(P))
    /\ pc = "answered" => req.mode = "IsErased"
    /\ pc \in {"flashed", "verified", "read"} =>
          /\ req.mode = (CASE pc = "flashed" -> "Flash" [] pc = "verified" -> "Verify" [] OTHER -> "Read")
          /\ req.start \in P.offset .. RangeEnd(P) - 1
          /\ req.end \in req.start + 1 .. RangeEnd(P)
          /\ req.end - req.start <= Size
          /\ pos = req.end - P.offset

\* An area reaches from the block of the offset to the end of the range, in touched blocks.
\* That of a range which does not fit ends behind the flash too, or it is empty.
RightFor(s) ==
    /\ P.offset < Size /\ s[1] \in Block[P.offset] /\ s[2] # EndOfChip
    /\ RangeEnd(P) <= Size =>
          RangeEnd(P) <= s[2] /\ s[2] <= Size /\ s[1] .. s[2] - 1 \subseteq Touched(P)
    /\ Size < RangeEnd(P) => Size < s[2] \/ s[2] <= s[1]

\* The area to erase is the right one.
AreaRight == pc \in EraseLabels /\ span # <<>> => RightFor(span)

\* The bytes of the cells start .. start + n - 1, in order.
Copies(d, image, start, n) ==
    /\ d \in Seq(Byte) /\ Len(d) = n
    /\ \A i \in 1 .. n : d[i] = image[start + i - 1]

\* The first n bytes of the range, put together.
Collected(d, n) == Copies(d, mem, P.offset, n)

\* The bytes before the current chunk are done, those of the chunk are in the buffer.
Known ==
    /\ pc \in {"flashed", "verified"} =>
          /\ \A a \in P.offset .. req.start - 1 : mem[a] = P.file[a - P.offset + 1]
          /\ \A a \in req.start .. req.end - 1 : ram[a - req.start] = P.file[a - P.offset + 1]
    /\ pc \in {"size", "total"} => data = <<>>
    /\ pc = "read" =>
          total = RangeEnd(P) - P.offset /\ Collected(data, req.start - P.offset)

OnBorders ==
    pc = "flashed" =>
        /\ (req.start - P.offset) % Align = 0
        /\ (req.end - P.offset) % Align = 0 \/ req.end = P.offset + P.len

Same == \A a \in Service!Span(req) : mem[a] = ram[a - req.start]

\* What the answer to the question for an area says.
AreaTold ==
    /\ area[1] \in Block[req.start] /\ area[2] # EndOfChip
    /\ Service!End(req) <= Size => area[2] <= Size
    /\ Service!End(req) <= area[2] \/ (Size < Service!End(req) /\ area[2] <= area[1])
    /\ \A a \in Cells : area[1] <= a /\ a < area[2] => a \in Service!Touched(req)

\* What an answer OK has told the script; nothing changes before it goes on.
Told ==
    pc # "idle" /\ ~busy /\ result = "OK" =>
        /\ Service!Accepted(req)
        /\ req.end <= Size =>
              /\ req.mode \in {"Flash", "Read"} => Same
              /\ req.mode = "Verify" /\ message = "OK" => Same
              /\ req.mode = "IsErased" /\ message = "blank" => \A a \in Service!Span(req) : mem[a] = Blank
              /\ req.mode = "Checksum" => digest = [i \in 0 .. (req.end - req.start) - 1 |-> mem[req.start + i]]
        /\ req.mode = "GetEraseArea" => AreaTold

\* A file that no later one of the archive disturbs.
Undisturbed(i) ==
    \A k \in i + 1 .. Len(job.parts) : BlocksOf(job.parts[k]) \cap BlocksOf(job.parts[i]) = {}

Finished(i) == RangeEnd(job.parts[i]) <= Size /\ (Undisturbed(i) => InFlash(job.parts[i]))

\* The files before the current one are in the flash.
Earlier == pc # "idle" /\ job.mode = "Flash" => \A i \in 1 .. part - 1 : Finished(i)

Types ==
    /\ mem \in Service!Image /\ ram \in Service!Image
    /\ req \in Service!Requests /\ busy \in BOOLEAN
    /\ result \in {"none", "OK", "ERROR"}
    /\ job \in Jobs /\ part \in 1 .. Len(job.parts)
    /\ pc \in Labels \cup {"idle"} /\ (busy => pc # "idle")
    /\ area \in Ranges
    /\ pos \in 0 .. Size
    /\ span = <<>> \/ span \in Ranges
    /\ total \in Int /\ data \in Seq(Byte)
    /\ report \in {"none", "empty", "not empty", "same", "different"}
    /\ outcome \in {"none", "ok", "failed", "aborted"}
    /\ jobs \in 0 .. MaxJobs

Work == Waiting /\ Fits /\ Asked /\ AreaRight /\ Known /\ OnBorders /\ Earlier

IInv == Types /\ Told /\ Work /\ JobsTellTheTruth

-----------------------------------------------------------------------------
(* Parts of a job                                                          *)

LEMMA Numbers ==
    /\ Size \in Nat \ {0} /\ EndOfChip \in Nat /\ EndOfChip > Size
    /\ Align \in Nat \ {0} /\ BufferLen \in Nat /\ Align <= BufferLen /\ BufferLen <= Size
    /\ MaxJobs \in Nat
    BY HostAssumption

LEMMA PartTyped ==
    ASSUME NEW j \in Jobs, NEW i \in 1 .. Len(j.parts), NEW p, p = j.parts[i]
    PROVE  /\ p.offset \in Nat /\ p.len \in Nat /\ p.file \in Seq(Byte) /\ Len(p.file) \in Nat
           /\ j.mode \in FileModes => p.len = Len(p.file) /\ p.len # EndOfChip /\ RangeEnd(p) # EndOfChip
           /\ j.mode = "IsErased" => p.len # EndOfChip
           /\ RangeEnd(p) \in Nat
           /\ RangeCells(p) = p.offset .. RangeEnd(p) - 1
           /\ p.len # EndOfChip => RangeEnd(p) = p.offset + p.len /\ FileCells(p) = p.offset .. RangeEnd(p) - 1
           /\ p.len = EndOfChip => RangeEnd(p) = Size
           /\ j.tool \in {"cli", "wfp"} /\ (j.tool = "cli" => Len(j.parts) = 1)
           /\ j.tool = "wfp" => j.mode = "Flash"
           /\ j.mode \in FileModes \cup RangeModes
           /\ Len(j.parts) \in Nat /\ j.parts \in Seq([offset : Nat, len : Nat, file : Seq(Byte)])
<1>1. WellFormed(j)
    BY HostAssumption
<1>2. j.parts \in Seq([offset : Nat, len : Nat, file : Seq(Byte)]) /\ Len(j.parts) \in Nat
    BY <1>1 DEF WellFormed
<1>3. p \in [offset : Nat, len : Nat, file : Seq(Byte)]
    <2> DEFINE Parts == [offset : Nat, len : Nat, file : Seq(Byte)]
    <2>1. j.parts \in Seq(Parts)
        BY <1>2
    <2> HIDE DEF Parts
    <2>2. j.parts[i] \in Parts
        BY <2>1, SMT
    <2> QED
        BY <2>2 DEF Parts
<1>4. p.offset \in Nat /\ p.len \in Nat /\ p.file \in Seq(Byte) /\ Len(p.file) \in Nat
    BY <1>3
<1>5. /\ j.mode \in FileModes => p.len = Len(p.file) /\ p.offset + p.len < EndOfChip
      /\ j.mode = "IsErased" => p.len # EndOfChip
      /\ j.tool \in {"cli", "wfp"} /\ (j.tool = "cli" => Len(j.parts) = 1)
      /\ j.tool = "wfp" => j.mode = "Flash"
      /\ j.mode \in FileModes \cup RangeModes
    BY <1>1 DEF WellFormed
<1>6. /\ RangeEnd(p) \in Nat
      /\ RangeCells(p) = p.offset .. RangeEnd(p) - 1
      /\ p.len # EndOfChip => RangeEnd(p) = p.offset + p.len /\ FileCells(p) = p.offset .. RangeEnd(p) - 1
      /\ p.len = EndOfChip => RangeEnd(p) = Size
    BY <1>4, Numbers DEF RangeEnd, RangeCells, FileCells
<1>7. j.mode \in FileModes => p.len # EndOfChip /\ RangeEnd(p) # EndOfChip
    BY <1>4, <1>5, Numbers DEF RangeEnd
<1> QED
    BY <1>2, <1>4, <1>5, <1>6, <1>7

LEMMA RangeTyped ==
    ASSUME NEW x \in Ranges
    PROVE  x # <<>> /\ x[1] \in Nat /\ x[2] \in Nat
<1>1. PICK a \in Nat, b \in Nat : x = <<a, b>>
    BY HostAssumption
<1>2. Len(<<a, b>>) = 2 /\ Len(<< >>) = 0
    OBVIOUS
<1> QED
    BY <1>1, <1>2

LEMMA RequestTyped ==
    ASSUME NEW r \in Service!Requests
    PROVE  r.start \in Nat /\ r.end \in Nat
<1>1. PICK b \in Ranges : r.start = b[1] /\ r.end = b[2]
    BY DEF Service!Requests
<1> QED
    BY <1>1, RangeTyped

\* An offset inside the flash selects the cell it names.
LEMMA Inside ==
    ASSUME NEW r, r.start \in Nat, Service!End(r) \in Nat, Service!End(r) <= Size
    PROVE  /\ Service!Span(r) = r.start .. Service!End(r) - 1
           /\ Service!Span(r) \subseteq Cells
           /\ \A b \in Service!Span(r) : Service!Cell(b) = b
           /\ Service!Named(r) = Service!Span(r)
<1>1. Service!Span(r) = r.start .. Service!End(r) - 1
    BY DEF Service!Span
<1>2. ASSUME NEW b \in Service!Span(r)
      PROVE  b \in Cells /\ Service!Cell(b) = b
    <2> DEFINE e == Service!End(r)
    <2>1. b \in r.start .. e - 1 /\ r.start \in Nat /\ e \in Nat /\ e <= Size /\ Size \in Nat \ {0}
        BY <1>1, <1>2, Numbers
    <2> HIDE DEF e
    <2>2. b \in Nat /\ b < Size
        BY <2>1
    <2>3. b % Size = b
        BY <2>1, <2>2
    <2> QED
        BY <2>1, <2>2, <2>3 DEF Service!Cell, Cells
<1>3. Service!Named(r) = Service!Span(r)
    BY <1>2 DEF Service!Named
<1> QED
    BY <1>1, <1>2, <1>3

-----------------------------------------------------------------------------
(* Asking and ending                                                       *)

\* While the netX works nothing is reported and nothing is answered.
LEMMA AskKeeps ==
    ASSUME Types', Work', busy' = TRUE
    PROVE  IInv'
<1>1. pc' # "idle"
    BY DEF Types
<1> QED
    BY <1>1 DEF IInv, Told, JobsTellTheTruth, FlashJobWritesFiles, EraseJobErases, VerifyJobIsExact,
       ReadJobReturnsRange, Done

\* A job that has ended waits for nothing.
LEMMA FinishKeeps ==
    ASSUME Types', pc' = "idle", outcome' = "ok" => JobsTellTheTruth'
    PROVE  IInv'
<1>1. outcome' # "ok" => JobsTellTheTruth'
    BY DEF JobsTellTheTruth, FlashJobWritesFiles, EraseJobErases, VerifyJobIsExact, ReadJobReturnsRange, Done
<1>2. Work'
    BY DEF Work, Waiting, Fits, Asked, AreaRight, Known, OnBorders, Earlier, EraseLabels
<1> QED
    BY <1>1, <1>2 DEF IInv, Told

\* What asking changes.
LEMMA AskTyped ==
    ASSUME Types, NEW label \in Labels, NEW mode, NEW s, NEW e, NEW buffer, Ask(label, mode, s, e, buffer)
    PROVE  /\ req' = [mode |-> mode, start |-> s, end |-> e] /\ req' \in Service!Requests
           /\ ram' = buffer /\ ram' \in Service!Image /\ mem' = mem /\ mem' \in Service!Image
           /\ busy' = TRUE /\ pc' = label /\ outcome' = "none" /\ result' = "none"
           /\ area' = area /\ message' = message /\ digest' = digest
           /\ area' \in Ranges
    BY DEF Ask, Service!Call, Types

LEMMA FinishTyped ==
    ASSUME Types, NEW res, Finish(res)
    PROVE  /\ pc' = "idle" /\ outcome' = res /\ UNCHANGED <<mem, ram, req, busy, result, message, digest, area>>
    BY DEF Finish, service

\* A job that fails, whatever it has collected.
LEMMA FailureKeeps ==
    ASSUME Types, ~busy, Finish("failed"), UNCHANGED <<job, part, span, report, jobs>>, pos' \in 0 .. Size,
           total' \in Int, data' \in Seq(Byte)
    PROVE  IInv'
<1>1. Types'
    BY FinishTyped DEF Types
<1> QED
    BY <1>1, FinishTyped, FinishKeeps

-----------------------------------------------------------------------------
(* flashArea and eraseArea                                                 *)

\* A chunk of a file: it moves on, ends on a border or at the end of the file, and
\* is no longer than the buffer.
LEMMA ChunkFacts ==
    ASSUME NEW p, p.len \in Nat, NEW from \in Nat, from < p.len, from % Align = 0
    PROVE  /\ ChunkEnd(p, from) \in from + 1 .. p.len
           /\ ChunkEnd(p, from) - from <= BufferLen
           /\ ChunkEnd(p, from) % Align = 0 \/ ChunkEnd(p, from) = p.len
<1> DEFINE e == from + BufferLen
           down == e - (e % Align)
<1>1. e \in Nat /\ Align \in Nat \ {0} /\ BufferLen \in Nat /\ Align <= BufferLen
    BY Numbers
<1>2. down \in Nat /\ down <= e /\ e < down + Align /\ down % Align = 0
    BY <1>1, BlockStart
<1>3. ChunkEnd(p, from) = IF e < p.len THEN down ELSE p.len
    BY DEF ChunkEnd
<1> HIDE DEF down
<1>4. CASE e < p.len
    <2>1. from < down
        BY <1>1, <1>2
    <2> QED
        BY <1>1, <1>2, <1>3, <1>4, <2>1
<1>5. CASE ~(e < p.len)
    BY <1>1, <1>3, <1>5
<1> QED
    BY <1>4, <1>5

\* What Download puts into the buffer.
LEMMA DownloadFacts ==
    ASSUME NEW p, NEW from \in Nat, NEW to \in Nat, to - from <= Size
    PROVE  \A a \in p.offset + from .. p.offset + to - 1 :
              p.offset \in Nat => Download(p, from, to)[a - (p.offset + from)] = p.file[a - p.offset + 1]
<1> SUFFICES ASSUME p.offset \in Nat, NEW a \in p.offset + from .. p.offset + to - 1
             PROVE  Download(p, from, to)[a - (p.offset + from)] = p.file[a - p.offset + 1]
    OBVIOUS
<1> DEFINE i == a - (p.offset + from)
<1>1. i \in Cells /\ i < to - from /\ from + i + 1 = a - p.offset + 1
    BY Numbers DEF Cells
<1> QED
    BY <1>1 DEF Download

LEMMA FlashChunkKeeps ==
    ASSUME Types, job.mode = "Flash", RangeEnd(P) <= Size, NEW from \in Nat, from < P.len, from % Align = 0,
           \A a \in P.offset .. P.offset + from - 1 : mem[a] = P.file[a - P.offset + 1],
           \A i \in 1 .. part - 1 : Finished(i),
           FlashChunk(P, from), UNCHANGED <<part, span>>, Fixed
    PROVE  IInv'
<1> DEFINE p == P
           to == ChunkEnd(p, from)
<1>1. /\ p.offset \in Nat /\ p.len \in Nat /\ RangeEnd(p) = p.offset + p.len /\ p.len # EndOfChip
      /\ FileCells(p) = p.offset .. RangeEnd(p) - 1
    BY PartTyped DEF Types, P, FileModes
<1>2. to \in from + 1 .. p.len /\ to - from <= BufferLen /\ (to % Align = 0 \/ to = p.len)
    BY <1>1, ChunkFacts
<1> HIDE DEF to
<1>3. /\ req' = [mode |-> "Flash", start |-> p.offset + from, end |-> p.offset + to]
      /\ req' \in Service!Requests /\ ram' = Download(p, from, to) /\ ram' \in Service!Image
      /\ mem' = mem /\ mem' \in Service!Image /\ busy' = TRUE /\ pc' = "flashed" /\ outcome' = "none"
      /\ result' = "none" /\ area' \in Ranges /\ pos' = to
    <2>1. Ask("flashed", "Flash", p.offset + from, p.offset + to, Download(p, from, to)) /\ pos' = to
        BY DEF FlashChunk, to
    <2> HIDE DEF p
    <2> QED
        BY <2>1, AskTyped DEF Labels
<1>4. p' = p /\ job' = job /\ part' = part /\ span' = span
    BY DEF Fixed, P
<1>5. Types'
    <2>1. to \in 0 .. Size
        BY <1>1, <1>2, Numbers
    <2> QED
        BY <1>3, <1>4, <2>1 DEF Types, Labels, Fixed
<1>6. Waiting' /\ Fits' /\ AreaRight'
    BY <1>3, <1>4 DEF Waiting, Fits, AreaRight, EraseLabels, RangeEnd, P
<1>7. /\ req'.start = p.offset + from /\ req'.end = p.offset + to /\ req'.mode = "Flash"
    BY <1>3
<1>8. Asked'
    <2>1. req'.start \in p.offset .. RangeEnd(p) - 1 /\ req'.end \in req'.start + 1 .. RangeEnd(p)
        BY <1>1, <1>2, <1>7
    <2>2. req'.end - req'.start <= Size /\ pos' = req'.end - p.offset
        BY <1>1, <1>2, <1>3, <1>7, Numbers
    <2>3. RangeEnd(P)' = RangeEnd(P)
        BY <1>4 DEF RangeEnd
    <2> QED
        BY <1>3, <1>4, <1>7, <2>1, <2>2, <2>3 DEF Asked
<1>9. Known'
    <2>1. \A a \in p.offset .. req'.start - 1 : mem'[a] = p.file[a - p.offset + 1]
        <3>1. mem' = mem /\ req'.start = p.offset + from /\ p.offset \in Nat
            BY <1>1, <1>3, <1>7
        <3>2. req'.start - 1 = p.offset + from - 1
            BY <3>1
        <3> QED
            BY <3>1, <3>2
    <2>2. \A a \in req'.start .. req'.end - 1 : ram'[a - req'.start] = p.file[a - p.offset + 1]
        <3>1. to \in Nat /\ to - from <= Size
            BY <1>1, <1>2, Numbers
        <3>2. \A a \in p.offset + from .. p.offset + to - 1 :
                 Download(p, from, to)[a - (p.offset + from)] = p.file[a - p.offset + 1]
            <4> HIDE DEF p
            <4> QED
                BY <1>1, <3>1, DownloadFacts
        <3>3. req'.start = p.offset + from /\ req'.end = p.offset + to /\ ram' = Download(p, from, to)
            BY <1>3, <1>7
        <3>4. req'.end - 1 = p.offset + to - 1
            <4>1. req'.end = p.offset + to /\ p.offset \in Nat /\ to \in Nat
                BY <1>1, <3>1, <3>3
            <4> QED
                BY <4>1
        <3> HIDE DEF p
        <3> QED
            BY <3>2, <3>3, <3>4
    <2> QED
        BY <1>3, <1>4, <2>1, <2>2 DEF Known
<1>10. OnBorders'
    <2>1. req'.start - p.offset = from /\ req'.end - p.offset = to
        BY <1>1, <1>2, <1>7
    <2> QED
        BY <1>1, <1>2, <1>4, <1>7, <2>1 DEF OnBorders
<1>11. Earlier'
    BY <1>3, <1>4 DEF Earlier, Finished, Undisturbed, InFlash, RangeEnd
<1> QED
    BY <1>3, <1>5, <1>6, <1>8, <1>9, <1>10, <1>11, AskKeeps DEF Work

\* eraseArea starts to work on a part that lies in the flash.
LEMMA EraseAreaKeeps ==
    ASSUME Types, NEW j \in Jobs, NEW i \in 1 .. Len(j.parts), NEW p, p = j.parts[i],
           j.mode \in {"Flash", "Erase"}, RangeEnd(p) # EndOfChip, EraseArea(p),
           job' = j, part' = i, span' = <<>>, pos' \in 0 .. Size, total' \in Int, data' \in Seq(Byte),
           report' \in {"none", "empty", "not empty", "same", "different"}, jobs' \in 0 .. MaxJobs, Earlier'
    PROVE  IInv'
<1>1. P' = p /\ RangeEnd(P)' = RangeEnd(p)
    BY DEF P, RangeEnd
<1>2. /\ req' \in Service!Requests /\ ram' \in Service!Image /\ mem' \in Service!Image
      /\ busy' = TRUE /\ outcome' = "none" /\ result' = "none" /\ area' \in Ranges
      /\ \/ p.len = EndOfChip /\ pc' = "end" /\ req' = [mode |-> "GetEraseArea", start |-> p.offset, end |-> EndOfChip]
         \/ /\ p.len # EndOfChip /\ pc' = "checked"
            /\ req' = [mode |-> "IsErased", start |-> p.offset, end |-> RangeEnd(p)]
    <2>1. CASE p.len = EndOfChip
        <3>1. Ask("end", "GetEraseArea", p.offset, EndOfChip, ram)
            BY <2>1 DEF EraseArea
        <3> QED
            BY <2>1, <3>1, AskTyped DEF Labels
    <2>2. CASE p.len # EndOfChip
        <3>1. Ask("checked", "IsErased", p.offset, RangeEnd(p), ram)
            BY <2>2 DEF EraseArea, RangeEnd
        <3> QED
            BY <2>2, <3>1, AskTyped DEF Labels
    <2> QED
        BY <2>1, <2>2
<1>3. Types'
    BY <1>2 DEF Types, Labels
<1>4. Waiting' /\ Fits' /\ AreaRight' /\ Known' /\ OnBorders'
    BY <1>1, <1>2 DEF Waiting, Fits, AreaRight, Known, OnBorders, EraseLabels
<1>5. Asked'
    BY <1>1, <1>2 DEF Asked, Request
<1> QED
    BY <1>2, <1>3, <1>4, <1>5, AskKeeps DEF Work

\* A file of an archive is through.
LEMMA NextFileKeeps ==
    ASSUME Types, ~busy, job.mode = "Flash", NextFile, Fixed, InFlash(P), RangeEnd(P) <= Size,
           \A i \in 1 .. part - 1 : Finished(i)
    PROVE  IInv'
<1>2. job \in Jobs /\ part \in 1 .. Len(job.parts) /\ Len(job.parts) \in Nat
    BY PartTyped DEF Types
<1>1. ASSUME NEW i \in 1 .. part
      PROVE  Finished(i)
    <2>1. CASE i = part
        BY <2>1 DEF P, Finished
    <2>2. CASE i # part
        BY <1>1, <1>2, <2>2
    <2> QED
        BY <2>1, <2>2
<1>3. CASE part < Len(job.parts) /\ part' = part + 1 /\ pos' = 0 /\ span' = <<>> /\ EraseArea(job.parts[part + 1])
    <2>1. part + 1 \in 1 .. Len(job.parts)
        BY <1>2, <1>3
    <2>3. mem' = mem
        BY <1>3 DEF EraseArea, Ask, Service!Call
    <2>4. Earlier'
        BY <1>1, <1>2, <1>3, <2>3 DEF Earlier, Finished, Undisturbed, InFlash, Fixed, RangeEnd
    <2>5. 0 \in 0 .. Size
        BY Numbers
    <2>6. RangeEnd(job.parts[part + 1]) # EndOfChip
        BY <1>2, <2>1, PartTyped DEF FileModes
    <2> QED
        BY <1>2, <1>3, <2>1, <2>4, <2>5, <2>6, EraseAreaKeeps DEF Fixed, Types
<1>4. CASE part = Len(job.parts) /\ Finish("ok") /\ UNCHANGED <<part, pos, span>>
    <2>1. pc' = "idle" /\ UNCHANGED <<mem, ram, req, busy, result, message, digest, area>> /\ outcome' = "ok"
        BY <1>4, FinishTyped
    <2>2. Types'
        BY <1>4, <2>1 DEF Types, Fixed
    <2>3. FlashJobWritesFiles'
        BY <1>1, <1>4, <2>1 DEF FlashJobWritesFiles, Finished, Undisturbed, InFlash, Fixed
    <2>4. EraseJobErases' /\ VerifyJobIsExact' /\ ReadJobReturnsRange'
        BY DEF EraseJobErases, VerifyJobIsExact, ReadJobReturnsRange, Done, Fixed
    <2> QED
        BY <2>1, <2>2, <2>3, <2>4, FinishKeeps DEF JobsTellTheTruth
<1> QED
    BY <1>3, <1>4 DEF NextFile

\* eraseArea has found the range blank, or a file is to be written over what is there.
LEMMA AfterEraseKeeps ==
    ASSUME IInv, ~busy, pc # "idle", job.mode \in {"Flash", "Erase"}, AfterErase, Fixed, RangeEnd(P) <= Size,
           job.mode = "Erase" => \A a \in P.offset .. RangeEnd(P) - 1 : mem[a] = Blank
    PROVE  IInv'
<1>1. Types /\ Waiting /\ Earlier
    BY DEF IInv, Work
<1>2. job.mode \in {"Flash", "Erase"} /\ RangeEnd(P) <= Size
    OBVIOUS
<1>3. /\ P.offset \in Nat /\ P.len \in Nat /\ RangeCells(P) = P.offset .. RangeEnd(P) - 1
      /\ job.mode = "Flash" => FileCells(P) = P.offset .. RangeEnd(P) - 1 /\ RangeEnd(P) = P.offset + P.len
    BY <1>1, PartTyped DEF Types, P, FileModes
<1>4. job.mode = "Flash" => \A i \in 1 .. part - 1 : Finished(i)
    BY <1>1 DEF Earlier
<1>5. CASE job.mode = "Flash" /\ P.len > 0 /\ FlashChunk(P, 0) /\ UNCHANGED <<part, span>>
    <2>1. 0 % Align = 0
        BY Numbers
    <2>2. \A a \in P.offset .. P.offset + 0 - 1 : mem[a] = P.file[a - P.offset + 1]
        BY <1>3
    <2> QED
        BY <1>1, <1>2, <1>3, <1>4, <1>5, <2>1, <2>2, FlashChunkKeeps
<1>6. CASE job.mode = "Flash" /\ P.len = 0 /\ NextFile
    <2>1. InFlash(P)
        BY <1>3, <1>6 DEF InFlash
    <2> QED
        BY <1>1, <1>4, <1>6, <2>1, NextFileKeeps
<1>7. CASE job.mode # "Flash" /\ Finish("ok") /\ UNCHANGED <<part, pos, span>>
    <2>1. pc' = "idle" /\ UNCHANGED <<mem, ram, req, busy, result, message, digest, area>> /\ outcome' = "ok"
        BY <1>1, <1>7, FinishTyped
    <2>2. Types'
        BY <1>1, <1>7, <2>1 DEF Types, Fixed
    <2>3. job' = job /\ P' = P /\ Blank' = Blank
        BY <1>7 DEF Fixed, P, Blank, Service!Blank, OnCard
    <2>4. EraseJobErases'
        <3>1. RangeCells(P)' = P.offset .. RangeEnd(P) - 1
            BY <1>3, <2>3 DEF RangeCells, FileCells
        <3>2. job.mode = "Erase"
            BY <1>2, <1>7
        <3> QED
            BY <2>1, <2>3, <3>1, <3>2 DEF EraseJobErases
    <2>5. FlashJobWritesFiles' /\ VerifyJobIsExact' /\ ReadJobReturnsRange'
        BY <1>2, <1>7, <2>3 DEF FlashJobWritesFiles, VerifyJobIsExact, ReadJobReturnsRange, Done
    <2> QED
        BY <2>1, <2>2, <2>4, <2>5, FinishKeeps DEF JobsTellTheTruth
<1> QED
    BY <1>5, <1>6, <1>7 DEF AfterErase

\* The blocks of a request that is about the range are the blocks of the range.
LEMMA TouchedByRequest ==
    ASSUME Types, req.start = P.offset, Service!End(req) = RangeEnd(P), RangeEnd(P) <= Size, P.offset < Size
    PROVE  Service!Touched(req) = Touched(P)
<1>1. P.offset \in Nat /\ RangeEnd(P) \in Nat /\ RangeCells(P) = P.offset .. RangeEnd(P) - 1
    BY PartTyped DEF Types, P
<1>2. Service!Named(req) = RangeCells(P) /\ RangeCells(P) \subseteq Cells
    BY <1>1, Inside
<1>3. P.offset \in Cells
    BY <1>1, Numbers DEF Cells
<1>4. ((RangeCells(P) \cup {P.offset}) \cap Cells) = RangeCells(P) \cup {P.offset}
    BY <1>2, <1>3
<1> QED
    BY <1>2, <1>4 DEF Service!Touched, Touched

\* What the answer to the question for the area to erase has told.
LEMMA AreaAnswered ==
    ASSUME IInv, pc \in {"end", "area"}, ~busy, result = "OK"
    PROVE  area \in Ranges /\ area # <<>> /\ RightFor(area) /\ (P.len = EndOfChip => area[2] = Size)
<1>1. Types /\ Told /\ Asked /\ Fits
    BY DEF IInv, Work
<1>2. /\ P.offset \in Nat /\ RangeEnd(P) \in Nat
      /\ P.len = EndOfChip => RangeEnd(P) = Size
    BY <1>1, PartTyped DEF Types, P
<1>3. req.mode = "GetEraseArea" /\ req.start = P.offset
    BY <1>1, <1>2 DEF Asked, Request
<1>4. Service!End(req) = RangeEnd(P)
    <2>1. CASE pc = "end"
        BY <1>1, <1>2, <2>1 DEF Asked, Request, Service!End
    <2>2. CASE pc = "area"
        BY <1>1, <2>2 DEF Asked, Request, Service!End, Fits, EraseLabels
    <2> QED
        BY <2>1, <2>2
<1>5. Service!Accepted(req) /\ AreaTold
    BY <1>1, <1>3 DEF Told
<1>6. area \in Ranges /\ area # <<>> /\ area[1] \in Nat /\ area[2] \in Nat
    BY <1>1, RangeTyped DEF Types
<1>7. P.offset < Size
    BY <1>3, <1>5 DEF Service!Accepted
<1>8. /\ area[1] \in Block[P.offset] /\ area[2] # EndOfChip
      /\ RangeEnd(P) <= Size => area[2] <= Size
      /\ RangeEnd(P) <= area[2] \/ (Size < RangeEnd(P) /\ area[2] <= area[1])
      /\ \A a \in Cells : area[1] <= a /\ a < area[2] => a \in Service!Touched(req)
    BY <1>3, <1>4, <1>5 DEF AreaTold
<1>9. ASSUME RangeEnd(P) <= Size
      PROVE  RangeEnd(P) <= area[2] /\ area[2] <= Size /\ area[1] .. area[2] - 1 \subseteq Touched(P)
    <2>1. area[2] <= Size /\ RangeEnd(P) <= area[2]
        BY <1>2, <1>8, <1>9, Numbers
    <2>2. Service!Touched(req) = Touched(P)
        BY <1>1, <1>3, <1>4, <1>7, <1>9, TouchedByRequest
    <2>3. ASSUME NEW a \in area[1] .. area[2] - 1
          PROVE  a \in Touched(P)
        <3>1. a \in Cells /\ area[1] <= a /\ a < area[2]
            BY <1>6, <2>1, Numbers DEF Cells
        <3> QED
            BY <1>8, <2>2, <3>1
    <2> QED
        BY <2>1, <2>3
<1>10. Size < RangeEnd(P) => Size < area[2] \/ area[2] <= area[1]
    BY <1>2, <1>6, <1>8, Numbers
<1>11. P.len = EndOfChip => area[2] = Size
    BY <1>2, <1>6, <1>9, Numbers
<1> QED
    BY <1>6, <1>7, <1>8, <1>9, <1>10, <1>11 DEF RightFor

\* A call of eraseArea after the first one.
LEMMA EraseStepKeeps ==
    ASSUME IInv, pc \in EraseLabels, NEW label \in EraseLabels, NEW mode, NEW s, NEW e,
           Ask(label, mode, s, e, ram), Fixed, UNCHANGED <<part, pos>>,
           span' = <<>> \/ span' \in Ranges, Asked', AreaRight'
    PROVE  IInv'
<1>1. Types /\ Waiting /\ Fits /\ Earlier
    BY DEF IInv, Work
<1>2. /\ req' \in Service!Requests /\ ram' \in Service!Image /\ mem' = mem /\ mem' \in Service!Image
      /\ busy' = TRUE /\ pc' = label /\ outcome' = "none" /\ result' = "none"
      /\ area' \in Ranges
    BY <1>1, AskTyped DEF Labels, EraseLabels
<1>3. job' = job /\ part' = part /\ P' = P
    BY DEF Fixed, P
<1>4. Types'
    BY <1>1, <1>2, <1>3 DEF Types, Fixed, Labels, EraseLabels
<1>5. Waiting' /\ Fits'
    BY <1>1, <1>2, <1>3 DEF Waiting, Fits, EraseLabels, RangeEnd
<1>6. Known' /\ OnBorders'
    BY <1>2 DEF Known, OnBorders, EraseLabels
<1>7. Earlier'
    BY <1>1, <1>2, <1>3 DEF Earlier, Finished, Undisturbed, InFlash, RangeEnd, EraseLabels
<1> QED
    BY <1>2, <1>4, <1>5, <1>6, <1>7, AskKeeps DEF Work

\* What is right for an area stays so as long as the script works on the same part.
LEMMA RightStays ==
    ASSUME Fixed, part' = part
    PROVE  /\ P' = P /\ RangeEnd(P)' = RangeEnd(P) /\ Touched(P)' = Touched(P) /\ Blank' = Blank
           /\ \A s : span' = s /\ RightFor(s) => AreaRight'
<1>1. job' = job /\ P' = P
    BY DEF Fixed, P
<1>2. RangeEnd(P)' = RangeEnd(P) /\ Touched(P)' = Touched(P) /\ Blank' = Blank
    BY <1>1 DEF RangeEnd, Touched, RangeCells, FileCells, Blank, Service!Blank, OnCard
<1>3. ASSUME NEW s, span' = s, RightFor(s)
      PROVE  AreaRight'
    BY <1>1, <1>2, <1>3 DEF AreaRight, RightFor
<1> QED
    BY <1>1, <1>2, <1>3

LEMMA EndKnownKeeps ==
    ASSUME IInv, EndKnown
    PROVE  IInv'
<1>1. pc = "end" /\ ~busy /\ Fixed /\ UNCHANGED <<part, pos>> /\ Types /\ P.len = EndOfChip
    BY DEF EndKnown, Answered, IInv, Work, Asked
<1>2. CASE result = "OK"
    <2>1. span' = area /\ Ask("checked", "IsErased", P.offset, EraseEnd(P, area), ram)
        BY <1>2 DEF EndKnown
    <2>2. area[2] = Size /\ area \in Ranges /\ area # <<>> /\ RightFor(area)
        BY <1>1, <1>2, AreaAnswered
    <2>3. EraseEnd(P, area) = RangeEnd(P)
        BY <1>1, <2>2 DEF EraseEnd, RangeEnd
    <2>4. pc' = "checked" /\ req' = [mode |-> "IsErased", start |-> P.offset, end |-> RangeEnd(P)]
        BY <1>1, <2>1, <2>3, AskTyped DEF Labels
    <2>5. P' = P /\ RangeEnd(P)' = RangeEnd(P) /\ AreaRight'
        BY <1>1, <2>1, <2>2, RightStays
    <2>7. Asked'
        BY <2>1, <2>2, <2>4, <2>5 DEF Asked, Request
    <2> QED
        BY <1>1, <2>1, <2>2, <2>5, <2>7, EraseStepKeeps DEF EraseLabels
<1>3. CASE result # "OK"
    BY <1>1, <1>3, FailureKeeps DEF EndKnown, Fixed, Types
<1> QED
    BY <1>2, <1>3

LEMMA AreaKnownKeeps ==
    ASSUME IInv, AreaKnown
    PROVE  IInv'
<1>1. pc = "area" /\ ~busy /\ Fixed /\ UNCHANGED <<part, pos>> /\ Types
    BY DEF AreaKnown, Answered, IInv
<1>2. CASE result = "OK"
    <2>1. span' = area /\ Ask("erased", "Erase", area[1], area[2], ram)
        BY <1>2 DEF AreaKnown
    <2>2. area \in Ranges /\ area # <<>> /\ RightFor(area)
        BY <1>1, <1>2, AreaAnswered
    <2>4. pc' = "erased" /\ req' = [mode |-> "Erase", start |-> span'[1], end |-> span'[2]]
        BY <1>1, <2>1, AskTyped DEF Labels
    <2>5. AreaRight'
        BY <1>1, <2>1, <2>2, RightStays
    <2>7. Asked'
        BY <2>1, <2>2, <2>4 DEF Asked, Request
    <2> QED
        BY <1>1, <2>1, <2>2, <2>5, <2>7, EraseStepKeeps DEF EraseLabels
<1>3. CASE result # "OK"
    BY <1>1, <1>3, FailureKeeps DEF AreaKnown, Fixed, Types
<1> QED
    BY <1>2, <1>3

\* The range that was asked for is blank when the answer says so.
LEMMA BlankAnswered ==
    ASSUME IInv, pc \in {"checked", "rechecked"}, ~busy, SaidBlank
    PROVE  RangeEnd(P) <= Size /\ \A a \in P.offset .. RangeEnd(P) - 1 : mem[a] = Blank
<1>1. req.mode = "IsErased" /\ req.start = P.offset /\ req.end = RangeEnd(P) /\ RangeEnd(P) # EndOfChip
    BY DEF IInv, Work, Asked, Request, Fits, EraseLabels
<1>2. Service!Accepted(req)
    BY <1>1 DEF IInv, Told, SaidBlank
<1>3. req.end <= Size
    BY <1>1, <1>2 DEF Service!Accepted
<1>4. \A a \in Service!Span(req) : mem[a] = Blank
    BY <1>1, <1>3 DEF IInv, Told, SaidBlank
<1>5. Service!Span(req) = P.offset .. RangeEnd(P) - 1
    BY <1>1 DEF Service!Span, Service!End
<1> QED
    BY <1>1, <1>3, <1>4, <1>5

LEMMA CheckedKeeps ==
    ASSUME IInv, Checked
    PROVE  IInv'
<1>1. pc = "checked" /\ ~busy /\ Fixed /\ Types
    BY DEF Checked, Answered, IInv
<1>2. CASE SaidBlank /\ AfterErase
    <2>1. job.mode \in {"Flash", "Erase"}
        BY <1>1 DEF IInv, Work, Waiting, EraseLabels
    <2> QED
        BY <1>1, <1>2, <2>1, BlankAnswered, AfterEraseKeeps
<1>3. CASE /\ ~SaidBlank /\ span = <<>>
           /\ Ask("area", "GetEraseArea", P.offset, P.offset + P.len, ram)
           /\ UNCHANGED <<part, pos, span>>
    <2>1. P.len # EndOfChip /\ RangeEnd(P) = P.offset + P.len
        BY <1>1, <1>3 DEF IInv, Work, Asked, RangeEnd
    <2>2. pc' = "area" /\ req' = [mode |-> "GetEraseArea", start |-> P.offset, end |-> RangeEnd(P)]
        BY <1>1, <1>3, <2>1, AskTyped DEF Labels
    <2>3. P' = P /\ RangeEnd(P)' = RangeEnd(P) /\ span' = <<>>
        BY <1>1, <1>3 DEF Fixed, P, RangeEnd
    <2>4. Asked' /\ AreaRight'
        BY <2>1, <2>2, <2>3 DEF Asked, Request, AreaRight
    <2> QED
        BY <1>1, <1>3, <2>3, <2>4, EraseStepKeeps DEF EraseLabels
<1>4. CASE /\ ~SaidBlank /\ span # <<>>
           /\ Ask("erased", "Erase", span[1], span[2], ram)
           /\ UNCHANGED <<part, pos, span>>
    <2>1. AreaRight
        BY DEF IInv, Work
    <2>2. pc' = "erased" /\ req' = [mode |-> "Erase", start |-> span[1], end |-> span[2]]
        BY <1>1, <1>4, AskTyped DEF Labels
    <2>3. RightFor(span)
        BY <1>1, <1>4, <2>1 DEF AreaRight, EraseLabels
    <2>4. Asked' /\ AreaRight'
        BY <1>1, <1>4, <2>2, <2>3, RightStays DEF Asked, Request
    <2> QED
        BY <1>1, <1>4, <2>4, EraseStepKeeps DEF EraseLabels, Types
<1> QED
    BY <1>2, <1>3, <1>4 DEF Checked

LEMMA ErasedKeeps ==
    ASSUME IInv, Erased
    PROVE  IInv'
<1>1. pc = "erased" /\ ~busy /\ Fixed /\ UNCHANGED <<part, pos, span>> /\ Types
    BY DEF Erased, Answered, IInv
<1>2. CASE result = "OK"
    <2>1. AreaRight /\ span # <<>>
        BY <1>1 DEF IInv, Work, Asked
    <2>0. RightFor(span) /\ span[2] \in Nat
        BY <1>1, <2>1, RangeTyped DEF AreaRight, EraseLabels, Types
    <2>2. EraseEnd(P, span) = RangeEnd(P)
        <3>1. P.len = EndOfChip => RangeEnd(P) = Size
            BY DEF RangeEnd
        <3>2. P.len = EndOfChip => span[2] = Size
            BY <2>0, <3>1, Numbers DEF RightFor
        <3> QED
            BY <3>1, <3>2 DEF EraseEnd, RangeEnd
    <2>3. Ask("rechecked", "IsErased", P.offset, RangeEnd(P), ram)
        BY <1>2, <2>2 DEF Erased
    <2>4. pc' = "rechecked" /\ req' = [mode |-> "IsErased", start |-> P.offset, end |-> RangeEnd(P)]
        BY <1>1, <2>3, AskTyped DEF Labels
    <2>5. P' = P /\ RangeEnd(P)' = RangeEnd(P) /\ span' = span /\ AreaRight'
        BY <1>1, <2>0, RightStays
    <2>6. Asked'
        BY <2>1, <2>4, <2>5 DEF Asked, Request
    <2> QED
        BY <1>1, <2>3, <2>5, <2>6, EraseStepKeeps DEF EraseLabels, Types
<1>3. CASE result # "OK"
    BY <1>1, <1>3, FailureKeeps DEF Erased, Fixed, Types
<1> QED
    BY <1>2, <1>3

LEMMA RecheckedKeeps ==
    ASSUME IInv, Rechecked
    PROVE  IInv'
<1>1. pc = "rechecked" /\ ~busy /\ Fixed /\ Types
    BY DEF Rechecked, Answered, IInv
<1>2. CASE SaidBlank
    <2>1. job.mode \in {"Flash", "Erase"}
        BY <1>1 DEF IInv, Work, Waiting, EraseLabels
    <2> QED
        BY <1>1, <1>2, <2>1, BlankAnswered, AfterEraseKeeps DEF Rechecked
<1>3. CASE ~SaidBlank
    BY <1>1, <1>3, FailureKeeps DEF Rechecked, Fixed, Types
<1> QED
    BY <1>2, <1>3

-----------------------------------------------------------------------------
(* The loops                                                               *)

\* A chunk lies in the flash.
LEMMA ChunkInside ==
    ASSUME Types, Asked, Fits, pc \in {"flashed", "verified", "read"}
    PROVE  req.end <= Size
<1>1. P.offset \in Nat /\ RangeEnd(P) \in Nat /\ RangeEnd(P) <= Size
    BY PartTyped DEF Types, P, Fits
<1>2. req.start \in P.offset .. RangeEnd(P) - 1 /\ req.end \in req.start + 1 .. RangeEnd(P)
    BY DEF Asked
<1> QED
    BY <1>1, <1>2, Numbers

\* When the answer to a chunk says that flash and buffer are the same, the file is in
\* the flash up to the end of the chunk.
LEMMA ChunkAnswered ==
    ASSUME IInv, pc \in {"flashed", "verified"}, Same
    PROVE  /\ \A a \in P.offset .. P.offset + pos - 1 : mem[a] = P.file[a - P.offset + 1]
           /\ pos \in 1 .. P.len /\ P.offset \in Nat /\ P.len \in Nat /\ RangeEnd(P) = P.offset + P.len
           /\ FileCells(P) = P.offset .. P.offset + P.len - 1
<1>1. Types /\ Waiting /\ Asked /\ Known
    BY DEF IInv, Work
<1>2. /\ P.offset \in Nat /\ P.len \in Nat /\ RangeEnd(P) = P.offset + P.len
      /\ FileCells(P) = P.offset .. P.offset + P.len - 1
    <2>1. job.mode \in FileModes
        BY <1>1 DEF Waiting, FileModes
    <2> QED
        BY <1>1, <2>1, PartTyped DEF Types, P, FileCells
<1>3. /\ req.start \in P.offset .. RangeEnd(P) - 1 /\ req.end \in req.start + 1 .. RangeEnd(P)
      /\ pos = req.end - P.offset
    BY <1>1 DEF Asked
<1>4. ASSUME NEW a \in P.offset .. P.offset + pos - 1
      PROVE  mem[a] = P.file[a - P.offset + 1]
    <2>1. CASE a < req.start
        BY <1>1, <1>2, <1>3, <1>4, <2>1 DEF Known
    <2>2. CASE a >= req.start
        <3>1. a \in req.start .. req.end - 1
            BY <1>2, <1>3, <1>4, <2>2
        <3>2. mem[a] = ram[a - req.start]
            BY <1>1, <3>1 DEF Same, Service!Span, Service!End, Asked
        <3>3. ram[a - req.start] = P.file[a - P.offset + 1]
            BY <1>1, <3>1 DEF Known
        <3> QED
            BY <3>2, <3>3
    <2> QED
        BY <1>2, <1>3, <2>1, <2>2
<1> QED
    BY <1>2, <1>3, <1>4

LEMMA FlashedKeeps ==
    ASSUME IInv, Flashed
    PROVE  IInv'
<1>1. pc = "flashed" /\ ~busy /\ Fixed /\ Types /\ Told /\ Waiting /\ Fits /\ Asked /\ OnBorders /\ Earlier
    BY DEF Flashed, Answered, IInv, Work
<1>2. job.mode = "Flash" /\ RangeEnd(P) <= Size
    BY <1>1 DEF Waiting, Fits
<1>3. \A i \in 1 .. part - 1 : Finished(i)
    BY <1>1, <1>2 DEF Earlier
<1>4. CASE result # "OK" /\ Finish("failed") /\ UNCHANGED <<part, pos, span>>
    BY <1>1, <1>4, FailureKeeps DEF Fixed, Types
<1>5. ASSUME result = "OK"
      PROVE  /\ \A a \in P.offset .. P.offset + pos - 1 : mem[a] = P.file[a - P.offset + 1]
             /\ pos \in 1 .. P.len /\ P.offset \in Nat /\ P.len \in Nat /\ RangeEnd(P) = P.offset + P.len
             /\ FileCells(P) = P.offset .. P.offset + P.len - 1
    <2>1. Same
        BY <1>1, <1>2, <1>5, ChunkInside DEF Told, Asked
    <2> QED
        BY <1>1, <2>1, ChunkAnswered
<1>6. CASE result = "OK" /\ pos < P.len /\ FlashChunk(P, pos) /\ UNCHANGED <<part, span>>
    <2>1. pos = req.end - P.offset
        BY <1>1 DEF Asked
    <2>2. (req.end - P.offset) % Align = 0 \/ req.end = P.offset + P.len
        BY <1>1 DEF OnBorders
    <2>3. pos % Align = 0
        <3>1. req.end \in Int
            <4>1. req.start \in P.offset .. RangeEnd(P) - 1 /\ req.end \in req.start + 1 .. RangeEnd(P)
                BY <1>1 DEF Asked
            <4> QED
                BY <1>5, <1>6, <4>1
        <3> QED
            BY <1>5, <1>6, <2>1, <2>2, <3>1
    <2>4. pos \in Nat
        BY <1>5, <1>6
    <2> QED
        BY <1>1, <1>2, <1>3, <1>5, <1>6, <2>3, <2>4, FlashChunkKeeps
<1>7. CASE result = "OK" /\ pos >= P.len /\ NextFile
    <2>1. InFlash(P)
        BY <1>5, <1>7 DEF InFlash
    <2> QED
        BY <1>1, <1>2, <1>3, <1>7, <2>1, NextFileKeeps
<1> QED
    BY <1>4, <1>6, <1>7 DEF Flashed

\* verifyArea has found the file in the flash up to from.
LEMMA VerifyFromKeeps ==
    ASSUME Types, ~busy, job.mode = "Verify", RangeEnd(P) <= Size, NEW from \in Nat, Earlier,
           \A a \in P.offset .. P.offset + from - 1 : mem[a] = P.file[a - P.offset + 1],
           VerifyFrom(from), UNCHANGED <<part, span>>, Fixed
    PROVE  IInv'
<1>1. /\ P.offset \in Nat /\ P.len \in Nat /\ RangeEnd(P) = P.offset + P.len
      /\ FileCells(P) = P.offset .. P.offset + P.len - 1
    BY PartTyped DEF Types, P, FileModes, FileCells
<1>2. P' = P /\ RangeEnd(P)' = RangeEnd(P) /\ job' = job /\ part' = part
    BY DEF Fixed, P, RangeEnd
<1>3. CASE from < P.len
    <2> DEFINE to == Least(from + BufferLen, P.len)
    <2>1. to \in from + 1 .. P.len /\ to - from <= BufferLen
        BY <1>1, <1>3, Numbers DEF Least
    <2>2. Ask("verified", "Verify", P.offset + from, P.offset + to, Download(P, from, to)) /\ pos' = to
        BY <1>3 DEF VerifyFrom
    <2> HIDE DEF to
    <2>3. /\ req' = [mode |-> "Verify", start |-> P.offset + from, end |-> P.offset + to]
          /\ req' \in Service!Requests /\ ram' = Download(P, from, to) /\ ram' \in Service!Image
          /\ mem' = mem /\ mem' \in Service!Image /\ busy' = TRUE /\ pc' = "verified" /\ outcome' = "none"
          /\ result' = "none" /\ area' \in Ranges
        BY <2>2, AskTyped DEF Labels
    <2>4. to \in Nat /\ to - from <= Size /\ pos' \in 0 .. Size
        BY <1>1, <2>1, <2>2, Numbers
    <2>5. Types'
        BY <1>2, <2>3, <2>4 DEF Types, Labels, Fixed
    <2>6. Waiting' /\ Fits' /\ AreaRight' /\ OnBorders' /\ Earlier'
        BY <1>2, <2>3 DEF Waiting, Fits, AreaRight, EraseLabels, OnBorders, Earlier
    <2>7. /\ req'.start = P.offset + from /\ req'.end = P.offset + to /\ req'.mode = "Verify"
        BY <2>3
    <2>8. Asked'
        <3>1. req'.start \in P.offset .. RangeEnd(P) - 1 /\ req'.end \in req'.start + 1 .. RangeEnd(P)
            BY <1>1, <2>1, <2>7
        <3>2. req'.end - req'.start <= Size /\ pos' = req'.end - P.offset
            BY <1>1, <2>1, <2>2, <2>4, <2>7
        <3> QED
            BY <1>2, <2>3, <2>7, <3>1, <3>2 DEF Asked
    <2>9. Known'
        <3>1. \A a \in P.offset .. req'.start - 1 : mem'[a] = P.file[a - P.offset + 1]
            BY <1>1, <2>3, <2>7
        <3>2. \A a \in P.offset + from .. P.offset + to - 1 :
                 Download(P, from, to)[a - (P.offset + from)] = P.file[a - P.offset + 1]
            BY <1>1, <2>4, DownloadFacts
        <3>3. \A a \in req'.start .. req'.end - 1 : ram'[a - req'.start] = P.file[a - P.offset + 1]
            BY <1>1, <2>3, <2>4, <2>7, <3>2
        <3> QED
            BY <1>2, <2>3, <3>1, <3>3 DEF Known
    <2> QED
        BY <2>3, <2>5, <2>6, <2>8, <2>9, AskKeeps DEF Work
<1>4. CASE ~(from < P.len)
    <2>1. Finish("ok") /\ pos' = pos
        BY <1>4 DEF VerifyFrom
    <2>2. pc' = "idle" /\ UNCHANGED <<mem, ram, req, busy, result, message, digest, area>> /\ outcome' = "ok"
        BY <2>1, FinishTyped
    <2>3. Types'
        BY <2>1, <2>2 DEF Types, Fixed
    <2>4. InFlash(P)
        BY <1>1, <1>4 DEF InFlash
    <2>5. VerifyJobIsExact'
        <3>1. InFlash(P)'
            BY <1>2, <2>2, <2>4 DEF InFlash, FileCells
        <3> QED
            BY <1>2, <3>1 DEF VerifyJobIsExact, Done
    <2>6. FlashJobWritesFiles' /\ EraseJobErases' /\ ReadJobReturnsRange'
        BY <1>2 DEF FlashJobWritesFiles, EraseJobErases, ReadJobReturnsRange, Done
    <2> QED
        BY <2>2, <2>3, <2>5, <2>6, FinishKeeps DEF JobsTellTheTruth
<1> QED
    BY <1>3, <1>4

LEMMA VerifiedKeeps ==
    ASSUME IInv, Verified
    PROVE  IInv'
<1>1. /\ pc = "verified" /\ ~busy /\ Fixed /\ UNCHANGED <<part, span>>
      /\ Types /\ Told /\ Waiting /\ Fits /\ Asked /\ Earlier
    BY DEF Verified, Answered, IInv, Work
<1>2. job.mode = "Verify" /\ RangeEnd(P) <= Size
    BY <1>1 DEF Waiting, Fits
<1>3. CASE SaidEqual
    <2>1. Same
        BY <1>1, <1>2, <1>3, ChunkInside DEF Told, Asked, SaidEqual
    <2>2. /\ \A a \in P.offset .. P.offset + pos - 1 : mem[a] = P.file[a - P.offset + 1]
          /\ pos \in Nat
        BY <1>1, <2>1, ChunkAnswered
    <2> QED
        BY <1>1, <1>2, <1>3, <2>2, VerifyFromKeeps DEF Verified
<1>4. CASE ~SaidEqual
    BY <1>1, <1>4, FailureKeeps DEF Verified, Fixed, Types
<1> QED
    BY <1>3, <1>4

\* readArea has collected the bytes of the range up to from.
LEMMA ReadFromKeeps ==
    ASSUME Types, ~busy, job.mode = "Read", RangeEnd(P) <= Size, NEW from \in 0 .. Size, NEW all \in Int,
           all = RangeEnd(P) - P.offset, total' = all, from = 0 \/ from <= all, Earlier,
           Collected(data', from), ReadFrom(from, all), UNCHANGED <<job, part, span, report, jobs>>
    PROVE  IInv'
<1>0. P.offset \in Nat /\ RangeEnd(P) \in Nat /\ RangeCells(P) = P.offset .. RangeEnd(P) - 1
    BY PartTyped DEF Types, P
<1>1. /\ P.offset \in Nat /\ RangeEnd(P) \in Nat /\ RangeCells(P) = P.offset .. RangeEnd(P) - 1
      /\ Size \in Nat /\ from \in Nat
    BY <1>0, Numbers
<1>2. P' = P /\ RangeEnd(P)' = RangeEnd(P) /\ job' = job /\ part' = part
    BY DEF P, RangeEnd
<1>3. CASE from < all
    <2> DEFINE to == from + Least(all - from, BufferLen)
    <2>1. to \in from + 1 .. all /\ to - from <= BufferLen
        BY <1>1, <1>3, Numbers DEF Least
    <2>2. Ask("read", "Read", P.offset + from, P.offset + to, ram) /\ pos' = to
        BY <1>3 DEF ReadFrom
    <2> HIDE DEF to
    <2>3. /\ req' = [mode |-> "Read", start |-> P.offset + from, end |-> P.offset + to]
          /\ req' \in Service!Requests /\ ram' \in Service!Image
          /\ mem' = mem /\ mem' \in Service!Image /\ busy' = TRUE /\ pc' = "read" /\ outcome' = "none"
          /\ result' = "none" /\ area' \in Ranges
        BY <2>2, AskTyped DEF Labels
    <2>4. to \in Nat /\ to - from <= Size /\ pos' \in 0 .. Size
        BY <1>1, <2>1, <2>2, Numbers
    <2>5. Types'
        BY <1>2, <2>3, <2>4 DEF Types, Labels, Collected, Copies
    <2>6. Waiting' /\ Fits' /\ AreaRight' /\ OnBorders' /\ Earlier'
        BY <1>2, <2>3 DEF Waiting, Fits, AreaRight, EraseLabels, OnBorders, Earlier
    <2>7. /\ req'.start = P.offset + from /\ req'.end = P.offset + to /\ req'.mode = "Read"
        BY <2>3
    <2>8. Asked'
        <3>1. req'.start \in P.offset .. RangeEnd(P) - 1 /\ req'.end \in req'.start + 1 .. RangeEnd(P)
            BY <1>1, <2>1, <2>7
        <3>2. req'.end - req'.start <= Size /\ pos' = req'.end - P.offset
            BY <1>1, <2>1, <2>2, <2>4, <2>7
        <3> QED
            BY <1>2, <2>3, <2>7, <3>1, <3>2 DEF Asked
    <2>9. Known'
        <3>1. total' = RangeEnd(P) - P.offset /\ req'.start - P.offset = from
            BY <1>1, <2>7
        <3>2. \A i \in 1 .. from : data'[i] = mem'[P.offset + i - 1]
            BY <2>3 DEF Collected, Copies
        <3>3. data' \in Seq(Byte) /\ Len(data') = from
            BY DEF Collected, Copies
        <3>4. Collected(data, req.start - P.offset)'
            BY <1>2, <3>1, <3>2, <3>3 DEF Collected, Copies
        <3> QED
            BY <1>2, <2>3, <3>1, <3>4 DEF Known
    <2> QED
        BY <2>3, <2>5, <2>6, <2>8, <2>9, AskKeeps DEF Work
<1>4. CASE ~(from < all)
    <2>1. (Finish("ok") \/ Finish("failed")) /\ pos' = pos
        BY <1>4 DEF ReadFrom
    <2>2. /\ pc' = "idle" /\ outcome' \in {"ok", "failed"}
          /\ UNCHANGED <<mem, ram, req, busy, result, message, digest, area>>
        BY <2>1, FinishTyped
    <2>3. Types'
        BY <2>1, <2>2 DEF Types, Collected, Copies
    <2>4. ReadJobReturnsRange'
        <3>1. DOMAIN data' = 1 .. from /\ \A i \in 1 .. from : data'[i] = mem[P.offset + i - 1]
            BY DEF Collected, Copies
        <3>2. ASSUME NEW a \in RangeCells(P)
              PROVE  a - P.offset + 1 \in DOMAIN data' /\ data'[a - P.offset + 1] = mem[a]
            <4>1. a - P.offset + 1 \in 1 .. from /\ P.offset + (a - P.offset + 1) - 1 = a
                BY <1>1, <1>4
            <4> QED
                BY <3>1, <4>1
        <3>3. ASSUME NEW i \in DOMAIN data'
              PROVE  P.offset + i - 1 \in RangeCells(P)
            <4>1. i \in 1 .. from /\ from > 0
                BY <1>1, <3>1
            <4>2. from <= all
                BY <1>1, <4>1
            <4> QED
                BY <1>1, <4>1, <4>2
        <3>4. RangeCells(P)' = RangeCells(P) /\ P' = P /\ mem' = mem
            BY <1>2, <2>2 DEF RangeCells, FileCells
        <3> QED
            BY <3>2, <3>3, <3>4 DEF ReadJobReturnsRange
    <2>5. FlashJobWritesFiles' /\ EraseJobErases' /\ VerifyJobIsExact'
        BY <1>2 DEF FlashJobWritesFiles, EraseJobErases, VerifyJobIsExact, Done
    <2> QED
        BY <2>2, <2>3, <2>4, <2>5, FinishKeeps DEF JobsTellTheTruth
<1> QED
    BY <1>3, <1>4

LEMMA Joined ==
    ASSUME NEW S, NEW d \in Seq(S), NEW e \in Seq(S)
    PROVE  d \o e \in Seq(S) /\ Len(d \o e) = Len(d) + Len(e)
    OBVIOUS

\* What a chunk adds to the bytes before it.
LEMMA Appended ==
    ASSUME NEW offset \in Nat, NEW start \in Nat, NEW end \in Nat, offset <= start, start <= end,
           NEW d, NEW got, NEW image, Copies(d, image, offset, start - offset), Copies(got, image, start, end - start)
    PROVE  Copies(d \o got, image, offset, end - offset)
<1>1. d \in Seq(Byte) /\ Len(d) = start - offset /\ got \in Seq(Byte) /\ Len(got) = end - start
    BY DEF Copies
<1>2. /\ \A i \in 1 .. start - offset : d[i] = image[offset + i - 1]
      /\ \A k \in 1 .. end - start : got[k] = image[start + k - 1]
    BY DEF Copies
<1>3. d \o got \in Seq(Byte) /\ Len(d \o got) = end - offset
    <2>1. d \o got \in Seq(Byte) /\ Len(d \o got) = Len(d) + Len(got)
        BY <1>1, Joined
    <2> QED
        BY <1>1, <2>1
<1>4. ASSUME NEW i \in 1 .. end - offset
      PROVE  (d \o got)[i] = image[offset + i - 1]
    <2>1. CASE i <= Len(d)
        <3>1. (d \o got)[i] = d[i] /\ i \in 1 .. start - offset
            BY <1>1, <2>1
        <3> QED
            BY <1>2, <3>1
    <2>2. CASE i > Len(d)
        <3>1. (d \o got)[i] = got[i - Len(d)] /\ i - Len(d) \in 1 .. end - start
            BY <1>1, <2>2
        <3>2. start + (i - Len(d)) - 1 = offset + i - 1
            BY <1>1
        <3> QED
            BY <1>2, <3>1, <3>2
    <2>3. i <= Len(d) \/ i > Len(d)
        BY <1>1
    <2> QED
        BY <2>1, <2>2, <2>3
<1> QED
    BY <1>3, <1>4 DEF Copies

LEMMA ReadDoneKeeps ==
    ASSUME IInv, ReadDone
    PROVE  IInv'
<1>1. /\ pc = "read" /\ ~busy /\ UNCHANGED <<job, part, span, total, report, jobs>>
      /\ Types /\ Told /\ Waiting /\ Fits /\ Asked /\ Known /\ Earlier
    BY DEF ReadDone, Answered, IInv, Work
<1>2. job.mode = "Read" /\ RangeEnd(P) <= Size
    BY <1>1 DEF Waiting, Fits
<1>3. P.offset \in Nat /\ RangeEnd(P) \in Nat
    BY <1>1, PartTyped DEF Types, P
<1>4. CASE result = "OK"
    <2> DEFINE n == req.end - req.start
               got == [i \in 1 .. n |-> ram[i - 1]]
    <2>1. /\ req.mode = "Read" /\ req.start \in P.offset .. RangeEnd(P) - 1
          /\ req.end \in req.start + 1 .. RangeEnd(P) /\ n <= Size /\ pos = req.end - P.offset
        BY <1>1 DEF Asked
    <2>2. data' = data \o got /\ ReadFrom(pos, total)
        BY <1>4 DEF ReadDone
    <2>3. n \in Nat /\ req.start \in Nat /\ req.end \in Nat /\ pos \in Nat
        BY <1>3, <2>1
    <2>4. total = RangeEnd(P) - P.offset /\ Collected(data, req.start - P.offset)
        BY <1>1 DEF Known
    <2>5. got \in Seq(Byte) /\ Len(got) = n
        <3> HIDE DEF n
        <3>1. \A i \in 1 .. n : ram[i - 1] \in Byte
            <4>1. ram \in [0 .. Size - 1 -> Byte]
                BY <1>1 DEF Types, Service!Image, Service!Cells, Service!Byte, Byte
            <4>2. \A i \in 1 .. n : i - 1 \in 0 .. Size - 1
                BY <2>1, <2>3, Numbers DEF n
            <4> QED
                BY <4>1, <4>2
        <3> QED
            BY <2>3, <3>1
    <2>6. Collected(data', pos)
        <3>1. Same
            BY <1>1, <1>4, <2>1, ChunkInside DEF Told
        <3>2. \A k \in 1 .. n : got[k] = mem[req.start + k - 1]
            <4> TAKE k \in 1 .. n
            <4>1. req.start + k - 1 \in Service!Span(req) /\ (req.start + k - 1) - req.start = k - 1
                BY <2>1, <2>3 DEF Service!Span, Service!End
            <4> QED
                BY <3>1, <4>1 DEF Same
        <3> HIDE DEF got
        <3>3. Copies(data, mem, P.offset, req.start - P.offset)
            BY <2>4 DEF Collected
        <3>4. P.offset <= req.start /\ req.start <= req.end
            BY <1>3, <2>1, <2>3
        <3>5. Copies(got, mem, req.start, req.end - req.start)
            BY <2>5, <3>2 DEF Copies
        <3>6. Copies(data \o got, mem, P.offset, req.end - P.offset)
            <4> HIDE DEF n
            <4> QED
                BY <1>3, <2>3, <3>3, <3>4, <3>5, Appended
        <3> QED
            BY <2>1, <2>2, <3>6 DEF Collected
    <2>8. pos \in 0 .. Size /\ total \in Int /\ pos <= total
        <3>1. pos \in 0 .. Size /\ total \in Int
            BY <1>1 DEF Types
        <3> QED
            BY <1>3, <2>1, <2>3, <2>4, <3>1
    <2> QED
        BY <1>1, <1>2, <2>2, <2>4, <2>6, <2>8, ReadFromKeeps
<1>5. CASE result # "OK"
    BY <1>1, <1>5, FailureKeeps DEF ReadDone, Types
<1> QED
    BY <1>4, <1>5

-----------------------------------------------------------------------------
(* hashArea and exec                                                       *)

\* hashArea asks for the checksum of the range.
LEMMA HashKeeps ==
    ASSUME Types, job.mode \in {"Hash", "VerifyHash"}, RangeEnd(P) <= Size, NEW all \in Int,
           all = RangeEnd(P) - P.offset, Earlier,
           Hash(all), UNCHANGED <<job, part, span, data, report, jobs>>, total' \in Int
    PROVE  IInv'
<1>1. P.offset \in Nat /\ RangeEnd(P) \in Nat
    BY PartTyped DEF Types, P
<1>2. P' = P /\ RangeEnd(P)' = RangeEnd(P) /\ job' = job /\ part' = part /\ pos' = pos
    BY DEF P, RangeEnd, Hash
<1>3. Ask("hashed", "Checksum", P.offset, RangeEnd(P), ram)
    <2>1. P.offset + all = RangeEnd(P)
        BY <1>1
    <2> QED
        BY <2>1 DEF Hash
<1>4. /\ req' = [mode |-> "Checksum", start |-> P.offset, end |-> RangeEnd(P)]
      /\ req' \in Service!Requests /\ ram' \in Service!Image
      /\ mem' = mem /\ mem' \in Service!Image /\ busy' = TRUE /\ pc' = "hashed" /\ outcome' = "none"
      /\ result' = "none" /\ area' \in Ranges
    BY <1>3, AskTyped DEF Labels
<1>5. Types'
    BY <1>2, <1>4 DEF Types, Labels
<1>6. Waiting' /\ Fits' /\ AreaRight' /\ Known' /\ OnBorders' /\ Earlier'
    BY <1>2, <1>4 DEF Waiting, Fits, AreaRight, EraseLabels, Known, OnBorders, Earlier
<1>7. Asked'
    BY <1>2, <1>4 DEF Asked, Request
<1> QED
    BY <1>4, <1>5, <1>6, <1>7, AskKeeps DEF Work

LEMMA HashedKeeps ==
    ASSUME IInv, Hashed
    PROVE  IInv'
<1>1. /\ pc = "hashed" /\ ~busy /\ UNCHANGED <<job, part, pos, span, total, jobs>>
      /\ Types /\ Told /\ Waiting /\ Asked /\ Fits
    BY DEF Hashed, Answered, IInv, Work
<1>2. job.mode \in {"Hash", "VerifyHash"}
    BY <1>1 DEF Waiting
<1>3. /\ P.offset \in Nat /\ RangeEnd(P) \in Nat /\ P.len \in Nat /\ P.file \in Seq(Byte)
      /\ RangeCells(P) = P.offset .. RangeEnd(P) - 1
      /\ job.mode = "VerifyHash" =>
            /\ P.len = Len(P.file) /\ RangeEnd(P) = P.offset + P.len
            /\ FileCells(P) = P.offset .. P.offset + P.len - 1
    BY <1>1, PartTyped DEF Types, P, FileModes, FileCells
<1>4. CASE result = "OK"
    <2> DEFINE n == RangeEnd(P) - P.offset
    <2>1. req.mode = "Checksum" /\ req.start = P.offset /\ req.end = RangeEnd(P)
        BY <1>1 DEF Asked, Request
    <2>0. RangeEnd(P) <= Size
        BY <1>1 DEF Fits
    <2>2. Service!Accepted(req) /\ digest = [i \in 0 .. n - 1 |-> mem[P.offset + i]]
        BY <1>1, <1>4, <2>0, <2>1 DEF Told
    <2>3. n \in Nat /\ RangeEnd(P) <= Size
        BY <1>3, <2>0, <2>1, <2>2 DEF Service!Accepted
    <2>4. /\ data' = [i \in 1 .. n |-> digest[i - 1]]
          /\ report' = IF job.mode = "VerifyHash"
                       THEN (IF data' = P.file THEN "same" ELSE "different") ELSE report
          /\ Finish("ok")
        BY <1>4, <2>1 DEF Hashed
    <2>5. data' = [i \in 1 .. n |-> mem[P.offset + i - 1]]
        <3>1. ASSUME NEW i \in 1 .. n PROVE digest[i - 1] = mem[P.offset + i - 1]
            <4>1. i - 1 \in 0 .. n - 1 /\ P.offset + (i - 1) = P.offset + i - 1
                BY <1>3, <2>3
            <4> HIDE DEF n
            <4> QED
                BY <2>2, <4>1
        <3> HIDE DEF n
        <3> QED
            BY <2>4, <3>1
    <2>6. data' \in Seq(Byte)
        <3>1. mem \in [0 .. Size - 1 -> Byte]
            BY <1>1 DEF Types, Service!Image, Service!Cells, Service!Byte, Byte
        <3>2. \A i \in 1 .. n : P.offset + i - 1 \in 0 .. Size - 1
            BY <1>3, <2>3, Numbers
        <3>3. \A i \in 1 .. n : mem[P.offset + i - 1] \in Byte
            BY <3>1, <3>2
        <3> HIDE DEF n
        <3> QED
            BY <2>3, <2>5, <3>3
    <2>7. /\ pc' = "idle" /\ outcome' = "ok"
          /\ UNCHANGED <<mem, ram, req, busy, result, message, digest, area>>
        BY <1>1, <2>4, FinishTyped
    <2>8. Types'
        BY <1>1, <2>4, <2>6, <2>7 DEF Types
    <2>9. P' = P /\ job' = job /\ mem' = mem /\ RangeCells(P)' = RangeCells(P) /\ FileCells(P)' = FileCells(P)
        BY <1>1, <2>7 DEF P, RangeCells, FileCells
    <2>10. ReadJobReturnsRange'
        <3>1. DOMAIN data' = 1 .. n
            BY <2>5
        <3>2. ASSUME NEW a \in RangeCells(P)
              PROVE  a - P.offset + 1 \in DOMAIN data' /\ data'[a - P.offset + 1] = mem[a]
            <4>1. a - P.offset + 1 \in 1 .. n /\ P.offset + (a - P.offset + 1) - 1 = a
                BY <1>3
            <4> HIDE DEF n
            <4> QED
                BY <2>5, <4>1
        <3>3. ASSUME NEW i \in DOMAIN data'
              PROVE  P.offset + i - 1 \in RangeCells(P)
            BY <1>3, <3>1
        <3> QED
            BY <2>9, <3>2, <3>3 DEF ReadJobReturnsRange
    <2>11. VerifyJobIsExact'
        <3>1. job.mode = "VerifyHash" => (data' = P.file <=> \A i \in 1 .. n : mem[P.offset + i - 1] = P.file[i])
            <4> SUFFICES ASSUME job.mode = "VerifyHash"
                         PROVE  data' = P.file <=> \A i \in 1 .. n : mem[P.offset + i - 1] = P.file[i]
                OBVIOUS
            <4>1. n = Len(P.file)
                BY <1>3
            <4>2. P.file = [i \in 1 .. n |-> P.file[i]]
                BY <1>3, <4>1
            <4> HIDE DEF n
            <4> QED
                BY <2>5, <4>2
        <3>2. job.mode = "VerifyHash" => (InFlash(P) <=> \A i \in 1 .. n : mem[P.offset + i - 1] = P.file[i])
            <4> SUFFICES ASSUME job.mode = "VerifyHash"
                         PROVE  InFlash(P) <=> \A i \in 1 .. n : mem[P.offset + i - 1] = P.file[i]
                OBVIOUS
            <4>0. FileCells(P) = P.offset .. P.offset + n - 1 /\ P.offset \in Nat
                BY <1>3
            <4>1. \A a \in FileCells(P) : a - P.offset + 1 \in 1 .. n /\ P.offset + (a - P.offset + 1) - 1 = a
                <5> HIDE DEF n
                <5> QED
                    BY <2>3, <4>0
            <4>2. \A i \in 1 .. n : P.offset + i - 1 \in FileCells(P) /\ (P.offset + i - 1) - P.offset + 1 = i
                <5> HIDE DEF n
                <5> QED
                    BY <2>3, <4>0
            <4> HIDE DEF n
            <4>3. InFlash(P) => \A i \in 1 .. n : mem[P.offset + i - 1] = P.file[i]
                BY <4>2 DEF InFlash
            <4>4. (\A i \in 1 .. n : mem[P.offset + i - 1] = P.file[i]) => InFlash(P)
                BY <4>1 DEF InFlash
            <4> QED
                BY <4>3, <4>4
        <3>3. InFlash(P)' <=> InFlash(P)
            BY <2>9 DEF InFlash
        <3> QED
            BY <1>2, <2>4, <2>9, <3>1, <3>2, <3>3 DEF VerifyJobIsExact, Done
    <2>12. FlashJobWritesFiles' /\ EraseJobErases'
        BY <1>2, <2>9 DEF FlashJobWritesFiles, EraseJobErases, Done
    <2> QED
        BY <2>7, <2>8, <2>10, <2>11, <2>12, FinishKeeps DEF JobsTellTheTruth
<1>5. CASE result # "OK"
    BY <1>1, <1>5, FailureKeeps DEF Hashed, Types
<1> QED
    BY <1>4, <1>5

LEMMA TotalKnownKeeps ==
    ASSUME IInv, TotalKnown
    PROVE  IInv'
<1>1. /\ pc = "total" /\ ~busy /\ UNCHANGED <<job, part, span, data, report, jobs>>
      /\ Types /\ Told /\ Waiting /\ Fits /\ Asked /\ Known /\ Earlier
    BY DEF TotalKnown, Answered, IInv, Work
<1>2. job.mode \in {"Read", "Hash"} /\ P.len = EndOfChip /\ RangeEnd(P) = Size /\ data = <<>>
    BY <1>1 DEF Waiting, RangeEnd, Known
<1>3. P.offset \in Nat /\ Size \in Nat
    BY <1>1, PartTyped, Numbers DEF Types, P
<1>4. CASE result = "OK"
    <2>1. area[2] = Size
        <3>1. req.mode = "GetEraseArea" /\ Service!End(req) = Size
            BY <1>1 DEF Asked, Request, Service!End
        <3>2. area[2] <= Size /\ Size <= area[2] /\ area[2] \in Nat
            <4>1. AreaTold
                BY <1>1, <1>4, <3>1 DEF Told
            <4>2. area[2] \in Nat
                BY <1>1, RangeTyped DEF Types
            <4> QED
                BY <1>3, <3>1, <4>1, <4>2 DEF AreaTold
        <3> QED
            BY <1>3, <3>2
    <2>2. total' = Size - P.offset /\ ReadOrHash(Size - P.offset)
        BY <1>4, <2>1 DEF TotalKnown
    <2>3. Size - P.offset \in Int /\ RangeEnd(P) <= Size
        BY <1>2, <1>3
    <2>4. CASE job.mode = "Read"
        <3>1. Collected(data', 0)
            BY <1>1, <1>2 DEF Collected, Copies
        <3>2. ReadFrom(0, Size - P.offset) /\ 0 \in 0 .. Size
            BY <1>3, <2>2, <2>4 DEF ReadOrHash
        <3> QED
            BY <1>1, <1>2, <2>2, <2>3, <2>4, <3>1, <3>2, ReadFromKeeps
    <2>5. CASE job.mode = "Hash"
        <3>1. Hash(Size - P.offset)
            BY <2>2, <2>5 DEF ReadOrHash
        <3> QED
            BY <1>1, <1>2, <2>2, <2>3, <2>5, <3>1, HashKeeps
    <2> QED
        BY <1>2, <2>4, <2>5
<1>5. CASE result # "OK"
    BY <1>1, <1>5, FailureKeeps DEF TotalKnown, Types
<1> QED
    BY <1>4, <1>5

LEMMA AnsweredIsErasedKeeps ==
    ASSUME IInv, AnsweredIsErased
    PROVE  IInv'
<1>1. /\ pc = "answered" /\ ~busy /\ UNCHANGED <<job, part, pos, span, total, data, jobs>>
      /\ Types /\ job.mode = "IsErased" /\ report' \in {"empty", "not empty"} /\ Finish("ok")
    BY DEF AnsweredIsErased, Answered, IInv, Work, Waiting
<1>2. pc' = "idle" /\ UNCHANGED <<mem, ram, req, busy, result, message, digest, area>> /\ outcome' = "ok"
    BY <1>1, FinishTyped
<1>3. Types'
    BY <1>1, <1>2 DEF Types
<1>4. JobsTellTheTruth'
    BY <1>1 DEF JobsTellTheTruth, FlashJobWritesFiles, EraseJobErases, VerifyJobIsExact, ReadJobReturnsRange, Done
<1> QED
    BY <1>2, <1>3, <1>4, FinishKeeps

LEMMA SizeKnownKeeps ==
    ASSUME IInv, SizeKnown
    PROVE  IInv'
<1>1. /\ pc = "size" /\ ~busy /\ UNCHANGED <<job, part, span, data, report, jobs>>
      /\ Types /\ Told /\ Waiting /\ Asked /\ Known /\ Earlier
    BY DEF SizeKnown, Answered, IInv, Work
<1>2. span = <<>> /\ data = <<>>
    BY <1>1 DEF Asked, Known
<1>3. /\ P.offset \in Nat /\ P.len \in Nat /\ RangeEnd(P) \in Nat /\ Size \in Nat
      /\ P.len # EndOfChip => RangeEnd(P) = P.offset + P.len
      /\ P.len = EndOfChip => RangeEnd(P) = Size
      /\ job.mode \in FileModes => P.len # EndOfChip
    BY <1>1, PartTyped, Numbers DEF Types, P
<1>4. CASE result # "OK" \/ TooLong
    <2>1. CASE Finish("failed") /\ UNCHANGED <<pos, total>>
        BY <1>1, <2>1, FailureKeeps DEF Types
    <2>2. CASE result = "OK" /\ ~TooLong
        BY <1>4, <2>2
    <2> QED
        BY <2>1, <2>2 DEF SizeKnown
<1>5. CASE result = "OK" /\ ~TooLong
    <2>1. RangeEnd(P) <= Size
        <3>1. req.mode = "GetEraseArea" /\ Service!End(req) = Size
            BY <1>1 DEF Asked, Request, Service!End
        <3>2. area[2] \in Nat /\ area[2] <= Size
            <4>1. AreaTold
                BY <1>1, <1>5, <3>1 DEF Told
            <4>2. area[2] \in Nat
                BY <1>1, RangeTyped DEF Types
            <4> QED
                BY <1>3, <3>1, <4>1, <4>2 DEF AreaTold
        <3>3. P.len # EndOfChip => P.offset + P.len <= area[2]
            BY <1>3, <1>5, <3>2 DEF TooLong
        <3> QED
            BY <1>3, <3>2, <3>3
    <2>7. CASE WritesOver /\ AfterErase /\ UNCHANGED total
        BY <1>1, <2>1, <2>7, AfterEraseKeeps DEF WritesOver, Fixed
    <2>2. CASE job.mode \in {"Flash", "Erase"} /\ ~WritesOver /\ EraseArea(P) /\ UNCHANGED <<pos, total>>
        <3>1. job \in Jobs /\ part \in 1 .. Len(job.parts) /\ P = job.parts[part]
            BY <1>1 DEF Types, P
        <3>2. mem' = mem
            BY <2>2 DEF EraseArea, Ask, Service!Call
        <3>3. Earlier'
            BY <1>1, <3>2 DEF Earlier, Finished, Undisturbed, InFlash, RangeEnd
        <3>4. RangeEnd(P) # EndOfChip
            BY <1>3, <2>1, Numbers
        <3> QED
            BY <1>1, <1>2, <2>2, <3>1, <3>3, <3>4, EraseAreaKeeps DEF Types
    <2>3. CASE job.mode = "Verify" /\ VerifyFrom(0) /\ UNCHANGED total
        <3>1. \A a \in P.offset .. P.offset + 0 - 1 : mem[a] = P.file[a - P.offset + 1]
            BY <1>3
        <3> QED
            BY <1>1, <2>1, <2>3, <3>1, VerifyFromKeeps DEF Fixed
    <2>4. CASE /\ job.mode = "IsErased"
               /\ Ask("answered", "IsErased", P.offset, P.offset + P.len, ram)
               /\ UNCHANGED <<pos, total>>
        <3>1. /\ req' = [mode |-> "IsErased", start |-> P.offset, end |-> P.offset + P.len]
              /\ req' \in Service!Requests /\ ram' \in Service!Image
              /\ mem' = mem /\ mem' \in Service!Image /\ busy' = TRUE /\ pc' = "answered" /\ outcome' = "none"
              /\ result' = "none" /\ area' \in Ranges
            BY <1>1, <2>4, AskTyped DEF Labels
        <3>2. Types'
            BY <1>1, <2>4, <3>1 DEF Types, Labels
        <3>3. Work'
            BY <1>1, <2>4, <3>1 DEF Work, Waiting, Fits, Asked, AreaRight, EraseLabels, Known, OnBorders, Earlier
        <3> QED
            BY <3>1, <3>2, <3>3, AskKeeps
    <2>5. CASE /\ job.mode \in {"Read", "Hash", "VerifyHash"} /\ P.len = EndOfChip
               /\ Ask("total", "GetEraseArea", 0, EndOfChip, ram) /\ UNCHANGED <<pos, total>>
        <3>1. /\ req' = [mode |-> "GetEraseArea", start |-> 0, end |-> EndOfChip]
              /\ req' \in Service!Requests /\ ram' \in Service!Image
              /\ mem' = mem /\ mem' \in Service!Image /\ busy' = TRUE /\ pc' = "total" /\ outcome' = "none"
              /\ result' = "none" /\ area' \in Ranges
            BY <1>1, <2>5, AskTyped DEF Labels
        <3>2. job.mode \in {"Read", "Hash"}
            BY <1>3, <2>5 DEF FileModes
        <3>3. P' = P /\ RangeEnd(P)' = RangeEnd(P)
            BY <1>1 DEF P, RangeEnd
        <3>4. Types'
            BY <1>1, <2>5, <3>1 DEF Types, Labels
        <3>5. Waiting' /\ Fits' /\ Asked' /\ AreaRight' /\ Known' /\ OnBorders' /\ Earlier'
            BY <1>1, <1>2, <2>1, <2>5, <3>1, <3>2, <3>3
               DEF Waiting, Fits, Asked, Request, AreaRight, EraseLabels, Known, OnBorders, Earlier
        <3> QED
            BY <3>1, <3>4, <3>5, AskKeeps DEF Work
    <2>6. CASE /\ job.mode \in {"Read", "Hash", "VerifyHash"} /\ P.len # EndOfChip
               /\ total' = P.len /\ ReadOrHash(P.len)
        <3>1. P.len \in Int /\ P.len = RangeEnd(P) - P.offset
            BY <1>3, <2>6
        <3>2. CASE job.mode = "Read"
            <4>1. Collected(data', 0)
                BY <1>1, <1>2 DEF Collected, Copies
            <4>2. ReadFrom(0, P.len) /\ 0 \in 0 .. Size
                BY <1>3, <2>6, <3>2 DEF ReadOrHash
            <4> QED
                BY <1>1, <2>1, <2>6, <3>1, <3>2, <4>1, <4>2, ReadFromKeeps
        <3>3. CASE job.mode # "Read"
            <4>1. Hash(P.len)
                BY <2>6, <3>3 DEF ReadOrHash
            <4> QED
                BY <1>1, <2>1, <2>6, <3>1, <3>3, <4>1, HashKeeps
        <3> QED
            BY <3>2, <3>3
    <2> QED
        BY <1>5, <2>2, <2>3, <2>4, <2>5, <2>6, <2>7 DEF SizeKnown
<1> QED
    BY <1>4, <1>5

-----------------------------------------------------------------------------
(* Starting, ending and the netX                                           *)

LEMMA StartKeeps ==
    ASSUME IInv, NEW j \in Jobs, Start(j)
    PROVE  IInv'
<1>1. /\ pc = "idle" /\ jobs' \in 0 .. MaxJobs /\ job' = j /\ part' = 1 /\ pos' = 0 /\ span' = <<>>
      /\ total' = 0 /\ data' = <<>> /\ report' = "none" /\ Types /\ ~busy
    <2>1. Types /\ pc = "idle" /\ jobs < MaxJobs /\ jobs' = jobs + 1
        BY DEF Start, IInv
    <2>2. jobs' \in 0 .. MaxJobs
        <3>1. jobs \in 0 .. MaxJobs
            BY <2>1 DEF Types
        <3> QED
            BY <2>1, <3>1, Numbers
    <2> QED
        BY <2>1, <2>2 DEF Start, Types
<1>2. /\ 1 \in 1 .. Len(j.parts) /\ 0 \in 0 .. Size /\ 0 \in Int /\ <<>> \in Seq(Byte)
      /\ j.tool \in {"cli", "wfp"}
    <2>1. WellFormed(j)
        BY HostAssumption
    <2>2. Len(j.parts) \in Nat /\ Len(j.parts) > 0
        BY <2>1 DEF WellFormed
    <2> QED
        BY <2>1, <2>2, Numbers DEF WellFormed
<1>3. CASE Finish("failed")
    <2>1. pc' = "idle" /\ outcome' = "failed" /\ UNCHANGED <<mem, ram, req, busy, result, message, digest, area>>
        BY <1>1, <1>3, FinishTyped
    <2>2. Types'
        BY <1>1, <1>2, <2>1 DEF Types
    <2> QED
        BY <2>1, <2>2, FinishKeeps
<1>4. CASE j.tool = "cli" /\ Ask("size", "GetEraseArea", 0, EndOfChip, ram)
    <2>1. /\ req' = [mode |-> "GetEraseArea", start |-> 0, end |-> EndOfChip]
          /\ req' \in Service!Requests /\ ram' \in Service!Image
          /\ mem' = mem /\ mem' \in Service!Image /\ busy' = TRUE /\ pc' = "size" /\ outcome' = "none"
          /\ result' = "none" /\ area' \in Ranges
        BY <1>1, <1>4, AskTyped DEF Labels
    <2>2. Types'
        BY <1>1, <1>2, <2>1 DEF Types, Labels
    <2>3. Waiting' /\ Fits' /\ Asked' /\ AreaRight' /\ Known' /\ OnBorders' /\ Earlier'
        BY <1>1, <2>1 DEF Waiting, Fits, Asked, Request, AreaRight, EraseLabels, Known, OnBorders, Earlier
    <2> QED
        BY <2>1, <2>2, <2>3, AskKeeps DEF Work
<1>5. CASE j.tool = "wfp" /\ EraseArea(j.parts[1])
    <2>1. j.mode = "Flash"
        BY <1>2, <1>5, PartTyped
    <2>2. Earlier'
        BY <1>1 DEF Earlier
    <2>3. RangeEnd(j.parts[1]) # EndOfChip
        BY <1>2, <2>1, PartTyped DEF FileModes
    <2> QED
        BY <1>1, <1>2, <1>5, <2>1, <2>2, <2>3, EraseAreaKeeps
<1> QED
    BY <1>3, <1>4, <1>5 DEF Start

LEMMA AbortKeeps ==
    ASSUME IInv, Abort
    PROVE  IInv'
<1>1. Types'
    BY DEF IInv, Types, Abort
<1> QED
    BY <1>1, FinishKeeps DEF Abort

\* Only two answers the script may wait for are to a call that changes the flash.
LEMMA ModeAsked ==
    ASSUME Types, Asked, pc # "idle"
    PROVE  (req.mode = "Flash" => pc = "flashed") /\ (req.mode = "Erase" => pc = "erased")
<1>1. CASE pc \in {"size", "end", "area", "total"}
    <2>1. req.mode = "GetEraseArea"
        BY <1>1 DEF Asked, Request
    <2> QED
        BY <2>1
<1>2. CASE pc \in {"checked", "rechecked", "answered"}
    <2>1. req.mode = "IsErased"
        BY <1>2 DEF Asked, Request
    <2> QED
        BY <2>1
<1>3. CASE pc = "hashed"
    <2>1. req.mode = "Checksum"
        BY <1>3 DEF Asked, Request
    <2> QED
        BY <2>1
<1>4. CASE pc = "erased"
    <2>1. req.mode = "Erase"
        BY <1>4 DEF Asked, Request
    <2> QED
        BY <1>4, <2>1
<1>5. CASE pc \in {"flashed", "verified", "read"}
    BY <1>5 DEF Asked
<1> QED
    BY <1>1, <1>2, <1>3, <1>4, <1>5 DEF Types, Labels

\* A call changes cells in the touched blocks only, and none but a flash and an erase.
LEMMA ChangeConfined ==
    ASSUME IInv, busy, Service!Change, NEW a \in Cells, mem'[a] # mem[a]
    PROVE  pc \in {"flashed", "erased"} /\ a \in Touched(P)
<1>1. Types /\ Waiting /\ Fits /\ Asked /\ AreaRight /\ pc # "idle"
    BY DEF IInv, Work, Types
<1>2. /\ P.offset \in Nat /\ P.len \in Nat /\ RangeEnd(P) \in Nat
      /\ RangeCells(P) = P.offset .. RangeEnd(P) - 1
      /\ P.len # EndOfChip => RangeEnd(P) = P.offset + P.len
      /\ P.len = EndOfChip => RangeEnd(P) = Size
    BY <1>1, PartTyped DEF Types, P
<1>4. Service!Accepted(req) /\ (req.mode = "Flash" \/ req.mode = "Erase")
    <2>1. mem' # mem
        OBVIOUS
    <2> QED
        BY <2>1 DEF Service!Change
<1>5. \A b \in (RangeCells(P) \cup {P.offset}) \cap Cells : Block[b] \subseteq Touched(P)
    BY DEF Touched
<1>8. req.start \in Nat /\ req.end \in Nat /\ Service!End(req) = req.end
    BY <1>1, <1>4, RequestTyped DEF Types, Service!End
<1>6. CASE req.mode = "Flash"
    <2>1. pc = "flashed"
        BY <1>1, <1>6, ModeAsked
    <2>2. a \in Service!Span(req)
        <3>1. Service!Named(req) = Service!Span(req)
            BY <1>1, <1>8, <2>1, ChunkInside, Inside
        <3> QED
            BY <1>4, <1>6, <3>1 DEF Service!Change, Service!Programs, Cells, Service!Cells
    <2>3. a \in RangeCells(P)
        <3>1. req.start \in P.offset .. RangeEnd(P) - 1 /\ req.end \in req.start + 1 .. RangeEnd(P)
            BY <1>1, <2>1 DEF Asked
        <3>2. a \in req.start .. req.end - 1
            BY <1>8, <2>2 DEF Service!Span
        <3> QED
            BY <1>2, <3>1, <3>2
    <2>4. a \in Block[a]
        BY BlockAssumption
    <2> QED
        BY <1>5, <2>1, <2>3, <2>4
<1>7. CASE req.mode = "Erase"
    <2>1. pc = "erased"
        BY <1>1, <1>7, ModeAsked
    <2>2. a \in Service!Touched(req)
        BY <1>4, <1>7 DEF Service!Change, Service!Erases, Cells, Service!Cells
    <2>3. span # <<>> /\ req.start = span[1] /\ req.end = span[2] /\ RightFor(span)
        BY <1>1, <2>1 DEF Asked, Request, AreaRight, EraseLabels
    <2>4. req.end <= Size
        BY <1>4, <1>7, <2>3 DEF Service!Accepted, RightFor
    <2>5. P.offset \in (RangeCells(P) \cup {P.offset}) \cap Cells
        BY <1>2, <2>3, Numbers DEF Cells, RightFor
    <2>6. ASSUME NEW b \in Service!Named(req) \cup {req.start}
          PROVE  b \in Touched(P)
        <3>1. Service!Named(req) = req.start .. req.end - 1
            BY <1>8, <2>4, Inside
        <3>2. req.start \in Touched(P)
            BY <1>5, <2>3, <2>5 DEF RightFor
        <3>3. CASE RangeEnd(P) <= Size
            BY <2>3, <2>6, <3>1, <3>2, <3>3 DEF RightFor
        <3>4. CASE Size < RangeEnd(P)
            <4>1. req.end <= req.start
                BY <1>8, <2>3, <2>4, <3>4, Numbers DEF RightFor
            <4>2. Service!Named(req) = {}
                BY <1>8, <3>1, <4>1
            <4> QED
                BY <2>6, <3>2, <4>2
        <3> QED
            BY <1>2, <3>3, <3>4, Numbers
    <2>7. PICK b \in Touched(P) : a \in Block[b]
        BY <2>2, <2>6 DEF Service!Touched
    <2>8. PICK c \in (RangeCells(P) \cup {P.offset}) \cap Cells : b \in Block[c]
        BY DEF Touched
    <2>9. Block[b] = Block[c]
        BY <2>8, BlockAssumption
    <2> QED
        BY <1>5, <2>1, <2>7, <2>8, <2>9
<1> QED
    BY <1>4, <1>6, <1>7

\* What is known stays true while the netX works.
LEMMA ChangeKeeps ==
    ASSUME IInv, busy, Service!Change, UNCHANGED script, req' = req
    PROVE  Work'
<1>1. Types /\ Waiting /\ Fits /\ Asked /\ AreaRight /\ Known /\ OnBorders /\ Earlier
    BY DEF IInv, Work
<1>2. /\ job' = job /\ pc' = pc /\ part' = part /\ pos' = pos /\ span' = span /\ total' = total
      /\ data' = data /\ P' = P
    BY DEF script, P
<1>3. RangeEnd(P)' = RangeEnd(P) /\ Touched(P)' = Touched(P)
    BY <1>2 DEF RangeEnd, Touched, RangeCells, FileCells
<1>4. Waiting' /\ Fits' /\ Asked' /\ AreaRight' /\ OnBorders'
    BY <1>1, <1>2, <1>3 DEF Waiting, Fits, Asked, Request, AreaRight, RightFor, OnBorders
<1>5. Known'
    <2>1. CASE pc = "flashed"
        <3>1. req.mode = "Flash" /\ ram' = ram /\ req.start \in P.offset .. RangeEnd(P) - 1
            BY <1>1, <2>1 DEF Asked, Service!Change
        <3>2. P.offset \in Nat /\ RangeEnd(P) \in Nat /\ RangeEnd(P) <= Size
            BY <1>1, <2>1, PartTyped DEF Types, P, Fits
        <3>3. \A a \in P.offset .. req.start - 1 : mem'[a] = mem[a]
            <4> TAKE a \in P.offset .. req.start - 1
            <4>1. a \in Cells /\ a \notin req.start .. req.end - 1
                BY <3>1, <3>2, Numbers DEF Cells
            <4>2. req.start \in Nat /\ req.end \in Nat /\ Service!End(req) = req.end /\ req.end <= Size
                BY <1>1, <2>1, <3>1, RequestTyped, ChunkInside DEF Types, Service!End
            <4>3. Service!Named(req) = req.start .. req.end - 1
                BY <4>2, Inside
            <4> QED
                BY <3>1, <4>1, <4>3 DEF Service!Change, Service!Programs, Cells, Service!Cells
        <3>4. \A a \in P.offset .. req.start - 1 : mem'[a] = P.file[a - P.offset + 1]
            BY <1>1, <2>1, <3>3 DEF Known
        <3> QED
            BY <1>1, <1>2, <2>1, <3>1, <3>4 DEF Known
    <2>2. CASE pc \in {"verified", "read"}
        <3>1. mem' = mem /\ (pc = "verified" => ram' = ram)
            BY <1>1, <2>2 DEF Asked, Service!Change
        <3> QED
            BY <1>1, <1>2, <1>3, <2>2, <3>1 DEF Known, Collected
    <2>3. CASE pc \notin {"flashed", "verified", "read"}
        BY <1>1, <1>2, <2>3 DEF Known
    <2> QED
        BY <2>1, <2>2, <2>3
<1>6. Earlier'
    <2> SUFFICES ASSUME pc # "idle", job.mode = "Flash", NEW i \in 1 .. part - 1, Undisturbed(i)
                 PROVE  InFlash(job.parts[i])'
        BY <1>1, <1>2 DEF Earlier, Finished, Undisturbed, RangeEnd
    <2> DEFINE p == job.parts[i]
    <2>1. InFlash(p)
        BY <1>1 DEF Earlier, Finished
    <2>2. /\ job \in Jobs /\ part \in 1 .. Len(job.parts) /\ Len(job.parts) \in Nat
          /\ i \in 1 .. Len(job.parts) /\ part \in i + 1 .. Len(job.parts)
        <3>1. job \in Jobs /\ part \in 1 .. Len(job.parts) /\ Len(job.parts) \in Nat
            BY <1>1, PartTyped DEF Types
        <3> QED
            BY <3>1
    <2>3. FileCells(p) \subseteq Cells
        <3>1. RangeEnd(p) <= Size
            BY <1>1 DEF Earlier, Finished
        <3>2. p.offset \in Nat /\ FileCells(p) = p.offset .. RangeEnd(p) - 1 /\ RangeEnd(p) \in Nat
            BY <2>2, PartTyped DEF FileModes
        <3> HIDE DEF p
        <3> QED
            BY <3>1, <3>2, Numbers DEF Cells
    <2>4. BlocksOf(P) = Touched(P)
        <3>1. RangeCells(P) = FileCells(P)
            BY <1>1, <2>2, PartTyped DEF P, FileModes
        <3> QED
            BY <3>1 DEF BlocksOf, Touched
    <2>5. BlocksOf(P) \cap BlocksOf(p) = {}
        BY <2>2 DEF Undisturbed, P
    <2>6. ASSUME NEW a \in FileCells(p)
          PROVE  mem'[a] = mem[a]
        <3>1. a \in Cells /\ a \in Block[a]
            BY <2>3, BlockAssumption
        <3>2. a \in BlocksOf(p)
            BY <3>1 DEF BlocksOf
        <3>3. a \notin Touched(P)
            BY <2>4, <2>5, <3>2
        <3> QED
            BY <3>1, <3>3, ChangeConfined
    <2>7. (job.parts[i])' = p
        BY <1>2
    <2> QED
        BY <2>1, <2>6, <2>7 DEF InFlash, FileCells
<1> QED
    BY <1>4, <1>5, <1>6 DEF Work

LEMMA NetxWorksKeeps ==
    ASSUME IInv, NetxWorks
    PROVE  IInv'
<1>1. busy /\ busy' /\ Service!Change /\ UNCHANGED script /\ UNCHANGED <<req, result, message, area>> /\ Types
    BY DEF NetxWorks, Service!Work, IInv
<1>2. Types'
    <2>1. mem' \in Service!Image /\ ram' \in Service!Image
        BY <1>1 DEF Types, Service!Change
    <2> QED
        BY <1>1, <2>1 DEF Types, script
<1> QED
    BY <1>1, <1>2, ChangeKeeps, AskKeeps DEF Types

LEMMA NetxReturnsKeeps ==
    ASSUME IInv, NetxReturns
    PROVE  IInv'
<1>1. /\ busy /\ busy' = FALSE /\ Service!Change /\ UNCHANGED script /\ req' = req /\ Types
      /\ result' \in {"OK", "ERROR"} /\ (result' = "OK" => Service!Accepted(req) /\ Service!Promise(req))
    BY DEF NetxReturns, Service!Return, IInv
<1>2. Types'
    <2>1. area' \in Ranges
        BY <1>1 DEF NetxReturns, Types
    <2>2. mem' \in Service!Image /\ ram' \in Service!Image
        BY <1>1 DEF Service!Change, Types
    <2>3. /\ job' = job /\ pc' = pc /\ part' = part /\ pos' = pos /\ span' = span /\ total' = total
          /\ data' = data /\ report' = report /\ outcome' = outcome /\ jobs' = jobs
        BY <1>1 DEF script
    <2> QED
        BY <1>1, <2>1, <2>2, <2>3 DEF Types
<1>3. Work'
    BY <1>1, ChangeKeeps
<1>4. ASSUME result' = "OK"
      PROVE  Told'
    <2>1. req' = req /\ job' = job /\ Service!Accepted(req) /\ Service!Promise(req)
        BY <1>1, <1>4 DEF script
    <2>2. /\ Service!Accepted(req)' = Service!Accepted(req) /\ Service!Span(req)' = Service!Span(req)
          /\ Service!Touched(req)' = Service!Touched(req) /\ Blank' = Blank /\ Service!End(req)' = Service!End(req)
        BY <2>1 DEF Service!Accepted, Service!Span, Service!End, Service!Touched, Service!Named, Service!Cell,
           Blank, Service!Blank, OnCard
    <2>3. req.start \in Nat /\ req.end \in Nat
        BY <1>1, RequestTyped DEF Types
    <2>4. req.end <= Size =>
             /\ Service!Span(req) = req.start .. req.end - 1 /\ Service!Named(req) = Service!Span(req)
             /\ \A b \in Service!Span(req) : Service!Cell(b) = b
        <3>1. req.end <= Size => Service!End(req) = req.end
            BY <2>3, Numbers DEF Service!End
        <3> QED
            BY <2>3, <3>1, Inside
    <2>5. req.end <= Size /\ Service!Matches(req) => Same'
        BY <2>1, <2>2, <2>4 DEF Same, Service!Matches
    <2>6. req.end <= Size /\ req.mode \in {"Flash", "Read"} => Same'
        BY <2>1, <2>5 DEF Service!Promise
    <2>7. req.end <= Size /\ req.mode = "Verify" /\ message' = "OK" => Same'
        BY <2>1, <2>5 DEF Service!Promise
    <2>8. req.end <= Size /\ req.mode = "IsErased" /\ message' = "blank" =>
             \A a \in Service!Span(req) : mem'[a] = Blank
        BY <2>1, <2>4 DEF Service!Promise, Blank
    <2>9. req.end <= Size /\ req.mode = "Checksum" =>
             digest' = [i \in 0 .. (req.end - req.start) - 1 |-> mem'[req.start + i]]
        <3> SUFFICES ASSUME req.end <= Size, req.mode = "Checksum"
                     PROVE  digest' = [i \in 0 .. (req.end - req.start) - 1 |-> mem'[req.start + i]]
            OBVIOUS
        <3>1. digest' = [i \in 0 .. (req.end - req.start) - 1 |-> mem'[Service!Cell(req.start + i)]]
            BY <2>1 DEF Service!Promise
        <3>2. \A i \in 0 .. (req.end - req.start) - 1 : req.start + i \in req.start .. req.end - 1
            BY <2>3
        <3>3. \A i \in 0 .. (req.end - req.start) - 1 : Service!Cell(req.start + i) = req.start + i
            BY <2>4, <3>2
        <3> QED
            BY <3>1, <3>3
    <2>10. req.mode = "GetEraseArea" => AreaTold'
        BY <2>1, <2>2 DEF Service!Promise, Service!Covers, AreaTold, Cells, Service!Cells
    <2> QED
        BY <2>1, <2>2, <2>6, <2>7, <2>8, <2>9, <2>10 DEF Told
<1>6. result' # "OK" => Told'
    BY DEF Told
<1>5. JobsTellTheTruth'
    <2>1. pc' # "idle"
        BY <1>1 DEF Types, script
    <2> QED
        BY <2>1 DEF JobsTellTheTruth, FlashJobWritesFiles, EraseJobErases, VerifyJobIsExact,
           ReadJobReturnsRange, Done
<1> QED
    BY <1>2, <1>3, <1>4, <1>5, <1>6 DEF IInv

LEMMA InitIInv == Init => IInv
<1> SUFFICES ASSUME Init PROVE IInv
    OBVIOUS
<1>1. job \in Jobs
    BY HostAssumption DEF Init
<1>2. WellFormed(job)
    BY <1>1, HostAssumption
<1>3. 1 \in 1 .. Len(job.parts)
    <2>1. Len(job.parts) > 0 /\ Len(job.parts) \in Nat
        BY <1>2 DEF WellFormed
    <2> QED
        BY <2>1
<1>4. req \in Service!Requests
    <2>1. <<0, 0>> \in Ranges /\ "Read" \in Service!Modes
        BY HostAssumption, Numbers DEF Service!Modes
    <2>2. <<0, 0>>[1] = 0 /\ <<0, 0>>[2] = 0 /\ 0 - 0 <= Size
        BY Numbers
    <2>3. [mode |-> "Read", start |-> 0, end |-> 0] \in
             {[mode |-> m, start |-> b[1], end |-> b[2]] : m \in Service!Modes, b \in Ranges}
        BY <2>1, <2>2
    <2> QED
        BY <2>2, <2>3 DEF Init, Service!Requests
<1>5. ram \in Service!Image
    BY DEF Init, Service!Image, Service!Cells, Cells, Service!Byte
<1>6. area \in Ranges /\ pos \in 0 .. Size /\ jobs \in 0 .. MaxJobs
    <2>1. <<0, 0>> \in Ranges
        BY HostAssumption, Numbers
    <2> QED
        BY <2>1, Numbers DEF Init
<1>7. Types
    <2>1. /\ mem \in Service!Image /\ busy = FALSE /\ result = "none" /\ part = 1 /\ span = <<>> /\ total = 0
          /\ data = <<>> /\ report = "none" /\ outcome = "none" /\ pc = "idle"
        BY DEF Init
    <2>2. data \in Seq(Byte) /\ total \in Int
        BY <2>1
    <2> QED
        BY <1>1, <1>3, <1>4, <1>5, <1>6, <2>1, <2>2 DEF Types
<1>8. Told /\ Work
    BY DEF Init, Told, Work, Waiting, Fits, Asked, AreaRight, EraseLabels, Known, OnBorders, Earlier
<1>9. JobsTellTheTruth
    BY DEF Init, JobsTellTheTruth, FlashJobWritesFiles, EraseJobErases, VerifyJobIsExact,
       ReadJobReturnsRange, Done
<1> QED
    BY <1>7, <1>8, <1>9 DEF IInv

LEMMA StutterKeeps ==
    ASSUME IInv, UNCHANGED vars
    PROVE  IInv'
<1>1. /\ mem' = mem /\ ram' = ram /\ req' = req /\ busy' = busy /\ result' = result /\ message' = message
      /\ digest' = digest /\ area' = area /\ job' = job /\ pc' = pc /\ part' = part /\ pos' = pos
      /\ span' = span /\ total' = total /\ data' = data /\ report' = report /\ outcome' = outcome /\ jobs' = jobs
      /\ P' = P
    BY DEF vars, service, script, P
<1>2. /\ RangeEnd(P)' = RangeEnd(P) /\ Touched(P)' = Touched(P) /\ RangeCells(P)' = RangeCells(P)
      /\ InFlash(P)' = InFlash(P) /\ Same' = Same /\ Blank' = Blank /\ Collected(data, req.start - P.offset)' = Collected(data, req.start - P.offset)
    BY <1>1 DEF RangeEnd, Touched, RangeCells, FileCells, InFlash, Same, Service!Span, Service!End, Collected,
       Blank, Service!Blank, OnCard
<1>3. Types'
    BY <1>1 DEF IInv, Types
<1>4. Work'
    BY <1>1, <1>2 DEF IInv, Work, Waiting, Fits, Asked, Request, AreaRight, RightFor, Known, OnBorders, Earlier, Finished, Undisturbed, InFlash
<1>5. Told'
    BY <1>1, <1>2 DEF IInv, Told, AreaTold, Service!Accepted, Service!Span, Service!End, Service!Touched,
       Service!Named, Service!Cell
<1>6. JobsTellTheTruth'
    BY <1>1, <1>2 DEF IInv, JobsTellTheTruth, FlashJobWritesFiles, EraseJobErases, VerifyJobIsExact,
       ReadJobReturnsRange, Done, InFlash
<1> QED
    BY <1>3, <1>4, <1>5, <1>6 DEF IInv

-----------------------------------------------------------------------------
(* The theorems                                                            *)

LEMMA NextKeeps == IInv /\ [Next]_vars => IInv'
<1> SUFFICES ASSUME IInv, [Next]_vars PROVE IInv'
    OBVIOUS
<1>1. ASSUME NEW j \in Jobs, Start(j) PROVE IInv'
    BY <1>1, StartKeeps
<1>2. CASE Areas
    BY <1>2, EndKnownKeeps, CheckedKeeps, AreaKnownKeeps, ErasedKeeps, RecheckedKeeps, FlashedKeeps DEF Areas
<1>3. CASE Answers
    BY <1>3, VerifiedKeeps, ReadDoneKeeps, HashedKeeps, TotalKnownKeeps, AnsweredIsErasedKeeps, SizeKnownKeeps
       DEF Answers
<1>4. CASE NetxWorks
    BY <1>4, NetxWorksKeeps
<1>5. CASE NetxReturns
    BY <1>5, NetxReturnsKeeps
<1>6. CASE Abort
    BY <1>6, AbortKeeps
<1>7. CASE UNCHANGED vars
    BY <1>7, StutterKeeps
<1> QED
    BY <1>1, <1>2, <1>3, <1>4, <1>5, <1>6, <1>7 DEF Next, Script

\* What the script waits for, knows and has been told is right in every state.
THEOREM Invariance == Spec => []IInv
    BY InitIInv, NextKeeps, PTL DEF Spec

\* Every variable of the script and of the flasher keeps its type.
THEOREM TypeCorrect == Spec => []TypeOK
<1>1. IInv => TypeOK
    BY DEF IInv, Types, TypeOK
<1> QED
    BY <1>1, Invariance, PTL

\* What a job reports is true: a file is in the flash, a range is blank, an answer is
\* that for the whole range, whichever call of which job failed or was cut off.
THEOREM JobsAreTruthful == Spec => []JobsTellTheTruth
<1>1. IInv => JobsTellTheTruth
    BY DEF IInv
<1> QED
    BY <1>1, Invariance, PTL

\* The chunks flashArea cuts a file into start and end on borders of the file.
THEOREM ChunksStartOnBorders == Spec => []ChunksOnBorders
<1>1. IInv => ChunksOnBorders
    <2> SUFFICES ASSUME IInv, busy, req.mode = "Flash"
                 PROVE  /\ (req.start - P.offset) % Align = 0
                        /\ (req.end - P.offset) % Align = 0 \/ req.end = P.offset + P.len
        BY DEF ChunksOnBorders
    <2>1. pc = "flashed"
        BY ModeAsked DEF IInv, Work, Types
    <2> QED
        BY <2>1 DEF IInv, Work, OnBorders
<1> QED
    BY <1>1, Invariance, PTL

\* A step of a script changes nothing in the flash, a step of a call only what the job
\* is about.
LEMMA StepConfined ==
    ASSUME IInv, [Next]_vars, NEW a \in Cells, mem'[a] # mem[a]
    PROVE  /\ job.mode \in {"Flash", "Erase"}
           /\ \E b \in RangeCells(P) \cup {P.offset} : b \in Cells /\ a \in Block[b]
<1>1. busy /\ Service!Change
    <2>1. mem' # mem
        OBVIOUS
    <2>2. ASSUME NEW j \in Jobs, Start(j) PROVE mem' = mem
        BY <2>2 DEF Start, Finish, service, Ask, Service!Call, EraseArea
    <2>3. Finish("ok") \/ Finish("failed") => mem' = mem
        BY DEF Finish, service
    <2>4. \A label, mode, s, e, buffer : Ask(label, mode, s, e, buffer) => mem' = mem
        BY DEF Ask, Service!Call
    <2>5. \A p : EraseArea(p) => mem' = mem
        BY <2>4 DEF EraseArea
    <2>6. \A p, from : FlashChunk(p, from) => mem' = mem
        BY <2>4 DEF FlashChunk
    <2>7. (NextFile \/ AfterErase) => mem' = mem
        BY <2>3, <2>5, <2>6 DEF NextFile, AfterErase
    <2>8. \A from : VerifyFrom(from) => mem' = mem
        BY <2>3, <2>4 DEF VerifyFrom
    <2>9. \A from, all : ReadFrom(from, all) => mem' = mem
        BY <2>3, <2>4 DEF ReadFrom
    <2>10. \A all : ReadOrHash(all) => mem' = mem
        BY <2>4, <2>9 DEF ReadOrHash, Hash
    <2>11. Areas => mem' = mem
        BY <2>3, <2>4, <2>6, <2>7 DEF Areas, EndKnown, Checked, AreaKnown, Erased, Rechecked, Flashed
    <2>12. Answers => mem' = mem
        BY <2>3, <2>4, <2>5, <2>7, <2>8, <2>9, <2>10
           DEF Answers, Verified, ReadDone, Hashed, TotalKnown, AnsweredIsErased, SizeKnown
    <2>13. NetxWorks \/ NetxReturns
        BY <2>1, <2>2, <2>11, <2>12 DEF Next, Script, Abort, vars, service
    <2> QED
        BY <2>13 DEF NetxWorks, NetxReturns, Service!Work, Service!Return
<1>2. pc \in {"flashed", "erased"} /\ a \in Touched(P)
    BY <1>1, ChangeConfined
<1>3. job.mode \in {"Flash", "Erase"}
    BY <1>2 DEF IInv, Work, Waiting, EraseLabels
<1> QED
    BY <1>2, <1>3 DEF Touched

\* A job changes nothing outside the erase blocks of its range.
THEOREM OnlyTouchedBlocks == Spec => OtherBlocksKept
<1>1. IInv /\ [Next]_vars =>
        [\A a \in Cells : mem'[a] # mem[a] =>
            /\ job.mode \in {"Flash", "Erase"}
            /\ \E b \in RangeCells(P) \cup {P.offset} : b \in Cells /\ a \in Block[b]]_vars
    BY StepConfined
<1> QED
    BY <1>1, Invariance, PTL DEF Spec, OtherBlocksKept

-----------------------------------------------------------------------------
(* The regression test                                                     *)

\* A run on one memory, from its binary to the packing of its logs.
Busy == {"prepare", "batch", "archive"}

\* What has a verdict, and what there is to work on.
Progress ==
    /\ \A t \in DOMAIN plan : verdict[t] = None <=> t >= test
    /\ stage \in Busy \cup {"assert"} => test \in DOMAIN plan
    /\ stage \in Busy => todo # <<>>
    /\ stage = "done" => test = Len(plan) + 1
    /\ Len(zips) \in Nat /\ DOMAIN zips = 1 .. Len(zips)

\* Where a failure is counted while its run goes on, and once it is packed.
Counted ==
    /\ \A f \in failing :
          /\ f[2] <= run
          /\ f[1] <= test
          /\ stage \notin Busy \cup {"assert"} => f[1] < test
          /\ stage \in {"prepare", "assert"} /\ f[1] = test => results > 0
          /\ stage \in {"batch", "archive"} /\ f[1] = test /\ f[2] # run => results > 0
    /\ stage = "batch" => (<<test, run>> \in failing <=> \E i \in DOMAIN rets : rets[i] # 0)
    /\ stage = "archive" =>
          numErrorsA # <<>> /\ (<<test, run>> \in failing <=> Last(numErrorsA) # 0)

\* The summaries are those of earlier runs, and name those that failed.
Summarised ==
    /\ \A i \in DOMAIN jsons :
          /\ jsons[i].run <= run
          /\ stage \in {"batch", "archive"} => jsons[i].run < run
          /\ jsons[i].result # 0 <=> <<jsons[i].test, jsons[i].run>> \in failing
    /\ stage = "done" => resultJson = Cardinality({i \in DOMAIN jsons : jsons[i].result # 0})

\* A method that had a command that failed does not end well.
Noticed == \A f \in failing : verdict[f[1]] \in {None, "failed", "error"}

\* Foreign files in the log folder are of methods that an exception ended, or could not
\* be removed.  Between two methods there is also the configuration of the last one,
\* which the next replaces.
Stuck(f) == <<f, tmp[f]>> \in left
Foreign(f) == verdict[tmp[f]] = "error" \/ Stuck(f)
LogFolder ==
    /\ \A f \in DOMAIN tmp :
          /\ stage \in Busy => tmp[f] = test \/ Foreign(f)
          /\ stage = "assert" => Stuck(f)
          /\ stage = "setUp" => f = Log("testconfig") \/ Foreign(f)
          /\ stage \in {"setUp", "assert", "done"} \cup Busy
    /\ \A i \in DOMAIN zips : \A f \in DOMAIN zips[i].files :
          zips[i].files[f] \in DOMAIN plan

\* The binary is there while commands use it.
Written == stage = "batch" /\ Class \in Generates => Class \in DOMAIN work

TestsInvariant ==
    TestTypeOK /\ Progress /\ Written /\ Counted /\ Summarised /\ Noticed /\ LogFolder /\ ArchiveIsOwn

LEMMA PlanTyped ==
    ASSUME plan \in Campaigns, NEW t \in DOMAIN plan
    PROVE  /\ plan[t].class \in Classes /\ plan[t].enabled \in BOOLEAN
           /\ plan[t].memories \in Seq(Memories)
           /\ plan[t].otherwise \in {"skipped", "failed"}
<1> DEFINE Tests == [class : Classes, enabled : BOOLEAN, memories : Seq(Memories),
                     otherwise : {"skipped", "failed"}]
<1>1. plan \in Seq(Tests)
  BY CampaignsAssumption
<1> HIDE DEF Tests
<1>2. plan[t] \in Tests
  BY <1>1
<1> QED
  BY <1>2 DEF Tests

LEMMA PlanLength ==
    ASSUME plan \in Campaigns
    PROVE  Len(plan) \in Nat /\ DOMAIN plan = 1 .. Len(plan)
    BY CampaignsAssumption

-----------------------------------------------------------------------------
(* The types                                                               *)

LEMMA TestTypeInit == TestInit => TestTypeOK
<1> SUFFICES ASSUME TestInit PROVE TestTypeOK
  OBVIOUS
<1> USE DEF TestInit
<1>1. plan \in Campaigns /\ 1 \in 1 .. Len(plan) + 1
  BY PlanLength
<1>2. \A m \in Memories : flash[m] \in [1 .. MemorySize[m] -> Int]
  BY DEF Cleared, Junk
<1>3. DOMAIN flash = Memories
  OBVIOUS
<1>4. tmp \in [DOMAIN tmp -> DOMAIN plan] /\ DOMAIN work \subseteq Classes
        /\ work \in [DOMAIN work -> Int]
  OBVIOUS
<1>5. verdict \in [DOMAIN plan -> {None, "skipped", "ok", "failed", "error"}]
  OBVIOUS
<1> QED
  BY <1>1, <1>2, <1>3, <1>4, <1>5 DEF TestTypeOK

LEMMA WroteTyped ==
    ASSUME NEW names, tmp \in [DOMAIN tmp -> DOMAIN plan], test \in DOMAIN plan
    PROVE  /\ Wrote(names) \in [DOMAIN Wrote(names) -> DOMAIN plan]
           /\ DOMAIN Wrote(names) = DOMAIN tmp \cup names
           /\ \A f \in DOMAIN Wrote(names) :
                 Wrote(names)[f] = IF f \in names THEN test ELSE tmp[f]
    BY DEF Wrote

LEMMA FillTyped ==
    ASSUME NEW m \in Memories, NEW cells, NEW c \in Int, TestTypeOK
    PROVE  /\ DOMAIN Fill(m, cells, c) = Memories
           /\ \A n \in Memories : Fill(m, cells, c)[n] \in [1 .. MemorySize[n] -> Int]
           /\ \A a \in 1 .. MemorySize[m] :
                 Fill(m, cells, c)[m][a] = IF a \in cells THEN c ELSE flash[m][a]
    BY DEF Fill, TestTypeOK

LEMMA FailedTyped ==
    ASSUME NEW values \in Seq({0, 1})
    PROVE  Failed(values) \in Nat /\ (Failed(values) # 0 <=> \E i \in DOMAIN values : values[i] # 0)
<1> DEFINE S == {i \in DOMAIN values : values[i] # 0}
<1>1. IsFiniteSet(DOMAIN values)
  BY FS_Interval
<1>2. IsFiniteSet(S)
  BY <1>1, FS_Subset
<1>3. Cardinality(S) \in Nat /\ (Cardinality(S) = 0 <=> S = {})
  BY <1>2, FS_CardinalityType, FS_EmptySet
<1>4. Failed(values) = Cardinality(S)
  BY DEF Failed
<1> HIDE DEF S
<1>5. S = {} <=> ~ \E i \in DOMAIN values : values[i] # 0
  BY DEF S
<1> QED
  BY <1>3, <1>4, <1>5

\* What no step touches that only goes on with the setup.
SetupStep == ListInterfaces \/ DetectNetx \/ ChooseNetx

LEMMA SetupTyped ==
    ASSUME TestTypeOK, SetupStep
    PROVE  TestTypeOK'
<1> USE DEF tests, setup, logs
<1>1. CASE ListInterfaces
  BY <1>1 DEF ListInterfaces, TestTypeOK, Fault
<1>2. CASE DetectNetx
  BY <1>2 DEF DetectNetx, TestTypeOK, Fault
<1>3. CASE ChooseNetx
  <2>1. UNCHANGED <<plan, test, tests, faults>> /\ stage' \in {"setUp", "aborted"}
    BY <1>3 DEF ChooseNetx
  <2>2. todo' \in Seq(Memories)
    BY <1>3 DEF ChooseNetx
  <2> QED
    BY <2>1, <2>2 DEF TestTypeOK
<1> QED
  BY <1>1, <1>2, <1>3 DEF SetupStep

\* A verdict ends a test method.
LEMMA NextTestTyped ==
    ASSUME TestTypeOK, test \in DOMAIN plan, plan' = plan,
           NEW v \in {"skipped", "ok", "failed", "error"}, NextTest(v)
    PROVE  /\ verdict' \in [DOMAIN plan -> {None, "skipped", "ok", "failed", "error"}]
           /\ test' \in 1 .. Len(plan) + 1
           /\ test' = test + 1 /\ test \in 1 .. Len(plan)
           /\ stage' = "setUp"
           /\ \A t \in DOMAIN plan : verdict'[t] = IF t = test THEN v ELSE verdict[t]
<1>1. test \in 1 .. Len(plan) /\ test' = test + 1 /\ stage' = "setUp" /\ Len(plan) \in Nat
  BY PlanLength DEF NextTest, TestTypeOK
<1>2. verdict' \in [DOMAIN plan -> {None, "skipped", "ok", "failed", "error"}]
  BY DEF NextTest, TestTypeOK
<1>3. \A t \in DOMAIN plan : verdict'[t] = IF t = test THEN v ELSE verdict[t]
  BY DEF NextTest, TestTypeOK
<1> QED
  BY <1>1, <1>2, <1>3

LEMMA SetUpTyped ==
    ASSUME TestTypeOK, SetUp
    PROVE  TestTypeOK'
<1>1. test \in DOMAIN plan /\ plan' = plan
  BY PlanLength DEF TestTypeOK, SetUp, setup
<1>2. todo' \in Seq(Memories) /\ plan[test].otherwise \in {"skipped", "failed"}
  BY <1>1, PlanTyped DEF TestTypeOK, SetUp
<1>3. /\ verdict' \in [DOMAIN plan -> {None, "skipped", "ok", "failed", "error"}]
      /\ test' \in 1 .. Len(plan) + 1
      /\ stage' \in {"setUp", "prepare"}
  <2>1. CASE NextTest("skipped")
    BY <1>1, <2>1, NextTestTyped
  <2>2. CASE NextTest(plan[test].otherwise)
    BY <1>1, <1>2, <2>2, NextTestTyped
  <2>3. CASE stage' = "prepare" /\ UNCHANGED <<test, verdict>>
    BY <2>3 DEF TestTypeOK
  <2> QED
    BY <2>1, <2>2, <2>3 DEF SetUp
<1>4. tmp' \in [DOMAIN tmp' -> DOMAIN plan]
  BY <1>1, WroteTyped DEF TestTypeOK, SetUp
<1> QED
  BY <1>1, <1>2, <1>3, <1>4 DEF TestTypeOK, SetUp, setup

LEMMA PreTestStepTyped ==
    ASSUME TestTypeOK, Progress, PreTestStep
    PROVE  TestTypeOK'
<1>1. test \in DOMAIN plan /\ plan' = plan /\ run \in Nat
  BY DEF TestTypeOK, Progress, PreTestStep, setup, Busy
<1>2. tmp' \in [DOMAIN tmp' -> DOMAIN plan]
  BY <1>1, WroteTyped DEF TestTypeOK, PreTestStep
<1>3. Class \in Classes
  BY <1>1, PlanTyped DEF Class, TestTypeOK
<1>4. DOMAIN work' \subseteq Classes /\ work' \in [DOMAIN work' -> Int]
  BY <1>1, <1>3 DEF TestTypeOK, PreTestStep
<1>5. rets' \in Seq({0, 1}) /\ idx' = Len(rets') + 1 /\ run' \in Nat
  BY <1>1 DEF PreTestStep
<1>6. stage' = "batch" /\ todo' \in Seq(Memories)
  BY DEF TestTypeOK, PreTestStep
<1>7. UNCHANGED <<plan, test, failing, flash, left, jsons, numErrorsA, results, verdict, resultJson, faults>>
  BY DEF PreTestStep, setup
<1> QED
  BY <1>1, <1>2, <1>4, <1>5, <1>6, <1>7 DEF TestTypeOK

\* Running a command, when it leaves contents that have the type of the flash.
LEMMA RanTyped ==
    ASSUME TestTypeOK, Progress, stage = "batch", NEW ret \in {0, 1}, NEW contents, Ran(ret, contents),
           DOMAIN contents = Memories, faults' \in Nat,
           \A m \in Memories : contents[m] \in [1 .. MemorySize[m] -> Int]
    PROVE  TestTypeOK'
<1>1. test \in DOMAIN plan /\ plan' = plan /\ run \in Nat
  BY DEF TestTypeOK, Progress, Ran, setup, Busy
<1>2. tmp' \in [DOMAIN tmp' -> DOMAIN plan]
  BY <1>1, WroteTyped DEF TestTypeOK, Ran
<1>3. rets' \in Seq({0, 1}) /\ idx' = Len(rets') + 1
  BY DEF TestTypeOK, Ran
<1>4. failing' \subseteq (DOMAIN plan) \X Nat
  BY <1>1 DEF TestTypeOK, Ran
<1> QED
  BY <1>1, <1>2, <1>3, <1>4 DEF TestTypeOK, Ran, setup

LEMMA MemoryTyped ==
    ASSUME TestTypeOK, Progress, stage \in Busy
    PROVE  Memory \in Memories /\ test \in DOMAIN plan /\ Class \in Classes
    BY PlanTyped DEF TestTypeOK, Progress, Busy, Memory, Class

LEMMA BinaryTyped ==
    ASSUME TestTypeOK, Progress, stage \in Busy, Class \in Generates => Class \in DOMAIN work
    PROVE  /\ Binary \in Int
           /\ TestBinarySize \in 1 .. MemorySize[Memory] /\ FileSize \in 1 .. MemorySize[Memory]
           /\ MemorySize[Memory] \in Nat
<1>1. MemorySize[Memory] \in Nat \ {0} /\ TestSize \in Nat \ {0}
  BY MemoryTyped, MemorySizeAssumption
<1>2. TestBinarySize \in 1 .. MemorySize[Memory]
  BY <1>1 DEF TestBinarySize
<1>3. Binary \in Int
  BY DEF Binary, TestTypeOK, Firmware
<1> QED
  BY <1>1, <1>2, <1>3 DEF FileSize

LEMMA CarriedTyped ==
    ASSUME TestTypeOK, Progress, Written, stage = "batch", NEW command
    PROVE  /\ DOMAIN Carried(command) = Memories
           /\ \A m \in Memories : Carried(command)[m] \in [1 .. MemorySize[m] -> Int]
<1>1. Memory \in Memories /\ Binary \in Int
  BY MemoryTyped, BinaryTyped DEF Written, Busy
<1>2. CASE command = "erase"
  <2>1. Carried(command) = Fill(Memory, 1 .. TestBinarySize, Cleared) /\ Cleared \in Int
    BY <1>2 DEF Carried, Cleared
  <2> QED
    BY <2>1, <1>1, FillTyped
<1>3. CASE command = "flash"
  <2>1. Carried(command) = Fill(Memory, InFile, Binary)
    BY <1>3 DEF Carried
  <2> QED
    BY <2>1, <1>1, FillTyped
<1>4. CASE command = "testcli"
  <2>1. Carried(command) = Fill(Memory, 1 .. MemorySize[Memory], Junk) /\ Junk \in Int
    BY <1>4 DEF Carried, Junk
  <2> QED
    BY <2>1, <1>1, FillTyped
<1>5. CASE command \notin {"erase", "flash", "testcli"}
  <2>1. Carried(command) = flash
    BY <1>5 DEF Carried
  <2> QED
    BY <2>1 DEF TestTypeOK
<1> QED
  BY <1>2, <1>3, <1>4, <1>5

\* What a command that the device does not carry out leaves.
Spoilt == Fill(Memory, 1 .. 1, Junk)

LEMMA SpoiltTyped ==
    ASSUME TestTypeOK, Progress, stage = "batch"
    PROVE  /\ DOMAIN Spoilt = Memories
           /\ \A m \in Memories : Spoilt[m] \in [1 .. MemorySize[m] -> Int]
<1>1. Memory \in Memories /\ Junk \in Int
  BY MemoryTyped DEF Busy, Junk
<1> QED
  BY <1>1, FillTyped DEF Spoilt

LEMMA CommandTyped ==
    ASSUME TestTypeOK, Progress, Written, RunCommand \/ CommandFails
    PROVE  /\ \E ret \in {0, 1}, contents \in {flash, Spoilt, Carried(Batch[idx])} :
                 /\ Ran(ret, contents)
                 /\ DOMAIN contents = Memories
                 /\ \A m \in Memories : contents[m] \in [1 .. MemorySize[m] -> Int]
           /\ stage = "batch" /\ faults' \in Nat
<1>1. /\ stage = "batch" /\ faults' \in Nat
      /\ \E ret \in {0, 1}, contents \in {flash, Spoilt, Carried(Batch[idx])} : Ran(ret, contents)
  BY DEF RunCommand, CommandFails, Fault, Spoilt, TestTypeOK
<1>2. PICK ret \in {0, 1}, contents \in {flash, Spoilt, Carried(Batch[idx])} : Ran(ret, contents)
  BY <1>1
<1>3. /\ DOMAIN contents = Memories
      /\ \A m \in Memories : contents[m] \in [1 .. MemorySize[m] -> Int]
  BY <1>1, CarriedTyped, SpoiltTyped DEF TestTypeOK
<1> QED
  BY <1>1, <1>2, <1>3

LEMMA EvalTyped ==
    ASSUME TestTypeOK, Progress, EvalBatchResult
    PROVE  TestTypeOK'
<1>1. test \in DOMAIN plan /\ plan' = plan
  BY DEF TestTypeOK, Progress, EvalBatchResult, setup, Busy
<1>2. tmp' \in [DOMAIN tmp' -> DOMAIN plan]
  BY <1>1, WroteTyped DEF TestTypeOK, EvalBatchResult
<1>3. numErrorsA' \in Seq(Nat)
  BY FailedTyped DEF TestTypeOK, EvalBatchResult
<1> QED
  BY <1>1, <1>2, <1>3 DEF TestTypeOK, EvalBatchResult, setup

LEMMA ResultTyped ==
    ASSUME TestTypeOK, Counted, stage = "archive"
    PROVE  Result \in Nat /\ Result = Last(numErrorsA)
    BY DEF TestTypeOK, Counted, Result, Last

LEMMA ArchiveTyped ==
    ASSUME TestTypeOK, Progress, Counted, ArchiveLogs
    PROVE  TestTypeOK'
<1>1. test \in DOMAIN plan /\ plan' = plan /\ run \in Nat /\ stage = "archive"
  BY DEF TestTypeOK, Progress, ArchiveLogs, setup, Busy
<1>2. Result \in Nat
  BY <1>1, ResultTyped
<1>3. jsons' \in Seq([test : DOMAIN plan, run : Nat, result : Nat])
  BY <1>1, <1>2 DEF TestTypeOK, ArchiveLogs
<1>4. results' \in Nat
  BY <1>2 DEF TestTypeOK, ArchiveLogs
<1>5. todo' \in Seq(Memories) /\ stage' \in {"prepare", "assert"}
  BY <1>1 DEF TestTypeOK, ArchiveLogs, Progress, Busy
<1>6. tmp' \in [DOMAIN tmp' -> DOMAIN plan] /\ DOMAIN work' \subseteq Classes
        /\ work' \in [DOMAIN work' -> Int] /\ \A l \in left' : l[2] \in DOMAIN plan
  <2>1. PICK stays \in Locked(tmp), kept \in Locked(work) :
           /\ tmp' = FoldersReset(tmp, stays) /\ work' = FoldersReset(work, kept)
           /\ left' = left \cup {<<f, tmp[f]>> : f \in stays}
    BY DEF ArchiveLogs
  <2>2. /\ stays \subseteq DOMAIN tmp /\ kept \subseteq DOMAIN work
    BY DEF Locked
  <2>3. /\ tmp' \in [stays -> DOMAIN plan] /\ DOMAIN tmp' = stays
        /\ work' \in [kept -> Int] /\ DOMAIN work' = kept
    BY <2>1, <2>2 DEF FoldersReset, TestTypeOK
  <2>4. \A l \in left' : l[2] \in DOMAIN plan
    <3>1. \A f \in stays : tmp[f] \in DOMAIN plan
      BY <2>2 DEF TestTypeOK
    <3> QED
      BY <2>1, <3>1 DEF TestTypeOK
  <2>5. DOMAIN work \subseteq Classes /\ DOMAIN work' \subseteq Classes
    BY <2>2, <2>3 DEF TestTypeOK
  <2> QED
    BY <2>3, <2>4, <2>5
<1>7. faults' \in Nat
  <2>1. faults' = faults \/ faults' = faults + 1
    BY DEF ArchiveLogs, Fault
  <2>2. faults \in Nat
    BY DEF TestTypeOK
  <2> QED
    BY <2>1, <2>2
<1>8. UNCHANGED <<plan, test, run, idx, rets, failing, flash, numErrorsA, verdict, resultJson>>
  BY DEF ArchiveLogs, setup
<1>9. run' \in Nat /\ test' \in 1 .. Len(plan') + 1 /\ rets' \in Seq({0, 1}) /\ idx' = Len(rets') + 1
        /\ failing' \subseteq (DOMAIN plan') \X Nat /\ plan' \in Campaigns
  BY <1>1, <1>8 DEF TestTypeOK
<1>10. /\ DOMAIN flash' = Memories
       /\ \A m \in Memories : flash'[m] \in [1 .. MemorySize[m] -> Int]
       /\ numErrorsA' \in Seq(Nat) /\ resultJson' \in Nat \cup {-1}
       /\ verdict' \in [DOMAIN plan' -> {None, "skipped", "ok", "failed", "error"}]
  BY <1>1, <1>8 DEF TestTypeOK
<1>11. \A l \in left' : l[2] \in DOMAIN plan'
  BY <1>1, <1>6
<1>12. tmp' \in [DOMAIN tmp' -> DOMAIN plan'] /\ jsons' \in Seq([test : DOMAIN plan', run : Nat, result : Nat])
  BY <1>1, <1>3, <1>6
<1> QED
  BY <1>4, <1>5, <1>6, <1>7, <1>9, <1>10, <1>11, <1>12 DEF TestTypeOK

LEMMA EndTyped ==
    ASSUME TestTypeOK, Progress, AssertEqual \/ Raise
    PROVE  TestTypeOK'
<1>1. test \in DOMAIN plan /\ plan' = plan
  BY DEF TestTypeOK, Progress, AssertEqual, Raise, setup, Busy
<1>2. /\ verdict' \in [DOMAIN plan -> {None, "skipped", "ok", "failed", "error"}]
      /\ test' \in 1 .. Len(plan) + 1 /\ stage' = "setUp"
  BY <1>1, NextTestTyped DEF AssertEqual, Raise
<1>3. faults' \in Nat
  BY DEF AssertEqual, Raise, Fault, TestTypeOK
<1>4. todo' \in Seq(Memories)
  BY DEF AssertEqual, Raise, TestTypeOK
<1>5. UNCHANGED <<plan, run, idx, rets, failing, flash, tmp, work, left, jsons, numErrorsA, results,
                 resultJson>>
  BY DEF AssertEqual, Raise, setup, logs
<1> QED
  BY <1>2, <1>3, <1>4, <1>5 DEF TestTypeOK

LEMMA TearDownTyped ==
    ASSUME TestTypeOK, TearDownClass
    PROVE  TestTypeOK'
<1>1. Cardinality({i \in DOMAIN jsons : jsons[i].result # 0}) \in Nat
  <2>1. Len(jsons) \in Nat /\ DOMAIN jsons = 1 .. Len(jsons)
    BY DEF TestTypeOK
  <2>2. IsFiniteSet(DOMAIN jsons)
    BY <2>1, FS_Interval
  <2> QED
    BY <2>2, FS_Subset, FS_CardinalityType
<1>2. resultJson' \in Nat /\ stage' = "done"
  BY <1>1 DEF TearDownClass
<1> QED
  BY <1>2 DEF TearDownClass, TestTypeOK, setup, logs

-----------------------------------------------------------------------------
(* Every step keeps the invariant                                          *)

LEMMA TestStart == TestInit => TestsInvariant
<1> SUFFICES ASSUME TestInit PROVE TestsInvariant
  OBVIOUS
<1>1. TestTypeOK
  BY TestTypeInit
<1>2. Progress
  BY PlanLength DEF TestInit, Progress, Busy
<1>3. Counted /\ Written
  BY DEF TestInit, Counted, Written, Busy
<1>4. Summarised /\ Noticed
  BY DEF TestInit, Summarised, Noticed
<1>5. LogFolder /\ ArchiveIsOwn
  BY DEF TestInit, LogFolder, ArchiveIsOwn
<1> QED
  BY <1>1, <1>2, <1>3, <1>4, <1>5 DEF TestsInvariant

LEMMA SetupKeeps ==
    ASSUME TestsInvariant, SetupStep
    PROVE  TestsInvariant'
<1>1. TestTypeOK'
  BY SetupTyped DEF TestsInvariant
<1>2. /\ UNCHANGED <<plan, tests>>
      /\ stage \in {"list", "detect"} /\ stage' \in {"detect", "setUp", "aborted"}
  BY DEF SetupStep, ListInterfaces, DetectNetx, ChooseNetx, setup
<1>3. DOMAIN tmp = {}
  BY <1>2 DEF TestsInvariant, LogFolder, Busy
<1>4. Progress'
  BY <1>2 DEF TestsInvariant, Progress, Busy, tests, logs
<1>5. Counted' /\ Written'
  BY <1>2 DEF TestsInvariant, Counted, Written, Busy, tests, logs
<1>6. Summarised' /\ Noticed'
  BY <1>2 DEF TestsInvariant, Summarised, Noticed, tests, logs
<1>7. LogFolder' /\ ArchiveIsOwn'
  BY <1>2, <1>3 DEF TestsInvariant, LogFolder, ArchiveIsOwn, tests, logs
<1> QED
  BY <1>1, <1>4, <1>5, <1>6, <1>7 DEF TestsInvariant

\* The end of a test method: its failures are noticed, and what it leaves in the log
\* folder is the configuration alone, or is known to be foreign.
LEMMA NextTestKeeps ==
    ASSUME TestsInvariant, test \in DOMAIN plan,
           NEW v \in {"skipped", "ok", "failed", "error"}, NextTest(v),
           UNCHANGED <<plan, run, failing, zips, jsons, left>>,
           v \in {"skipped", "ok"} => \A f \in failing : f[1] < test,
           \A f \in DOMAIN tmp' :
              /\ tmp'[f] \in DOMAIN plan
              /\ \/ f = Log("testconfig")
                 \/ tmp'[f] = test /\ v = "error"
                 \/ tmp'[f] # test /\ verdict[tmp'[f]] = "error"
                 \/ <<f, tmp'[f]>> \in left
    PROVE  Progress' /\ Counted' /\ Written' /\ Summarised' /\ Noticed' /\ LogFolder' /\ ArchiveIsOwn'
<1>0. /\ test' = test + 1 /\ test \in 1 .. Len(plan) /\ stage' = "setUp" /\ Len(plan) \in Nat
      /\ \A t \in DOMAIN plan : verdict'[t] = IF t = test THEN v ELSE verdict[t]
      /\ DOMAIN plan = 1 .. Len(plan)
  BY NextTestTyped, PlanLength DEF TestsInvariant, TestTypeOK
<1>1. failing \subseteq (DOMAIN plan) \X Nat /\ verdict[test] = None
  BY <1>0 DEF TestsInvariant, TestTypeOK, Progress
<1>2. Progress'
  <2>1. \A t \in DOMAIN plan' : verdict'[t] = None <=> t >= test'
    BY <1>0 DEF TestsInvariant, Progress, None
  <2> QED
    BY <2>1, <1>0 DEF TestsInvariant, Progress, Busy
<1>3. Counted' /\ Written'
  <2>1. \A f \in failing : f[2] <= run /\ f[1] < test'
    BY <1>0, <1>1 DEF TestsInvariant, Counted
  <2>2. \A f \in failing : f[1] <= test'
    BY <2>1, <1>0, <1>1
  <2> QED
    BY <2>1, <2>2, <1>0 DEF Counted, Written, Busy
<1>4. Summarised'
  BY <1>0 DEF TestsInvariant, Summarised
<1>5. Noticed'
  <2>1. SUFFICES ASSUME NEW f \in failing PROVE verdict'[f[1]] \in {None, "failed", "error"}
    BY DEF Noticed
  <2>2. f[1] \in DOMAIN plan /\ f[1] \in Nat
    BY <1>0, <1>1
  <2>3. CASE f[1] = test
    BY <2>2, <2>3, <1>0
  <2>4. CASE f[1] # test
    BY <2>2, <2>4, <1>0 DEF TestsInvariant, Noticed
  <2> QED
    BY <2>3, <2>4
<1>6. LogFolder'
  <2>1. \A f \in DOMAIN tmp' :
           f = Log("testconfig") \/ verdict'[tmp'[f]] = "error" \/ <<f, tmp'[f]>> \in left'
    BY <1>0
  <2> QED
    BY <2>1, <1>0 DEF TestsInvariant, LogFolder, Foreign, Stuck, Busy
<1>7. ArchiveIsOwn'
  <2>1. SUFFICES ASSUME NEW i \in DOMAIN zips, NEW f \in DOMAIN zips[i].files,
                        zips[i].files[f] # zips[i].test, <<f, zips[i].files[f]>> \notin left
                 PROVE  verdict'[zips[i].files[f]] = "error"
    BY DEF ArchiveIsOwn
  <2>2. verdict[zips[i].files[f]] = "error" /\ zips[i].files[f] \in DOMAIN plan
    BY <2>1 DEF TestsInvariant, ArchiveIsOwn, LogFolder
  <2> QED
    BY <2>2, <1>0, <1>1 DEF None
<1> QED
  BY <1>2, <1>3, <1>4, <1>5, <1>6, <1>7

LEMMA SetUpKeeps ==
    ASSUME TestsInvariant, SetUp
    PROVE  TestsInvariant'
<1>1. TestTypeOK'
  BY SetUpTyped DEF TestsInvariant
<1>2. /\ test \in DOMAIN plan /\ stage = "setUp"
      /\ UNCHANGED <<plan, run, failing, zips, jsons, left, numErrorsA, faults>>
  BY PlanLength DEF TestsInvariant, TestTypeOK, SetUp, setup
<1>3. \A f \in failing : f[1] < test
  BY <1>2 DEF TestsInvariant, Counted, Busy
<1>4. /\ \A f \in DOMAIN tmp' :
            /\ tmp'[f] \in DOMAIN plan
            /\ tmp'[f] = IF f = Log("testconfig") THEN test ELSE tmp[f]
            /\ f = Log("testconfig") \/ f \in DOMAIN tmp
  <2>1. tmp' = Wrote({Log("testconfig")}) /\ tmp \in [DOMAIN tmp -> DOMAIN plan]
    BY DEF SetUp, TestsInvariant, TestTypeOK
  <2>2. tmp' \in [DOMAIN tmp' -> DOMAIN plan]
    BY <2>1, <1>2, WroteTyped
  <2>3. /\ DOMAIN tmp' = DOMAIN tmp \cup {Log("testconfig")}
        /\ \A f \in DOMAIN tmp' : tmp'[f] = IF f \in {Log("testconfig")} THEN test ELSE tmp[f]
    BY <2>1, <1>2, WroteTyped
  <2>4. \A f \in DOMAIN tmp' : tmp'[f] \in DOMAIN plan
    BY <2>2
  <2> QED
    BY <2>3, <2>4
<1>5. verdict[test] = None
  BY <1>2, PlanLength DEF TestsInvariant, TestTypeOK, Progress
<1>6. \A f \in DOMAIN tmp' :
         \/ f = Log("testconfig")
         \/ tmp'[f] # test /\ verdict[tmp'[f]] = "error"
         \/ <<f, tmp'[f]>> \in left
  <2>1. \A f \in DOMAIN tmp : f = Log("testconfig") \/ verdict[tmp[f]] = "error" \/ <<f, tmp[f]>> \in left
    BY <1>2 DEF TestsInvariant, LogFolder, Foreign, Stuck
  <2>2. verdict[test] # "error"
    BY <1>5 DEF None
  <2> QED
    BY <2>1, <2>2, <1>4
<1>7. ASSUME NEW v \in {"skipped", "failed"}, NextTest(v)
      PROVE  Progress' /\ Counted' /\ Written' /\ Summarised' /\ Noticed' /\ LogFolder' /\ ArchiveIsOwn'
  <2>1. \A f \in DOMAIN tmp' :
           /\ tmp'[f] \in DOMAIN plan
           /\ \/ f = Log("testconfig")
              \/ tmp'[f] = test /\ v = "error"
              \/ tmp'[f] # test /\ verdict[tmp'[f]] = "error"
              \/ <<f, tmp'[f]>> \in left
    BY <1>4, <1>6
  <2>2. v \in {"skipped", "ok", "failed", "error"}
    OBVIOUS
  <2> QED
    BY <2>1, <2>2, <1>2, <1>3, <1>7, NextTestKeeps
<1>8. CASE NextTest("skipped")
  BY <1>1, <1>7, <1>8 DEF TestsInvariant
<1>9. CASE NextTest(plan[test].otherwise)
  <2>1. plan[test].otherwise \in {"skipped", "failed"}
    BY <1>2, PlanTyped DEF TestsInvariant, TestTypeOK
  <2> QED
    BY <1>1, <1>7, <1>9, <2>1 DEF TestsInvariant
<1>10. CASE stage' = "prepare" /\ UNCHANGED <<test, verdict>> /\ plan[test].memories # <<>>
  <2>1. Progress'
    BY <1>2, <1>10 DEF TestsInvariant, Progress, Busy, SetUp
  <2>2. Counted' /\ Written'
    BY <1>2, <1>3, <1>10 DEF TestsInvariant, TestTypeOK, Counted, Written, Busy
  <2>3. Summarised' /\ Noticed'
    BY <1>2, <1>10 DEF TestsInvariant, Summarised, Noticed
  <2>4. LogFolder'
    <3>1. \A f \in DOMAIN tmp' :
             tmp'[f] = test' \/ verdict'[tmp'[f]] = "error" \/ <<f, tmp'[f]>> \in left'
      BY <1>2, <1>4, <1>6, <1>10
    <3> QED
      BY <3>1, <1>2, <1>10 DEF TestsInvariant, LogFolder, Foreign, Stuck, Busy
  <2>5. ArchiveIsOwn'
    BY <1>2, <1>10 DEF TestsInvariant, ArchiveIsOwn
  <2> QED
    BY <1>1, <2>1, <2>2, <2>3, <2>4, <2>5 DEF TestsInvariant
<1> QED
  BY <1>8, <1>9, <1>10 DEF SetUp

LEMMA JsonTyped ==
    ASSUME TestTypeOK
    PROVE  /\ Len(jsons) \in Nat /\ DOMAIN jsons = 1 .. Len(jsons)
           /\ \A i \in DOMAIN jsons :
                 jsons[i].test \in DOMAIN plan /\ jsons[i].run \in Nat /\ jsons[i].result \in Nat
<1> DEFINE Json == [test : DOMAIN plan, run : Nat, result : Nat]
<1>1. jsons \in Seq(Json)
  BY DEF TestTypeOK
<1> HIDE DEF Json
<1>2. Len(jsons) \in Nat /\ DOMAIN jsons = 1 .. Len(jsons) /\ \A i \in DOMAIN jsons : jsons[i] \in Json
  BY <1>1
<1> QED
  BY <1>2 DEF Json

\* The steps of a run: no method gets its verdict, and the log folder gets files of this
\* method only, or is cleared.
LEMMA BusyStep ==
    ASSUME TestsInvariant, stage \in Busy, stage' \in Busy \cup {"assert"},
           UNCHANGED <<plan, test, verdict>>,
           stage' \in Busy => todo' # <<>>,
           Len(zips') \in Nat /\ DOMAIN zips' = 1 .. Len(zips')
    PROVE  Progress' /\ test \in DOMAIN plan
    BY DEF TestsInvariant, Progress, Busy

LEMMA FolderStep ==
    ASSUME TestsInvariant, stage \in Busy, stage' \in Busy, NEW names,
           UNCHANGED <<plan, test, verdict, zips, left>>,
           tmp' = Wrote(names) \/ tmp' = tmp
    PROVE  LogFolder' /\ ArchiveIsOwn'
<1>1. test \in DOMAIN plan /\ tmp \in [DOMAIN tmp -> DOMAIN plan]
  BY DEF TestsInvariant, TestTypeOK, Progress
<1>2. \A f \in DOMAIN tmp : tmp[f] = test \/ verdict[tmp[f]] = "error" \/ <<f, tmp[f]>> \in left
  BY DEF TestsInvariant, LogFolder, Foreign, Stuck
<1>3. \A f \in DOMAIN tmp' : tmp'[f] = test \/ verdict[tmp'[f]] = "error" \/ <<f, tmp'[f]>> \in left
  <2>1. CASE tmp' = tmp
    BY <1>2, <2>1
  <2>2. CASE tmp' = Wrote(names)
    <3>1. /\ DOMAIN tmp' = DOMAIN tmp \cup names
          /\ \A f \in DOMAIN tmp' : tmp'[f] = IF f \in names THEN test ELSE tmp[f]
      BY <1>1, <2>2, WroteTyped
    <3> QED
      BY <1>2, <3>1
  <2> QED
    BY <2>1, <2>2
<1>4. LogFolder'
  BY <1>3 DEF TestsInvariant, LogFolder, Foreign, Stuck, Busy
<1> QED
  BY <1>4 DEF TestsInvariant, ArchiveIsOwn

LEMMA PreTestStepKeeps ==
    ASSUME TestsInvariant, PreTestStep
    PROVE  TestsInvariant'
<1>1. TestTypeOK'
  BY PreTestStepTyped DEF TestsInvariant
<1>2. /\ stage = "prepare" /\ stage' = "batch" /\ run' = run + 1 /\ run \in Nat
      /\ rets' = <<>>
      /\ UNCHANGED <<plan, todo, test, verdict, failing, left, zips, jsons, numErrorsA, results, faults>>
      /\ tmp' = Wrote({Log("writefile")}) \/ tmp' = tmp
  BY DEF TestsInvariant, TestTypeOK, PreTestStep, setup
<1>3. Progress' /\ test \in DOMAIN plan
  <2>1. todo # <<>> /\ Len(zips) \in Nat /\ DOMAIN zips = 1 .. Len(zips)
    BY <1>2 DEF TestsInvariant, Progress, Busy
  <2> QED
    BY <2>1, <1>2, BusyStep DEF Busy
<1>4. Counted'
  <2>1. \A f \in failing : /\ f[2] <= run /\ f[1] <= test /\ f[2] \in Nat
                           /\ f[1] = test => results > 0
    BY <1>2 DEF TestsInvariant, TestTypeOK, Counted
  <2>2. <<test, run + 1>> \notin failing
    BY <2>1, <1>2
  <2>3. \A f \in failing : f[2] <= run + 1
    BY <2>1, <1>2
  <2> QED
    BY <2>1, <2>2, <2>3, <1>2 DEF Counted, Busy
<1>5. Summarised'
  <2>1. \A i \in DOMAIN jsons : jsons[i].run <= run /\ jsons[i].run \in Nat
    BY JsonTyped DEF TestsInvariant, Summarised
  <2>2. \A i \in DOMAIN jsons : jsons[i].run <= run + 1 /\ jsons[i].run < run + 1
    BY <2>1, <1>2
  <2> QED
    BY <2>2, <1>2 DEF TestsInvariant, Summarised
<1>6. Noticed'
  BY <1>2 DEF TestsInvariant, Noticed
<1>7. LogFolder' /\ ArchiveIsOwn'
  BY <1>2, FolderStep DEF Busy
<1>8. Written'
  BY <1>2 DEF Written, Class, PreTestStep
<1> QED
  BY <1>1, <1>3, <1>4, <1>5, <1>6, <1>7, <1>8 DEF TestsInvariant

LEMMA CommandKeeps ==
    ASSUME TestsInvariant, RunCommand \/ CommandFails
    PROVE  TestsInvariant'
<1>1. /\ stage = "batch" /\ faults' \in Nat
      /\ \E ret \in {0, 1}, contents \in {flash, Spoilt, Carried(Batch[idx])} :
                 /\ Ran(ret, contents)
                 /\ DOMAIN contents = Memories
                 /\ \A m \in Memories : contents[m] \in [1 .. MemorySize[m] -> Int]
  BY CommandTyped DEF TestsInvariant
<1>2. PICK ret \in {0, 1}, contents \in {flash, Spoilt, Carried(Batch[idx])} :
                 /\ Ran(ret, contents)
                 /\ DOMAIN contents = Memories
                 /\ \A m \in Memories : contents[m] \in [1 .. MemorySize[m] -> Int]
  BY <1>1
<1>3. TestTypeOK'
  BY <1>1, <1>2, RanTyped DEF TestsInvariant
<1>4. /\ stage' = "batch" /\ rets' = Append(rets, ret)
      /\ failing' = IF ret = 0 THEN failing ELSE failing \cup {<<test, run>>}
      /\ UNCHANGED <<plan, todo, test, run, verdict, work, left, zips, jsons, results>>
      /\ tmp' = Wrote({<<"stdout", idx>>})
  BY <1>1, <1>2 DEF Ran, setup
<1>5. Progress' /\ test \in DOMAIN plan
  <2>1. todo # <<>> /\ Len(zips) \in Nat /\ DOMAIN zips = 1 .. Len(zips)
    BY <1>1 DEF TestsInvariant, Progress, Busy
  <2> QED
    BY <2>1, <1>1, <1>4, BusyStep DEF Busy
<1>6. /\ run \in Nat /\ test \in Nat /\ rets \in Seq({0, 1})
      /\ \A f \in failing' : f \in failing \/ f = <<test, run>>
  BY <1>4 DEF TestsInvariant, TestTypeOK
<1>7. Counted'
  <2>1. (\E i \in DOMAIN rets' : rets'[i] # 0) <=> (\E i \in DOMAIN rets : rets[i] # 0) \/ ret # 0
    <3>1. /\ DOMAIN rets' = 1 .. Len(rets) + 1 /\ Len(rets) \in Nat /\ DOMAIN rets = 1 .. Len(rets)
          /\ \A i \in 1 .. Len(rets) : rets'[i] = rets[i]
          /\ rets'[Len(rets) + 1] = ret
      BY <1>4, <1>6
    <3> QED
      BY <3>1
  <2>2. <<test, run>> \in failing' <=> \E i \in DOMAIN rets' : rets'[i] # 0
    BY <2>1, <1>1, <1>4 DEF TestsInvariant, Counted
  <2>3. \A f \in failing' :
          /\ f[2] <= run /\ f[1] <= test
          /\ f[1] = test /\ f[2] # run => results > 0
    BY <1>1, <1>6 DEF TestsInvariant, Counted
  <2> QED
    BY <2>2, <2>3, <1>4 DEF Counted, Busy
<1>8. Summarised'
  <2>1. \A i \in DOMAIN jsons : <<jsons[i].test, jsons[i].run>> # <<test, run>>
    <3>1. \A i \in DOMAIN jsons : jsons[i].run < run /\ jsons[i].run \in Nat
      BY <1>1, JsonTyped DEF TestsInvariant, Summarised
    <3> QED
      BY <3>1, <1>6
  <2>2. \A i \in DOMAIN jsons :
          <<jsons[i].test, jsons[i].run>> \in failing' <=> <<jsons[i].test, jsons[i].run>> \in failing
    BY <2>1, <1>4
  <2> QED
    BY <2>2, <1>1, <1>4 DEF TestsInvariant, Summarised
<1>9. Noticed'
  <2>1. verdict[test] = None
    BY <1>5, <1>6 DEF TestsInvariant, Progress
  <2> QED
    BY <2>1, <1>4, <1>6 DEF TestsInvariant, Noticed
<1>10. LogFolder' /\ ArchiveIsOwn'
  BY <1>1, <1>4, FolderStep DEF Busy
<1>11. Written'
  BY <1>1, <1>4 DEF TestsInvariant, Written, Class
<1> QED
  BY <1>3, <1>5, <1>7, <1>8, <1>9, <1>10, <1>11 DEF TestsInvariant

LEMMA EvalKeeps ==
    ASSUME TestsInvariant, EvalBatchResult
    PROVE  TestsInvariant'
<1>1. TestTypeOK'
  BY EvalTyped DEF TestsInvariant
<1>2. /\ stage = "batch" /\ stage' = "archive"
      /\ numErrorsA' = Append(numErrorsA, Failed(rets))
      /\ UNCHANGED <<plan, todo, test, run, rets, verdict, failing, left, zips, jsons, results, faults>>
      /\ tmp' = Wrote({Log("summary")})
  BY DEF EvalBatchResult, setup
<1>3. Progress' /\ test \in DOMAIN plan
  <2>1. todo # <<>> /\ Len(zips) \in Nat /\ DOMAIN zips = 1 .. Len(zips)
    BY <1>2 DEF TestsInvariant, Progress, Busy
  <2> QED
    BY <2>1, <1>2, BusyStep DEF Busy
<1>4. Counted'
  <2>1. numErrorsA \in Seq(Nat) /\ Failed(rets) \in Nat
          /\ (Failed(rets) # 0 <=> \E i \in DOMAIN rets : rets[i] # 0)
    BY FailedTyped DEF TestsInvariant, TestTypeOK
  <2>2. numErrorsA' # <<>> /\ Last(numErrorsA') = Failed(rets)
    BY <2>1, <1>2 DEF Last
  <2>3. <<test, run>> \in failing' <=> Last(numErrorsA') # 0
    BY <2>1, <2>2, <1>2 DEF TestsInvariant, Counted
  <2>4. \A f \in failing :
          /\ f[2] <= run /\ f[1] <= test
          /\ f[1] = test /\ f[2] # run => results > 0
    BY <1>2 DEF TestsInvariant, Counted
  <2> QED
    BY <2>2, <2>3, <2>4, <1>2 DEF Counted, Busy
<1>5. Summarised' /\ Noticed'
  BY <1>2 DEF TestsInvariant, Summarised, Noticed
<1>6. LogFolder' /\ ArchiveIsOwn'
  BY <1>2, FolderStep DEF Busy
<1>7. Written'
  BY <1>2 DEF Written
<1> QED
  BY <1>1, <1>3, <1>4, <1>5, <1>6, <1>7 DEF TestsInvariant

LEMMA ArchiveKeeps ==
    ASSUME TestsInvariant, ArchiveLogs
    PROVE  TestsInvariant'
<1>1. TestTypeOK'
  BY ArchiveTyped DEF TestsInvariant
<1>2. /\ stage = "archive" /\ stage' = IF Len(todo) > 1 THEN "prepare" ELSE "assert"
      /\ todo' = Tail(todo)
      /\ jsons' = Append(jsons, [test |-> test, run |-> run, result |-> Result])
      /\ results' = results + Result
      /\ UNCHANGED <<plan, test, run, verdict, failing>>
      /\ zips' = Append(zips, [test |-> test, run |-> run, files |-> tmp]) \/ zips' = zips
  BY DEF ArchiveLogs, setup
<1>11. left \subseteq left' /\ \A f \in DOMAIN tmp' : f \in DOMAIN tmp /\ <<f, tmp'[f]>> \in left'
  <2>1. PICK stays \in Locked(tmp) :
           tmp' = FoldersReset(tmp, stays) /\ left' = left \cup {<<f, tmp[f]>> : f \in stays}
    BY DEF ArchiveLogs
  <2> QED
    BY <2>1 DEF Locked, FoldersReset
<1>3. Result \in Nat /\ (Result # 0 <=> <<test, run>> \in failing)
        /\ results \in Nat /\ run \in Nat /\ test \in Nat
  <2>1. Result \in Nat /\ (Result # 0 <=> <<test, run>> \in failing)
    BY <1>2, ResultTyped DEF TestsInvariant, Counted
  <2>2. results \in Nat /\ run \in Nat /\ test \in Nat
    BY PlanLength DEF TestsInvariant, TestTypeOK
  <2> QED
    BY <2>1, <2>2
<1>4. /\ Len(zips) \in Nat /\ DOMAIN zips = 1 .. Len(zips)
      /\ Len(zips') \in Nat /\ DOMAIN zips' = 1 .. Len(zips')
      /\ \A i \in DOMAIN zips' :
            \/ i \in DOMAIN zips /\ zips'[i] = zips[i]
            \/ zips'[i] = [test |-> test, run |-> run, files |-> tmp]
  <2>1. Len(zips) \in Nat /\ DOMAIN zips = 1 .. Len(zips)
    BY DEF TestsInvariant, Progress
  <2>2. CASE zips' = zips
    BY <2>1, <2>2
  <2>3. CASE zips' = Append(zips, [test |-> test, run |-> run, files |-> tmp])
    <3> DEFINE packed == [test |-> test, run |-> run, files |-> tmp]
    <3>1. zips' = Append(zips, packed)
      BY <2>3
    <3> HIDE DEF packed
    <3>2. /\ Len(zips') = Len(zips) + 1 /\ DOMAIN zips' = 1 .. Len(zips) + 1
          /\ \A i \in 1 .. Len(zips) : zips'[i] = zips[i]
          /\ zips'[Len(zips) + 1] = packed
      BY <2>1, <3>1
    <3>3. \A i \in 1 .. Len(zips) + 1 : i \in 1 .. Len(zips) \/ i = Len(zips) + 1
      BY <2>1
    <3>4. \A i \in DOMAIN zips' : (i \in DOMAIN zips /\ zips'[i] = zips[i]) \/ zips'[i] = packed
      BY <2>1, <3>2, <3>3
    <3> QED
      BY <2>1, <3>2, <3>4 DEF packed
  <2> QED
    BY <1>2, <2>2, <2>3
<1>5. Progress' /\ test \in DOMAIN plan
  <2>1. stage' \in Busy => todo' # <<>>
    <3>1. todo \in Seq(Memories) /\ todo # <<>>
      BY <1>2 DEF TestsInvariant, TestTypeOK, Progress, Busy
    <3> QED
      BY <3>1, <1>2 DEF Busy
  <2> QED
    BY <2>1, <1>2, <1>4, BusyStep DEF Busy
<1>6. Counted' /\ Written'
  <2>1. \A f \in failing :
          /\ f[2] <= run /\ f[1] <= test /\ f[1] \in Nat /\ f[2] \in Nat /\ f = <<f[1], f[2]>>
          /\ f[1] = test /\ f[2] # run => results > 0
    <3>1. failing \subseteq (DOMAIN plan) \X Nat /\ DOMAIN plan \subseteq Nat
      BY PlanLength DEF TestsInvariant, TestTypeOK
    <3>2. \A f \in failing : f[1] \in Nat /\ f[2] \in Nat /\ f = <<f[1], f[2]>>
      BY <3>1
    <3> QED
      BY <3>2, <1>2 DEF TestsInvariant, Counted
  <2>2. \A f \in failing : f[1] = test => results' > 0
    <3>1. SUFFICES ASSUME NEW f \in failing, f[1] = test PROVE results' > 0
      OBVIOUS
    <3>2. CASE f[2] = run
      BY <2>1, <3>1, <3>2, <1>2, <1>3
    <3>3. CASE f[2] # run
      BY <2>1, <3>1, <3>3, <1>2, <1>3
    <3> QED
      BY <3>2, <3>3
  <2> QED
    BY <2>1, <2>2, <1>2 DEF Counted, Written, Busy
<1>7. Summarised'
  <2> DEFINE json == [test |-> test, run |-> run, result |-> Result]
  <2>1. Len(jsons) \in Nat /\ DOMAIN jsons = 1 .. Len(jsons)
    BY JsonTyped DEF TestsInvariant
  <2>2. jsons' = Append(jsons, json) /\ json.test = test /\ json.run = run /\ json.result = Result
    BY <1>2
  <2> HIDE DEF json
  <2>3. /\ DOMAIN jsons' = 1 .. Len(jsons) + 1
        /\ \A i \in 1 .. Len(jsons) : jsons'[i] = jsons[i]
        /\ jsons'[Len(jsons) + 1] = json
    BY <2>1, <2>2
  <2>4. SUFFICES ASSUME NEW i \in DOMAIN jsons'
                 PROVE  /\ jsons'[i].run <= run'
                        /\ jsons'[i].result # 0 <=> <<jsons'[i].test, jsons'[i].run>> \in failing'
    BY <1>2 DEF Summarised
  <2>5. CASE i \in 1 .. Len(jsons)
    BY <2>1, <2>3, <2>5, <1>2 DEF TestsInvariant, Summarised
  <2>6. CASE i = Len(jsons) + 1
    <3>1. jsons'[i].test = test /\ jsons'[i].run = run /\ jsons'[i].result = Result
      BY <2>2, <2>3, <2>6
    <3>2. UNCHANGED <<run, failing>> /\ run \in Nat /\ (Result # 0 <=> <<test, run>> \in failing)
      BY <1>2, <1>3
    <3> QED
      BY <3>1, <3>2
  <2> QED
    BY <2>1, <2>3, <2>5, <2>6
<1>8. Noticed'
  BY <1>2 DEF TestsInvariant, Noticed
<1>9. LogFolder'
  <2>1. ASSUME NEW i \in DOMAIN zips', NEW f \in DOMAIN zips'[i].files
        PROVE  zips'[i].files[f] \in DOMAIN plan
    <3>1. CASE i \in DOMAIN zips /\ zips'[i] = zips[i]
      BY <2>1, <3>1 DEF TestsInvariant, LogFolder
    <3>2. CASE zips'[i] = [test |-> test, run |-> run, files |-> tmp]
      BY <2>1, <3>2 DEF TestsInvariant, TestTypeOK
    <3> QED
      BY <3>1, <3>2, <1>4
  <2> QED
    BY <2>1, <1>2, <1>11 DEF LogFolder, Foreign, Stuck, Busy
<1>10. ArchiveIsOwn'
  <2>1. SUFFICES ASSUME NEW i \in DOMAIN zips', NEW f \in DOMAIN zips'[i].files,
                        zips'[i].files[f] # zips'[i].test
                 PROVE  verdict[zips'[i].files[f]] = "error" \/ <<f, zips'[i].files[f]>> \in left
    BY <1>2, <1>11 DEF ArchiveIsOwn
  <2>2. CASE i \in DOMAIN zips /\ zips'[i] = zips[i]
    BY <2>1, <2>2 DEF TestsInvariant, ArchiveIsOwn
  <2>3. CASE zips'[i] = [test |-> test, run |-> run, files |-> tmp]
    <3>1. zips'[i].files = tmp /\ zips'[i].test = test
      BY <2>3
    <3> QED
      BY <2>1, <3>1, <1>2 DEF TestsInvariant, LogFolder, Foreign, Stuck, Busy
  <2> QED
    BY <2>2, <2>3, <1>4
<1> QED
  BY <1>1, <1>5, <1>6, <1>7, <1>8, <1>9, <1>10 DEF TestsInvariant

LEMMA EndKeeps ==
    ASSUME TestsInvariant, AssertEqual \/ Raise
    PROVE  TestsInvariant'
<1>1. TestTypeOK'
  BY EndTyped DEF TestsInvariant
<1>2. /\ test \in DOMAIN plan /\ test \in Nat
      /\ UNCHANGED <<plan, run, failing, zips, jsons, tmp, left>>
  BY DEF TestsInvariant, TestTypeOK, Progress, AssertEqual, Raise, setup, logs, Busy
<1>3. failing \subseteq (DOMAIN plan) \X Nat /\ DOMAIN plan \subseteq Nat
        /\ \A f \in DOMAIN tmp : tmp[f] \in DOMAIN plan
  BY PlanLength DEF TestsInvariant, TestTypeOK
<1>4. CASE AssertEqual
  <2>1. PICK v \in {"ok", "failed"} : NextTest(v) /\ (v = "ok" => results = 0)
    BY <1>4 DEF AssertEqual
  <2>2. stage = "assert" /\ \A f \in DOMAIN tmp' : tmp'[f] \in DOMAIN plan /\ <<f, tmp'[f]>> \in left
    BY <1>2, <1>3, <1>4 DEF AssertEqual, TestsInvariant, LogFolder, Stuck
  <2>3. v = "ok" => \A f \in failing : f[1] < test
    BY <1>2, <1>3, <2>1, <2>2 DEF TestsInvariant, Counted
  <2>4. v \in {"skipped", "ok"} => \A f \in failing : f[1] < test
    BY <2>3
  <2> QED
    BY <1>1, <1>2, <2>1, <2>2, <2>4, NextTestKeeps DEF TestsInvariant
<1>5. CASE Raise
  <2>1. NextTest("error") /\ stage \in Busy
    BY <1>5 DEF Raise, Busy
  <2>2. \A f \in DOMAIN tmp' :
              /\ tmp'[f] \in DOMAIN plan
              /\ \/ f = Log("testconfig")
                 \/ tmp'[f] = test /\ "error" = "error"
                 \/ tmp'[f] # test /\ verdict[tmp'[f]] = "error"
                 \/ <<f, tmp'[f]>> \in left
    BY <1>2, <1>3, <2>1 DEF TestsInvariant, LogFolder, Foreign, Stuck
  <2>3. "error" \notin {"skipped", "ok"} /\ "error" \in {"skipped", "ok", "failed", "error"}
    OBVIOUS
  <2> QED
    BY <1>1, <1>2, <2>1, <2>2, <2>3, NextTestKeeps DEF TestsInvariant
<1> QED
  BY <1>4, <1>5

LEMMA TearDownKeeps ==
    ASSUME TestsInvariant, TearDownClass
    PROVE  TestsInvariant'
<1>1. TestTypeOK'
  BY TearDownTyped DEF TestsInvariant
<1>2. /\ stage = "setUp" /\ stage' = "done" /\ test > Len(plan)
      /\ resultJson' = Cardinality({i \in DOMAIN jsons : jsons[i].result # 0})
      /\ UNCHANGED <<plan, test, run, tmp, failing, left, zips, jsons, verdict>>
  BY DEF TearDownClass, setup, logs
<1>3. Progress' /\ Counted' /\ Written'
  <2>1. test = Len(plan) + 1
    BY <1>2, PlanLength DEF TestsInvariant, TestTypeOK
  <2>2. Progress'
    BY <1>2, <2>1 DEF TestsInvariant, Progress, Busy
  <2>3. Counted' /\ Written'
    BY <1>2 DEF TestsInvariant, Counted, Written, Busy
  <2> QED
    BY <2>2, <2>3
<1>4. Summarised' /\ Noticed'
  BY <1>2 DEF TestsInvariant, Summarised, Noticed
<1>5. LogFolder' /\ ArchiveIsOwn'
  BY <1>2 DEF TestsInvariant, LogFolder, Foreign, Stuck, ArchiveIsOwn, Busy
<1> QED
  BY <1>1, <1>3, <1>4, <1>5 DEF TestsInvariant

LEMMA TestsStutter ==
    ASSUME TestsInvariant, UNCHANGED testVars
    PROVE  TestsInvariant'
<1> USE DEF testVars, setup, logs
<1>1. TestTypeOK' /\ Progress'
  BY DEF TestsInvariant, TestTypeOK, Progress
<1>2. Written' /\ Counted'
  BY DEF TestsInvariant, Written, Class, Counted
<1>3. Summarised' /\ Noticed'
  BY DEF TestsInvariant, Summarised, Noticed
<1>4. LogFolder' /\ ArchiveIsOwn'
  BY DEF TestsInvariant, LogFolder, Foreign, Stuck, ArchiveIsOwn
<1> QED
  BY <1>1, <1>2, <1>3, <1>4 DEF TestsInvariant

LEMMA TestsKept == TestsInvariant /\ [TestNext]_testVars => TestsInvariant'
<1> SUFFICES ASSUME TestsInvariant, [TestNext]_testVars PROVE TestsInvariant'
  OBVIOUS
<1>1. CASE SetupStep
  BY <1>1, SetupKeeps
<1>2. CASE SetUp
  BY <1>2, SetUpKeeps
<1>3. CASE PreTestStep
  BY <1>3, PreTestStepKeeps
<1>4. CASE RunCommand \/ CommandFails
  BY <1>4, CommandKeeps
<1>5. CASE EvalBatchResult
  BY <1>5, EvalKeeps
<1>6. CASE ArchiveLogs
  BY <1>6, ArchiveKeeps
<1>7. CASE AssertEqual \/ Raise
  BY <1>7, EndKeeps
<1>8. CASE TearDownClass
  BY <1>8, TearDownKeeps
<1>9. CASE Terminated \/ UNCHANGED testVars
  BY <1>9, TestsStutter DEF Terminated
<1> QED
  BY <1>1, <1>2, <1>3, <1>4, <1>5, <1>6, <1>7, <1>8, <1>9 DEF TestNext, SetupStep

(* The verdicts, the counts and the log folder agree with the commands     *)
(* that failed, at every command of every campaign.                        *)
THEOREM TestsAgree == TestSpec => []TestsInvariant
  BY TestStart, TestsKept, PTL DEF TestSpec

-----------------------------------------------------------------------------
(* A board without faults                                                  *)

\* What a command changes the memory with.
Changing == {"erase", "flash", "testcli"}

\* After flash, until the next change, the memory holds the binary.
HasFlashed(i) ==
    /\ i \in 1 .. idx - 1 /\ Batch[i] = "flash"
    /\ \A j \in i + 1 .. idx - 1 : Batch[j] \notin Changing

Green ==
    faults = 0 =>
        /\ failing = {} /\ results = 0
        /\ \A t \in DOMAIN plan :
              \/ verdict[t] \in {None, "skipped", "ok"}
              \/ verdict[t] = plan[t].otherwise /\ plan[t].memories = <<>>
        /\ stage = "batch" =>
              \A i \in DOMAIN Batch :
                  HasFlashed(i) => \A a \in InFile : flash[Memory][a] = Binary

\* Each verify comes after a flash, with nothing between them that changes the memory.
LEMMA VerifyAfterFlash ==
    ASSUME NEW class \in Classes, NEW v \in DOMAIN Commands[class], Commands[class][v] = "verify"
    PROVE  \E i \in 1 .. v - 1 :
              /\ i \in DOMAIN Commands[class] /\ Commands[class][i] = "flash"
              /\ \A j \in i + 1 .. v - 1 : Commands[class][j] \notin Changing
<1>1. class \in {"FltStandardSqiFlash", "FltStandardOtherFlash", "FltHash", "FltTestcliSqiFlash",
                 "NxtFlasher_51"}
  BY DEF Classes, Commands
<1>2. CASE class = "FltStandardSqiFlash"
  <2>1. Commands[class] = <<"info", "detect", "erase", "flash", "read", "verify">>
    BY <1>2 DEF Commands
  <2>2. v = 6
    BY <2>1
  <2>3. \A j \in 5 .. 5 : Commands[class][j] \notin Changing
    BY <2>1 DEF Changing
  <2> QED
    BY <2>1, <2>2, <2>3
<1>3. CASE class = "FltStandardOtherFlash"
  <2>1. Commands[class] = <<"detect", "flash", "read", "verify", "erase">>
    BY <1>3 DEF Commands
  <2>2. v = 4
    BY <2>1
  <2>3. \A j \in 3 .. 3 : Commands[class][j] \notin Changing
    BY <2>1 DEF Changing
  <2> QED
    BY <2>1, <2>2, <2>3
<1>4. CASE class = "FltHash"
  <2>1. Commands[class] = <<"flash", "verify", "hash">>
    BY <1>4 DEF Commands
  <2>2. v = 2
    BY <2>1
  <2> QED
    BY <2>1, <2>2
<1>5. CASE class = "FltTestcliSqiFlash"
  <2>1. Commands[class] = <<"testcli">>
    BY <1>5 DEF Commands
  <2> QED
    BY <2>1
<1>6. CASE class = "NxtFlasher_51"
  <2>1. Commands[class] = <<"flash", "verify">>
    BY <1>6 DEF Commands
  <2>2. v = 2
    BY <2>1
  <2> QED
    BY <2>1, <2>2
<1> QED
  BY <1>1, <1>2, <1>3, <1>4, <1>5, <1>6

LEMMA BatchTyped ==
    ASSUME NEW class \in Classes
    PROVE  Len(Commands[class]) \in Nat /\ DOMAIN Commands[class] = 1 .. Len(Commands[class])
<1>1. class \in {"FltStandardSqiFlash", "FltStandardOtherFlash", "FltHash", "FltTestcliSqiFlash",
                 "NxtFlasher_51"}
  BY DEF Classes, Commands
<1> QED
  BY <1>1 DEF Commands

\* Without a fault every command succeeds.
LEMMA CommandsSucceed ==
    ASSUME TestsInvariant, Green, faults = 0, stage = "batch", idx \in DOMAIN Batch
    PROVE  Succeeds(Batch[idx])
<1>1. /\ TestBinarySize \in 1 .. MemorySize[Memory] /\ FileSize \in 1 .. MemorySize[Memory]
      /\ MemorySize[Memory] \in Nat /\ Class \in Classes
  BY BinaryTyped, MemoryTyped DEF TestsInvariant, Written, Busy
<1>2. /\ Batch[idx] \in {"erase", "read", "hash"} => TestBinarySize <= MemorySize[Memory]
      /\ Batch[idx] = "flash" => FileSize <= MemorySize[Memory]
      /\ FileSize <= MemorySize[Memory]
  BY <1>1
<1>3. ASSUME Batch[idx] = "verify" PROVE \A a \in InFile : flash[Memory][a] = Binary
  <2>1. PICK i \in 1 .. idx - 1 :
              /\ i \in DOMAIN Batch /\ Batch[i] = "flash"
              /\ \A j \in i + 1 .. idx - 1 : Batch[j] \notin Changing
    BY <1>1, <1>3, VerifyAfterFlash DEF Batch
  <2>2. HasFlashed(i)
    BY <2>1 DEF HasFlashed
  <2> QED
    BY <2>1, <2>2 DEF Green
<1> QED
  BY <1>2, <1>3 DEF Succeeds

LEMMA RunKeepsGreen ==
    ASSUME TestsInvariant, Green, RunCommand
    PROVE  Green'
<1>1. SUFFICES ASSUME faults' = 0 PROVE Green'
  BY DEF Green
<1>2. /\ faults = 0 /\ stage = "batch" /\ stage' = "batch"
      /\ UNCHANGED <<plan, todo, test, run, verdict, work, results>>
      /\ idx' = idx + 1 /\ idx \in 1 .. Len(Batch) /\ idx \in Nat
  <2>1. idx \in Nat \ {0} /\ Len(Batch) \in Nat
    <3>1. rets \in Seq({0, 1}) /\ idx = Len(rets) + 1
      BY DEF TestsInvariant, TestTypeOK
    <3>2. Len(rets) \in Nat
      BY <3>1
    <3>3. Class \in Classes
      BY MemoryTyped DEF TestsInvariant, RunCommand, Busy
    <3> QED
      BY <3>1, <3>2, <3>3, BatchTyped DEF Batch
  <2> QED
    BY <1>1, <2>1 DEF RunCommand, Ran, setup
<1>3. Class \in Classes /\ Memory \in Memories /\ idx \in DOMAIN Batch /\ DOMAIN Batch = 1 .. Len(Batch)
        /\ Len(Batch) \in Nat
  BY <1>2, MemoryTyped, BatchTyped DEF TestsInvariant, Batch, Busy
<1>4. Succeeds(Batch[idx])
  BY <1>2, <1>3, CommandsSucceed
<1>5. Ran(0, Carried(Batch[idx]))
  BY <1>4 DEF RunCommand
<1>6. failing' = failing /\ flash' = Carried(Batch[idx])
  BY <1>5 DEF Ran
<1>7. Batch' = Batch /\ InFile' = InFile /\ Memory' = Memory /\ Binary' = Binary
  BY <1>2 DEF Batch, InFile, FileSize, TestBinarySize, Memory, Binary, Class
<1>8. /\ FileSize \in 1 .. MemorySize[Memory] /\ MemorySize[Memory] \in Nat /\ Binary \in Int
  BY <1>2, BinaryTyped DEF TestsInvariant, Written, Busy
<1>9. ASSUME NEW i \in DOMAIN Batch, HasFlashed(i)', NEW a \in InFile
      PROVE  flash'[Memory][a] = Binary
  <2>1. /\ i \in 1 .. idx /\ Batch[i] = "flash"
        /\ \A j \in i + 1 .. idx : Batch[j] \notin Changing
    BY <1>2, <1>7, <1>9 DEF HasFlashed
  <2>2. CASE i = idx
    <3>1. flash' = Fill(Memory, InFile, Binary)
      BY <1>6, <2>1, <2>2 DEF Carried
    <3>2. a \in 1 .. MemorySize[Memory]
      BY <1>8 DEF InFile
    <3> QED
      BY <1>3, <1>8, <3>1, <3>2, FillTyped DEF TestsInvariant
  <2>3. CASE i # idx
    <3>1. i \in 1 .. idx - 1 /\ idx \in i + 1 .. idx
      BY <1>2, <2>1, <2>3
    <3>2. Batch[idx] \notin Changing
      BY <2>1, <3>1
    <3>3. flash' = flash
      BY <1>6, <3>2 DEF Carried, Changing
    <3>4. HasFlashed(i)
      BY <1>2, <2>1, <3>1 DEF HasFlashed
    <3> QED
      BY <1>2, <3>3, <3>4 DEF Green
  <2> QED
    BY <2>2, <2>3
<1> QED
  BY <1>2, <1>6, <1>7, <1>9 DEF Green

LEMMA GreenStart == TestInit => Green
<1> SUFFICES ASSUME TestInit PROVE Green
  OBVIOUS
<1>1. \A t \in DOMAIN plan : verdict[t] = None
  BY DEF TestInit
<1> QED
  BY <1>1 DEF TestInit, Green

\* The verdict of a method with no failures, or without a memory.
LEMMA VerdictKeepsGreen ==
    ASSUME TestsInvariant, Green, faults = 0, test \in DOMAIN plan,
           NEW v \in {"skipped", "ok", "failed", "error"}, NextTest(v),
           \/ v \in {"skipped", "ok"}
           \/ v = plan[test].otherwise /\ plan[test].memories = <<>>,
           UNCHANGED <<plan, failing>>, results' = 0
    PROVE  Green'
<1>1. /\ stage' = "setUp"
      /\ \A t \in DOMAIN plan : verdict'[t] = IF t = test THEN v ELSE verdict[t]
  BY NextTestTyped DEF TestsInvariant, TestTypeOK
<1>2. ASSUME NEW t \in DOMAIN plan
      PROVE  \/ verdict'[t] \in {None, "skipped", "ok"}
             \/ verdict'[t] = plan[t].otherwise /\ plan[t].memories = <<>>
  <2>1. CASE t = test
    BY <1>1, <2>1
  <2>2. CASE t # test
    BY <1>1, <2>2 DEF Green
  <2> QED
    BY <2>1, <2>2
<1> QED
  BY <1>1, <1>2 DEF Green

LEMMA GreenStep ==
    ASSUME TestsInvariant, Green, [TestNext]_testVars
    PROVE  Green'
<1> SUFFICES ASSUME faults' = 0 PROVE Green'
  BY DEF Green
<1> USE DEF setup, logs
<1>0. faults \in Nat
  BY DEF TestsInvariant, TestTypeOK
<1>1. CASE SetupStep
  <2>1. UNCHANGED <<plan, tests>> /\ stage' # "batch" /\ faults = 0
    BY <1>0, <1>1 DEF SetupStep, ListInterfaces, DetectNetx, ChooseNetx, Fault
  <2> QED
    BY <2>1 DEF Green, tests
<1>2. CASE SetUp
  <2>1. /\ UNCHANGED <<plan, failing, faults>> /\ results' = 0 /\ test \in DOMAIN plan
    BY <1>2, PlanLength DEF SetUp, TestsInvariant, TestTypeOK
  <2>2. CASE NextTest("skipped")
    BY <2>1, <2>2, VerdictKeepsGreen
  <2>3. CASE plan[test].memories = <<>> /\ NextTest(plan[test].otherwise)
    <3>1. plan[test].otherwise \in {"skipped", "failed"}
      BY <2>1, PlanTyped DEF TestsInvariant, TestTypeOK
    <3> QED
      BY <2>1, <2>3, <3>1, VerdictKeepsGreen
  <2>4. CASE stage' = "prepare" /\ UNCHANGED verdict
    BY <2>1, <2>4 DEF Green
  <2> QED
    BY <1>2, <2>2, <2>3, <2>4 DEF SetUp
<1>3. CASE PreTestStep
  <2>1. UNCHANGED <<plan, failing, results, verdict, faults>> /\ idx' = 1
    BY <1>3 DEF PreTestStep
  <2>2. \A i : ~HasFlashed(i)'
    BY <2>1 DEF HasFlashed
  <2> QED
    BY <2>1, <2>2 DEF Green
<1>4. CASE RunCommand
  BY <1>4, RunKeepsGreen
<1>5. CASE CommandFails
  BY <1>0, <1>5 DEF CommandFails, Fault
<1>6. CASE EvalBatchResult
  <2>1. UNCHANGED <<plan, failing, results, verdict, faults>> /\ stage' = "archive"
    BY <1>6 DEF EvalBatchResult
  <2> QED
    BY <2>1 DEF Green
<1>7. CASE ArchiveLogs
  <2>1. /\ UNCHANGED <<plan, failing, verdict>> /\ stage' \in {"prepare", "assert"} /\ stage = "archive"
        /\ results' = results + Result /\ faults = 0
    BY <1>0, <1>7 DEF ArchiveLogs, Fault
  <2>2. Result = 0
    BY <2>1, ResultTyped DEF TestsInvariant, Counted, Green
  <2> QED
    BY <2>1, <2>2 DEF Green
<1>8. CASE AssertEqual
  <2>1. UNCHANGED <<plan, failing, results, faults>> /\ test \in DOMAIN plan
    BY <1>8 DEF AssertEqual, TestsInvariant, Progress, Busy
  <2>2. results = 0
    BY <2>1 DEF Green
  <2>3. NextTest("ok")
    BY <1>8, <2>2 DEF AssertEqual
  <2> QED
    BY <2>1, <2>2, <2>3, VerdictKeepsGreen
<1>9. CASE Raise
  BY <1>0, <1>9 DEF Raise, Fault
<1>10. CASE TearDownClass
  <2>1. UNCHANGED <<plan, failing, results, verdict, faults>> /\ stage' = "done"
    BY <1>10 DEF TearDownClass
  <2> QED
    BY <2>1 DEF Green
<1>11. CASE Terminated \/ UNCHANGED testVars
  <2>1. UNCHANGED testVars
    BY <1>11 DEF Terminated
  <2> QED
    BY <2>1 DEF testVars, Green, HasFlashed, Batch, Class, InFile, FileSize, TestBinarySize, Memory, Binary
<1> QED
  BY <1>1, <1>2, <1>3, <1>4, <1>5, <1>6, <1>7, <1>8, <1>9, <1>10, <1>11 DEF TestNext, SetupStep

-----------------------------------------------------------------------------
(* What the result says                                                    *)

LEMMA FailuresReported == TestsInvariant => NoFailureLost
<1> SUFFICES ASSUME TestsInvariant PROVE NoFailureLost
  OBVIOUS
<1>1. \A f \in failing : verdict[f[1]] \in {None, "failed", "error"}
  BY DEF TestsInvariant, Noticed
<1>2. \A i \in DOMAIN jsons :
          jsons[i].result # 0 <=> <<jsons[i].test, jsons[i].run>> \in failing
  BY DEF TestsInvariant, Summarised
<1>3. ASSUME stage = "done", failing # {} PROVE ExitCode > 0
  <2>1. PICK f \in failing : TRUE
    BY <1>3
  <2>2. f[1] \in DOMAIN plan /\ f[1] < test /\ f[1] \in Nat /\ test \in Nat
    <3>1. failing \subseteq (DOMAIN plan) \X Nat /\ DOMAIN plan \subseteq Nat /\ test \in Nat
      BY PlanLength DEF TestsInvariant, TestTypeOK
    <3> QED
      BY <1>3, <2>1, <3>1 DEF TestsInvariant, Counted, Busy
  <2>3. verdict[f[1]] # None
    BY <2>2 DEF TestsInvariant, Progress
  <2>4. f[1] \in Verdicts("error") \/ f[1] \in Verdicts("failed")
    BY <1>1, <2>1, <2>2, <2>3 DEF Verdicts
  <2> QED
    BY <2>4 DEF ExitCode
<1>4. ASSUME stage = "done"
      PROVE  resultJson = Cardinality({i \in DOMAIN jsons :
                         <<jsons[i].test, jsons[i].run>> \in failing})
  <2>1. resultJson = Cardinality({i \in DOMAIN jsons : jsons[i].result # 0})
    BY <1>4 DEF TestsInvariant, Summarised
  <2>2. {i \in DOMAIN jsons : jsons[i].result # 0} =
          {i \in DOMAIN jsons : <<jsons[i].test, jsons[i].run>> \in failing}
    BY <1>2
  <2> QED
    BY <2>1, <2>2
<1> QED
  BY <1>1, <1>2, <1>3, <1>4 DEF NoFailureLost

LEMMA GreenReported == TestsInvariant /\ Green => GreenWithoutFaults
<1> SUFFICES ASSUME TestsInvariant, Green, stage = "done", faults = 0,
                    \A t \in DOMAIN plan : plan[t].memories = <<>> => plan[t].otherwise = "skipped"
             PROVE  ExitCode = 0 /\ resultJson = 0
  BY DEF GreenWithoutFaults
<1>1. \A t \in DOMAIN plan : verdict[t] \in {None, "skipped", "ok"}
  BY DEF Green
<1>2. Verdicts("error") = {} /\ Verdicts("failed") = {}
  BY <1>1 DEF Verdicts, None
<1>3. {i \in DOMAIN jsons : jsons[i].result # 0} = {}
  BY DEF TestsInvariant, Summarised, Green
<1>4. resultJson = 0
  BY <1>3, FS_EmptySet DEF TestsInvariant, Summarised
<1> QED
  BY <1>2, <1>4 DEF ExitCode

\* The values of the variables, for every board and every campaign.
THEOREM TestTypeCorrect == TestSpec => []TestTypeOK
<1>1. TestsInvariant => TestTypeOK
  BY DEF TestsInvariant
<1> QED
  BY <1>1, TestsAgree, PTL

(* No failure is lost on the way to the result, and on a board without     *)
(* faults the campaign succeeds, for every campaign on every memories.     *)
THEOREM VerdictsAreRight == TestSpec => []VerdictIsRight
<1>1. TestInit => TestsInvariant /\ Green
  BY TestStart, GreenStart
<1>2. (TestsInvariant /\ Green) /\ [TestNext]_testVars => (TestsInvariant /\ Green)'
  BY TestsKept, GreenStep
<1>3. TestsInvariant /\ Green => VerdictIsRight
  BY FailuresReported, GreenReported DEF VerdictIsRight
<1> QED
  BY <1>1, <1>2, <1>3, PTL DEF TestSpec

(* An archive holds the logs of its own test, or of one that an exception  *)
(* has cut off, or a log that could not be removed.                        *)
THEOREM ArchivesAreOwn == TestSpec => []ArchiveIsOwn
<1>1. TestsInvariant => ArchiveIsOwn
  BY DEF TestsInvariant
<1> QED
  BY <1>1, TestsAgree, PTL

-----------------------------------------------------------------------------
(* The packaging script: the version of the working copy                   *)

LEMMA SmallestIsThere ==
    ASSUME NEW T, T \subseteq Nat, T # {}
    PROVE  \E x \in T : \A y \in T : x <= y
<1> DEFINE R == {ss \in Nat \X Nat : ss[1] < ss[2]}
<1>1. IsWellFoundedOn(R, Nat)
  BY NatLessThanWellFounded, Zenon DEF OpToRel
<1>2. \A x \in Nat, y \in Nat : x < y => <<x, y>> \in R
  OBVIOUS
<1> HIDE DEF R
<1>3. PICK x \in T : \A y \in T : ~(<<y, x>> \in R)
  BY <1>1, WFMin
<1>4. ASSUME NEW y \in T PROVE x <= y
  <2>1. x \in Nat /\ y \in Nat
    OBVIOUS
  <2>2. ~ y < x
    BY <2>1, <1>2, <1>3
  <2> QED
    BY <2>1, <2>2
<1> QED
  BY <1>4

LEMMA MinIsSmallest ==
    ASSUME NEW T, T \subseteq Nat, T # {}
    PROVE  Min(T) \in T /\ Min(T) \in Nat /\ \A y \in T : Min(T) <= y
<1>1. \E x \in T : \A y \in T : x <= y
  BY SmallestIsThere
<1>2. Min(T) = CHOOSE x \in T : \A y \in T : x <= y
  BY DEF Min
<1> QED
  BY <1>1, <1>2

\* A tag is named on the commit of the tag only, and changed files show.
LEMMA VcsIdTells ==
    ASSUME NEW t \in Trees, t.readable
    PROVE  VcsId(t).dirty = t.dirty /\ (VcsId(t).name = "v1.2" => t.walk[1] = "v1.2")
<1> DEFINE tagged == {i \in DOMAIN t.walk : t.walk[i] # Nothing}
<1>1. t.walk \in Seq(Tags \cup {Nothing})
  BY PackageAssumption
<1>2. DOMAIN t.walk \subseteq Nat \ {0} /\ tagged \subseteq Nat
  BY <1>1
<1>3. Nothing \notin Tags /\ Nothing # "v1.2"
  BY PackageAssumption DEF Tags
<1>4. Describe(t) = [tag |-> IF tagged = {} THEN Nothing ELSE t.walk[Min(tagged)],
                     since |-> IF tagged = {} THEN 0 ELSE Min(tagged) - 1, dirty |-> t.dirty]
  BY DEF Describe
<1>5. VcsId(t).dirty = t.dirty
  BY <1>4 DEF VcsId
<1>6. ASSUME VcsId(t).name = "v1.2" PROVE t.walk[1] = "v1.2"
  <2>1. Describe(t).tag = "v1.2" /\ Describe(t).since = 0
    <3> DEFINE d == Describe(t)
    <3>1. VcsId(t).name = CASE d.tag = Nothing -> "hash"
                            [] d.tag = "v1.2" /\ d.since = 0 -> d.tag
                            [] d.tag = "v1.2" /\ d.since > 0 -> "hash"
                            [] OTHER -> "description"
      BY DEF VcsId
    <3> HIDE DEF d
    <3>2. d.tag = "v1.2" /\ d.since = 0
      BY <3>1, <1>3, <1>6
    <3> QED
      BY <3>2 DEF d
  <2>2. tagged # {}
    BY <2>1, <1>3, <1>4
  <2>3. Min(tagged) \in Nat
    BY <1>2, <2>2, MinIsSmallest
  <2> HIDE DEF tagged
  <2>4. t.walk[Min(tagged)] = "v1.2" /\ Min(tagged) - 1 = 0
    BY <2>1, <2>2, <1>4
  <2>5. Min(tagged) = 1
    BY <2>3, <2>4
  <2> QED
    BY <2>4, <2>5
<1> QED
  BY <1>5, <1>6

-----------------------------------------------------------------------------
(* The installation                                                        *)

\* What is left of the installations of this version, before one is unpacked.
Looked ==
    /\ phase = "mbs" => foundKind = "full"
    /\ phase = "check" => foundKind \in Kinds
    /\ phase = "check" /\ foundKind = "light" => disk[<<"full", version>>] = Absent
    /\ phase \in {"search", "light"} => \A kind \in Kinds : disk[<<kind, version>>] = Absent
    /\ phase \in {"mbs", "check", "search", "light", "extract"} => ~fresh

\* What an archive has filled its folder with so far.
Filled == disk[<<file.kind, file.root>>]

Unpacking ==
    phase \in {"extract", "validate"} =>
        /\ file \in Archives /\ foundKind = file.kind /\ unpacked \in 0 .. LastMember
        /\ file.root # version => \A kind \in Kinds : disk[<<kind, version>>] = Absent
        /\ \A i \in 1 .. unpacked : file.members[i] \in Members /\ file.members[i] \in Filled.has
        /\ \A i \in 1 .. unpacked : file.members[i] = "tool" => Filled.reports = file.reports
        /\ calm => Sound(file)

AllUnpacked == phase = "validate" => unpacked = LastMember

Named == id # Nothing => id = VcsId(tree)

PackageInvariant ==
    /\ PackageTypeOK /\ Looked /\ Unpacking /\ AllUnpacked /\ Named
    /\ InstalledIsUsable /\ UndisturbedInstalls

LEMMA ArchiveFacts ==
    ASSUME NEW a \in Archives
    PROVE  /\ a.kind \in Kinds /\ a.root \in Versions /\ a.reports \in Versions
           /\ a.members \in Layouts /\ a.members \in Seq(Members \cup {"outside"})
           /\ Len(a.members) \in Nat /\ DOMAIN a.members = 1 .. Len(a.members)
           /\ a.whole \in 0 .. Len(a.members)
<1>1. /\ a.kind \in Kinds /\ a.root \in Versions /\ a.reports \in Versions
      /\ a.members \in Layouts /\ a.whole \in 0 .. Len(a.members)
  BY DEF Archives
<1>2. a.members \in Seq(Members \cup {"outside"})
  BY <1>1, PackageAssumption
<1> QED
  BY <1>1, <1>2

\* An archive that is unpacked to the end has all parts of the tool.
LEMMA AllThere ==
    ASSUME NEW a \in Archives, \A i \in 1 .. Len(a.members) : a.members[i] \in Members
    PROVE  \A m \in Members : \E i \in 1 .. Len(a.members) : a.members[i] = m
<1>1. a.members \in Layouts /\ DOMAIN a.members = 1 .. Len(a.members)
  BY ArchiveFacts
<1>2. "outside" \notin Members
  BY DEF Members
<1>3. "outside" \in Range(a.members) \/ Members \subseteq Range(a.members)
  BY <1>1, PackageAssumption
<1>4. "outside" \notin Range(a.members)
  BY <1>1, <1>2 DEF Range
<1> QED
  BY <1>1, <1>3, <1>4 DEF Range

LEMMA NothingIsNone ==
    /\ Nothing \notin InstalledParts /\ Nothing # "outside" /\ Nothing # Raised /\ Nothing \notin Kinds \X Versions
    /\ "tool" \notin Absent.has
  BY PackageAssumption DEF InstalledParts, Members, Tools, Absent

LEMMA PackageStart == PackageInit => PackageInvariant
<1> SUFFICES ASSUME PackageInit PROVE PackageInvariant
  OBVIOUS
<1>1. PackageTypeOK
  BY DEF PackageInit, PackageTypeOK, Absent
<1>2. Looked /\ Unpacking /\ AllUnpacked /\ Named
  BY DEF PackageInit, Looked, Unpacking, AllUnpacked, Named
<1>3. InstalledIsUsable
  BY DEF PackageInit, InstalledIsUsable, CommandUsable, UnpackedIsWhole
<1>4. UndisturbedInstalls
  BY NothingIsNone DEF PackageInit, UndisturbedInstalls
<1> QED
  BY <1>1, <1>2, <1>3, <1>4 DEF PackageInvariant

LEMMA StartScriptKeeps ==
    ASSUME PackageInvariant, StartScript
    PROVE  PackageInvariant'
<1>1. /\ phase = "idle" /\ calm' = TRUE /\ fresh' = FALSE /\ cmd' = Nothing /\ file' = Nothing
      /\ unpacked' = 0 /\ calls' = calls + 1
      /\ UNCHANGED <<host, disk, local, cmdFile, mishaps>>
      /\ tree' \in Trees /\ version' \in Versions
  BY DEF StartScript
<1>2. \/ /\ id' = VcsId(tree') /\ foundKind' = "full" /\ phase' = "mbs" /\ exit' = Nothing
      \/ /\ id' = Nothing /\ target' = Nothing /\ foundKind' = Nothing
         /\ phase' = "idle" /\ exit' = Raised
  BY DEF StartScript, ExitWith, Goto
<1>3. PackageTypeOK'
  <2>1. phase' \in {"idle", "mbs"} /\ foundKind' \in Kinds \cup {Nothing} /\ exit' \in {Nothing, Raised}
    BY <1>2 DEF Kinds
  <2>2. calls' \in Nat /\ mishaps' \in Nat /\ unpacked' \in Nat
    BY <1>1 DEF PackageInvariant, PackageTypeOK
  <2>3. calm' \in BOOLEAN /\ fresh' \in BOOLEAN
    BY <1>1, Zenon
  <2> QED
    BY <1>1, <2>1, <2>2, <2>3 DEF PackageInvariant, PackageTypeOK
<1>4. Looked' /\ Unpacking' /\ AllUnpacked'
  BY <1>1, <1>2 DEF Looked, Unpacking, AllUnpacked
<1>5. Named'
  BY <1>2 DEF Named
<1>6. InstalledIsUsable'
  BY <1>1, <1>2 DEF InstalledIsUsable, CommandUsable, UnpackedIsWhole
<1>7. UndisturbedInstalls'
  BY <1>1, <1>2, NothingIsNone DEF UndisturbedInstalls
<1> QED
  BY <1>3, <1>4, <1>5, <1>6, <1>7 DEF PackageInvariant

\* A step after which no command is handed out, nothing is unpacked, and the end of which is
\* no fault of the script.
LEMMA StepAside ==
    ASSUME PackageInvariant, PackageTypeOK', Looked',
           phase' \notin {"extract", "validate", "run"},
           UNCHANGED <<tree, id>>,
           calm' /\ exit' = Raised =>
               target' = Nothing \/ ~host'.lua \/ (cmd' # Nothing /\ cmd'[1] = "light") \/ HalfTool'
    PROVE  PackageInvariant'
<1>1. Unpacking' /\ AllUnpacked'
  BY DEF Unpacking, AllUnpacked
<1>2. Named'
  BY DEF PackageInvariant, Named
<1>3. InstalledIsUsable' /\ UndisturbedInstalls'
  BY DEF InstalledIsUsable, CommandUsable, UnpackedIsWhole, UndisturbedInstalls
<1> QED
  BY <1>1, <1>2, <1>3 DEF PackageInvariant

LEMMA BuildKeeps ==
    ASSUME PackageInvariant, Build
    PROVE  PackageInvariant'
<1>1. /\ phase = "mbs" /\ UNCHANGED <<host, settings, disk, local, file, unpacked, foundKind,
                                     cmd, cmdFile, calls, fresh>>
      /\ \/ phase' = "check" /\ exit' = Nothing /\ UNCHANGED <<mishaps, calm>>
         \/ phase' = "idle" /\ exit' = Raised /\ mishaps' = mishaps + 1 /\ calm' = FALSE
  BY DEF Build, Goto, ExitWith, Mishap, NoMishap
<1>2. PackageTypeOK'
  <2>1. phase' \in {"idle", "check"} /\ exit' \in {Nothing, Raised}
    BY <1>1
  <2>2. mishaps' \in Nat
    BY <1>1 DEF PackageInvariant, PackageTypeOK
  <2>3. calm' \in BOOLEAN
    BY <1>1, Zenon DEF PackageInvariant, PackageTypeOK
  <2> QED
    BY <1>1, <2>1, <2>2, <2>3 DEF PackageInvariant, PackageTypeOK, settings
<1>3. Looked'
  BY <1>1 DEF PackageInvariant, Looked, settings, Kinds
<1>4. phase' \notin {"extract", "validate", "run"} /\ ~(calm' /\ exit' = Raised)
  BY <1>1, NothingIsNone
<1> QED
  BY <1>1, <1>2, <1>3, <1>4, StepAside DEF settings

\* A removed folder is gone, and the others stay.
LEMMA RemovedTyped ==
    ASSUME PackageTypeOK, foundKind \in Kinds
    PROVE  /\ FolderRemoved \in [Kinds \X Versions ->
                     [has : SUBSET (InstalledParts \cup {Nothing}), reports : Versions \cup {Nothing}]]
           /\ \A kind \in Kinds : FolderRemoved[<<kind, version>>] =
                 IF kind = foundKind THEN Absent ELSE disk[<<kind, version>>]
<1>1. version \in Versions /\ <<foundKind, version>> \in Kinds \X Versions
  BY DEF PackageTypeOK
<1>2. Absent \in [has : SUBSET (InstalledParts \cup {Nothing}), reports : Versions \cup {Nothing}]
  BY DEF Absent
<1>3. FolderRemoved \in [Kinds \X Versions ->
                     [has : SUBSET (InstalledParts \cup {Nothing}), reports : Versions \cup {Nothing}]]
  BY <1>1, <1>2 DEF PackageTypeOK, FolderRemoved
<1>4. ASSUME NEW kind \in Kinds
      PROVE  FolderRemoved[<<kind, version>>] =
                 IF kind = foundKind THEN Absent ELSE disk[<<kind, version>>]
  BY <1>1 DEF PackageTypeOK, FolderRemoved
<1> QED
  BY <1>3, <1>4

LEMMA CheckKeeps ==
    ASSUME PackageInvariant, Check
    PROVE  PackageInvariant'
<1>1. /\ phase = "check" /\ foundKind \in Kinds /\ ~fresh /\ version \in Versions
      /\ UNCHANGED <<host, settings, local, file, unpacked, history>>
  BY DEF Check, PackageInvariant, PackageTypeOK, Looked
<1> USE DEF settings, history
<1>2. PICK answer \in PossibleAnswers :
         IF ToolMatches(answer) THEN Takes /\ Goto("run") /\ UNCHANGED foundKind
         ELSE /\ Drops
              /\ IF foundKind = "full" THEN foundKind' = "light" /\ Goto("check")
                 ELSE foundKind' = Nothing /\ Goto("search")
  BY DEF Check
<1>3. CASE ToolMatches(answer)
  <2>1. /\ cmd' = <<foundKind, version>> /\ cmdFile' = cmd' /\ UNCHANGED <<disk, foundKind>>
        /\ phase' = "run" /\ exit' = Nothing
    BY <1>2, <1>3 DEF Takes, Goto
  <2>2. PackageTypeOK'
    BY <1>1, <2>1 DEF PackageInvariant, PackageTypeOK
  <2>3. Looked' /\ Unpacking' /\ AllUnpacked'
    BY <2>1 DEF Looked, Unpacking, AllUnpacked
  <2>4. Named'
    BY <1>1 DEF PackageInvariant, Named
  <2>5. InstalledIsUsable'
    <3>1. CommandUsable'
      BY <1>1, <1>3, <2>1 DEF CommandUsable, ToolMatches, Folder
    <3>2. UnpackedIsWhole'
      BY <1>1 DEF UnpackedIsWhole
    <3> QED
      BY <3>1, <3>2 DEF InstalledIsUsable
  <2>6. UndisturbedInstalls'
    <3>1. cmd' # Nothing /\ exit' # Raised
      BY <1>1, <2>1, NothingIsNone
    <3> QED
      BY <3>1 DEF UndisturbedInstalls
  <2> QED
    BY <2>2, <2>3, <2>4, <2>5, <2>6 DEF PackageInvariant
<1>4. CASE ~ToolMatches(answer)
  <2>1. /\ cmd' = Nothing /\ UNCHANGED cmdFile /\ disk' = FolderRemoved /\ exit' = Nothing
        /\ \/ foundKind = "full" /\ foundKind' = "light" /\ phase' = "check"
           \/ foundKind # "full" /\ foundKind' = Nothing /\ phase' = "search"
    BY <1>2, <1>4 DEF Drops, Goto
  <2>2. PackageTypeOK'
    BY <1>1, <2>1, RemovedTyped DEF PackageInvariant, PackageTypeOK, Kinds
  <2>3. Looked'
    <3>1. \A kind \in Kinds : disk'[<<kind, version>>] =
                 IF kind = foundKind THEN Absent ELSE disk[<<kind, version>>]
      BY <1>1, <2>1, RemovedTyped DEF PackageInvariant
    <3>2. CASE foundKind = "full"
      BY <1>1, <2>1, <3>1, <3>2 DEF Looked, Kinds
    <3>3. CASE foundKind # "full"
      <4>1. foundKind = "light" /\ disk[<<"full", version>>] = Absent
        BY <1>1, <3>3 DEF PackageInvariant, Looked, Kinds
      <4>2. \A kind \in Kinds : disk'[<<kind, version>>] = Absent
        BY <3>1, <4>1 DEF Kinds
      <4> QED
        BY <1>1, <2>1, <3>3, <4>2 DEF Looked
    <3> QED
      BY <3>2, <3>3
  <2>4. phase' \notin {"extract", "validate", "run"} /\ exit' # Raised
    BY <2>1, NothingIsNone
  <2> QED
    BY <1>1, <2>2, <2>3, <2>4, StepAside
<1> QED
  BY <1>3, <1>4

\* What an unpacked archive has left of the version asked for.
LEMMA WhatIsUnpacked ==
    ASSUME PackageInvariant, phase = "validate"
    PROVE  /\ foundKind \in Kinds /\ version \in Versions
           /\ "tool" \in Folder.has => Members \subseteq Folder.has
           /\ calm => "tool" \in Folder.has /\ Folder.reports = version /\ Members \subseteq Folder.has
<1>1. /\ file \in Archives /\ foundKind = file.kind /\ unpacked = Len(file.members)
      /\ version \in Versions
      /\ file.root # version => \A kind \in Kinds : disk[<<kind, version>>] = Absent
      /\ \A i \in 1 .. unpacked : file.members[i] \in Members /\ file.members[i] \in Filled.has
      /\ \A i \in 1 .. unpacked : file.members[i] = "tool" => Filled.reports = file.reports
      /\ calm => Sound(file)
  BY DEF PackageInvariant, PackageTypeOK, Unpacking, AllUnpacked, LastMember
<1>2. foundKind \in Kinds
  BY <1>1, ArchiveFacts
<1>3. \A m \in Members : \E i \in 1 .. unpacked : file.members[i] = m
  BY <1>1, AllThere
<1>4. Members \subseteq Filled.has /\ Filled.reports = file.reports /\ "tool" \in Members
  BY <1>1, <1>3 DEF Members
<1>5. file.root = version => Folder = Filled
  BY <1>1 DEF Folder, Filled
<1>6. "tool" \in Folder.has => file.root = version
  BY <1>1, <1>2, NothingIsNone DEF Folder
<1>7. calm => file.root = version /\ file.reports = version
  BY <1>1 DEF Sound
<1> QED
  BY <1>1, <1>2, <1>4, <1>5, <1>6, <1>7

LEMMA ValidateKeeps ==
    ASSUME PackageInvariant, Validate
    PROVE  PackageInvariant'
<1>1. /\ phase = "validate" /\ phase' = "run" /\ exit' = Nothing
      /\ UNCHANGED <<host, settings, local, file, unpacked, history>>
  BY DEF Validate, Goto
<1>2. /\ foundKind \in Kinds /\ version \in Versions
      /\ "tool" \in Folder.has => Members \subseteq Folder.has
      /\ calm => "tool" \in Folder.has /\ Folder.reports = version /\ Members \subseteq Folder.has
  BY <1>1, WhatIsUnpacked
<1> USE DEF settings, history
<1>3. PICK answer \in PossibleAnswers :
         IF ToolMatches(answer) THEN Takes /\ UNCHANGED foundKind
         ELSE Drops /\ foundKind' = Nothing
  BY DEF Validate
<1>4. Looked' /\ Unpacking' /\ AllUnpacked' /\ Named'
  BY <1>1 DEF PackageInvariant, Looked, Unpacking, AllUnpacked, Named
<1>5. CASE ToolMatches(answer)
  <2>1. cmd' = <<foundKind, version>> /\ cmdFile' = cmd' /\ UNCHANGED <<disk, foundKind>>
    BY <1>3, <1>5 DEF Takes
  <2>2. PackageTypeOK'
    BY <1>1, <1>2, <2>1 DEF PackageInvariant, PackageTypeOK
  <2>3. "tool" \in Folder.has /\ Folder.reports = version /\ disk'[cmd'] = Folder
    BY <1>5, <2>1 DEF ToolMatches, Folder
  <2>4. InstalledIsUsable'
    BY <1>1, <1>2, <2>1, <2>3 DEF InstalledIsUsable, CommandUsable, UnpackedIsWhole
  <2>5. UndisturbedInstalls'
    <3>1. cmd' # Nothing /\ exit' # Raised
      BY <1>1, <1>2, <2>1, NothingIsNone
    <3> QED
      BY <3>1 DEF UndisturbedInstalls
  <2> QED
    BY <1>4, <2>2, <2>4, <2>5 DEF PackageInvariant
<1>6. CASE ~ToolMatches(answer)
  <2>1. cmd' = Nothing /\ UNCHANGED cmdFile /\ disk' = FolderRemoved /\ foundKind' = Nothing
    BY <1>3, <1>6 DEF Drops
  <2>2. PackageTypeOK'
    BY <1>1, <1>2, <2>1, RemovedTyped DEF PackageInvariant, PackageTypeOK
  <2>3. InstalledIsUsable'
    BY <2>1 DEF InstalledIsUsable, CommandUsable, UnpackedIsWhole
  <2>4. ~calm
    <3>1. calm => answer
      BY <1>2 DEF PossibleAnswers
    <3> QED
      BY <1>2, <1>6, <3>1 DEF ToolMatches
  <2>5. UndisturbedInstalls'
    BY <1>1, <2>4 DEF UndisturbedInstalls
  <2> QED
    BY <1>4, <2>2, <2>3, <2>5 DEF PackageInvariant
<1> QED
  BY <1>5, <1>6

LEMMA CheckRaisesKeeps ==
    ASSUME PackageInvariant, CheckRaises
    PROVE  PackageInvariant'
<1>1. /\ phase' = "idle" /\ exit' = Raised
      /\ UNCHANGED <<host, settings, disk, local, file, unpacked, foundKind, cmd, cmdFile, history>>
  BY DEF CheckRaises, ExitWith
<1>2. PackageTypeOK' /\ Looked'
  BY <1>1 DEF PackageInvariant, PackageTypeOK, Looked, settings, history
<1>3. ~host.lua \/ HalfTool
  BY DEF CheckRaises, PerhapsNotStarted, NotStarted, NoInterpreter, IsProgram, HalfTool, Folder
<1>4. ~host'.lua \/ HalfTool'
  BY <1>1, <1>3 DEF HalfTool, Detect, settings
<1> QED
  BY <1>1, <1>2, <1>4, StepAside DEF settings

\* An archive is chosen: nothing of it is unpacked yet.
LEMMA ChosenKeeps ==
    ASSUME PackageInvariant, phase \in {"search", "light"}, NEW a \in Archives, Use(a),
           Goto("extract"),
           UNCHANGED <<host, settings, disk, local, cmd, cmdFile, calls, fresh>>
    PROVE  PackageInvariant'
<1>1. /\ phase' = "extract" /\ exit' = Nothing
      /\ file' = a /\ foundKind' = a.kind /\ unpacked' = 0
      /\ mishaps' \in Nat /\ calm' \in BOOLEAN /\ (calm' => Sound(a))
  <2>1. mishaps' \in Nat
    BY DEF Use, Mishap, NoMishap, PackageInvariant, PackageTypeOK
  <2>2. calm' \in BOOLEAN
    BY Zenon DEF Use, Mishap, NoMishap, PackageInvariant, PackageTypeOK
  <2>3. calm' => Sound(a)
    BY DEF Use, Mishap
  <2> QED
    BY <2>1, <2>2, <2>3 DEF Goto, Use
<1> USE DEF settings
<1>2. PackageTypeOK'
  BY <1>1, ArchiveFacts DEF PackageInvariant, PackageTypeOK
<1>3. Looked' /\ AllUnpacked' /\ Named'
  BY <1>1 DEF PackageInvariant, Looked, AllUnpacked, Named
<1>4. Unpacking'
  <2>1. \A kind \in Kinds : disk'[<<kind, version'>>] = Absent
    BY DEF PackageInvariant, Looked
  <2>2. Len(a.members) \in Nat /\ 0 \in 0 .. Len(a.members) /\ 1 .. 0 = {}
    BY ArchiveFacts
  <2>3. calm' => Sound(file)'
    BY <1>1 DEF Sound
  <2> QED
    BY <1>1, <2>1, <2>2, <2>3 DEF Unpacking, LastMember
<1>5. InstalledIsUsable' /\ UndisturbedInstalls'
  BY <1>1, NothingIsNone DEF InstalledIsUsable, CommandUsable, UnpackedIsWhole, UndisturbedInstalls
<1> QED
  BY <1>2, <1>3, <1>4, <1>5 DEF PackageInvariant

LEMMA FindLocalKeeps ==
    ASSUME PackageInvariant, FindLocal
    PROVE  PackageInvariant'
<1>1. PICK a \in Archives : Use(a)
  BY DEF FindLocal
<1>2. /\ phase = "search" /\ Goto("extract")
      /\ UNCHANGED <<host, settings, disk, local, cmd, cmdFile, calls, fresh>>
  BY DEF FindLocal
<1> QED
  BY <1>1, <1>2, ChosenKeeps

LEMMA DownloadFullKeeps ==
    ASSUME PackageInvariant, DownloadFull
    PROVE  PackageInvariant'
<1>1. /\ phase = "search"
      /\ UNCHANGED <<host, settings, disk, local, cmd, cmdFile, calls, fresh>>
  BY DEF DownloadFull
<1>2. CASE DownloadToFile("full") /\ Goto("extract")
  <2>1. PICK a \in Archives : Use(a)
    BY <1>2 DEF DownloadToFile
  <2> QED
    BY <1>1, <1>2, <2>1, ChosenKeeps
<1>3. CASE /\ IF Offered("full") THEN Mishap ELSE NoMishap
           /\ Goto("light") /\ UNCHANGED <<file, foundKind, unpacked>>
  <2>1. phase' = "light" /\ exit' = Nothing
    BY <1>3 DEF Goto
  <2>2. mishaps' \in Nat
    BY <1>3 DEF Mishap, NoMishap, PackageInvariant, PackageTypeOK
  <2>5. calm' \in BOOLEAN
    BY <1>3, Zenon DEF Mishap, NoMishap, PackageInvariant, PackageTypeOK
  <2>3. PackageTypeOK'
    BY <1>1, <1>3, <2>1, <2>2, <2>5 DEF PackageInvariant, PackageTypeOK, settings
  <2>4. Looked'
    BY <1>1, <1>3, <2>1 DEF PackageInvariant, Looked, settings
  <2> QED
    BY <1>1, <2>1, <2>3, <2>4, NothingIsNone, StepAside DEF settings
<1>4. CASE Mishap /\ ExitWith(Raised) /\ UNCHANGED <<file, foundKind, unpacked>>
  <2>1. phase' = "idle" /\ exit' = Raised /\ calm' = FALSE
    BY <1>4 DEF ExitWith, Mishap
  <2>2. mishaps' \in Nat
    BY <1>4 DEF Mishap, PackageInvariant, PackageTypeOK
  <2>3. PackageTypeOK'
    BY <1>1, <1>4, <2>1, <2>2 DEF PackageInvariant, PackageTypeOK, settings
  <2>4. Looked'
    BY <1>1, <1>4, <2>1 DEF PackageInvariant, Looked, settings
  <2> QED
    BY <1>1, <2>1, <2>3, <2>4, StepAside DEF settings
<1> QED
  BY <1>2, <1>3, <1>4 DEF DownloadFull

LEMMA DownloadLightKeeps ==
    ASSUME PackageInvariant, DownloadLight
    PROVE  PackageInvariant'
<1>1. /\ phase = "light"
      /\ UNCHANGED <<host, settings, disk, local, cmd, cmdFile, calls, fresh>>
  BY DEF DownloadLight
<1>2. CASE DownloadToFile("light") /\ Goto("extract")
  <2>1. PICK a \in Archives : Use(a)
    BY <1>2 DEF DownloadToFile
  <2> QED
    BY <1>1, <1>2, <2>1, ChosenKeeps
<1>3. CASE Mishap /\ ExitWith(Raised) /\ UNCHANGED <<file, foundKind, unpacked>>
  <2>1. phase' = "idle" /\ exit' = Raised /\ calm' = FALSE
    BY <1>3 DEF ExitWith, Mishap
  <2>2. mishaps' \in Nat
    BY <1>3 DEF Mishap, PackageInvariant, PackageTypeOK
  <2>3. PackageTypeOK'
    BY <1>1, <1>3, <2>1, <2>2 DEF PackageInvariant, PackageTypeOK, settings
  <2>4. Looked'
    BY <1>1, <1>3, <2>1 DEF PackageInvariant, Looked, settings
  <2> QED
    BY <1>1, <2>1, <2>3, <2>4, StepAside DEF settings
<1> QED
  BY <1>2, <1>3 DEF DownloadLight

-----------------------------------------------------------------------------
(* Unpacking                                                               *)

\* What a member that is unpacked changes in its folder, and nothing else.
LEMMA MemberUnpacked ==
    ASSUME PackageTypeOK, file \in Archives, NEW member \in InstalledParts
    PROVE  /\ Extracted(member) \in [Kinds \X Versions ->
                     [has : SUBSET (InstalledParts \cup {Nothing}), reports : Versions \cup {Nothing}]]
           /\ \A f \in Kinds \X Versions :
                 f # <<file.kind, file.root>> => Extracted(member)[f] = disk[f]
           /\ Extracted(member)[<<file.kind, file.root>>].has =
                 ((Filled.has \ {Nothing}) \ IF member \in Tools THEN Tools ELSE {})
                     \cup {member}
           /\ Extracted(member)[<<file.kind, file.root>>].reports =
                 IF member = "tool" THEN file.reports ELSE Filled.reports
<1> DEFINE Folders == [has : SUBSET (InstalledParts \cup {Nothing}), reports : Versions \cup {Nothing}]
           place == <<file.kind, file.root>>
           new == [has |-> ((Filled.has \ {Nothing}) \ IF member \in Tools THEN Tools ELSE {})
                              \cup {member},
                   reports |-> IF member = "tool" THEN file.reports ELSE Filled.reports]
<1>1. place \in Kinds \X Versions /\ file.reports \in Versions
  BY ArchiveFacts
<1>2. disk \in [Kinds \X Versions -> Folders]
  BY DEF PackageTypeOK
<1>3. Filled \in Folders
  BY <1>1, <1>2 DEF Filled
<1>4. Filled.has \in SUBSET (InstalledParts \cup {Nothing}) /\ Filled.reports \in Versions \cup {Nothing}
  BY <1>3
<1>5. new \in Folders
  BY <1>1, <1>4
<1>6. Extracted(member) = [disk EXCEPT ![place] = new]
  BY DEF Extracted, Filled
<1>7. /\ new.reports = IF member = "tool" THEN file.reports ELSE Filled.reports
      /\ new.has = ((Filled.has \ {Nothing}) \ IF member \in Tools THEN Tools ELSE {})
                     \cup {member}
  OBVIOUS
<1> HIDE DEF new, Folders
<1>8. Extracted(member) \in [Kinds \X Versions -> Folders]
  BY <1>1, <1>2, <1>5, <1>6
<1>9. Extracted(member)[place] = new
  BY <1>1, <1>2, <1>6
<1>10. \A f \in Kinds \X Versions : f # place => Extracted(member)[f] = disk[f]
  BY <1>1, <1>2, <1>6
<1> QED
  BY <1>7, <1>8, <1>9, <1>10 DEF Folders

LEMMA BegunTyped ==
    ASSUME PackageTypeOK, file \in Archives, NEW member
    PROVE  Begun(member) \in [Kinds \X Versions ->
                     [has : SUBSET (InstalledParts \cup {Nothing}), reports : Versions \cup {Nothing}]]
<1> DEFINE Folders == [has : SUBSET (InstalledParts \cup {Nothing}), reports : Versions \cup {Nothing}]
           place == <<file.kind, file.root>>
<1>1. CASE member = "tool"
  <2>1. "torn" \in InstalledParts /\ "cut" \in InstalledParts
    BY DEF InstalledParts, Tools
  <2>2. Begun(member) = Extracted("torn") \/ Begun(member) = Extracted("cut")
    BY <1>1 DEF Begun
  <2>3. Extracted("torn") \in [Kinds \X Versions ->
                [has : SUBSET (InstalledParts \cup {Nothing}), reports : Versions \cup {Nothing}]]
    BY <2>1, MemberUnpacked
  <2>4. Extracted("cut") \in [Kinds \X Versions ->
                [has : SUBSET (InstalledParts \cup {Nothing}), reports : Versions \cup {Nothing}]]
    BY <2>1, MemberUnpacked
  <2> QED
    BY <2>2, <2>3, <2>4
<1>2. CASE member # "tool"
  <2>1. place \in Kinds \X Versions
    BY ArchiveFacts
  <2>2. disk \in [Kinds \X Versions -> Folders]
    BY DEF PackageTypeOK
  <2>3. disk[place] \in Folders
    BY <2>1, <2>2
  <2> DEFINE new == [disk[place] EXCEPT !.has = @ \ {Nothing, member}]
  <2>4. new \in Folders
    BY <2>3
  <2>5. Begun(member) = [disk EXCEPT ![place] = new]
    BY <1>2 DEF Begun
  <2> HIDE DEF new, place, Folders
  <2>6. Begun(member) \in [Kinds \X Versions -> Folders]
    BY <2>1, <2>2, <2>4, <2>5
  <2> QED
    BY <2>6 DEF Folders
<1> QED
  BY <1>1, <1>2

LEMMA ExtractMemberKeeps ==
    ASSUME PackageInvariant, ExtractMember
    PROVE  PackageInvariant'
<1> DEFINE m == file.members[unpacked + 1]
<1>1. /\ phase = "extract" /\ phase' = "extract" /\ exit' = Nothing /\ ~NameRefused
      /\ disk' = Extracted(m) /\ unpacked' = unpacked + 1 /\ unpacked < LastMember
      /\ UNCHANGED <<host, settings, local, file, foundKind, cmd, cmdFile, history>>
  BY DEF ExtractMember, Goto
<1> USE DEF settings, history
<1>2. /\ file \in Archives /\ foundKind = file.kind /\ unpacked \in Nat
      /\ Len(file.members) \in Nat /\ LastMember = Len(file.members)
      /\ DOMAIN file.members = 1 .. Len(file.members)
      /\ \A i \in 1 .. Len(file.members) : file.members[i] \in Members \cup {"outside"}
      /\ <<file.kind, file.root>> \in Kinds \X Versions /\ version \in Versions
  <2>1. file \in Archives /\ foundKind = file.kind /\ unpacked \in Nat /\ version \in Versions
    BY <1>1 DEF PackageInvariant, Unpacking, PackageTypeOK
  <2> QED
    BY <2>1, ArchiveFacts DEF LastMember
<1>3. m \in Members
  <2>1. unpacked + 1 \in 1 .. Len(file.members) /\ unpacked + 1 \in DOMAIN file.members
    BY <1>1, <1>2
  <2>2. m # "outside"
    BY <1>1, <2>1 DEF NameRefused
  <2> QED
    BY <1>2, <2>1, <2>2
<1>4. m \in InstalledParts /\ m # Nothing
  BY <1>3, NothingIsNone DEF InstalledParts
<1> HIDE DEF m
<1>5. PackageTypeOK'
  <2>1. disk' \in [Kinds \X Versions ->
                     [has : SUBSET (InstalledParts \cup {Nothing}), reports : Versions \cup {Nothing}]]
    BY <1>1, <1>2, <1>4, MemberUnpacked DEF PackageInvariant
  <2> QED
    BY <1>1, <1>2, <2>1 DEF PackageInvariant, PackageTypeOK
<1>6. Looked' /\ AllUnpacked' /\ Named'
  BY <1>1 DEF PackageInvariant, Looked, AllUnpacked, Named
<1>7. /\ Filled'.has = ((Filled.has \ {Nothing}) \ IF m \in Tools THEN Tools ELSE {})
                            \cup {m}
      /\ Filled'.reports = IF m = "tool" THEN file.reports ELSE Filled.reports
  BY <1>1, <1>2, <1>4, MemberUnpacked DEF PackageInvariant, Filled
<1>8. Unpacking'
  <2>1. unpacked' \in 0 .. LastMember' /\ file' \in Archives /\ foundKind' = file'.kind
    BY <1>1, <1>2 DEF LastMember
  <2>2. ASSUME file'.root # version' PROVE \A kind \in Kinds : disk'[<<kind, version'>>] = Absent
    <3>1. ASSUME NEW kind \in Kinds PROVE disk'[<<kind, version>>] = Absent
      <4>1. disk[<<kind, version>>] = Absent
        BY <1>1, <2>2 DEF PackageInvariant, Unpacking
      <4>2. <<kind, version>> # <<file.kind, file.root>> /\ <<kind, version>> \in Kinds \X Versions
        BY <1>1, <1>2, <2>2
      <4> QED
        BY <1>1, <1>2, <1>4, <4>1, <4>2, MemberUnpacked DEF PackageInvariant
    <3> QED
      BY <1>1, <3>1
  <2>3. ASSUME NEW i \in 1 .. unpacked'
        PROVE  /\ file.members[i] \in Members /\ file.members[i] \in Filled'.has
               /\ file.members[i] = "tool" => Filled'.reports = file.reports
    <3>1. i \in 1 .. unpacked \/ i = unpacked + 1
      BY <1>1, <1>2
    <3>2. CASE i = unpacked + 1
      BY <3>2, <1>3, <1>7 DEF m
    <3>3. CASE i \in 1 .. unpacked
      <4>1. /\ file.members[i] \in Members /\ file.members[i] \in Filled.has
            /\ file.members[i] = "tool" => Filled.reports = file.reports
        BY <1>1, <3>3 DEF PackageInvariant, Unpacking
      <4>2. file.members[i] # Nothing /\ file.members[i] \notin Tools \ {"tool"}
        BY <4>1, NothingIsNone DEF InstalledParts, Members, Tools
      <4>3. file.members[i] \in Filled'.has
        BY <4>1, <4>2, <1>3, <1>7 DEF Members, Tools
      <4> QED
        BY <4>1, <4>3, <1>7
    <3> QED
      BY <3>1, <3>2, <3>3
  <2>4. calm' => Sound(file)'
    BY <1>1 DEF PackageInvariant, Unpacking, Sound
  <2> QED
    BY <1>1, <2>1, <2>2, <2>3, <2>4 DEF Unpacking
<1>9. InstalledIsUsable' /\ UndisturbedInstalls'
  BY <1>1, NothingIsNone DEF InstalledIsUsable, CommandUsable, UnpackedIsWhole, UndisturbedInstalls
<1> QED
  BY <1>5, <1>6, <1>8, <1>9 DEF PackageInvariant

\* A sound archive is unpacked to its end.
LEMMA SoundIsUnpacked ==
    ASSUME PackageInvariant, phase = "extract", unpacked < LastMember, calm
    PROVE  ~Cut /\ ~NameRefused
<1>1. /\ file \in Archives /\ unpacked \in Nat /\ Sound(file)
  BY DEF PackageInvariant, Unpacking, PackageTypeOK
<1>2. /\ Len(file.members) \in Nat /\ DOMAIN file.members = 1 .. Len(file.members)
      /\ file.whole = Len(file.members)
      /\ \A i \in 1 .. Len(file.members) : file.members[i] # "outside"
  BY <1>1, ArchiveFacts DEF Sound, Members
<1>3. ~Cut
  BY <1>1, <1>2 DEF Cut, LastMember
<1>4. unpacked + 1 \in 1 .. Len(file.members)
  BY <1>1, <1>2 DEF LastMember
<1>5. ~NameRefused
  BY <1>2, <1>4 DEF NameRefused
<1> QED
  BY <1>3, <1>5

LEMMA ExtractRaisesKeeps ==
    ASSUME PackageInvariant, ExtractRaises
    PROVE  PackageInvariant'
<1>1. /\ phase = "extract" /\ phase' = "idle" /\ exit' = Raised /\ ~calm
      /\ UNCHANGED <<host, settings, local, file, unpacked, foundKind, cmd, cmdFile, history>>
      /\ disk' = disk \/ disk' = Begun(file.members[unpacked + 1])
  BY SoundIsUnpacked DEF ExtractRaises, ExitWith
<1>2. disk' \in [Kinds \X Versions ->
                     [has : SUBSET (InstalledParts \cup {Nothing}), reports : Versions \cup {Nothing}]]
  <2>1. file \in Archives
    BY <1>1 DEF PackageInvariant, Unpacking
  <2> QED
    BY <1>1, <2>1, BegunTyped DEF PackageInvariant, PackageTypeOK
<1>3. PackageTypeOK'
  BY <1>1, <1>2 DEF PackageInvariant, PackageTypeOK, settings, history
<1>4. Looked'
  BY <1>1 DEF Looked
<1> QED
  BY <1>1, <1>3, <1>4, StepAside DEF settings, history

LEMMA ExtractDoneKeeps ==
    ASSUME PackageInvariant, ExtractDone
    PROVE  PackageInvariant'
<1>1. /\ phase = "extract" /\ phase' = "validate" /\ exit' = Nothing /\ fresh' = TRUE
      /\ unpacked = LastMember
      /\ UNCHANGED <<host, settings, disk, local, file, unpacked, foundKind, cmd, cmdFile,
                     calls, mishaps, calm>>
  BY DEF ExtractDone, Goto
<1> USE DEF settings
<1>2. PackageTypeOK'
  <2>1. fresh' \in BOOLEAN
    BY <1>1
  <2> QED
    BY <1>1, <2>1 DEF PackageInvariant, PackageTypeOK
<1>3. Looked' /\ AllUnpacked' /\ Named'
  BY <1>1 DEF PackageInvariant, Looked, AllUnpacked, Named, LastMember
<1>4. Unpacking'
  BY <1>1 DEF PackageInvariant, Unpacking, LastMember, Filled, Sound
<1>5. InstalledIsUsable' /\ UndisturbedInstalls'
  BY <1>1, NothingIsNone DEF InstalledIsUsable, CommandUsable, UnpackedIsWhole, UndisturbedInstalls
<1> QED
  BY <1>2, <1>3, <1>4, <1>5 DEF PackageInvariant

LEMMA RunJonchkiKeeps ==
    ASSUME PackageInvariant, RunJonchki
    PROVE  PackageInvariant'
<1>1. /\ phase = "run" /\ phase' = "idle"
      /\ exit' = IF cmd # Nothing /\ cmd[1] = "full" THEN "ran" ELSE Raised
      /\ UNCHANGED <<host, settings, disk, local, file, unpacked, foundKind, cmd, cmdFile, history>>
  BY DEF RunJonchki, ExitWith
<1>2. PackageTypeOK' /\ Looked'
  BY <1>1 DEF PackageInvariant, PackageTypeOK, Looked, settings, history
<1>3. ASSUME calm', exit' = Raised PROVE cmd' # Nothing /\ cmd'[1] = "light"
  <2>1. cmd # Nothing /\ cmd \in Kinds \X Versions
    BY <1>1, <1>3 DEF PackageInvariant, PackageTypeOK, UndisturbedInstalls, history
  <2>2. cmd[1] # "full"
    BY <1>1, <1>3, <2>1 DEF Raised
  <2> QED
    BY <1>1, <2>1, <2>2 DEF Kinds
<1> QED
  BY <1>1, <1>2, <1>3, StepAside DEF settings

LEMMA CrashKeeps ==
    ASSUME PackageInvariant, Crash
    PROVE  PackageInvariant'
<1>1. /\ phase' = "idle" /\ exit' = "killed" /\ calm' = FALSE
      /\ UNCHANGED <<host, settings, local, file, unpacked, foundKind, cmd, cmdFile, calls, fresh>>
      /\ disk' = disk \/ (phase = "extract" /\ disk' = Begun(file.members[unpacked + 1]))
  BY DEF Crash, ExitWith, Mishap
<1>2. mishaps' \in Nat
  BY DEF Crash, Mishap, PackageInvariant, PackageTypeOK
<1>3. disk' \in [Kinds \X Versions ->
                     [has : SUBSET (InstalledParts \cup {Nothing}), reports : Versions \cup {Nothing}]]
  <2>1. phase = "extract" => file \in Archives
    BY DEF PackageInvariant, Unpacking
  <2> QED
    BY <1>1, <2>1, BegunTyped DEF PackageInvariant, PackageTypeOK
<1>4. PackageTypeOK' /\ Looked'
  BY <1>1, <1>2, <1>3 DEF PackageInvariant, PackageTypeOK, Looked, settings
<1> QED
  BY <1>1, <1>4, StepAside DEF settings, Raised

LEMMA PackageStutter ==
    ASSUME PackageInvariant, UNCHANGED packageVars
    PROVE  PackageInvariant'
<1> USE DEF packageVars, settings, history
<1>1. PackageTypeOK' /\ Looked' /\ AllUnpacked' /\ Named'
  BY DEF PackageInvariant, PackageTypeOK, Looked, AllUnpacked, Named, LastMember
<1>2. Unpacking'
  BY DEF PackageInvariant, Unpacking, LastMember, Filled, Sound
<1>3. InstalledIsUsable' /\ UndisturbedInstalls'
  <2>1. HalfTool' = HalfTool
    BY DEF HalfTool, Detect
  <2> QED
    BY <2>1 DEF PackageInvariant, InstalledIsUsable, CommandUsable, UnpackedIsWhole, UndisturbedInstalls
<1> QED
  BY <1>1, <1>2, <1>3 DEF PackageInvariant

LEMMA PackageKept == PackageInvariant /\ [PackageNext]_packageVars => PackageInvariant'
<1> SUFFICES ASSUME PackageInvariant, [PackageNext]_packageVars PROVE PackageInvariant'
  OBVIOUS
<1>1. CASE StartScript
  BY <1>1, StartScriptKeeps
<1>2. CASE Build
  BY <1>2, BuildKeeps
<1>3. CASE Check
  BY <1>3, CheckKeeps
<1>4. CASE Validate
  BY <1>4, ValidateKeeps
<1>5. CASE CheckRaises
  BY <1>5, CheckRaisesKeeps
<1>6. CASE FindLocal
  BY <1>6, FindLocalKeeps
<1>7. CASE DownloadFull
  BY <1>7, DownloadFullKeeps
<1>8. CASE DownloadLight
  BY <1>8, DownloadLightKeeps
<1>9. CASE ExtractMember
  BY <1>9, ExtractMemberKeeps
<1>10. CASE ExtractRaises
  BY <1>10, ExtractRaisesKeeps
<1>11. CASE ExtractDone
  BY <1>11, ExtractDoneKeeps
<1>12. CASE RunJonchki
  BY <1>12, RunJonchkiKeeps
<1>13. CASE Crash
  BY <1>13, CrashKeeps
<1>14. CASE NoMoreRuns \/ UNCHANGED packageVars
  BY <1>14, PackageStutter DEF NoMoreRuns
<1> QED
  BY <1>1, <1>2, <1>3, <1>4, <1>5, <1>6, <1>7, <1>8, <1>9, <1>10, <1>11, <1>12, <1>13, <1>14
     DEF PackageNext

(* The folders hold what the script takes them to hold, at every member of *)
(* an archive and after every run that was killed.                         *)
THEOREM PackageInvariance == PackageSpec => []PackageInvariant
  BY PackageStart, PackageKept, PTL DEF PackageSpec

\* The values of the variables, for every host and every archive.
THEOREM PackageTypeCorrect == PackageSpec => []PackageTypeOK
<1>1. PackageInvariant => PackageTypeOK
  BY DEF PackageInvariant
<1> QED
  BY <1>1, PackageInvariance, PTL

(* The tool that is handed out can be used, and what was unpacked for it   *)
(* is whole, whatever earlier runs have left.                              *)
THEOREM InstallationsAreUsable == PackageSpec => []InstalledIsUsable
<1>1. PackageInvariant => InstalledIsUsable
  BY DEF PackageInvariant
<1> QED
  BY <1>1, PackageInvariance, PTL

\* A run without a fault gets past what the runs before it have left.
THEOREM UndisturbedRunsInstall == PackageSpec => []UndisturbedInstalls
<1>1. PackageInvariant => UndisturbedInstalls
  BY DEF PackageInvariant
<1> QED
  BY <1>1, PackageInvariance, PTL

(* The version of a package names a tag only on the commit of the tag, and *)
(* shows changed files, for every history of the working copy.             *)
THEOREM VersionsTellTheTree == PackageSpec => []VersionTellsTree
<1>1. PackageInvariant => VersionTellsTree
  BY VcsIdTells DEF PackageInvariant, PackageTypeOK, Named, VersionTellsTree
<1> QED
  BY <1>1, PackageInvariance, PTL

================================================================================
