---------------------------- MODULE HostFlasher ----------------------------
(***************************************************************************)
(* The host's side: the area functions of flasher.lua and the two scripts  *)
(* that use them, cli_flash.lua (one job on one range) and wfp.lua (several *)
(* files).  A job is a chain of calls of the flasher on the netX; here a   *)
(* call is only what FlashService promises: it may end with ERROR at any   *)
(* time, with part of its work done.  An action stands for the Lua code    *)
(* between two calls: it looks at the answer of the one (pc) and makes the *)
(* next.  A job may be cut off anywhere and be run again.                  *)
(***************************************************************************)
EXTENDS Integers, Sequences

CONSTANTS
    Bits, Size, Block, Ranges,  \* see FlashService
    EndOfChip, \* 0xffffffff, the length that means up to the end of the chip
    BufferLen, \* aAttr.ulBufferLen
    Align,     \* 16, what flashArea aligns the ends of its chunks to
    Jobs,      \* what the scripts are asked to do
    MaxJobs    \* bound on the number of jobs of a run

VARIABLES
    mem, ram, req, busy, result, message, digest, area, \* see FlashService
    job,     \* the arguments of the script
    pc,      \* the answer the script is waiting for, "idle" when it has ended
    part,    \* index of the file that is worked on
    pos,     \* ulDataOffset behind the current chunk
    span,    \* ulEraseStart and ulEraseEnd, <<>> while they are nil
    total,   \* ulSize at the start of readArea and of hashArea
    data,    \* astrChunks, or the checksum
    report,  \* what strMsg says
    outcome, \* fOk: "ok" or "failed"; "aborted" when the script was cut off
    jobs     \* number of jobs so far

service == <<mem, ram, req, busy, result, message, digest, area>>
script == <<job, pc, part, pos, span, total, data, report, outcome, jobs>>
vars == <<service, script>>

\* iBus ~= BUS_SDIO for all others
OnCard(j) == j.bus = "SDIO"

Service == INSTANCE FlashService WITH card <- OnCard(job)

Byte == SUBSET Bits
Blank == Service!Blank
Cells == 0 .. Size - 1

FileModes == {"Flash", "Verify", "VerifyHash"}
RangeModes == {"Erase", "Read", "Hash", "IsErased"}

\* cli_flash lets only an erase, a read or a hash go to the end of the chip; files
\* end before 0xffffffff, and the addresses of a wfp archive do.
WellFormed(j) ==
    /\ j.mode \in FileModes \cup RangeModes /\ j.tool \in {"cli", "wfp"}
    /\ j.bus \in {"SDIO", "SPI"}
    /\ j.tool = "wfp" => j.mode = "Flash"
    /\ j.tool = "cli" => Len(j.parts) = 1
    /\ Len(j.parts) > 0
    /\ j.parts \in Seq([offset : Nat, len : Nat, file : Seq(Byte)])
    /\ \A i \in 1 .. Len(j.parts) :
          LET p == j.parts[i] IN
          /\ j.mode \in FileModes => p.len = Len(p.file) /\ p.offset + p.len < EndOfChip
          /\ j.mode = "IsErased" => p.len # EndOfChip

ASSUME HostAssumption ==
    /\ Size \in Nat \ {0} /\ EndOfChip \in Nat /\ EndOfChip > Size
    /\ Align \in Nat \ {0} /\ BufferLen \in Align .. Size
    /\ Jobs # {} /\ \A j \in Jobs : WellFormed(j)
    /\ Ranges \subseteq Nat \X Nat /\ (0 .. Size) \X (0 .. Size) \subseteq Ranges
    /\ MaxJobs \in Nat

\* Erase blocks part the flash.
ASSUME BlockAssumption ==
    \A a \in Cells :
        /\ Block[a] \subseteq Cells /\ a \in Block[a]
        /\ \A b \in Block[a] : Block[b] = Block[a]

P == job.parts[part]

Least(a, b) == IF a <= b THEN a ELSE b

Labels == {"size", "end", "checked", "area", "erased", "rechecked", "flashed",
           "verified", "total", "read", "hashed", "answered"}

TypeOK ==
    /\ mem \in Service!Image /\ ram \in Service!Image
    /\ req \in Service!Requests /\ busy \in BOOLEAN
    /\ result \in {"none", "OK", "ERROR"}
    /\ job \in Jobs /\ part \in 1 .. Len(job.parts)
    /\ pc \in Labels \cup {"idle"} /\ (busy => pc # "idle")
    /\ pos \in 0 .. Size
    /\ area \in Ranges /\ (span = <<>> \/ span \in Ranges)
    /\ total \in Int /\ data \in Seq(Byte)
    /\ report \in {"none", "empty", "not empty", "same", "different"}
    /\ outcome \in {"none", "ok", "failed", "aborted"}
    /\ jobs \in 0 .. MaxJobs

Init ==
    /\ mem \in Service!Image
    /\ ram = [a \in Cells |-> Bits]
    /\ req = [mode |-> "Read", start |-> 0, end |-> 0]
    /\ busy = FALSE /\ result = "none" /\ message = "none"
    /\ digest = [i \in {} |-> {}] /\ area = <<0, 0>>
    /\ job = (CHOOSE j \in Jobs : TRUE) /\ part = 1 /\ pos = 0 /\ span = <<>> /\ total = 0
    /\ data = <<>> /\ report = "none" /\ outcome = "none" /\ pc = "idle"
    /\ jobs = 0

-----------------------------------------------------------------------------
(* callFlasher                                                             *)

\* Write the parameter block, start the flasher and wait for the answer.
Ask(label, mode, s, e, buffer) ==
    /\ req' = [mode |-> mode, start |-> s, end |-> e]
    /\ ram' = buffer /\ digest' = digest
    /\ Service!Call
    /\ pc' = label /\ outcome' = "none"

Finish(res) == pc' = "idle" /\ outcome' = res /\ UNCHANGED service

Answered(label) == pc = label /\ ~busy

\* isErased is false when the call has failed, and so is verify.
SaidBlank == result = "OK" /\ message = "blank"
SaidEqual == result = "OK" /\ message = "OK"

NetxWorks == Service!Work /\ digest' = digest /\ UNCHANGED script

NetxReturns ==
    /\ busy
    /\ result' \in {"OK", "ERROR"}
    /\ message' \in CASE req.mode = "Verify"   -> {message, "OK", "ERROR"}
                      [] req.mode = "IsErased" -> {message, "blank", "dirty"}
                      [] OTHER                 -> {message}
    /\ area' \in IF req.mode = "GetEraseArea" THEN Ranges ELSE {area}
    /\ digest' = IF req.mode = "Checksum" /\ result' = "OK" /\ Service!Accepted(req)
                 THEN [i \in 0 .. (req.end - req.start) - 1 |-> mem[Service!Cell(req.start + i)]]
                 ELSE digest
    /\ Service!Return
    /\ UNCHANGED script

\* The script is killed, or the connection breaks and it raises an error.  The netX
\* is reset before the next job.
Abort ==
    /\ pc # "idle"
    /\ pc' = "idle" /\ outcome' = "aborted"
    /\ busy' = FALSE /\ result' = "ERROR"
    /\ UNCHANGED <<mem, ram, req, message, digest, area>>
    /\ UNCHANGED <<job, part, pos, span, total, data, report, jobs>>

-----------------------------------------------------------------------------
(* flashArea                                                               *)

\* Mutant: the end of every chunk is aligned, the last one's too.
ChunkEndAligned(p, from) ==
    LET e == Least(from + BufferLen, p.len) IN e - (e % Align)

\* Mutant: chunks as long as the buffer.
ChunkEndStraight(p, from) == Least(from + BufferLen, p.len)

\* Up to Align: the chunk that does not reach the end of the file ends on a border.
ChunkEnd(p, from) ==
    LET e == from + BufferLen IN IF e < p.len THEN e - (e % Align) ELSE p.len

\* write_image: the bytes from .. to - 1 of the file go to the start of the buffer.
Download(p, from, to) ==
    [a \in Cells |-> IF a < to - from THEN p.file[from + a + 1] ELSE ram[a]]

FlashChunk(p, from) ==
    LET to == ChunkEnd(p, from) IN
    /\ Ask("flashed", "Flash", p.offset + from, p.offset + to, Download(p, from, to))
    /\ pos' = to

-----------------------------------------------------------------------------
(* eraseArea                                                               *)

EraseEnd(p, found) == IF p.len = EndOfChip THEN found[2] ELSE p.offset + p.len

EraseArea(p) ==
    IF p.len = EndOfChip
    THEN Ask("end", "GetEraseArea", p.offset, EndOfChip, ram)
    ELSE Ask("checked", "IsErased", p.offset, p.offset + p.len, ram)

\* One file is through: wfp.lua goes on with the next one.
NextFile ==
    \/ /\ part < Len(job.parts)
       /\ part' = part + 1 /\ pos' = 0 /\ span' = <<>>
       /\ EraseArea(job.parts[part + 1])
    \/ part = Len(job.parts) /\ Finish("ok") /\ UNCHANGED <<part, pos, span>>

\* After eraseArea a flash job goes on with flashArea, which has nothing to do for an
\* empty file; an erase job is through.
AfterErase ==
    \/ job.mode = "Flash" /\ P.len > 0 /\ FlashChunk(P, 0) /\ UNCHANGED <<part, span>>
    \/ job.mode = "Flash" /\ P.len = 0 /\ NextFile
    \/ job.mode # "Flash" /\ Finish("ok") /\ UNCHANGED <<part, pos, span>>

\* What eraseArea and flashArea leave alone.
Fixed == UNCHANGED <<job, total, data, report, jobs>>

EndKnown ==
    /\ Answered("end")
    /\ IF result = "OK"
       THEN span' = area /\ Ask("checked", "IsErased", P.offset, EraseEnd(P, area), ram)
       ELSE span' = span /\ Finish("failed")
    /\ Fixed /\ UNCHANGED <<part, pos>>

Checked ==
    /\ Answered("checked")
    /\ \/ SaidBlank /\ AfterErase
       \/ /\ ~SaidBlank /\ span = <<>>
          /\ Ask("area", "GetEraseArea", P.offset, P.offset + P.len, ram)
          /\ UNCHANGED <<part, pos, span>>
       \/ /\ ~SaidBlank /\ span # <<>>
          /\ Ask("erased", "Erase", span[1], span[2], ram)
          /\ UNCHANGED <<part, pos, span>>
    /\ Fixed

\* Mutant: everything up to the end of the chip is erased.
AreaKnownToEnd ==
    /\ Answered("area")
    /\ IF result = "OK"
       THEN span' = area /\ Ask("erased", "Erase", area[1], Size, ram)
       ELSE span' = span /\ Finish("failed")
    /\ Fixed /\ UNCHANGED <<part, pos>>

AreaKnown ==
    /\ Answered("area")
    /\ IF result = "OK"
       THEN span' = area /\ Ask("erased", "Erase", area[1], area[2], ram)
       ELSE span' = span /\ Finish("failed")
    /\ Fixed /\ UNCHANGED <<part, pos>>

Erased ==
    /\ Answered("erased")
    /\ IF result = "OK"
       THEN Ask("rechecked", "IsErased", P.offset, EraseEnd(P, span), ram)
       ELSE Finish("failed")
    /\ Fixed /\ UNCHANGED <<part, pos, span>>

Rechecked ==
    /\ Answered("rechecked")
    /\ IF SaidBlank THEN AfterErase ELSE Finish("failed") /\ UNCHANGED <<part, pos, span>>
    /\ Fixed

-----------------------------------------------------------------------------
(* The loops of flashArea, verifyArea and readArea.                        *)

\* Mutant: the script does not look at the answer of the flasher.
FlashedCarelessly ==
    /\ Answered("flashed")
    /\ IF pos < P.len THEN FlashChunk(P, pos) ELSE Finish("ok") /\ UNCHANGED pos
    /\ Fixed /\ UNCHANGED <<part, span>>

Flashed ==
    /\ Answered("flashed")
    /\ \/ result # "OK" /\ Finish("failed") /\ UNCHANGED <<part, pos, span>>
       \/ result = "OK" /\ pos < P.len /\ FlashChunk(P, pos) /\ UNCHANGED <<part, span>>
       \/ result = "OK" /\ pos >= P.len /\ NextFile
    /\ Fixed

VerifyFrom(from) ==
    IF from < P.len
    THEN LET to == Least(from + BufferLen, P.len) IN
         /\ Ask("verified", "Verify", P.offset + from, P.offset + to, Download(P, from, to))
         /\ pos' = to
    ELSE Finish("ok") /\ UNCHANGED pos

Verified ==
    /\ Answered("verified")
    /\ IF SaidEqual THEN VerifyFrom(pos) ELSE Finish("failed") /\ UNCHANGED pos
    /\ Fixed /\ UNCHANGED <<part, span>>

\* Once everything is read, exec saves the file, which may fail.
ReadFrom(from, all) ==
    IF from < all
    THEN LET to == from + Least(all - from, BufferLen) IN
         /\ Ask("read", "Read", P.offset + from, P.offset + to, ram)
         /\ pos' = to
    ELSE (Finish("ok") \/ Finish("failed")) /\ UNCHANGED pos

ReadDone ==
    /\ Answered("read")
    /\ IF result = "OK"
       THEN /\ data' = data \o [i \in 1 .. req.end - req.start |-> ram[i - 1]]
            /\ ReadFrom(pos, total)
       ELSE Finish("failed") /\ UNCHANGED <<data, pos>>
    /\ UNCHANGED <<job, part, span, total, report, jobs>>

-----------------------------------------------------------------------------
(* hashArea, and what exec makes of the checksum                           *)

Hash(all) == Ask("hashed", "Checksum", P.offset, P.offset + all, ram) /\ UNCHANGED pos

\* Checksums differ where the bytes differ; a verify_hash job is ok in both cases.
Hashed ==
    /\ Answered("hashed")
    /\ IF result = "OK"
       THEN /\ data' = [i \in 1 .. req.end - req.start |-> digest[i - 1]]
            /\ report' = IF job.mode = "VerifyHash"
                         THEN (IF data' = P.file THEN "same" ELSE "different") ELSE report
            /\ Finish("ok")
       ELSE Finish("failed") /\ UNCHANGED <<data, report>>
    /\ UNCHANGED <<job, part, pos, span, total, jobs>>

\* readArea and hashArea ask for the size of the flash again.
ReadOrHash(all) == IF job.mode = "Read" THEN ReadFrom(0, all) ELSE Hash(all)

TotalKnown ==
    /\ Answered("total")
    /\ IF result = "OK"
       THEN total' = area[2] - P.offset /\ ReadOrHash(total')
       ELSE Finish("failed") /\ UNCHANGED <<total, pos>>
    /\ UNCHANGED <<job, part, span, data, report, jobs>>

-----------------------------------------------------------------------------
(* exec of cli_flash.lua                                                   *)

\* The isErased branch keeps its answer in a local fOk: only the message tells it.
AnsweredIsErased ==
    /\ Answered("answered")
    /\ report' = IF SaidBlank THEN "empty" ELSE "not empty"
    /\ Finish("ok")
    /\ UNCHANGED <<job, part, pos, span, total, data, jobs>>

\* "Explicit erase is not necessary when flashing SDIO"; wfp.lua always erases.
WritesOver == job.mode = "Flash" /\ OnCard(job)

TooLong == P.offset + P.len > area[2] /\ P.len # EndOfChip

\* The size of the flash is known: refuse what does not fit, and start the job.
SizeKnown ==
    /\ Answered("size")
    /\ \/ /\ result # "OK" \/ TooLong
          /\ Finish("failed") /\ UNCHANGED <<pos, total>>
       \/ /\ result = "OK" /\ ~TooLong
          /\ \/ job.mode \in {"Flash", "Erase"} /\ ~WritesOver /\ EraseArea(P) /\ UNCHANGED <<pos, total>>
             \/ WritesOver /\ AfterErase /\ UNCHANGED total
             \/ job.mode = "Verify" /\ VerifyFrom(0) /\ UNCHANGED total
             \/ /\ job.mode = "IsErased"
                /\ Ask("answered", "IsErased", P.offset, P.offset + P.len, ram)
                /\ UNCHANGED <<pos, total>>
             \/ /\ job.mode \in {"Read", "Hash", "VerifyHash"} /\ P.len = EndOfChip
                /\ Ask("total", "GetEraseArea", 0, EndOfChip, ram) /\ UNCHANGED <<pos, total>>
             \/ /\ job.mode \in {"Read", "Hash", "VerifyHash"} /\ P.len # EndOfChip
                /\ total' = P.len /\ ReadOrHash(P.len)
    /\ UNCHANGED <<job, part, span, data, report, jobs>>

\* The file is loaded, the flasher downloaded and the flash detected, or one of
\* them fails.  cli_flash asks for the size first, wfp does not.
Start(j) ==
    /\ pc = "idle" /\ jobs < MaxJobs /\ jobs' = jobs + 1
    /\ job' = j /\ part' = 1 /\ pos' = 0 /\ span' = <<>> /\ total' = 0
    /\ data' = <<>> /\ report' = "none"
    /\ \/ Finish("failed")
       \/ j.tool = "cli" /\ Ask("size", "GetEraseArea", 0, EndOfChip, ram)
       \/ j.tool = "wfp" /\ EraseArea(j.parts[1])

-----------------------------------------------------------------------------
Areas == EndKnown \/ Checked \/ AreaKnown \/ Erased \/ Rechecked \/ Flashed
Answers == Verified \/ ReadDone \/ Hashed \/ TotalKnown \/ AnsweredIsErased \/ SizeKnown
Script == Areas \/ Answers

Next == (\E j \in Jobs : Start(j)) \/ Script \/ NetxWorks \/ NetxReturns \/ Abort

\* The script runs, and every call returns (CallReturns of SpiFlasher).
Spec == Init /\ [][Next]_vars /\ WF_vars(Script) /\ WF_vars(NetxReturns)

-----------------------------------------------------------------------------
(* Properties *)

Done(mode) == pc = "idle" /\ outcome = "ok" /\ job.mode = mode

FileCells(p) == p.offset .. p.offset + p.len - 1
InFlash(p) == \A a \in FileCells(p) : mem[a] = p.file[a - p.offset + 1]
BlocksOf(p) == UNION {Block[a] : a \in (FileCells(p) \cup {p.offset}) \cap Cells}

\* What a range job is about; 0xffffffff is the rest of the chip.
RangeCells(p) == IF p.len = EndOfChip THEN p.offset .. Size - 1 ELSE FileCells(p)

\* A flash job that reports success has left each file in the flash, whatever the
\* flash held before, whichever jobs were cut off half way, and whatever later files
\* of the archive were flashed into other erase blocks.  An empty file counts with the
\* block of its offset, which is erased when the check whether it is empty fails.
FlashJobWritesFiles ==
    Done("Flash") =>
        \A i \in 1 .. Len(job.parts) :
            (\A k \in i + 1 .. Len(job.parts) : BlocksOf(job.parts[k]) \cap BlocksOf(job.parts[i]) = {})
                => InFlash(job.parts[i])

\* An erase job that reports success leaves the whole range blank, up to the end of
\* the chip when it was asked for that.
EraseJobErases == Done("Erase") => \A a \in RangeCells(P) : mem[a] = Blank

\* The answers put together from several calls are those for the whole range.
VerifyJobIsExact ==
    /\ Done("Verify") => InFlash(P)
    /\ Done("VerifyHash") => (report = "same" <=> InFlash(P))

\* A read or hash job that reports success returns all bytes of the range in order.
ReadJobReturnsRange ==
    Done("Read") \/ Done("Hash") =>
        /\ \A a \in RangeCells(P) : a - P.offset + 1 \in DOMAIN data /\ data[a - P.offset + 1] = mem[a]
        /\ \A i \in DOMAIN data : P.offset + i - 1 \in RangeCells(P)

\* What a job reports is true: each job is put together from several calls, any of
\* which may fail or stop half way.
JobsTellTheTruth ==
    FlashJobWritesFiles /\ EraseJobErases /\ VerifyJobIsExact /\ ReadJobReturnsRange

\* Each chunk starts at a multiple of 16 bytes of the file and, except for the last
\* one, ends there: the internal flash programs 16 bytes at a time.
ChunksOnBorders ==
    busy /\ req.mode = "Flash" =>
        /\ (req.start - P.offset) % Align = 0
        /\ (req.end - P.offset) % Align = 0 \/ req.end = P.offset + P.len

\* A job changes no cell outside the erase blocks of its range, and only a flash or
\* an erase job changes any.
OtherBlocksKept ==
    [][\A a \in Cells : mem'[a] # mem[a] =>
          /\ job.mode \in {"Flash", "Erase"}
          /\ \E b \in RangeCells(P) \cup {P.offset} : b \in Cells /\ a \in Block[b]]_vars

\* Every job comes to an end: no loop of the area functions runs for ever.
JobEnds == pc # "idle" ~> pc = "idle"

\* flasher_test.lua:41: "isErased returns true or false", and an interface of the
\* test that says true has an empty area.
IsErasedMeansEmpty == Done("IsErased") => \A a \in RangeCells(P) : mem[a] = Blank
=============================================================================
