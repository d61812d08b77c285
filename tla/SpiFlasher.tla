----------------------------- MODULE SpiFlasher -----------------------------
(***************************************************************************)
(* flasher_spi.c: the operations of the flasher on a serial NOR flash, one *)
(* action per call of the driver in spi_flash.c.  Every operation is a     *)
(* loop over segments that share one buffer, pucSpiBuffer.                 *)
(*                                                                         *)
(* The chip decodes only the address bits it has (Cell).  It may fail to   *)
(* program or to erase some of the addressed cells although its status     *)
(* register says that it is done (ChipFaults: worn cells, write protected  *)
(* blocks), and the driver may return an error (DriverFaults).             *)
(***************************************************************************)
EXTENDS Integers, FiniteSets

CONSTANTS
    Bits,         \* the bit positions of a byte
    FlashSize,    \* tAttributes.ulSize
    PageSize,     \* tAttributes.ulPageSize
    SectorSize,   \* ulSectorSize
    PageErase,    \* ucErasePageOpcode != 0
    BufferSize,   \* SPI_BUFFER_SIZE
    Word,         \* 2^32, the range of an unsigned long
    Ranges,       \* the pairs <<start, end>> the host asks for, refused ones too
    FlashImages,  \* what the flash may hold at first
    RamImages,    \* what the host may download
    ChipFaults,   \* BOOLEAN: cells may keep their value
    DriverFaults, \* BOOLEAN: a driver call may return an error
    MaxCalls      \* bound on the number of calls of a run

Byte == SUBSET Bits
Blank == Bits
Cells == 0 .. FlashSize - 1
Image == [Cells -> Byte]

ASSUME GeometryAssumption ==
    /\ FlashSize \in Nat \ {0} /\ PageSize \in Nat \ {0}
    /\ SectorSize \in Nat \ {0} /\ BufferSize \in Nat \ {0}
    /\ FlashSize % SectorSize = 0
    /\ SectorSize % PageSize = 0 /\ SectorSize % 2 = 0
    /\ PageErase => PageSize % 2 = 0
    /\ Word \in Nat /\ Word % 2 = 0 /\ 2 * FlashSize + SectorSize < Word

ASSUME EnvironmentAssumption ==
    /\ PageErase \in BOOLEAN /\ ChipFaults \in BOOLEAN /\ DriverFaults \in BOOLEAN
    /\ FlashImages \subseteq Image
    /\ RamImages \subseteq Image
    /\ Ranges \subseteq (0 .. Word - 1) \X (0 .. Word - 1)
    /\ MaxCalls \in Nat

VARIABLES
    flash,   \* the flash array
    buf,     \* pucSpiBuffer
    ram,     \* the host's buffer, read or written through pucData
    req,     \* tOperationMode, ulStartAdr and ulEndAdr of the call
    pc,      \* where the call is, "idle" between two calls
    addr,    \* ulC, ulCnt, ulAddress: the next byte to handle
    stop,    \* ulE, ulEndAdr: where the loop ends
    erased,  \* ulErased: the AND of the bytes seen by spi_isErased
    digest,  \* the bytes given to SHA1_Update
    result,  \* the return value of the last call
    message, \* pvReturnMessage
    area,    \* *pulStartAdr and *pulEndAdr
    calls    \* number of calls so far

vars == <<flash, buf, ram, req, pc, addr, stop, erased, digest, result, message, area, calls>>

Modes == {"Flash", "Erase", "Read", "Verify", "Checksum", "IsErased", "GetEraseArea"}

SectorStart(a) == a - (a % SectorSize)

\* What every operation promises, and what a request is.
Service == INSTANCE FlashService WITH
    mem   <- flash,
    busy  <- pc # "idle",
    card  <- FALSE,
    Size  <- FlashSize,
    EndOfChip <- Word - 1,
    Block <- [a \in Cells |-> SectorStart(a) .. SectorStart(a) + SectorSize - 1]

\* check_params refuses all others before they reach flasher_spi.c.
Requests == {r \in Service!Requests : Service!Accepted(r)}

Span(r) == Service!Span(r)
Named(r) == Service!Named(r)

-----------------------------------------------------------------------------
(* The chip and its driver.                                                *)

\* The chip decodes the address bits it has.
Cell(a) == a % FlashSize

\* The n cells at a chip address, and which of them an operation takes effect on.
CellsAt(at, n) == Cell(at) .. Cell(at) + n - 1
Hits(cells) == IF ChipFaults THEN SUBSET cells ELSE {cells}

DriverOk == IF DriverFaults THEN BOOLEAN ELSE {TRUE}

\* Drv_SpiReadFlash: n bytes from the flash at an address to an offset of a buffer.
Received(b, offset, at, n) ==
    [i \in DOMAIN b |-> IF i \in offset .. offset + n - 1 THEN flash[Cell(at + i - offset)] ELSE b[i]]

\* Drv_SpiWritePage: the data that reaches cell a is data[from + a - Cell(at)].
PageWritten(at, data, from, hit) ==
    [a \in Cells |-> IF a \in hit THEN flash[a] \cap data[from + a - Cell(at)] ELSE flash[a]]

\* Drv_SpiEraseFlashPage and Drv_SpiEraseFlashSector.
ChunkErased(hit) == [a \in Cells |-> IF a \in hit THEN Blank ELSE flash[a]]

Least(a, b) == IF a <= b THEN a ELSE b

-----------------------------------------------------------------------------
(* How spi_erase_with_progress chooses what to erase.                      *)

OnBorders(s, e, size) == s % size = 0 /\ e % size = 0

PageEraseFits(s, e) == PageErase /\ ~OnBorders(s, e, SectorSize) /\ OnBorders(s, e, PageSize)

EraseChunk(s, e) == IF PageEraseFits(s, e) THEN PageSize ELSE SectorSize

\* Mutant: an end on a border is moved up too.
UpToAlways(e, size) == (e + (size - (e % size))) % Word

\* The end offset moved up to the next border, as an unsigned long.
UpTo(e, size) == IF e % size = 0 THEN e ELSE (e + (size - (e % size))) % Word

EraseFrom(s, e) == s - (s % EraseChunk(s, e))
EraseTo(s, e) == UpTo(e, EraseChunk(s, e))

\* spi_getEraseArea rounds by adding first.
AreaStart(s) == (s \div SectorSize) * SectorSize
AreaEnd(e) == (((e + SectorSize - 1) % Word) \div SectorSize) * SectorSize

-----------------------------------------------------------------------------
TypeOK ==
    /\ flash \in Image /\ ram \in Image
    /\ buf \in [0 .. BufferSize - 1 -> Byte]
    /\ req \in Requests
    /\ pc \in {"idle", "write", "readFirst", "writeFirst", "writePages", "writeLast",
               "verify", "erase", "read", "hash", "check", "area"}
    /\ addr \in Nat /\ stop \in Nat
    /\ erased \in Byte
    /\ DOMAIN digest \subseteq Nat /\ \A i \in DOMAIN digest : digest[i] \in Byte
    /\ result \in {"none", "OK", "ERROR"}
    /\ message \in {"none", "OK", "ERROR", "blank", "dirty"}
    /\ area \in Nat \X Nat
    /\ calls \in 0 .. MaxCalls

Init ==
    /\ flash \in FlashImages
    /\ ram \in RamImages
    /\ buf = [i \in 0 .. BufferSize - 1 |-> {}]
    /\ req \in Requests
    /\ pc = "idle"
    /\ addr = 0 /\ stop = 0
    /\ erased = Blank
    /\ digest = [i \in {} |-> {}]
    /\ result = "none" /\ message = "none"
    /\ area = <<0, 0>>
    /\ calls = 0

Goto(label) == pc' = label /\ UNCHANGED result
Return(res) == pc' = "idle" /\ result' = res

\* What a step of an operation leaves alone in any case.
Fixed == UNCHANGED <<req, stop, calls>>

-----------------------------------------------------------------------------
(* The host downloads data and parameters and starts an operation.         *)

Entry == [Flash |-> "write", Erase |-> "erase", Read |-> "read", Verify |-> "verify",
          Checksum |-> "hash", IsErased |-> "check", GetEraseArea |-> "area"]

Call(r, image) ==
    /\ pc = "idle"
    /\ calls < MaxCalls /\ calls' = calls + 1
    /\ req' = r /\ ram' = image
    /\ pc' = Entry[r.mode] /\ result' = "none"
    /\ addr' = IF r.mode = "Erase" THEN EraseFrom(r.start, r.end) ELSE r.start
    /\ stop' = IF r.mode = "Erase" THEN EraseTo(r.start, r.end) ELSE r.end
    /\ erased' = Blank
    /\ digest' = [i \in {} |-> {}]
    /\ UNCHANGED <<flash, buf, message, area>>

-----------------------------------------------------------------------------
(* spi_write_with_progress                                                 *)

\* The bytes from addr on that fit into the rest of its page.
FirstSegment == Least(stop - addr, PageSize - (addr % PageSize))

\* Writing needs room for a page in the shared buffer.
WriteBegin ==
    /\ pc = "write"
    /\ IF PageSize <= BufferSize
       THEN Goto(IF addr % PageSize # 0 THEN "readFirst" ELSE "writePages")
       ELSE Return("ERROR")
    /\ Fixed /\ UNCHANGED <<flash, buf, ram, addr, erased, digest, message, area>>

\* The range starts inside a page: get the whole page and lay the data over it.
ReadFirstPage ==
    /\ pc = "readFirst"
    /\ \E ok \in DriverOk :
        IF ok
        THEN LET offset == addr % PageSize
                 page   == Received(buf, 0, addr - offset, PageSize)
             IN  /\ buf' = [i \in DOMAIN buf |->
                               IF i \in offset .. offset + FirstSegment - 1
                               THEN ram[i - offset] ELSE page[i]]
                 /\ Goto("writeFirst")
        ELSE Return("ERROR") /\ UNCHANGED buf
    /\ Fixed /\ UNCHANGED <<flash, ram, addr, erased, digest, message, area>>

WriteFirstPage ==
    /\ pc = "writeFirst"
    /\ LET page == addr - (addr % PageSize) IN
       \E ok \in DriverOk, hit \in Hits(CellsAt(page, PageSize)) :
           /\ flash' = PageWritten(page, buf, 0, hit)
           /\ IF ok
              THEN addr' = addr + FirstSegment /\ Goto("writePages")
              ELSE Return("ERROR") /\ UNCHANGED addr
    /\ Fixed /\ UNCHANGED <<buf, ram, erased, digest, message, area>>

\* Complete pages straight from the host's buffer, as long as something follows.
WriteCompletePage ==
    /\ pc = "writePages" /\ addr + PageSize < stop
    /\ \E ok \in DriverOk, hit \in Hits(CellsAt(addr, PageSize)) :
           /\ flash' = PageWritten(addr, ram, addr - req.start, hit)
           /\ IF ok
              THEN addr' = addr + PageSize /\ Goto("writePages")
              ELSE Return("ERROR") /\ UNCHANGED addr
    /\ Fixed /\ UNCHANGED <<buf, ram, erased, digest, message, area>>

\* Mutant: the rest of the page is not read, the buffer keeps what it held.
ReadLastPageUnpadded ==
    /\ pc = "writePages" /\ addr + PageSize >= stop /\ addr < stop
    /\ buf' = [i \in DOMAIN buf |-> IF i < stop - addr THEN ram[addr - req.start + i] ELSE buf[i]]
    /\ Goto("writeLast")
    /\ Fixed /\ UNCHANGED <<flash, ram, addr, erased, digest, message, area>>

\* What is left goes to the front of the buffer, the rest of the page behind it.
ReadLastPage ==
    /\ pc = "writePages" /\ addr + PageSize >= stop /\ addr < stop
    /\ LET seg  == stop - addr
           data == [i \in DOMAIN buf |-> IF i < seg THEN ram[addr - req.start + i] ELSE buf[i]]
       IN  \E ok \in DriverOk :
               /\ buf' = IF ok THEN Received(data, seg, addr + seg, PageSize - seg) ELSE data
               /\ IF ok THEN Goto("writeLast") ELSE Return("ERROR")
    /\ Fixed /\ UNCHANGED <<flash, ram, addr, erased, digest, message, area>>

\* spi_flash goes on with the verification of the whole range.
WriteLastPage ==
    /\ pc = "writeLast"
    /\ \E ok \in DriverOk, hit \in Hits(CellsAt(addr, PageSize)) :
           /\ flash' = PageWritten(addr, buf, 0, hit)
           /\ IF ok
              THEN addr' = req.start /\ Goto("verify")
              ELSE Return("ERROR") /\ UNCHANGED addr
    /\ Fixed /\ UNCHANGED <<buf, ram, erased, digest, message, area>>

WriteDone ==
    /\ pc = "writePages" /\ addr >= stop
    /\ addr' = req.start /\ Goto("verify")
    /\ Fixed /\ UNCHANGED <<flash, buf, ram, erased, digest, message, area>>

-----------------------------------------------------------------------------
(* The loops that read: every segment is at most the buffer.               *)

\* Mutant: the end offset is taken for the last byte.
SegmentShort == Least(stop - addr - 1, BufferSize)

Segment == Least(stop - addr, BufferSize)

\* Mutant: the verdict is only a message, the call succeeds (as in flasher_parflash.c).
VerdictInMessage(res) ==
    /\ Return("OK")
    /\ message' = IF req.mode = "Verify" THEN res ELSE message

\* spi_verify passes its result on as the message, spi_flash has none.
Verdict(res) ==
    /\ Return(res)
    /\ message' = IF req.mode = "Verify" THEN res ELSE message

VerifySegment ==
    /\ pc = "verify" /\ addr < stop
    /\ \E ok \in DriverOk :
           /\ buf' = IF ok THEN Received(buf, 0, addr, Segment) ELSE buf
           /\ IF ok /\ \A i \in 0 .. Segment - 1 : buf'[i] = ram[addr - req.start + i]
              THEN addr' = addr + Segment /\ Goto("verify") /\ UNCHANGED message
              ELSE Verdict("ERROR") /\ UNCHANGED addr
    /\ Fixed /\ UNCHANGED <<flash, ram, erased, digest, area>>

VerifyDone ==
    /\ pc = "verify" /\ addr >= stop
    /\ Verdict("OK")
    /\ Fixed /\ UNCHANGED <<flash, buf, ram, addr, erased, digest, area>>

ReadSegment ==
    /\ pc = "read" /\ addr < stop
    /\ \E ok \in DriverOk :
           IF ok
           THEN /\ ram' = Received(ram, addr - req.start, addr, Segment)
                /\ addr' = addr + Segment /\ Goto("read")
           ELSE Return("ERROR") /\ UNCHANGED <<ram, addr>>
    /\ Fixed /\ UNCHANGED <<flash, buf, erased, digest, message, area>>

HashSegment ==
    /\ pc = "hash" /\ addr < stop
    /\ \E ok \in DriverOk :
           IF ok
           THEN LET fed == addr - req.start IN
                /\ buf' = Received(buf, 0, addr, Segment)
                /\ digest' = [i \in 0 .. fed + Segment - 1 |->
                                 IF i < fed THEN digest[i] ELSE buf'[i - fed]]
                /\ addr' = addr + Segment /\ Goto("hash")
           ELSE Return("ERROR") /\ UNCHANGED <<buf, digest, addr>>
    /\ Fixed /\ UNCHANGED <<flash, ram, erased, message, area>>

ReadDone ==
    /\ pc \in {"read", "hash"} /\ addr >= stop
    /\ Return("OK")
    /\ Fixed /\ UNCHANGED <<flash, buf, ram, addr, erased, digest, message, area>>

\* Mutant: the whole buffer is looked at, bytes of an earlier segment included.
CheckSegmentStale ==
    /\ pc = "check" /\ addr < stop /\ erased = Blank
    /\ \E ok \in DriverOk :
           IF ok
           THEN /\ buf' = Received(buf, 0, addr, Segment)
                /\ erased' = {b \in erased : \A i \in DOMAIN buf : b \in buf'[i]}
                /\ addr' = IF erased' = Blank THEN addr + Segment ELSE addr
                /\ Goto("check")
           ELSE Return("ERROR") /\ UNCHANGED <<buf, erased, addr>>
    /\ Fixed /\ UNCHANGED <<flash, ram, digest, message, area>>

\* spi_isErased stops at the first segment that is not blank.
CheckSegment ==
    /\ pc = "check" /\ addr < stop /\ erased = Blank
    /\ \E ok \in DriverOk :
           IF ok
           THEN /\ buf' = Received(buf, 0, addr, Segment)
                /\ erased' = {b \in erased : \A i \in 0 .. Segment - 1 : b \in buf'[i]}
                /\ addr' = IF erased' = Blank THEN addr + Segment ELSE addr
                /\ Goto("check")
           ELSE Return("ERROR") /\ UNCHANGED <<buf, erased, addr>>
    /\ Fixed /\ UNCHANGED <<flash, ram, digest, message, area>>

CheckDone ==
    /\ pc = "check" /\ (addr >= stop \/ erased # Blank)
    /\ Return("OK")
    /\ message' = IF erased = Blank THEN "blank" ELSE "dirty"
    /\ Fixed /\ UNCHANGED <<flash, buf, ram, addr, erased, digest, area>>

-----------------------------------------------------------------------------
(* spi_erase_with_progress and spi_getEraseArea                            *)

EraseOneChunk ==
    /\ pc = "erase" /\ addr < stop
    /\ \E ok \in DriverOk, hit \in Hits(CellsAt(addr, EraseChunk(req.start, req.end))) :
           /\ flash' = ChunkErased(hit)
           /\ IF ok
              THEN addr' = addr + EraseChunk(req.start, req.end) /\ Goto("erase")
              ELSE Return("ERROR") /\ UNCHANGED addr
    /\ Fixed /\ UNCHANGED <<buf, ram, erased, digest, message, area>>

EraseDone ==
    /\ pc = "erase" /\ addr >= stop
    /\ Return("OK")
    /\ Fixed /\ UNCHANGED <<flash, buf, ram, addr, erased, digest, message, area>>

GetEraseArea ==
    /\ pc = "area"
    /\ area' = <<AreaStart(req.start), AreaEnd(Service!End(req))>>
    /\ Return("OK")
    /\ Fixed /\ UNCHANGED <<flash, buf, ram, addr, erased, digest, message>>

-----------------------------------------------------------------------------
Write == \/ WriteBegin \/ ReadFirstPage \/ WriteFirstPage
         \/ WriteCompletePage \/ ReadLastPage \/ WriteLastPage \/ WriteDone

Inspect == \/ VerifySegment \/ VerifyDone \/ ReadSegment \/ HashSegment
           \/ ReadDone \/ CheckSegment \/ CheckDone

Step == Write \/ Inspect \/ EraseOneChunk \/ EraseDone \/ GetEraseArea

Next == (\E r \in Requests, image \in RamImages : Call(r, image)) \/ Step

\* A step that needs no failure of the driver: an error has another reason.
Served ==
    /\ Step
    /\ result' = "ERROR" =>
          \/ pc = "write"
          \/ pc = "verify" /\ \E a \in addr .. addr + Segment - 1 : flash[Cell(a)] # ram[a - req.start]

\* The console application is one thread: it runs until it returns, also when the
\* driver never fails.
Spec == Init /\ [][Next]_vars /\ WF_vars(Served)

-----------------------------------------------------------------------------
(* Safety *)

\* When a write returns OK, the flash holds the data: spi_flash has verified every
\* segment after the last page was programmed, whatever the chip did with them.  Data
\* that reaches behind the end of the flash is in its first cells.
FlashedIsVerified ==
    pc = "idle" /\ req.mode = "Flash" /\ result = "OK"
        => \A a \in Span(req) : flash[Cell(a)] = ram[a - req.start]

\* A write never changes a byte outside its range, although it always programs whole
\* pages: the bytes around the data were read into the shared buffer and lose no bits
\* (first and last page), on no path, not even when the driver fails in between.  A
\* request that check_params should have refused, as its data ends behind the flash,
\* changes the cells that the chip selects for those offsets, and no others.
WriteConfined ==
    [][req.mode = "Flash" => \A a \in Cells \ Named(req) : flash'[a] = flash[a]]_vars

\* The segmentation leaves no gap: once the write loops are through on a chip that
\* takes what it is sent, every bit the data wants cleared is cleared.
WriteComplete ==
    ~ChipFaults /\ req.mode = "Flash" /\ (pc = "verify" \/ (pc = "idle" /\ result = "OK"))
        => \A a \in Span(req) : flash[Cell(a)] \subseteq ram[a - req.start]

\* Drv_SpiWritePage refuses an address that is not on a page border, and the chip wraps
\* within the page: the write loops only ever program from a page border.
ProgramsFromPageBorder ==
    /\ pc = "writePages" /\ addr < stop => addr % PageSize = 0
    /\ pc = "writeLast" => addr % PageSize = 0 /\ stop - addr <= PageSize

\* Erasing changes only cells of sectors the request touches, and only its own bytes
\* when both ends are on page borders of a chip with a page erase command.
EraseConfined ==
    [][req.mode = "Erase" =>
          \A a \in Cells : flash'[a] # flash[a] =>
              /\ \E b \in Named(req) \cup {req.start} : SectorStart(a) = SectorStart(b)
              /\ PageEraseFits(req.start, req.end) => a \in Named(req)]_vars

\* On a chip that takes what it is sent an erase that returns OK has erased the whole
\* range, if it ends inside the flash: rounding 0xffffffff up gives nothing to erase.
ErasedIsBlank ==
    ~ChipFaults /\ pc = "idle" /\ req.mode = "Erase" /\ result = "OK" /\ req.end <= FlashSize
        => \A a \in Span(req) : flash[a] = Blank

\* Verify raises no false alarm: unless the driver failed, an error means a difference.
VerifyErrorIsDifference ==
    ~DriverFaults /\ pc = "idle" /\ req.mode = "Verify" /\ result = "ERROR"
        => \E a \in Span(req) : flash[Cell(a)] # ram[a - req.start]

-----------------------------------------------------------------------------
\* Every operation keeps the contract of FlashService, step by step.
ServiceSpec == Service!Spec

(* Liveness: every loop makes progress, so each call returns. *)
CallReturns == pc # "idle" ~> pc = "idle"
=============================================================================
