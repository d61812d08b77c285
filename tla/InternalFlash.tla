--------------------------- MODULE InternalFlash ---------------------------
(***************************************************************************)
(* The internal flash of the netX 90 (internal_flash_maz_v0.c).  Three     *)
(* controllers each hold a main array and two info pages behind the same   *)
(* addresses; a register of the controller selects which of them is seen   *)
(* and programmed.  The selection outlives the call that made it, so what  *)
(* a call reads depends on the calls before, until it selects for itself.  *)
(*                                                                         *)
(* Flash and Erase work page by page and block by block, and the netX may  *)
(* be reset between two of them; the array keeps what it holds.  A cell    *)
(* may fail to program or to erase (Faults).                               *)
(***************************************************************************)
EXTENDS Integers

CONSTANTS
    Bits,      \* the bit positions of a byte
    MainSize,  \* IFLASH_NETX90_MAIN_ARRAY_SIZE_BYTES
    InfoSize,  \* IFLASH_NETX90_INFO_ARRAY_SIZE_BYTES
    InfoKSize, \* IFLASH_NETX90_INFOK_ARRAY_SIZE_BYTES
    PageSize,  \* IFLASH_MAZ_V0_PAGE_SIZE_BYTES
    BlockSize, \* IFLASH_MAZ_V0_ERASE_BLOCK_SIZE_IN_BYTES
    Devices,   \* the pairs <<unit, chip select>> the host detects
    Ranges,    \* the pairs <<start, end>> the host asks for
    Flashes,   \* what the flash may hold at first
    Payloads,  \* what the host may download
    Faults,    \* BOOLEAN: cells may keep their value
    MaxCalls   \* bound on the number of calls of a run

Byte == SUBSET Bits
Blank == Bits

Controllers == 0 .. 2
Parts == 0 .. 2                          \* iMain0_Info1_InfoK2
Cells == 0 .. MainSize - 1
Sections == Controllers \X Parts
Content == [Sections -> [Cells -> Byte]]
Buffer == [0 .. 2 * MainSize - 1 -> Byte]

ASSUME SizeAssumption ==
    /\ MainSize \in Nat \ {0} /\ PageSize \in Nat \ {0} /\ BlockSize \in Nat \ {0}
    /\ InfoSize \in 1 .. MainSize /\ InfoKSize \in 1 .. MainSize
    /\ MainSize % BlockSize = 0 /\ InfoSize % BlockSize = 0 /\ InfoKSize % BlockSize = 0
    /\ BlockSize % PageSize = 0

ASSUME HostAssumption ==
    /\ Devices \subseteq Nat \X Nat
    /\ Ranges \subseteq Nat \X Nat
    /\ Flashes \subseteq Content
    /\ Payloads \subseteq Buffer
    /\ Faults \in BOOLEAN /\ MaxCalls \in Nat

VARIABLES
    flash,    \* the arrays
    selected, \* ulIflash_ifren_cfg of each controller
    desc,     \* the area in the device description, Unknown without a valid one
    ram,      \* the host's buffer
    req,      \* the parameters of the call
    pc,       \* where the call is, "idle" between two calls
    offset,   \* ulOffset, where the loops of Flash and Erase are
    result,   \* the return value of the last call
    message,  \* pvReturnMessage
    area,     \* ulStartAdr and ulEndAdr after GetEraseArea
    calls     \* number of calls so far

vars == <<flash, selected, desc, ram, req, pc, offset, result, message, area, calls>>

-----------------------------------------------------------------------------
(* The areas of the device description.                                    *)

\* atUnitCsToAttr: unit 3 is the main arrays of the controllers 0 and 1 in a row.
Areas == (Controllers \X Parts) \cup {<<3, 0>>}

Unknown == <<>>   \* fIsValid = 0

Part(a) == a[2]

SizeOf(a) ==
    CASE Part(a) = 1 -> InfoSize
      [] Part(a) = 2 -> InfoKSize
      [] a = <<3, 0>> -> 2 * MainSize
      [] OTHER -> MainSize

Controller(a, o) == IF a[1] = 3 THEN o \div MainSize ELSE a[1]

\* The section and the cell behind an offset of the area.
Section(a, o) == <<Controller(a, o), Part(a)>>
Cell(o) == o % MainSize
Own(a, o) == flash[Section(a, o)][Cell(o)]

\* What the processor reads at this offset: the part the controller has selected.
Seen(a, o) == flash[<<Controller(a, o), selected[Controller(a, o)]>>][Cell(o)]

InCommandArea(s, e) == s <= e /\ s < SizeOf(desc) /\ e <= SizeOf(desc)

Span(r) == r.start .. r.end - 1

PageStart(o) == o - (o % PageSize)
Page(at) == at .. at + PageSize - 1
Block(at) == at .. at + BlockSize - 1

Least(a, b) == IF a <= b THEN a ELSE b

-----------------------------------------------------------------------------
(* Programming a page and erasing a block.                                 *)

\* Mutant: the part of the call before stays selected.
SelectedBefore(c) == selected

\* internal_flash_select_mode_and_clear_caches
Selected(c) == [selected EXCEPT ![c] = Part(desc)]

\* The contents of a section with the bytes new at the offsets from at to at + n - 1.
Put(section, at, n, new) ==
    [flash EXCEPT ![section] =
        [i \in Cells |-> IF i \in Cell(at) .. Cell(at) + n - 1 THEN new[at + i - Cell(at)] ELSE @[i]]]

Return(r) == result' = r /\ pc' = "idle"

\* What may be in the flash after a program request.  Data that would set a bit is
\* refused; data that is there already needs no programming.
Programs(old, data) ==
    IF \E o \in DOMAIN data : ~(data[o] \subseteq old[o])
    THEN {old}
    ELSE {new \in [DOMAIN data -> Byte] :
            \A o \in DOMAIN data :
                /\ data[o] \subseteq new[o] /\ new[o] \subseteq old[o]
                /\ Faults \/ new[o] = data[o]}

\* Only a cell that is not erased can fail to get erased.
Erases(old) ==
    {new \in [DOMAIN old -> Byte] : \A o \in DOMAIN old : new[o] = Blank \/ (Faults /\ new[o] = old[o])}

\* Mutant: the host's data is taken from the start of the page.
PageDataShifted(at) ==
    [o \in Page(at) |-> IF o \in Span(req) THEN ram[o - at] ELSE Seen(desc, o)]

\* Mutant: the buffer is not filled with the old contents.
PageDataUnpadded(at) ==
    [o \in Page(at) |-> IF o \in Span(req) THEN ram[o - req.start] ELSE {}]

\* The data for a page: what the host sent, and around it what is seen in the flash.
PageData(at) ==
    [o \in Page(at) |-> IF o \in Span(req) THEN ram[o - req.start] ELSE Seen(desc, o)]

\* internal_flash_maz_v0_flash_page, and what the loop makes of its result.
FlashPage(at, size) ==
    LET c == Controller(desc, at)
        section == <<c, Selected(c)[c]>>
        old == [o \in Page(at) |-> flash[section][Cell(o)]]
        data == PageData(at)
    IN  IF at % PageSize # 0
        THEN Return("ERROR") /\ UNCHANGED <<flash, selected, offset>>
        ELSE /\ selected' = Selected(c)
             /\ \E new \in Programs(old, data) :
                   /\ flash' = Put(section, at, PageSize, new)
                   /\ IF new = data
                      THEN offset' = offset + size /\ pc' = "pages" /\ result' = result
                      ELSE Return("ERROR") /\ offset' = offset

\* internal_flash_maz_v0_erase_block
EraseBlock(at) ==
    LET c == Controller(desc, at)
        section == <<c, Selected(c)[c]>>
        old == [o \in Block(at) |-> flash[section][Cell(o)]]
    IN  IF at % BlockSize # 0
        THEN Return("ERROR") /\ UNCHANGED <<flash, selected, offset>>
        ELSE /\ selected' = Selected(c)
             /\ \E new \in Erases(old) :
                   /\ flash' = Put(section, at, BlockSize, new)
                   /\ IF \E o \in Block(at) : new[o] # Blank
                      THEN Return("ERROR") /\ offset' = offset
                      ELSE /\ offset' = offset + BlockSize
                           /\ IF offset' < req.end THEN UNCHANGED <<pc, result>> ELSE Return("OK")

-----------------------------------------------------------------------------
(* The calls.                                                              *)

Modes == {"Flash", "Erase", "Read", "Verify", "Checksum", "IsErased", "GetEraseArea"}

Requests ==
    [mode : {"Detect"}, device : Devices] \cup
    {[mode |-> m, start |-> r[1], end |-> r[2]] : m \in Modes, r \in Ranges}

Stay == UNCHANGED <<desc, req, calls>>

Running(mode) == pc = "run" /\ req.mode = mode /\ desc # Unknown

Call ==
    /\ pc = "idle" /\ calls < MaxCalls
    /\ req' \in Requests
    /\ ram' \in IF req'.mode \in {"Flash", "Verify"} THEN Payloads ELSE {ram}
    /\ pc' = "run" /\ result' = "none" /\ calls' = calls + 1
    /\ UNCHANGED <<flash, selected, desc, offset, message, area>>

Detect ==
    /\ pc = "run" /\ req.mode = "Detect"
    /\ IF req.device \in Areas
       THEN desc' = req.device /\ Return("OK")
       ELSE desc' = Unknown /\ Return("ERROR")
    /\ UNCHANGED <<flash, selected, ram, req, offset, message, area, calls>>

\* check_device_description refuses the call before it reaches the driver.
NotDetected ==
    /\ pc = "run" /\ req.mode # "Detect" /\ desc = Unknown
    /\ Return("ERROR")
    /\ UNCHANGED <<flash, selected, desc, ram, req, offset, message, area, calls>>

\* An empty range is no error, wherever it is.
Empty == req.start = req.end

Nothing ==
    /\ pc = "run" /\ req.mode \in {"Flash", "Erase", "Read", "Verify", "IsErased"} /\ desc # Unknown
    /\ Empty \/ ~InCommandArea(req.start, req.end)
    /\ Return(IF Empty THEN "OK" ELSE "ERROR")
    /\ Stay /\ UNCHANGED <<flash, selected, ram, offset, message, area>>

Something(mode) == Running(mode) /\ ~Empty /\ InCommandArea(req.start, req.end)

Flash ==
    /\ Something("Flash")
    /\ offset' = req.start
    /\ pc' = IF req.start % PageSize # 0 THEN "first" ELSE "pages"
    /\ Stay /\ UNCHANGED <<flash, selected, ram, result, message, area>>

\* The range starts in the middle of a page.
FlashFirst ==
    /\ pc = "first"
    /\ FlashPage(PageStart(offset), Least(PageSize - (offset % PageSize), req.end - offset))
    /\ Stay /\ UNCHANGED <<ram, message, area>>

\* Mutant: the offset is not moved on.
FlashCompleteAgain ==
    /\ pc = "pages" /\ offset + PageSize <= req.end
    /\ FlashPage(offset, 0)
    /\ Stay /\ UNCHANGED <<ram, message, area>>

FlashComplete ==
    /\ pc = "pages" /\ offset + PageSize <= req.end
    /\ FlashPage(offset, PageSize)
    /\ Stay /\ UNCHANGED <<ram, message, area>>

FlashLast ==
    /\ pc = "pages" /\ offset + PageSize > req.end /\ offset # req.end
    /\ FlashPage(offset, req.end - offset)
    /\ Stay /\ UNCHANGED <<ram, message, area>>

FlashDone ==
    /\ pc = "pages" /\ offset = req.end
    /\ Return("OK")
    /\ Stay /\ UNCHANGED <<flash, selected, ram, offset, message, area>>

Erase ==
    /\ Something("Erase")
    /\ IF req.start % BlockSize # 0 \/ req.end % BlockSize # 0
       THEN Return("ERROR") /\ offset' = offset
       ELSE offset' = req.start /\ pc' = "erase" /\ result' = result
    /\ Stay /\ UNCHANGED <<flash, selected, ram, message, area>>

EraseNext ==
    /\ pc = "erase"
    /\ EraseBlock(offset)
    /\ Stay /\ UNCHANGED <<ram, message, area>>

\* Mutant: the part is not selected.
LooksAnyway(r) == selected' = selected

\* Read, Verify and IsErased look at the whole range through the window, after they
\* have selected the part on the controller of the first byte.
Looks(r) == selected' = Selected(Controller(desc, r.start))

SeenNow(o) == flash[<<Controller(desc, o), selected'[Controller(desc, o)]>>][Cell(o)]

Read ==
    /\ Something("Read")
    /\ Looks(req)
    /\ ram' = [i \in DOMAIN ram |-> IF req.start + i < req.end THEN SeenNow(req.start + i) ELSE ram[i]]
    /\ Return("OK")
    /\ Stay /\ UNCHANGED <<flash, offset, message, area>>

Verify ==
    /\ Something("Verify")
    /\ Looks(req)
    /\ Return(IF \A o \in Span(req) : SeenNow(o) = ram[o - req.start] THEN "OK" ELSE "ERROR")
    /\ message' = result'
    /\ Stay /\ UNCHANGED <<flash, ram, offset, area>>

\* The answer is the last byte looked at.
IsErased ==
    /\ Something("IsErased")
    /\ Looks(req)
    /\ \E o \in Span(req) :
          /\ SeenNow(o) # Blank \/ o = req.end - 1
          /\ \A b \in req.start .. o - 1 : SeenNow(b) = Blank
          /\ message' = IF SeenNow(o) = Blank THEN "blank" ELSE "dirty"
    /\ Return("OK")
    /\ Stay /\ UNCHANGED <<flash, ram, offset, area>>

Checksum ==
    /\ Running("Checksum")
    /\ Return("ERROR")
    /\ Stay /\ UNCHANGED <<flash, selected, ram, offset, message, area>>

GetEraseArea ==
    /\ Running("GetEraseArea")
    /\ IF InCommandArea(req.start, req.end)
       THEN /\ area' = <<(req.start \div BlockSize) * BlockSize,
                         ((req.end + BlockSize - 1) \div BlockSize) * BlockSize>>
            /\ Return("OK")
       ELSE area' = area /\ Return("ERROR")
    /\ Stay /\ UNCHANGED <<flash, selected, ram, offset, message>>

\* The netX loses its RAM and its registers, the flash keeps its contents.
Reset ==
    /\ pc # "idle"
    /\ pc' = "idle" /\ result' = "none" /\ desc' = Unknown
    /\ selected' = [c \in Controllers |-> 0]
    /\ UNCHANGED <<flash, ram, req, offset, message, area, calls>>

-----------------------------------------------------------------------------
Init ==
    /\ flash \in Flashes
    /\ selected = [c \in Controllers |-> 0]
    /\ desc = Unknown
    /\ ram \in Payloads
    /\ req \in Requests
    /\ pc = "idle" /\ offset = 0 /\ result = "none" /\ message = "none" /\ area = <<0, 0>> /\ calls = 0

Step ==
    \/ Detect \/ NotDetected \/ Nothing
    \/ Flash \/ FlashFirst \/ FlashComplete \/ FlashLast \/ FlashDone
    \/ Erase \/ EraseNext
    \/ Read \/ Verify \/ IsErased \/ Checksum \/ GetEraseArea

Next == Call \/ Step \/ Reset

\* The program on the netX runs on by itself; nothing makes the host call it.
Spec == Init /\ [][Next]_vars /\ WF_vars(Step)

-----------------------------------------------------------------------------
TypeOK ==
    /\ flash \in Content
    /\ selected \in [Controllers -> Parts]
    /\ desc \in Areas \cup {Unknown}
    /\ ram \in Buffer
    /\ req \in Requests
    /\ pc \in {"idle", "run", "first", "pages", "erase"}
    /\ offset \in Nat
    /\ result \in {"none", "OK", "ERROR"}
    /\ message \in {"none", "OK", "ERROR", "blank", "dirty"}
    /\ area \in Nat \X Nat
    /\ calls \in 0 .. MaxCalls

Returned(mode) == pc = "idle" /\ result # "none" /\ req.mode = mode

(* A Flash call that returns OK has put every byte of the host's data at its   *)
(* place in the named area, whatever was selected before and whichever         *)
(* controllers the range spans, although each page is padded and checked       *)
(* through the window (internal_flash_maz_v0_flash).                           *)
FlashOkIsWritten ==
    Returned("Flash") /\ result = "OK" =>
        \A o \in Span(req) : Own(desc, o) = ram[o - req.start]

(* An Erase call that returns OK has left every byte of the range blank, also  *)
(* when a block was skipped because it seemed blank already.                   *)
EraseOkIsBlank ==
    Returned("Erase") /\ result = "OK" => \A o \in Span(req) : Own(desc, o) = Blank

\* An OK of Flash or Erase means that it is done, however many pages or blocks it
\* took and whatever is selected meanwhile.
OkMeansDone == FlashOkIsWritten /\ EraseOkIsBlank

\* Whether the step leaves the byte behind an offset of a section alone.
Kept(section, i) == flash'[section][i] = flash[section][i]

\* The cells of the pages, or of the blocks, of the range.
PagesOf(r) == {o \in 0 .. SizeOf(desc) - 1 : PageStart(o) < r.end /\ PageStart(o) + PageSize > r.start}

(* No step changes a byte outside the section the call is about: the main array *)
(* survives a call about an info page and the other way round.  Inside, a Flash *)
(* call only clears bits of the pages that hold a byte of the range, and an     *)
(* Erase call changes nothing outside its range.                                *)
OnlyTheNamedArea ==
    [][flash' # flash =>
        /\ req.mode \in {"Flash", "Erase"}
        /\ \A s \in Sections, i \in Cells :
              \/ Kept(s, i)
              \/ \E o \in IF req.mode = "Flash" THEN PagesOf(req) ELSE Span(req) :
                    /\ s = Section(desc, o) /\ i = Cell(o)
                    /\ req.mode = "Flash" => flash'[s][i] \subseteq flash[s][i]]_vars

\* The bytes around the range survive a step.
RestKept == flash' # flash => \A o \in PagesOf(req) \ Span(req) : Kept(Section(desc, o), Cell(o))

(* The comments at lines 1005 and 1063: the old contents of the page are taken  *)
(* over.  The code reads them before it selects the part, so it does not always *)
(* do that; it does when the part was selected before on the controller of the  *)
(* page, as it is after any other operation there.                              *)
FlashKeepsTheRestOnceSelected ==
    [][req.mode = "Flash" /\ pc \in {"first", "pages"}
       /\ selected[Controller(desc, offset)] = Part(desc) => RestKept]_vars

\* The range lies behind one controller, whose part the call selects.
OneController(r) == Controller(desc, r.start) = Controller(desc, r.end - 1)

(* Verify says OK, and IsErased gives a blank byte, exactly when the named area *)
(* has that contents; Read delivers the area.  This needs a range behind one    *)
(* controller: a range of unit 3 that goes over to controller 1 is read through *)
(* whatever part that one has selected.                                         *)
AnswersAboutTheArea ==
    result \in {"OK", "ERROR"} /\ req.mode \in {"Verify", "Read", "IsErased"} /\ desc # Unknown
    /\ req.start < req.end /\ InCommandArea(req.start, req.end) /\ OneController(req) =>
        CASE req.mode = "Verify" ->
                (result = "OK") <=> \A o \in Span(req) : Own(desc, o) = ram[o - req.start]
          [] req.mode = "Read" ->
                \A o \in Span(req) : Own(desc, o) = ram[o - req.start]
          [] req.mode = "IsErased" ->
                (message = "blank") <=> \A o \in Span(req) : Own(desc, o) = Blank

(* Every call returns unless the netX is reset: the loops of Flash and Erase    *)
(* make progress.                                                               *)
CallReturns == pc # "idle" ~> pc = "idle"
=============================================================================
