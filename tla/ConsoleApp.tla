----------------------------- MODULE ConsoleApp -----------------------------
(***************************************************************************)
(* main.c: one call of the console application.  It checks the parameter   *)
(* block and the device description, which an earlier call has left in the *)
(* RAM of the netX, and hands the request to the driver of the bus the     *)
(* description names.  EasyErase is a pipeline of three such requests over *)
(* one parameter block, changed in place.                                  *)
(*                                                                         *)
(* Of a flash only the cells that are not blank are kept (dirty).  Here a  *)
(* driver's operation is one step; SpiFlasher takes one apart.             *)
(***************************************************************************)
EXTENDS Integers, FiniteSets

CONSTANTS
    Devices,   \* the flash memories of the board
    BusOf,     \* the bus of each
    SizeOf,    \* and its size in bytes
    Borders,   \* where its erase blocks start
    BlockSize, \* the size of an erase block on SPI and in the internal flash
    Word,      \* 2^32, the range of an unsigned long
    Versions,  \* values of FLASHER_INTERFACE_VERSION
    Offsets,   \* the offsets and sizes a host may pass
    Dirt,      \* what the flash memories may hold at first
    MaxCalls   \* bound on the number of calls and loads of a run

Buses == {"ParFlash", "SPI", "IFlash", "SDIO"}
EndOfChip == Word - 1
Cells(d) == 0 .. SizeOf[d] - 1

ASSUME BoardAssumption ==
    /\ BusOf \in [Devices -> Buses]
    /\ SizeOf \in [Devices -> Nat \ {0}]
    /\ BlockSize \in Nat \ {0}
    /\ Word \in Nat \ {0} /\ Word % BlockSize = 0
    /\ \A d \in Devices :
          /\ 0 \in Borders[d] /\ Borders[d] \subseteq Cells(d)
          /\ SizeOf[d] + BlockSize < Word
          /\ BusOf[d] \in {"SPI", "IFlash"} =>
                /\ SizeOf[d] % BlockSize = 0
                /\ Borders[d] = {a \in Cells(d) : a % BlockSize = 0}
    /\ Offsets \subseteq 0 .. Word - 1
    /\ Dirt \subseteq [Devices -> SUBSET Nat]
    /\ \A x \in Dirt : \A d \in Devices : x[d] \subseteq Cells(d)
    /\ MaxCalls \in Nat

\* Every cell lies in a sector, and there is a next sector or none.
ASSUME SectorAssumption ==
    \A d \in Devices : \A a \in Cells(d) :
        /\ \E b \in Borders[d] : b <= a /\ \A c \in Borders[d] : c <= a => c <= b
        /\ \A b \in Borders[d] : b > a =>
              \E n \in Borders[d] : n > a /\ \A c \in Borders[d] : c > a => n <= c

VARIABLES
    dirty,   \* the cells of each flash that are not blank
    desc,    \* the device description in the RAM of the netX
    loaded,  \* the interface version of the flasher that is loaded
    req,     \* the parameter block; drivers and EasyErase change it
    asked,   \* history: the parameter block as the host wrote it
    pc,      \* where the call is, "idle" between two calls
    result,  \* the return value of the last call
    message, \* pvReturnMessage
    found,   \* history: what the last detection has found, and by which version
    calls    \* number of calls and loads so far

vars == <<dirty, desc, loaded, req, asked, pc, result, message, found, calls>>

\* The word behind ulStartAdr is ulEndAdr, in a Flash request ulDataByteSize.
RangeModes == {"Erase", "Read", "Verify", "Checksum", "IsErased", "GetEraseArea", "EasyErase"}
DeviceModes == RangeModes \cup {"Flash"}
Modes == DeviceModes \cup {"Detect", "GetBoardInfo", "SpiMacroPlayer", "unknown"}

NoDevice == "no device"
Cleared == [valid |-> FALSE, version |-> 0, device |-> NoDevice]
Describes(d) == [valid |-> TRUE, version |-> loaded, device |-> d]

TypeOK ==
    /\ dirty \in [Devices -> SUBSET Nat]
    /\ \A d \in Devices : dirty[d] \subseteq Cells(d)
    /\ desc \in [valid : BOOLEAN, version : Versions \cup {0}, device : Devices \cup {NoDevice}]
    /\ loaded \in Versions
    /\ req \in [mode : Modes, version : Versions, start : 0 .. Word - 1, end : 0 .. Word - 1,
               device : Devices \cup {NoDevice}]
    /\ pc \in {"idle", "check", "run", "easyCheck", "easyErase"}
    /\ result \in {"none", "OK", "ERROR"}
    /\ message \in {"none", "blank", "dirty", "difference", "size"}
    /\ calls \in 0 .. MaxCalls

Init ==
    /\ dirty \in Dirt
    /\ desc = Cleared
    /\ loaded \in Versions
    /\ req \in [mode : {"Detect"}, version : {loaded}, start : {0}, end : {0}, device : Devices]
    /\ asked = req
    /\ pc = "idle" /\ result = "none" /\ message = "none"
    /\ found = <<NoDevice, 0>>
    /\ calls = 0

-----------------------------------------------------------------------------
(* Erase blocks.                                                           *)

BlockFrom(d, a) == CHOOSE b \in Borders[d] : b <= a /\ \A c \in Borders[d] : c <= a => c <= b
BlockUpTo(d, a) ==
    LET after == {b \in Borders[d] : b > a}
    IN  IF after = {} THEN SizeOf[d] ELSE CHOOSE b \in after : \A c \in after : b <= c
BlockAround(d, a) == BlockFrom(d, a) .. BlockUpTo(d, a) - 1

RoundDown(a) == a - (a % BlockSize)
RoundUp(a) == (((a + BlockSize - 1) % Word) \div BlockSize) * BlockSize
UpToBorder(a) == IF a % BlockSize = 0 THEN a ELSE (a + (BlockSize - (a % BlockSize))) % Word

\* check_command_area of the internal flash.
InCommandArea(d, s, e) == s <= e /\ s < SizeOf[d] /\ e <= SizeOf[d]

-----------------------------------------------------------------------------
(* What the four drivers make of a request: the cells they go through, and *)
(* whether the operation can succeed at all.                               *)

Does(can, cells) == [ok |-> can, cells |-> cells]
Refuses == Does(FALSE, {})

\* An SPI flash decodes only its own address bits and goes on at its start; the
\* parallel flash runs out of sectors, the card refuses what is behind its end.
Programs(d, s, n) ==
    LET inside == s .. s + n - 1 \cap Cells(d) IN
    CASE BusOf[d] = "SPI" -> Does(TRUE, {a % SizeOf[d] : a \in s .. s + n - 1})
      [] BusOf[d] = "IFlash" ->
             IF n = 0 THEN Does(TRUE, {})
             ELSE IF InCommandArea(d, s, (s + n) % Word) THEN Does(TRUE, inside) ELSE Refuses
      [] OTHER -> Does(s + n <= SizeOf[d], inside)

Erases(d, s, e) ==
    LET inside == s .. e - 1 \cap Cells(d) IN
    CASE BusOf[d] = "SPI" -> Does(TRUE, RoundDown(s) .. UpToBorder(e) - 1 \cap Cells(d))
      [] BusOf[d] = "ParFlash" ->
             Does(TRUE, {a \in Cells(d) : BlockFrom(d, a) = BlockFrom(d, s)
                                            \/ (a > s /\ BlockFrom(d, a) < e)})
      [] BusOf[d] = "IFlash" ->
             IF s = e THEN Does(TRUE, {})
             ELSE IF InCommandArea(d, s, e) /\ s % BlockSize = 0 /\ e % BlockSize = 0
                  THEN Does(TRUE, inside) ELSE Refuses
      [] OTHER -> Does(e <= SizeOf[d], inside)

\* In the parallel flash the end of the chip is a pointer before its start.
Checks(d, s, e) ==
    CASE BusOf[d] = "SPI" -> Does(TRUE, {a % SizeOf[d] : a \in s .. e - 1})
      [] BusOf[d] = "ParFlash" -> Does(TRUE, IF e = EndOfChip THEN {} ELSE s .. e - 1)
      [] BusOf[d] = "IFlash" -> IF s = e \/ InCommandArea(d, s, e) THEN Does(TRUE, s .. e - 1) ELSE Refuses
      [] OTHER -> Does(e <= SizeOf[d], s .. e - 1 \cap Cells(d))

\* Mutant: the end offset is taken for the last byte.
BlocksOfLast(d, s, e) ==
    CASE BusOf[d] = "ParFlash" -> [ok |-> e < SizeOf[d], start |-> BlockFrom(d, s), end |-> BlockUpTo(d, e)]
      [] BusOf[d] = "IFlash" -> [ok |-> InCommandArea(d, s, e), start |-> RoundDown(s), end |-> RoundUp(e)]
      [] BusOf[d] = "SPI" -> [ok |-> TRUE, start |-> RoundDown(s), end |-> RoundUp(e)]
      [] OTHER -> [ok |-> TRUE, start |-> s, end |-> e]

\* The request widened to erase blocks.  The parallel flash looks for the sector of
\* the last byte; a card has no erase blocks.
EraseBlocks(d, s, e) ==
    CASE BusOf[d] = "ParFlash" ->
             [ok |-> e # 0 /\ e <= SizeOf[d], start |-> BlockFrom(d, s),
              end |-> IF e # 0 /\ e <= SizeOf[d] THEN BlockUpTo(d, e - 1) ELSE e]
      [] BusOf[d] = "IFlash" -> [ok |-> InCommandArea(d, s, e), start |-> RoundDown(s), end |-> RoundUp(e)]
      [] BusOf[d] = "SPI" -> [ok |-> TRUE, start |-> RoundDown(s), end |-> RoundUp(e)]
      [] OTHER -> [ok |-> TRUE, start |-> s, end |-> e]

-----------------------------------------------------------------------------
(* check_params                                                            *)

\* Mutant: a description left behind by another version of the flasher is taken.
DescriptionIsValid == desc.valid

\* The size of the description differs with its version.
CheckDeviceDescription == desc.valid /\ desc.version = loaded

\* Only the data size is compared with the flash size, not where the data ends.
CheckOffsets(r) ==
    LET size == SizeOf[desc.device] IN
    /\ r.start < size
    /\ r.mode \in RangeModes => r.end <= size \/ r.mode = "GetEraseArea" \/ r.end = EndOfChip
    /\ r.mode = "Flash" => r.end <= size

CheckParams(r) ==
    /\ r.version = loaded
    /\ r.mode # "unknown"
    /\ r.mode \in DeviceModes => CheckDeviceDescription /\ CheckOffsets(r)
    /\ r.mode \in RangeModes => r.start <= r.end

-----------------------------------------------------------------------------
(* A call begins.                                                          *)

Stay == UNCHANGED <<loaded, asked, found, calls>>
Return(res) == pc' = "idle" /\ result' = res
Succeed(ok) == Return(IF ok THEN "OK" ELSE "ERROR")

\* The host loads a flasher; the description in the RAM stays as it is.
Load(version) ==
    /\ pc = "idle" /\ calls < MaxCalls /\ calls' = calls + 1
    /\ loaded' = version
    /\ UNCHANGED <<dirty, desc, req, asked, pc, result, message, found>>

Call(r) ==
    /\ pc = "idle" /\ calls < MaxCalls /\ calls' = calls + 1
    /\ req' = r /\ asked' = r
    /\ pc' = "check" /\ result' = "none" /\ message' = "none"
    /\ UNCHANGED <<dirty, desc, loaded, found>>

Refuse ==
    /\ pc = "check" /\ ~CheckParams(req)
    /\ Return("ERROR")
    /\ Stay /\ UNCHANGED <<dirty, desc, req, message>>

Accept ==
    /\ pc = "check" /\ CheckParams(req)
    /\ pc' = "run"
    /\ Stay /\ UNCHANGED <<dirty, desc, req, result, message>>

-----------------------------------------------------------------------------
(* The modes.                                                              *)

Running(modes) == pc = "run" /\ req.mode \in modes

\* The description is cleared first and filled only when the device is found.
Detect ==
    /\ Running({"Detect"})
    /\ \E ok \in BOOLEAN :
          /\ desc' = IF ok THEN Describes(req.device) ELSE Cleared
          /\ found' = IF ok THEN <<req.device, loaded>> ELSE <<NoDevice, 0>>
          /\ Succeed(ok)
    /\ UNCHANGED <<dirty, loaded, req, asked, message, calls>>

\* Cells programmed with data that is not blank become dirty.
Flash ==
    /\ Running({"Flash"})
    /\ LET does == Programs(desc.device, req.start, req.end) IN
       \E ok \in BOOLEAN, written \in SUBSET does.cells :
          /\ ok => does.ok
          /\ dirty' = [dirty EXCEPT ![desc.device] = @ \cup written]
          /\ Succeed(ok)
    /\ Stay /\ UNCHANGED <<desc, req, message>>

\* A driver that fails has erased some of the blocks.
EraseIn(label) ==
    /\ pc = label
    /\ LET does == Erases(desc.device, req.start, req.end) IN
       \E ok \in BOOLEAN, gone \in SUBSET does.cells :
          /\ ok => does.ok /\ gone = does.cells
          /\ dirty' = [dirty EXCEPT ![desc.device] = @ \ gone]
          /\ Succeed(ok)
    /\ Stay /\ UNCHANGED <<desc, req, message>>

Erase == Running({"Erase"}) /\ EraseIn("run")

\* Read, Verify and Checksum leave the flash alone.
Inspect ==
    /\ Running({"Read", "Verify", "Checksum"})
    /\ \E ok \in BOOLEAN :
          /\ Succeed(ok)
          /\ message' \in IF req.mode = "Verify" THEN {message, "difference"} ELSE {message}
    /\ Stay /\ UNCHANGED <<dirty, desc, req>>

\* The answer of the drivers' isErased; the internal flash has none for an empty range.
Answer(does) ==
    IF BusOf[desc.device] = "IFlash" /\ req.start = req.end THEN message
    ELSE IF does.cells \cap dirty[desc.device] = {} THEN "blank" ELSE "dirty"

IsErased ==
    /\ Running({"IsErased"})
    /\ LET does == Checks(desc.device, req.start, req.end) IN
       \E ok \in BOOLEAN :
          /\ ok => does.ok
          /\ message' = IF ok THEN Answer(does) ELSE message
          /\ Succeed(ok)
    /\ Stay /\ UNCHANGED <<dirty, desc, req>>

\* opMode_getEraseArea: the end of the chip is resolved and stays so even on an error.
Widen(next) ==
    LET e == IF req.end = EndOfChip THEN SizeOf[desc.device] ELSE req.end
        area == EraseBlocks(desc.device, req.start, e)
    IN  IF area.ok
        THEN req' = [req EXCEPT !.start = area.start, !.end = area.end] /\ next
        ELSE req' = [req EXCEPT !.end = e] /\ Return("ERROR")

GetEraseArea ==
    /\ Running({"GetEraseArea"})
    /\ Widen(Return("OK"))
    /\ Stay /\ UNCHANGED <<dirty, desc, message>>

\* Only the bus table and the unit tables exist, their size is the message.
GetBoardInfo ==
    /\ Running({"GetBoardInfo"})
    /\ IF EndOfChip \in {req.start, req.end}
       THEN Return("OK") /\ message' = "size"
       ELSE Return("ERROR") /\ message' = "none"
    /\ Stay /\ UNCHANGED <<dirty, desc, req>>

SpiMacroPlayer ==
    /\ Running({"SpiMacroPlayer"})
    /\ \E ok \in BOOLEAN : Succeed(ok)
    /\ Stay /\ UNCHANGED <<dirty, desc, req, message>>

-----------------------------------------------------------------------------
(* opMode_easyErase                                                        *)

EasyArea ==
    /\ Running({"EasyErase"})
    /\ Widen(pc' = "easyCheck" /\ UNCHANGED result)
    /\ Stay /\ UNCHANGED <<dirty, desc, message>>

\* Mutant: an area that is not clean is left alone.
EasyCheckInverted ==
    /\ pc = "easyCheck"
    /\ LET does == Checks(desc.device, req.start, req.end) IN
       \E ok \in BOOLEAN :
          /\ ok => does.ok
          /\ message' = IF ok THEN Answer(does) ELSE message
          /\ IF ok /\ message' = "blank" THEN pc' = "easyErase" /\ UNCHANGED result ELSE Succeed(ok)
    /\ Stay /\ UNCHANGED <<dirty, desc, req>>

EasyCheck ==
    /\ pc = "easyCheck"
    /\ LET does == Checks(desc.device, req.start, req.end) IN
       \E ok \in BOOLEAN :
          /\ ok => does.ok
          /\ message' = IF ok THEN Answer(does) ELSE message
          /\ IF ok /\ message' # "blank" THEN pc' = "easyErase" /\ UNCHANGED result ELSE Succeed(ok)
    /\ Stay /\ UNCHANGED <<dirty, desc, req>>

EasyErase == EraseIn("easyErase")

-----------------------------------------------------------------------------
\* Only a detection names a device, only some modes have offsets.
Requests ==
    [mode : {"Detect"}, version : Versions, start : {0}, end : {0}, device : Devices] \cup
    [mode : DeviceModes \cup {"GetBoardInfo"}, version : Versions, start : Offsets, end : Offsets,
     device : {NoDevice}] \cup
    [mode : {"SpiMacroPlayer", "unknown"}, version : Versions, start : {0}, end : {0}, device : {NoDevice}]

Mode == \/ Detect \/ Flash \/ Erase \/ Inspect \/ IsErased \/ GetEraseArea
        \/ GetBoardInfo \/ SpiMacroPlayer \/ EasyArea \/ EasyCheck \/ EasyErase

Step == Refuse \/ Accept \/ Mode

Next == (\E v \in Versions : Load(v)) \/ (\E r \in Requests : Call(r)) \/ Step

\* The console application is one thread: it runs until it returns.
Spec == Init /\ [][Next]_vars /\ WF_vars(Step)

-----------------------------------------------------------------------------
(* What the host can rely on.                                              *)

\* A call changes at most the flash which the last detection has found, and only when the
\* flasher that is loaded now has found it: a description that is stale, of another
\* version or left by a failed detection never reaches a driver.
OnlyDetectedChanges ==
    [][\A d \in Devices : dirty'[d] # dirty[d] => found = <<d, loaded>>]_vars

\* The cells the host means, with the end of the chip resolved.
Meant(r, d) == {a \in Cells(d) : r.start <= a /\ a < r.end}

\* When EasyErase returns OK every byte the host has named is blank, whatever the bus:
\* the area was found clean or was erased, through the parameter block changed in place.
EasyEraseClears ==
    pc = "idle" /\ asked.mode = "EasyErase" /\ result = "OK"
        => Meant(asked, desc.device) \cap dirty[desc.device] = {}

\* EasyErase loses no data outside the erase blocks the host's range touches.
EasyEraseConfined ==
    [][asked.mode = "EasyErase" =>
          \A d \in Devices : \A a \in dirty[d] \ dirty'[d] :
              \E b \in Meant(asked, d) \cup {asked.start} : a \in BlockAround(d, b)]_vars

=============================================================================
