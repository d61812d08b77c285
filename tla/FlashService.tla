---------------------------- MODULE FlashService ----------------------------
(***************************************************************************)
(* What one call of the flasher promises its host, whatever device driver  *)
(* serves it.  A call is made of a request, any number of steps that       *)
(* change the flash array (mem) or the host's data buffer (ram), and a     *)
(* return with a result.  A device driver (SpiFlasher, ...) is shown to    *)
(* implement this module.  What check_params refuses returns ERROR and     *)
(* changes nothing; what it lets through may reach behind the flash, and   *)
(* is then about the cells that the device selects for such offsets.       *)
(*                                                                         *)
(* A byte is the set of its bits that are 1, so that programming NOR cells *)
(* is an intersection and an erased byte (0xff) is the set of all bits.    *)
(* On an SD card an erased byte is 0x00.                                   *)
(***************************************************************************)
EXTENDS Integers

CONSTANTS
    Bits,   \* the bit positions of a byte
    Size,   \* number of bytes of the flash
    Block,  \* maps each cell to the erase block it belongs to, a set of cells
    Ranges, \* the pairs <<start, end>> a request may carry
    EndOfChip \* 0xffffffff, the end offset that check_params lets through as it is

VARIABLES
    mem,     \* the flash array
    ram,     \* the host's data buffer
    req,     \* the last request: its mode, first offset and last offset + 1
    busy,    \* a call is in progress
    result,  \* NETX_CONSOLEAPP_RESULT_T of the last call, "none" while busy
    message, \* pvReturnMessage
    digest,  \* the bytes fed to the hash
    area,    \* the answer of GetEraseArea
    card     \* the device of the request is an SD card, which writes over what it holds

vars == <<mem, ram, req, busy, result, message, digest, area, card>>

Byte == SUBSET Bits
Blank == IF card THEN {} ELSE Bits
Cells == 0 .. Size - 1
Image == [Cells -> Byte]

Modes == {"Flash", "Erase", "Read", "Verify", "Checksum", "IsErased", "GetEraseArea"}

\* What check_params lets through: a start inside the flash and an end up to its size
\* or 0xffffffff.  Of a Flash request it compares only the length, so that its end may
\* lie behind the flash, and of GetEraseArea no end at all.
Accepted(r) ==
    /\ r.start < Size /\ r.start <= r.end
    /\ CASE r.mode = "Flash"        -> r.end - r.start <= Size
         [] r.mode = "GetEraseArea" -> TRUE
         [] OTHER                   -> r.end <= Size \/ r.end = EndOfChip

\* The host's buffer has room for what it asks to be read or compared.
Requests ==
    {r \in {[mode |-> m, start |-> b[1], end |-> b[2]] : m \in Modes, b \in Ranges} :
        r.mode \in {"Read", "Verify"} => r.end - r.start <= Size}

\* GetEraseArea takes 0xffffffff for the size of the flash.
End(r) == IF r.mode = "GetEraseArea" /\ r.end = EndOfChip THEN Size ELSE r.end

\* The bytes a request is about: the end offset is the last byte's plus one.
Span(r) == r.start .. End(r) - 1

\* An offset behind the end of the flash selects a cell from its start on.
Cell(a) == a % Size
Named(r) == {Cell(a) : a \in Span(r)}

\* Every erase block that holds a byte of the request, or its start.
Touched(r) == UNION {Block[b] : b \in Named(r) \cup {r.start}}

-----------------------------------------------------------------------------
(* What a step of a call may do to the flash and to the host's buffer.     *)

\* Writing clears bits the data wants cleared, and touches nothing else.
Programs(r) ==
    /\ \A a \in Cells \ Named(r) : mem'[a] = mem[a]
    /\ card \/ \A b \in Span(r) : LET a == Cell(b) IN
           mem[a] \cap ram[b - r.start] \subseteq mem'[a] /\ mem'[a] \subseteq mem[a]

\* Erasing turns cells of the touched blocks blank, and no others.
Erases(r) ==
    \A a \in Cells : mem'[a] = mem[a] \/ (a \in Touched(r) /\ mem'[a] = Blank)

\* Reading copies bytes of the request to their place in the host's buffer.
Reads(r) ==
    \A i \in Cells :
        \/ ram'[i] = ram[i]
        \/ r.start + i \in Span(r) /\ ram'[i] = mem[Cell(r.start + i)]

Change ==
    IF Accepted(req)
    THEN /\ CASE req.mode = "Flash" -> mem' \in Image /\ Programs(req)
               [] req.mode = "Erase" -> mem' \in Image /\ Erases(req)
               [] OTHER              -> mem' = mem
         /\ IF req.mode = "Read" THEN ram' \in Image /\ Reads(req) ELSE ram' = ram
    ELSE UNCHANGED <<mem, ram>>

-----------------------------------------------------------------------------
(* What the result OK tells the host.                                      *)

Matches(r) == \A a \in Span(r) : mem'[Cell(a)] = ram'[a - r.start]

\* The area covers the range and lies in the touched blocks.  For an end behind the
\* flash it ends there too, or the sum has overflown and the area is empty.
Covers(r) ==
    /\ area'[1] <= r.start /\ area'[1] \in Block[r.start] /\ area'[2] # EndOfChip
    /\ End(r) <= Size => area'[2] <= Size
    /\ End(r) <= area'[2] \/ (Size < End(r) /\ area'[2] <= area'[1])
    /\ \A a \in Cells : area'[1] <= a /\ a < area'[2] => a \in Touched(r)

Promise(r) ==
    CASE r.mode = "Flash"        -> Matches(r)
      [] r.mode = "Verify"       -> message' = "OK" <=> Matches(r)
      [] r.mode = "Read"         -> Matches(r)
      [] r.mode = "IsErased"     -> message' = "blank" <=> \A a \in Named(r) : mem'[a] = Blank
      [] r.mode = "Checksum"     -> digest' = [i \in 0 .. (r.end - r.start) - 1 |-> mem'[Cell(r.start + i)]]
      [] r.mode = "GetEraseArea" -> Covers(r)
      [] OTHER                   -> TRUE

-----------------------------------------------------------------------------
Init ==
    /\ mem \in Image
    /\ ram \in Image
    /\ req \in Requests
    /\ busy = FALSE
    /\ result = "none"
    /\ message = "none"

\* The host downloads its data and its parameters and starts the flasher.
Call ==
    /\ ~busy
    /\ busy' = TRUE
    /\ req' \in Requests
    /\ ram' \in Image
    /\ result' = "none"
    /\ UNCHANGED <<mem, message, area>>

Work ==
    /\ busy
    /\ Change
    /\ UNCHANGED <<req, busy, result, message, area>>

Return ==
    /\ busy
    /\ busy' = FALSE
    /\ Change
    /\ result' \in {"OK", "ERROR"}
    /\ result' = "OK" => Accepted(req) /\ Promise(req)
    /\ req.mode \in {"Verify", "IsErased"} \/ message' = message
    /\ req.mode = "GetEraseArea" \/ area' = area
    /\ UNCHANGED req

Next == Call \/ Work \/ Return

Spec == Init /\ [][Next]_vars
=============================================================================
