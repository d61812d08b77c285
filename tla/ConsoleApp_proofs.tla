-------------------------- MODULE ConsoleApp_proofs --------------------------
(***************************************************************************)
(* For every board, host and outcome of the drivers: only the flash that   *)
(* was detected is changed, and EasyErase leaves what was asked blank.     *)
(***************************************************************************)
EXTENDS ConsoleApp, TLAPS

-----------------------------------------------------------------------------
(* Addresses and the borders of blocks                                     *)

\* An address is so many whole blocks and an offset into the next one.
LEMMA Division ==
    ASSUME NEW n \in Nat \ {0}, NEW a \in Nat
    PROVE  /\ a \div n \in Nat
           /\ a % n \in 0 .. n - 1
           /\ a = n * (a \div n) + (a % n)
    BY SMT

\* Whole blocks are on a border, and only they are.
LEMMA Multiple ==
    ASSUME NEW n \in Nat \ {0}, NEW q \in Nat
    PROVE  (n * q) % n = 0 /\ (n * q) \div n = q /\ n * q \in Nat
    BY SMT

\* A chip decodes an address that it has as itself.
LEMMA Decoded ==
    ASSUME NEW n \in Nat \ {0}, NEW a \in Nat, a < n
    PROVE  a % n = a
    BY SMT

\* The start of the block of an address.
LEMMA BlockStart ==
    ASSUME NEW n \in Nat \ {0}, NEW a \in Nat
    PROVE  /\ a - (a % n) \in Nat
           /\ a - (a % n) <= a
           /\ a < a - (a % n) + n
           /\ (a - (a % n)) % n = 0
    BY Division, Multiple

\* What lies on a border is a whole number of blocks.
LEMMA OnBorder ==
    ASSUME NEW n \in Nat \ {0}, NEW a \in Nat, a % n = 0
    PROVE  \E q \in Nat : a = n * q
<1>1. a \div n \in Nat /\ a = n * (a \div n) + (a % n)
    BY Division
<1>2. n * (a \div n) \in Nat
    BY <1>1, SMT
<1>3. a = n * (a \div n)
    BY <1>1, <1>2
<1> QED
    BY <1>1, <1>3

\* Borders are a whole block apart.
LEMMA BordersApart ==
    ASSUME NEW n \in Nat \ {0}, NEW a \in Nat, NEW b \in Nat,
           a % n = 0, b % n = 0, a < b
    PROVE  a + n <= b
<1>1. PICK p \in Nat : a = n * p
    BY OnBorder
<1>2. PICK q \in Nat : b = n * q
    BY OnBorder
<1>3. p < q
    BY <1>1, <1>2, SMT
<1>4. n * (p + 1) <= n * q
    BY <1>3, SMT
<1>5. n * (p + 1) = n * p + n
    BY SMT
<1> QED
    BY <1>1, <1>2, <1>4, <1>5

-----------------------------------------------------------------------------
(* The inductive invariant                                                 *)

AskedOK ==
    /\ asked.mode \in Modes
    /\ asked.mode = "Detect" => asked.device \in Devices
    /\ asked.start \in 0 .. Word - 1 /\ asked.end \in 0 .. Word - 1

\* A valid description is what the last detection has found.
Described ==
    /\ found \in (Devices \cup {NoDevice}) \X (Versions \cup {0})
    /\ desc.valid => desc.device \in Devices /\ found = <<desc.device, desc.version>>

\* What the checks have let pass is what runs.
Admitted ==
    /\ pc \in {"check", "run"} => req = asked
    /\ pc = "run" => CheckParams(req)

\* The widened area lies in the flash and covers what the host has asked for.
Covers(d) ==
    /\ req.end \in 0 .. SizeOf[d]
    /\ Meant(asked, d) \subseteq req.start .. req.end - 1

Widened ==
    pc \in {"easyCheck", "easyErase"} =>
        /\ CheckDeviceDescription
        /\ asked.mode = "EasyErase"
        /\ message \in {"none", "blank", "dirty"}
        /\ pc = "easyCheck" => message = "none"
        /\ Covers(desc.device)

Fresh == pc \in {"check", "run"} => message = "none"

IInv == TypeOK /\ AskedOK /\ Described /\ Admitted /\ Fresh /\ Widened /\ EasyEraseClears

-----------------------------------------------------------------------------
(* Erase blocks                                                            *)

\* The block of a cell holds it.
LEMMA BlockHolds ==
    ASSUME NEW d \in Devices, NEW a \in Cells(d)
    PROVE  /\ BlockFrom(d, a) \in Cells(d) /\ BlockFrom(d, a) <= a
           /\ BlockUpTo(d, a) \in Nat /\ a < BlockUpTo(d, a) /\ BlockUpTo(d, a) <= SizeOf[d]
<1>1. Borders[d] \subseteq Cells(d) /\ SizeOf[d] \in Nat \ {0}
    BY BoardAssumption
<1>2. BlockFrom(d, a) \in Borders[d] /\ BlockFrom(d, a) <= a
    <2>1. \E b \in Borders[d] : b <= a /\ \A c \in Borders[d] : c <= a => c <= b
        BY SectorAssumption
    <2> QED
        BY <2>1 DEF BlockFrom
<1>3. CASE {b \in Borders[d] : b > a} = {}
    BY <1>1, <1>2, <1>3 DEF BlockUpTo, Cells
<1>4. CASE {b \in Borders[d] : b > a} # {}
    <2> DEFINE after == {b \in Borders[d] : b > a}
    <2>1. \E n \in after : \A c \in after : n <= c
        <3>1. PICK b \in Borders[d] : b > a
            BY <1>4
        <3>2. PICK n \in Borders[d] : n > a /\ \A c \in Borders[d] : c > a => n <= c
            BY <3>1, SectorAssumption
        <3> QED
            BY <3>2
    <2>2. BlockUpTo(d, a) = CHOOSE b \in after : \A c \in after : b <= c
        BY <1>4 DEF BlockUpTo
    <2>3. BlockUpTo(d, a) \in after
        <3> HIDE DEF after
        <3> QED
            BY <2>1, <2>2
    <2> QED
        BY <1>1, <1>2, <2>3 DEF Cells
<1> QED
    BY <1>3, <1>4

\* Rounding an end in the flash up to a border stays in the flash, without overflow.
LEMMA RoundsUp ==
    ASSUME NEW size \in Nat, size % BlockSize = 0, size + BlockSize < Word,
           NEW e \in 0 .. size
    PROVE  /\ RoundUp(e) \in e .. size
           /\ UpToBorder(e) \in Nat /\ e <= UpToBorder(e)
<1> DEFINE n == BlockSize
           x == e + n - 1
<1>1. n \in Nat \ {0} /\ Word \in Nat /\ x \in Nat /\ x < Word /\ Word # 0
    BY BoardAssumption
<1>2. x % Word = x
    BY <1>1, Decoded
<1>3. /\ x \div n \in Nat /\ x % n \in 0 .. n - 1
      /\ x = n * (x \div n) + (x % n)
    BY <1>1, Division
<1>4. n * (x \div n) \in Nat /\ (n * (x \div n)) % n = 0
    BY <1>1, <1>3, Multiple
<1>5. RoundUp(e) = n * (x \div n)
    <2>1. RoundUp(e) = (x \div n) * n
        BY <1>2 DEF RoundUp
    <2>2. (x \div n) * n = n * (x \div n)
        BY <1>1, <1>3
    <2> QED
        BY <2>1, <2>2
<1>6. e <= n * (x \div n)
    <2> HIDE DEF n
    <2> DEFINE p == n * (x \div n)
               r == x % n
    <2>1. p \in Nat /\ r \in 0 .. n - 1 /\ e + n - 1 = p + r /\ n \in Nat /\ e \in Nat
        BY <1>1, <1>3, <1>4
    <2> HIDE DEF p, r
    <2>2. e <= p
        BY <2>1
    <2> QED
        BY <2>2 DEF p
<1>7. n * (x \div n) <= size
    <2> DEFINE p == n * (x \div n)
               r == x % n
    <2>1. p \in Nat /\ p % n = 0 /\ r \in 0 .. n - 1 /\ x = p + r
        BY <1>3, <1>4
    <2>2. SUFFICES ASSUME size < p PROVE FALSE
        BY <2>1
    <2>3. size + n <= p
        BY <1>1, <2>1, <2>2, BordersApart
    <2> HIDE DEF p, r, n
    <2> QED
        BY <1>1, <2>1, <2>3
<1>8. UpToBorder(e) \in Nat /\ e <= UpToBorder(e)
    <2>1. e % n \in 0 .. n - 1
        BY <1>1, Division
    <2>2. CASE e % n = 0
        BY <2>2 DEF UpToBorder
    <2>3. CASE e % n # 0
        <3> DEFINE u == e + (n - (e % n))
        <3>1. u \in Nat /\ u < Word /\ e <= u
            BY <1>1, <2>1
        <3>2. u % Word = u
            BY <1>1, <3>1, Decoded
        <3> QED
            BY <2>3, <3>1, <3>2 DEF UpToBorder
    <2> QED
        BY <2>2, <2>3
<1> QED
    BY <1>4, <1>5, <1>6, <1>7, <1>8

-----------------------------------------------------------------------------
(* What the drivers do with a widened area                                 *)

\* Widening an area in the flash covers it and stays in the flash.
LEMMA WideningCovers ==
    ASSUME NEW d \in Devices, NEW s \in Cells(d), NEW e \in 0 .. SizeOf[d], s <= e,
           EraseBlocks(d, s, e).ok
    PROVE  LET area == EraseBlocks(d, s, e) IN
           area.start \in 0 .. s /\ area.end \in e .. SizeOf[d]
<1>1. SizeOf[d] \in Nat \ {0} /\ BusOf[d] \in Buses /\ BlockSize \in Nat \ {0}
    BY BoardAssumption
<1>2. CASE BusOf[d] = "ParFlash"
    <2>1. e # 0 /\ e - 1 \in Cells(d)
        <3>1. EraseBlocks(d, s, e).ok = (e # 0 /\ e <= SizeOf[d])
            BY <1>2 DEF EraseBlocks
        <3>2. e # 0
            BY <3>1
        <3> QED
            BY <1>1, <3>2 DEF Cells
    <2>2. BlockFrom(d, s) \in 0 .. s /\ BlockUpTo(d, e - 1) \in e .. SizeOf[d]
        BY <1>1, <2>1, BlockHolds DEF Cells
    <2>3. EraseBlocks(d, s, e) = [ok |-> TRUE, start |-> BlockFrom(d, s), end |-> BlockUpTo(d, e - 1)]
        BY <1>2, <2>1 DEF EraseBlocks
    <2> QED
        BY <2>2, <2>3
<1>3. CASE BusOf[d] \in {"SPI", "IFlash"}
    <2>1. RoundUp(e) \in e .. SizeOf[d]
        BY <1>1, <1>3, BoardAssumption, RoundsUp
    <2>2. RoundDown(s) \in 0 .. s
        <3>1. s % BlockSize \in 0 .. BlockSize - 1
            BY <1>1, Division DEF Cells
        <3>2. s - (s % BlockSize) \in Nat
            BY <1>1, BlockStart DEF Cells
        <3> QED
            BY <1>1, <3>1, <3>2 DEF RoundDown, Cells
    <2>3. EraseBlocks(d, s, e).start = RoundDown(s) /\ EraseBlocks(d, s, e).end = RoundUp(e)
        BY <1>3 DEF EraseBlocks
    <2> QED
        BY <2>1, <2>2, <2>3
<1>4. CASE BusOf[d] = "SDIO"
    <2>1. EraseBlocks(d, s, e).start = s /\ EraseBlocks(d, s, e).end = e
        BY <1>4 DEF EraseBlocks
    <2> QED
        BY <1>1, <2>1 DEF Cells
<1> QED
    BY <1>1, <1>2, <1>3, <1>4 DEF Buses

\* A check that succeeds has looked at every cell of the area.
LEMMA CheckLooksAtAll ==
    ASSUME NEW d \in Devices, NEW s \in Nat, NEW e \in 0 .. SizeOf[d]
    PROVE  Checks(d, s, e).ok => s .. e - 1 \subseteq Checks(d, s, e).cells
<1>1. SizeOf[d] \in Nat \ {0} /\ BusOf[d] \in Buses /\ e # EndOfChip
    BY BoardAssumption DEF EndOfChip
<1>2. s .. e - 1 \subseteq Cells(d)
    BY <1>1 DEF Cells
<1>3. CASE BusOf[d] = "SPI"
    <2>1. \A a \in s .. e - 1 : a % SizeOf[d] = a
        BY <1>1, <1>2, Decoded DEF Cells
    <2>2. Checks(d, s, e).cells = {a % SizeOf[d] : a \in s .. e - 1}
        BY <1>3 DEF Checks, Does
    <2> QED
        BY <2>1, <2>2
<1>4. CASE BusOf[d] # "SPI"
    BY <1>1, <1>2, <1>4 DEF Checks, Does, Refuses
<1> QED
    BY <1>3, <1>4

\* An erase that succeeds has erased every cell of the area.
LEMMA EraseTakesAll ==
    ASSUME NEW d \in Devices, NEW s \in Nat, NEW e \in 0 .. SizeOf[d]
    PROVE  Erases(d, s, e).ok => s .. e - 1 \subseteq Erases(d, s, e).cells
<1>1. SizeOf[d] \in Nat \ {0} /\ BusOf[d] \in Buses /\ BlockSize \in Nat \ {0}
    BY BoardAssumption
<1>2. s .. e - 1 \subseteq Cells(d)
    BY <1>1 DEF Cells
<1>3. CASE BusOf[d] = "SPI"
    <2>1. UpToBorder(e) \in Nat /\ e <= UpToBorder(e)
        BY <1>1, <1>3, BoardAssumption, RoundsUp
    <2>2. RoundDown(s) \in Nat /\ RoundDown(s) <= s
        BY <1>1, BlockStart DEF RoundDown
    <2>3. s .. e - 1 \subseteq RoundDown(s) .. UpToBorder(e) - 1
        BY <2>1, <2>2
    <2>4. Erases(d, s, e).cells = RoundDown(s) .. UpToBorder(e) - 1 \cap Cells(d)
        BY <1>3 DEF Erases, Does
    <2> QED
        BY <1>2, <2>3, <2>4
<1>4. CASE BusOf[d] = "ParFlash"
    <2>1. \A a \in s .. e - 1 : BlockFrom(d, a) <= a /\ BlockFrom(d, a) \in Nat
        BY <1>2, BlockHolds DEF Cells
    <2>2. \A a \in s .. e - 1 : a = s \/ (a > s /\ BlockFrom(d, a) < e)
        BY <1>1, <2>1
    <2>3. Erases(d, s, e).cells = {a \in Cells(d) : BlockFrom(d, a) = BlockFrom(d, s)
                                                      \/ (a > s /\ BlockFrom(d, a) < e)}
        BY <1>4 DEF Erases, Does
    <2> QED
        BY <1>2, <2>2, <2>3
<1>5. CASE BusOf[d] = "IFlash"
    BY <1>1, <1>2, <1>5 DEF Erases, Does, Refuses
<1>6. CASE BusOf[d] = "SDIO"
    BY <1>2, <1>6 DEF Erases, Does
<1> QED
    BY <1>1, <1>3, <1>4, <1>5, <1>6 DEF Buses

\* No driver leaves its flash.
LEMMA DriversStayInside ==
    ASSUME NEW d \in Devices, NEW s \in Nat, NEW n \in Nat
    PROVE  Programs(d, s, n).cells \subseteq Cells(d)
<1>1. SizeOf[d] \in Nat \ {0} /\ BusOf[d] \in Buses
    BY BoardAssumption
<1>2. CASE BusOf[d] = "SPI"
    <2>1. \A a \in s .. s + n - 1 : a % SizeOf[d] \in Cells(d)
        BY <1>1, Division DEF Cells
    <2>2. Programs(d, s, n).cells = {a % SizeOf[d] : a \in s .. s + n - 1}
        BY <1>2 DEF Programs, Does
    <2> QED
        BY <2>1, <2>2
<1>3. CASE BusOf[d] # "SPI"
    BY <1>3 DEF Programs, Does, Refuses
<1> QED
    BY <1>2, <1>3

-----------------------------------------------------------------------------
(* Invariance                                                              *)

LEMMA InitInv == Init => IInv
<1> SUFFICES ASSUME Init PROVE IInv
    OBVIOUS
<1>1. Word \in Nat /\ 0 \in 0 .. Word - 1 /\ MaxCalls \in Nat
    BY BoardAssumption
<1>2. TypeOK
    <2>1. \A d \in Devices : dirty[d] \subseteq Cells(d)
        BY BoardAssumption DEF Init
    <2> QED
        <3>1. /\ req.mode = "Detect" /\ req.version = loaded /\ loaded \in Versions
              /\ req.start = 0 /\ req.end = 0 /\ req.device \in Devices
            BY DEF Init
        <3>2. dirty \in [Devices -> SUBSET Nat]
            BY BoardAssumption DEF Init
        <3>3. desc \in [valid : BOOLEAN, version : Versions \cup {0}, device : Devices \cup {NoDevice}]
            BY DEF Init, Cleared
        <3>4. req.mode \in Modes
            BY <3>1 DEF Modes
        <3> QED
            BY <1>1, <2>1, <3>1, <3>2, <3>3, <3>4 DEF Init, TypeOK
<1>3. AskedOK
    BY <1>1 DEF Init, AskedOK, Modes
<1> QED
    BY <1>2, <1>3 DEF Init, IInv, Described, Admitted, Fresh, Widened, EasyEraseClears, Cleared

\* What a request of a host looks like.
LEMMA RequestTyped ==
    ASSUME NEW r \in Requests
    PROVE  /\ r \in [mode : Modes, version : Versions, start : 0 .. Word - 1, end : 0 .. Word - 1,
                      device : Devices \cup {NoDevice}]
           /\ r.mode = "Detect" => r.device \in Devices
<1>1. 0 \in 0 .. Word - 1 /\ Offsets \subseteq 0 .. Word - 1
    BY BoardAssumption
<1>2. CASE r \in [mode : {"Detect"}, version : Versions, start : {0}, end : {0}, device : Devices]
    BY <1>1, <1>2 DEF Modes
<1>3. CASE r \in [mode : DeviceModes \cup {"GetBoardInfo"}, version : Versions, start : Offsets,
                  end : Offsets, device : {NoDevice}]
    <2>1. r.mode # "Detect"
        BY <1>3 DEF DeviceModes, RangeModes
    <2> QED
        BY <1>1, <1>3, <2>1 DEF Modes
<1>4. CASE r \in [mode : {"SpiMacroPlayer", "unknown"}, version : Versions, start : {0}, end : {0},
                  device : {NoDevice}]
    BY <1>1, <1>4 DEF Modes
<1> QED
    BY <1>2, <1>3, <1>4 DEF Requests

\* A mode that works on a device runs with its description, from a start inside of it.
LEMMA RunsOnDevice ==
    ASSUME IInv, pc = "run", req.mode \in DeviceModes
    PROVE  /\ desc.device \in Devices /\ desc.valid /\ desc.version = loaded
           /\ found = <<desc.device, loaded>>
           /\ req.start \in Cells(desc.device)
           /\ req.start \in Nat /\ req.end \in Nat
<1>1. CheckParams(req) /\ CheckDeviceDescription /\ CheckOffsets(req)
    BY DEF IInv, Admitted, CheckParams
<1>2. desc.device \in Devices /\ SizeOf[desc.device] \in Nat
    BY <1>1, BoardAssumption DEF CheckDeviceDescription, IInv, Described
<1> QED
    BY <1>1, <1>2, BoardAssumption DEF CheckDeviceDescription, CheckOffsets, IInv, Described, TypeOK, Cells

\* A step that keeps the request leaves it well typed; only the drivers change the cells.
LEMMA LoadKeeps ==
    ASSUME IInv, NEW v \in Versions, Load(v)
    PROVE  IInv'
    BY BoardAssumption DEF IInv, Load, TypeOK, AskedOK, Described, Admitted, Fresh, Widened,
       EasyEraseClears, Meant, Cells

LEMMA CallKeeps ==
    ASSUME IInv, NEW r \in Requests, Call(r)
    PROVE  IInv'
<1>1. TypeOK'
    BY RequestTyped, BoardAssumption DEF IInv, Call, TypeOK
<1>2. AskedOK'
    BY RequestTyped DEF Call, AskedOK
<1> QED
    BY <1>1, <1>2 DEF IInv, Call, Described, Admitted, Fresh, Widened, EasyEraseClears

\* Whatever a call does once it has begun, it leaves these alone.
LEMMA StayKeeps ==
    ASSUME IInv, Stay, UNCHANGED desc
    PROVE  AskedOK' /\ Described'
    BY DEF IInv, Stay, AskedOK, Described

LEMMA ChecksKeep ==
    ASSUME IInv, Refuse \/ Accept
    PROVE  IInv'
<1>1. TypeOK'
    BY DEF IInv, Refuse, Accept, Stay, Return, TypeOK
<1>2. AskedOK' /\ Described'
    BY StayKeeps DEF Refuse, Accept
<1>3. Admitted'
    BY DEF IInv, Admitted, Refuse, Accept, Stay, Return, CheckParams, CheckDeviceDescription, CheckOffsets
<1>4. Fresh' /\ Widened'
    BY DEF IInv, Fresh, Refuse, Accept, Stay, Return, Widened
<1>5. EasyEraseClears'
    BY DEF Refuse, Accept, Return, EasyEraseClears
<1> QED
    BY <1>1, <1>2, <1>3, <1>4, <1>5 DEF IInv

LEMMA DetectKeeps ==
    ASSUME IInv, Detect
    PROVE  IInv'
<1> PICK ok \in BOOLEAN :
          /\ desc' = IF ok THEN Describes(req.device) ELSE Cleared
          /\ found' = IF ok THEN <<req.device, loaded>> ELSE <<NoDevice, 0>>
          /\ Succeed(ok)
    BY DEF Detect
<1>1. /\ req.mode = "Detect" /\ pc = "run" /\ asked = req /\ loaded \in Versions
      /\ req.device \in Devices /\ pc' = "idle"
      /\ UNCHANGED <<dirty, loaded, req, asked, message, calls>>
    BY DEF Detect, Running, IInv, Admitted, TypeOK, AskedOK, Succeed, Return
<1>2. TypeOK'
    BY <1>1 DEF IInv, TypeOK, Describes, Cleared, Succeed, Return
<1>3. AskedOK'
    BY <1>1 DEF IInv, AskedOK
<1>4. Described'
    BY <1>1 DEF Described, Describes, Cleared
<1> QED
    BY <1>1, <1>2, <1>3, <1>4 DEF IInv, Admitted, Fresh, Widened, EasyEraseClears

\* A step that ends the call keeps the invariant if its result may be told.
LEMMA ReturnKeeps ==
    ASSUME IInv, Stay, UNCHANGED desc, pc' = "idle", TypeOK', EasyEraseClears'
    PROVE  IInv'
    BY StayKeeps DEF IInv, Admitted, Fresh, Widened

\* Only the cells of one flash change, and they stay inside of it.
LEMMA CellsTyped ==
    ASSUME IInv, desc.device \in Devices, NEW cells, cells \subseteq Cells(desc.device),
           dirty' = [dirty EXCEPT ![desc.device] = cells]
    PROVE  dirty' \in [Devices -> SUBSET Nat] /\ \A d \in Devices : dirty'[d] \subseteq Cells(d)
<1>1. cells \subseteq Nat
    BY DEF Cells
<1> QED
    BY <1>1 DEF IInv, TypeOK

LEMMA FlashKeeps ==
    ASSUME IInv, Flash
    PROVE  IInv'
<1> PICK ok \in BOOLEAN, written \in SUBSET Programs(desc.device, req.start, req.end).cells :
          /\ dirty' = [dirty EXCEPT ![desc.device] = @ \cup written]
          /\ Succeed(ok)
    BY DEF Flash
<1>1. pc = "run" /\ req.mode = "Flash" /\ asked.mode = "Flash" /\ Stay /\ UNCHANGED <<desc, req, message>>
    BY DEF Flash, Running, IInv, Admitted
<1>2. desc.device \in Devices /\ req.start \in Nat /\ req.end \in Nat
    BY <1>1, RunsOnDevice DEF DeviceModes
<1>3. dirty[desc.device] \cup written \subseteq Cells(desc.device)
    BY <1>2, DriversStayInside DEF IInv, TypeOK
<1>4. dirty' \in [Devices -> SUBSET Nat] /\ \A d \in Devices : dirty'[d] \subseteq Cells(d)
    BY <1>2, <1>3, CellsTyped DEF IInv, TypeOK
<1>5. TypeOK'
    BY <1>1, <1>4 DEF IInv, TypeOK, Stay, Succeed, Return
<1> QED
    BY <1>1, <1>5, ReturnKeeps DEF Succeed, Return, EasyEraseClears, Stay

\* Erasing, in an Erase call or as the last step of EasyErase.
LEMMA EraseInTyped ==
    ASSUME IInv, NEW label, EraseIn(label), desc.device \in Devices
    PROVE  TypeOK' /\ pc' = "idle" /\ Stay /\ UNCHANGED <<desc, req, message>>
<1> PICK ok \in BOOLEAN, gone \in SUBSET Erases(desc.device, req.start, req.end).cells :
          /\ dirty' = [dirty EXCEPT ![desc.device] = @ \ gone]
          /\ Succeed(ok)
    BY DEF EraseIn
<1>1. Stay /\ UNCHANGED <<desc, req, message>>
    BY DEF EraseIn
<1>2. dirty[desc.device] \ gone \subseteq Cells(desc.device)
    BY DEF IInv, TypeOK
<1>3. dirty' = [dirty EXCEPT ![desc.device] = dirty[desc.device] \ gone]
    OBVIOUS
<1>4. dirty' \in [Devices -> SUBSET Nat] /\ \A d \in Devices : dirty'[d] \subseteq Cells(d)
    BY <1>2, <1>3, CellsTyped
<1> QED
    BY <1>1, <1>4 DEF IInv, TypeOK, Stay, Succeed, Return

LEMMA EraseKeeps ==
    ASSUME IInv, Erase
    PROVE  IInv'
<1>1. pc = "run" /\ req.mode = "Erase" /\ asked.mode = "Erase" /\ EraseIn("run")
    BY DEF Erase, Running, IInv, Admitted
<1>2. desc.device \in Devices
    BY <1>1, RunsOnDevice DEF DeviceModes, RangeModes
<1>3. TypeOK' /\ pc' = "idle" /\ Stay /\ UNCHANGED <<desc, req, message>>
    BY <1>1, <1>2, EraseInTyped
<1> QED
    BY <1>1, <1>3, ReturnKeeps DEF EasyEraseClears, Stay

\* The widened area covers what the host has named, and all of it is erased.
LEMMA EasyEraseKeeps ==
    ASSUME IInv, EasyErase
    PROVE  IInv'
<1> DEFINE d == desc.device
           does == Erases(d, req.start, req.end)
<1>1. /\ d \in Devices /\ asked.mode = "EasyErase" /\ Covers(d) /\ pc = "easyErase"
      /\ req.start \in Nat /\ req.end \in 0 .. SizeOf[d]
    BY BoardAssumption DEF EasyErase, EraseIn, IInv, Widened, CheckDeviceDescription, Described,
       TypeOK, Covers
<1>2. TypeOK' /\ pc' = "idle" /\ Stay /\ UNCHANGED <<desc, req, message>>
    BY <1>1, EraseInTyped DEF EasyErase
<1>3. result' = "OK" => dirty'[d] \cap does.cells = {}
    <2>1. PICK ok \in BOOLEAN, gone \in SUBSET does.cells :
              /\ ok => gone = does.cells
              /\ dirty' = [dirty EXCEPT ![d] = @ \ gone]
              /\ Succeed(ok)
        BY DEF EasyErase, EraseIn
    <2>2. dirty'[d] = dirty[d] \ gone
        BY <1>1, <2>1 DEF IInv, TypeOK
    <2>3. result' = "OK" => ok
        BY <2>1 DEF Succeed, Return
    <2> QED
        BY <2>1, <2>2, <2>3
<1>4. result' = "OK" => Meant(asked, d) \subseteq does.cells
    <2>1. result' = "OK" => does.ok
        BY DEF EasyErase, EraseIn, Succeed, Return
    <2>2. does.ok => req.start .. req.end - 1 \subseteq does.cells
        BY <1>1, EraseTakesAll
    <2> QED
        BY <1>1, <2>1, <2>2 DEF Covers
<1>5. EasyEraseClears'
    <2>1. Meant(asked, d)' = Meant(asked, d) /\ desc.device' = desc.device
        BY <1>2 DEF Stay, Meant, Cells
    <2> HIDE DEF does
    <2> QED
        BY <1>3, <1>4, <2>1 DEF EasyEraseClears
<1> QED
    BY <1>2, <1>5, ReturnKeeps

LEMMA InspectKeeps ==
    ASSUME IInv, Inspect
    PROVE  IInv'
<1>1. /\ asked.mode # "EasyErase" /\ pc' = "idle" /\ Stay /\ UNCHANGED <<dirty, desc, req>>
      /\ result' \in {"OK", "ERROR"}
    BY DEF Inspect, Running, IInv, Admitted, Succeed, Return
<1>2. TypeOK'
    BY <1>1 DEF Inspect, IInv, TypeOK, Stay
<1> QED
    BY <1>1, <1>2, ReturnKeeps DEF EasyEraseClears, Stay

LEMMA IsErasedKeeps ==
    ASSUME IInv, IsErased
    PROVE  IInv'
<1>1. /\ asked.mode # "EasyErase" /\ pc' = "idle" /\ Stay /\ UNCHANGED <<dirty, desc, req>>
      /\ result' \in {"OK", "ERROR"}
    BY DEF IsErased, Running, IInv, Admitted, Succeed, Return
<1>2. TypeOK'
    BY <1>1 DEF IsErased, Answer, IInv, TypeOK, Stay
<1> QED
    BY <1>1, <1>2, ReturnKeeps DEF EasyEraseClears, Stay

LEMMA OthersKeep ==
    ASSUME IInv, GetBoardInfo \/ SpiMacroPlayer
    PROVE  IInv'
<1>1. /\ asked.mode # "EasyErase" /\ pc' = "idle" /\ Stay /\ UNCHANGED <<dirty, desc, req>>
      /\ result' \in {"OK", "ERROR"} /\ message' \in {"none", "size", message}
    BY DEF GetBoardInfo, SpiMacroPlayer, Running, IInv, Admitted, Succeed, Return
<1>2. TypeOK'
    BY <1>1 DEF IInv, TypeOK, Stay
<1> QED
    BY <1>1, <1>2, ReturnKeeps DEF EasyEraseClears, Stay

\* Whatever end the host passes, the widened area is a pair of unsigned longs.
LEMMA AreaTyped ==
    ASSUME NEW d \in Devices, NEW s \in Cells(d), NEW e \in 0 .. Word - 1, EraseBlocks(d, s, e).ok
    PROVE  LET area == EraseBlocks(d, s, e) IN
           area.start \in 0 .. Word - 1 /\ area.end \in 0 .. Word - 1
<1>1. /\ SizeOf[d] \in Nat \ {0} /\ BusOf[d] \in Buses /\ BlockSize \in Nat \ {0}
      /\ Word \in Nat \ {0} /\ SizeOf[d] + BlockSize < Word /\ s \in 0 .. Word - 1
    BY BoardAssumption DEF Cells
<1>2. CASE BusOf[d] = "ParFlash"
    <2>1. e # 0 /\ e <= SizeOf[d]
        BY <1>2 DEF EraseBlocks
    <2>2. e - 1 \in Cells(d)
        BY <1>1, <2>1 DEF Cells
    <2>3. BlockFrom(d, s) \in 0 .. Word - 1 /\ BlockUpTo(d, e - 1) \in 0 .. Word - 1
        <3>1. BlockFrom(d, s) \in Cells(d)
            BY BlockHolds
        <3>2. BlockUpTo(d, e - 1) \in Nat /\ BlockUpTo(d, e - 1) <= SizeOf[d]
            BY <2>2, BlockHolds
        <3> QED
            BY <1>1, <3>1, <3>2 DEF Cells
    <2>4. EraseBlocks(d, s, e).start = BlockFrom(d, s) /\ EraseBlocks(d, s, e).end = BlockUpTo(d, e - 1)
        BY <1>2, <2>1 DEF EraseBlocks
    <2> QED
        BY <2>3, <2>4
<1>3. CASE BusOf[d] \in {"SPI", "IFlash"}
    <2> DEFINE x == (e + BlockSize - 1) % Word
               n == BlockSize
    <2>1. x \in 0 .. Word - 1
        <3>1. e + BlockSize - 1 \in Nat
            BY <1>1
        <3> QED
            BY <1>1, <3>1, Division
    <2>2. x \in Nat /\ n \in Nat \ {0}
        BY <1>1, <2>1
    <2> HIDE DEF x, n
    <2>8. /\ x \div n \in Nat /\ x % n \in 0 .. n - 1
          /\ x = n * (x \div n) + (x % n)
        BY <2>2, Division
    <2>3. n * (x \div n) \in Nat
        BY <2>2, <2>8, Multiple
    <2>4. RoundUp(e) = n * (x \div n)
        <3>1. RoundUp(e) = (x \div n) * n
            BY DEF RoundUp, x, n
        <3>2. (x \div n) * n = n * (x \div n)
            BY <2>2, <2>8
        <3> QED
            BY <3>1, <3>2
    <2>5. n * (x \div n) \in 0 .. Word - 1
        <3> DEFINE p == n * (x \div n)
                   r == x % n
        <3>1. p \in Nat /\ r \in Nat /\ x = p + r /\ x \in 0 .. Word - 1
            BY <2>1, <2>2, <2>3, <2>8
        <3> HIDE DEF p, r
        <3>2. p \in 0 .. Word - 1
            BY <1>1, <3>1
        <3> QED
            BY <3>2 DEF p
    <2>6. RoundDown(s) \in 0 .. Word - 1
        <3>1. s - (s % BlockSize) \in Nat /\ s - (s % BlockSize) <= s
            BY <1>1, BlockStart
        <3> QED
            BY <1>1, <3>1 DEF RoundDown
    <2>7. EraseBlocks(d, s, e).start = RoundDown(s) /\ EraseBlocks(d, s, e).end = RoundUp(e)
        BY <1>3 DEF EraseBlocks
    <2> QED
        BY <2>4, <2>5, <2>6, <2>7
<1>4. CASE BusOf[d] = "SDIO"
    <2>1. EraseBlocks(d, s, e).start = s /\ EraseBlocks(d, s, e).end = e
        BY <1>4 DEF EraseBlocks
    <2> QED
        BY <1>1, <2>1
<1> QED
    BY <1>1, <1>2, <1>3, <1>4 DEF Buses

\* The end which opMode_getEraseArea works with.
ResolvedEnd == IF req.end = EndOfChip THEN SizeOf[desc.device] ELSE req.end

\* Widening keeps the request an unsigned one, and fails or goes on.
LEMMA WidenTyped ==
    ASSUME IInv, pc = "run", req.mode \in {"GetEraseArea", "EasyErase"}, NEW ACTION next, Widen(next)
    PROVE  LET area == EraseBlocks(desc.device, req.start, ResolvedEnd) IN
           /\ desc.device \in Devices /\ req.start \in Cells(desc.device)
           /\ ResolvedEnd \in 0 .. Word - 1
           /\ req'.mode = req.mode /\ req'.version = req.version /\ req'.device = req.device
           /\ req'.start \in 0 .. Word - 1 /\ req'.end \in 0 .. Word - 1
           /\ \/ area.ok /\ next /\ req'.start = area.start /\ req'.end = area.end
              \/ ~area.ok /\ pc' = "idle" /\ result' = "ERROR"
<1> DEFINE area == EraseBlocks(desc.device, req.start, ResolvedEnd)
<1>1. desc.device \in Devices /\ req.start \in Cells(desc.device)
    BY RunsOnDevice DEF DeviceModes, RangeModes
<1>2. ResolvedEnd \in 0 .. Word - 1
    BY <1>1, BoardAssumption DEF ResolvedEnd, IInv, TypeOK
<1>3. area.ok => area.start \in 0 .. Word - 1 /\ area.end \in 0 .. Word - 1
    BY <1>1, <1>2, AreaTyped
<1>4. IF area.ok
      THEN req' = [req EXCEPT !.start = area.start, !.end = area.end] /\ next
      ELSE req' = [req EXCEPT !.end = ResolvedEnd] /\ Return("ERROR")
    BY DEF Widen, ResolvedEnd
<1>5. req \in [mode : Modes, version : Versions, start : 0 .. Word - 1, end : 0 .. Word - 1,
               device : Devices \cup {NoDevice}]
    BY DEF IInv, TypeOK
<1> HIDE DEF area
<1>6. CASE area.ok
    <2>1. req' = [req EXCEPT !.start = area.start, !.end = area.end] /\ next
        BY <1>4, <1>6
    <2>2. /\ req'.mode = req.mode /\ req'.version = req.version /\ req'.device = req.device
          /\ req'.start = area.start /\ req'.end = area.end
        BY <1>5, <2>1
    <2> QED
        BY <1>1, <1>2, <1>3, <1>6, <2>1, <2>2 DEF area
<1>7. CASE ~area.ok
    <2>1. req' = [req EXCEPT !.end = ResolvedEnd] /\ pc' = "idle" /\ result' = "ERROR"
        BY <1>4, <1>7 DEF Return
    <2>2. /\ req'.mode = req.mode /\ req'.version = req.version /\ req'.device = req.device
          /\ req'.start = req.start /\ req'.end = ResolvedEnd
        BY <1>5, <2>1
    <2> QED
        BY <1>1, <1>2, <1>5, <1>7, <2>1, <2>2 DEF area
<1> QED
    BY <1>6, <1>7

LEMMA WidenIsRequest ==
    ASSUME IInv, pc = "run", req.mode \in {"GetEraseArea", "EasyErase"}, NEW ACTION next, Widen(next)
    PROVE  req' \in [mode : Modes, version : Versions, start : 0 .. Word - 1, end : 0 .. Word - 1,
                     device : Devices \cup {NoDevice}]
<1>1. req'.start \in 0 .. Word - 1 /\ req'.end \in 0 .. Word - 1
    BY WidenTyped
<1>2. \E s, e : req' = [req EXCEPT !.start = s, !.end = e]
    <2>1. CASE EraseBlocks(desc.device, req.start, ResolvedEnd).ok
        BY <2>1 DEF Widen, ResolvedEnd
    <2>2. CASE ~EraseBlocks(desc.device, req.start, ResolvedEnd).ok
        <3>1. req' = [req EXCEPT !.end = ResolvedEnd]
            BY <2>2 DEF Widen, ResolvedEnd
        <3>2. [req EXCEPT !.end = ResolvedEnd] = [req EXCEPT !.start = req.start, !.end = ResolvedEnd]
            BY DEF IInv, TypeOK
        <3> QED
            BY <3>1, <3>2
    <2> QED
        BY <2>1, <2>2
<1> QED
    BY <1>1, <1>2 DEF IInv, TypeOK

LEMMA GetEraseAreaKeeps ==
    ASSUME IInv, GetEraseArea
    PROVE  IInv'
<1>1. /\ pc = "run" /\ req.mode = "GetEraseArea" /\ asked.mode = "GetEraseArea"
      /\ Stay /\ UNCHANGED <<dirty, desc, message>>
    BY DEF GetEraseArea, Running, IInv, Admitted
<1>2. /\ req'.mode = req.mode /\ req'.version = req.version /\ req'.device = req.device
      /\ req'.start \in 0 .. Word - 1 /\ req'.end \in 0 .. Word - 1
      /\ pc' = "idle" /\ result' \in {"OK", "ERROR"}
    BY <1>1, WidenTyped DEF GetEraseArea, Return
<1>3. req' \in [mode : Modes, version : Versions, start : 0 .. Word - 1, end : 0 .. Word - 1,
                device : Devices \cup {NoDevice}]
    BY <1>1, <1>2, WidenIsRequest DEF GetEraseArea
<1>4. TypeOK'
    BY <1>1, <1>2, <1>3 DEF IInv, TypeOK, Stay
<1> QED
    BY <1>1, <1>2, <1>4, ReturnKeeps DEF EasyEraseClears, Stay

\* The host's range lies in the widened one, and that in the flash.
LEMMA EasyAreaKeeps ==
    ASSUME IInv, EasyArea
    PROVE  IInv'
<1> DEFINE d == desc.device
           area == EraseBlocks(d, req.start, ResolvedEnd)
<1>1. /\ pc = "run" /\ req.mode = "EasyErase" /\ asked = req /\ CheckParams(req)
      /\ Stay /\ UNCHANGED <<dirty, desc, message>> /\ message = "none"
      /\ Widen(pc' = "easyCheck" /\ UNCHANGED result)
    BY DEF EasyArea, Running, IInv, Admitted, Fresh
<1>2. /\ d \in Devices /\ req.start \in Cells(d)
      /\ \/ area.ok /\ pc' = "easyCheck" /\ result' = result /\ req'.start = area.start /\ req'.end = area.end
         \/ ~area.ok /\ pc' = "idle" /\ result' = "ERROR"
    BY <1>1, WidenTyped
<1>3. req' \in [mode : Modes, version : Versions, start : 0 .. Word - 1, end : 0 .. Word - 1,
                device : Devices \cup {NoDevice}]
    BY <1>1, WidenIsRequest
<1>4. TypeOK'
    BY <1>1, <1>2, <1>3 DEF IInv, TypeOK, Stay
<1>5. AskedOK' /\ Described'
    BY <1>1, StayKeeps
<1>6. SizeOf[d] \in Nat \ {0} /\ ResolvedEnd \in 0 .. SizeOf[d] /\ req.start <= ResolvedEnd
    <2>1. /\ req.end <= SizeOf[d] \/ req.end = EndOfChip
          /\ req.start < SizeOf[d] /\ req.start <= req.end
        BY <1>1 DEF CheckParams, CheckOffsets, DeviceModes, RangeModes
    <2>2. SizeOf[d] \in Nat \ {0} /\ req.end \in 0 .. Word - 1 /\ req.start \in Nat /\ Word \in Nat
        BY <1>2, BoardAssumption DEF IInv, TypeOK
    <2> QED
        BY <2>1, <2>2 DEF ResolvedEnd
<1>7. Widened'
    <2> SUFFICES ASSUME pc' = "easyCheck" PROVE CheckDeviceDescription' /\ Covers(d)'
        BY <1>1, <1>2 DEF Widened, Stay
    <2>1. CheckDeviceDescription'
        BY <1>1 DEF CheckParams, DeviceModes, RangeModes, CheckDeviceDescription, Stay
    <2>2. area.ok /\ req'.start = area.start /\ req'.end = area.end
        BY <1>2
    <2>3. req'.start \in 0 .. req.start /\ req'.end \in ResolvedEnd .. SizeOf[d]
        BY <1>2, <1>6, <2>2, WideningCovers
    <2>4. \A a \in Meant(asked, d) : a \in req.start .. ResolvedEnd - 1
        <3>1. req.end \in 0 .. Word - 1 /\ req.start \in Nat
            BY <1>2 DEF IInv, TypeOK, Cells
        <3> QED
            BY <1>1, <1>6, <3>1 DEF Meant, Cells, ResolvedEnd
    <2>5. Meant(asked, d) \subseteq req'.start .. req'.end - 1
        <3>1. req.start \in Nat /\ ResolvedEnd \in Nat /\ SizeOf[d] \in Nat
            BY <1>2, <1>6 DEF Cells
        <3>2. req.start .. ResolvedEnd - 1 \subseteq req'.start .. req'.end - 1
            BY <2>3, <3>1
        <3> QED
            BY <2>4, <3>2
    <2>6. Meant(asked, d)' = Meant(asked, d)
        BY <1>1 DEF Stay, Meant, Cells
    <2>7. req'.end \in 0 .. SizeOf[d]
        BY <1>6, <2>3
    <2> QED
        BY <1>1, <2>1, <2>5, <2>6, <2>7 DEF Covers
<1>8. Admitted' /\ Fresh' /\ EasyEraseClears'
    BY <1>2 DEF Admitted, Fresh, EasyEraseClears
<1> QED
    BY <1>4, <1>5, <1>7, <1>8 DEF IInv

\* An area found clean holds nothing, any other goes on to be erased.
LEMMA EasyCheckKeeps ==
    ASSUME IInv, EasyCheck
    PROVE  IInv'
<1> DEFINE d == desc.device
           does == Checks(d, req.start, req.end)
<1>1. PICK ok \in BOOLEAN :
          /\ ok => does.ok
          /\ message' = IF ok THEN Answer(does) ELSE message
          /\ IF ok /\ message' # "blank" THEN pc' = "easyErase" /\ UNCHANGED result ELSE Succeed(ok)
    BY DEF EasyCheck
<1>2. /\ pc = "easyCheck" /\ Stay /\ UNCHANGED <<dirty, desc, req>> /\ message = "none"
      /\ d \in Devices /\ asked.mode = "EasyErase" /\ CheckDeviceDescription /\ Covers(d)
      /\ req.start \in Nat /\ req.end \in 0 .. SizeOf[d]
    BY DEF EasyCheck, IInv, Widened, CheckDeviceDescription, Described, TypeOK, Covers
<1>3. message' \in {"none", "blank", "dirty"}
    BY <1>1, <1>2 DEF Answer
<1>4. TypeOK'
    BY <1>1, <1>2, <1>3 DEF IInv, TypeOK, Stay, Succeed, Return
<1>5. AskedOK' /\ Described'
    BY <1>2, StayKeeps
<1>6. Meant(asked, d)' = Meant(asked, d)
    BY <1>2 DEF Stay, Meant, Cells
<1>7. Widened'
    <2> SUFFICES ASSUME pc' = "easyErase" PROVE Widened'
        BY <1>1 DEF Widened, Succeed, Return
    <2>1. CheckDeviceDescription' /\ asked'.mode = "EasyErase" /\ Covers(d)'
        BY <1>2, <1>6 DEF CheckDeviceDescription, Stay, Covers
    <2> QED
        BY <1>2, <1>3, <2>1 DEF Widened
<1>8. EasyEraseClears'
    <2> SUFFICES ASSUME pc' = "idle", result' = "OK" PROVE Meant(asked, d) \cap dirty[d] = {}
        BY <1>2, <1>6 DEF EasyEraseClears
    <2>1. ok /\ does.ok /\ Answer(does) = "blank"
        BY <1>1 DEF Succeed, Return
    <2>2. does.cells \cap dirty[d] = {}
        BY <1>2, <2>1 DEF Answer
    <2>3. Meant(asked, d) \subseteq does.cells
        BY <1>2, <2>1, CheckLooksAtAll DEF Covers
    <2> QED
        BY <2>2, <2>3
<1>9. Admitted' /\ Fresh'
    BY <1>1 DEF Admitted, Fresh, Succeed, Return
<1> QED
    BY <1>4, <1>5, <1>7, <1>8, <1>9 DEF IInv

LEMMA StepInv == IInv /\ [Next]_vars => IInv'
<1> SUFFICES ASSUME IInv, [Next]_vars PROVE IInv'
    OBVIOUS
<1>1. CASE \E v \in Versions : Load(v)
    BY <1>1, LoadKeeps
<1>2. CASE \E r \in Requests : Call(r)
    BY <1>2, CallKeeps
<1>3. CASE Refuse \/ Accept
    BY <1>3, ChecksKeep
<1>4. CASE Mode
    BY <1>4, DetectKeeps, FlashKeeps, EraseKeeps, InspectKeeps, IsErasedKeeps, GetEraseAreaKeeps,
       OthersKeep, EasyAreaKeeps, EasyCheckKeeps, EasyEraseKeeps DEF Mode
<1>5. CASE UNCHANGED vars
    BY <1>5 DEF IInv, vars, TypeOK, AskedOK, Described, Admitted, CheckParams,
       CheckDeviceDescription, CheckOffsets, Fresh, Widened, Covers, EasyEraseClears, Meant, Cells
<1> QED
    BY <1>1, <1>2, <1>3, <1>4, <1>5 DEF Next, Step

-----------------------------------------------------------------------------
(* Theorems                                                                *)

\* IInv is inductive: it holds in every reachable state.
THEOREM Invariance == Spec => []IInv
    BY InitInv, StepInv, PTL DEF Spec

\* Every variable of ConsoleApp keeps its type.
THEOREM TypeCorrect == Spec => []TypeOK
<1>1. IInv => TypeOK
    BY DEF IInv
<1> QED
    BY <1>1, Invariance, PTL

\* EasyErase that returns OK leaves every byte the host has named blank, on every bus.
THEOREM EasyEraseLeavesBlank == Spec => []EasyEraseClears
<1>1. IInv => EasyEraseClears
    BY DEF IInv
<1> QED
    BY <1>1, Invariance, PTL

\* A call changes only the flash which the loaded flasher has found last.
THEOREM StaleDescriptionsAreRefused == Spec => OnlyDetectedChanges
<1> DEFINE Change == \A d \in Devices : dirty'[d] # dirty[d] => found = <<d, loaded>>
<1>1. IInv /\ Next => Change
    <2> SUFFICES ASSUME IInv, Next PROVE Change
        OBVIOUS
    <2>1. CASE Flash \/ Erase
        <3>1. desc.device \in Devices /\ found = <<desc.device, loaded>>
            BY <2>1, RunsOnDevice DEF Flash, Erase, Running, DeviceModes, RangeModes
        <3>2. \A d \in Devices : d # desc.device => dirty'[d] = dirty[d]
            BY <2>1, <3>1 DEF Flash, Erase, EraseIn, IInv, TypeOK
        <3> QED
            BY <3>1, <3>2
    <2>2. CASE EasyErase
        <3>1. desc.device \in Devices /\ found = <<desc.device, loaded>>
            BY <2>2 DEF EasyErase, EraseIn, IInv, Widened, CheckDeviceDescription, Described
        <3>2. \A d \in Devices : d # desc.device => dirty'[d] = dirty[d]
            BY <2>2, <3>1 DEF EasyErase, EraseIn, IInv, TypeOK
        <3> QED
            BY <3>1, <3>2
    <2>3. CASE UNCHANGED dirty
        BY <2>3
    <2>4. Flash \/ Erase \/ EasyErase \/ UNCHANGED dirty
        BY DEF Next, Step, Mode, Load, Call, Refuse, Accept, Detect, Inspect, IsErased, GetEraseArea,
           GetBoardInfo, SpiMacroPlayer, EasyArea, EasyCheck
    <2> QED
        BY <2>1, <2>2, <2>3, <2>4
<1>2. IInv /\ [Next]_vars => [Change]_vars
    BY <1>1
<1> QED
    BY <1>2, Invariance, PTL DEF Spec, OnlyDetectedChanges

-----------------------------------------------------------------------------
(* EasyErase and the blocks around the range                               *)

\* A block starts at the last border up to its cell and ends at the first behind it.
LEMMA BlockEnds ==
    ASSUME NEW d \in Devices, NEW a \in Cells(d)
    PROVE  /\ BlockFrom(d, a) \in Borders[d] /\ BlockFrom(d, a) <= a
           /\ \A c \in Borders[d] : c <= a => c <= BlockFrom(d, a)
           /\ \A c \in Borders[d] : c > a => BlockUpTo(d, a) <= c
           /\ BlockUpTo(d, a) \in Borders[d] \/ BlockUpTo(d, a) = SizeOf[d]
<1>1. Borders[d] \subseteq Cells(d) /\ SizeOf[d] \in Nat \ {0}
    BY BoardAssumption
<1>2. /\ BlockFrom(d, a) \in Borders[d] /\ BlockFrom(d, a) <= a
      /\ \A c \in Borders[d] : c <= a => c <= BlockFrom(d, a)
    <2>1. \E b \in Borders[d] : b <= a /\ \A c \in Borders[d] : c <= a => c <= b
        BY SectorAssumption
    <2> QED
        BY <2>1 DEF BlockFrom
<1>3. CASE {b \in Borders[d] : b > a} = {}
    BY <1>1, <1>2, <1>3 DEF BlockUpTo, Cells
<1>4. CASE {b \in Borders[d] : b > a} # {}
    <2> DEFINE after == {b \in Borders[d] : b > a}
    <2>1. \E n \in after : \A c \in after : n <= c
        <3>1. PICK b \in Borders[d] : b > a
            BY <1>4
        <3>2. PICK n \in Borders[d] : n > a /\ \A c \in Borders[d] : c > a => n <= c
            BY <3>1, SectorAssumption
        <3> QED
            BY <3>2
    <2>2. BlockUpTo(d, a) = CHOOSE b \in after : \A c \in after : b <= c
        BY <1>4 DEF BlockUpTo
    <2>3. BlockUpTo(d, a) \in after /\ \A c \in after : BlockUpTo(d, a) <= c
        <3> HIDE DEF after
        <3> QED
            BY <2>1, <2>2
    <2> QED
        BY <1>2, <2>3
<1> QED
    BY <1>3, <1>4

\* Cells of one block lie around each other.
LEMMA AroundEachOther ==
    ASSUME NEW d \in Devices, NEW a \in Cells(d), NEW b \in Cells(d), BlockFrom(d, a) = BlockFrom(d, b)
    PROVE  a \in BlockAround(d, b)
<1>1. /\ Borders[d] \subseteq Cells(d) /\ a \in Nat /\ b \in Nat /\ SizeOf[d] \in Nat /\ a < SizeOf[d]
      /\ Cells(d) \subseteq Nat
    BY BoardAssumption DEF Cells
<1>2. BlockFrom(d, b) \in Nat /\ BlockFrom(d, b) <= a /\ BlockFrom(d, b) <= b
    BY <1>1, BlockEnds
<1>3. BlockUpTo(d, b) \in Nat /\ b < BlockUpTo(d, b)
    BY BlockHolds
<1>4. ASSUME BlockUpTo(d, b) <= a
      PROVE  FALSE
    <2>1. BlockUpTo(d, b) \in Borders[d]
        BY <1>1, <1>3, <1>4, BlockEnds
    <2>2. BlockUpTo(d, b) <= BlockFrom(d, a)
        BY <1>4, <2>1, BlockEnds
    <2> QED
        BY <1>1, <1>2, <1>3, <2>2
<1> QED
    BY <1>1, <1>2, <1>3, <1>4 DEF BlockAround

\* A cell whose block is the one of s, or starts in the range, lies in a block that the
\* range or s touches.
LEMMA InATouchedBlock ==
    ASSUME NEW d \in Devices, NEW s \in Cells(d), NEW e \in s .. SizeOf[d], NEW a \in Cells(d),
           BlockFrom(d, a) = BlockFrom(d, s) \/ BlockFrom(d, a) \in s .. e - 1
    PROVE  \E b \in (s .. e - 1) \cup {s} : b \in Cells(d) /\ a \in BlockAround(d, b)
<1>1. CASE BlockFrom(d, a) = BlockFrom(d, s)
    BY <1>1, AroundEachOther
<1>2. CASE BlockFrom(d, a) \in s .. e - 1
    <2> DEFINE b == BlockFrom(d, a)
    <2>1. b \in Borders[d] /\ b \in Cells(d) /\ Cells(d) \subseteq Nat /\ Borders[d] \subseteq Cells(d)
        BY BlockEnds, BoardAssumption DEF Cells
    <2>2. BlockFrom(d, b) = b
        <3>1. BlockFrom(d, b) <= b /\ b <= BlockFrom(d, b) /\ BlockFrom(d, b) \in Cells(d)
            BY <2>1, BlockEnds
        <3> QED
            BY <2>1, <3>1
    <2>3. a \in BlockAround(d, b)
        BY <2>1, <2>2, AroundEachOther
    <2> QED
        BY <1>2, <2>1, <2>3
<1> QED
    BY <1>1, <1>2

\* On SPI and in the internal flash the blocks start at the multiples of their size.
LEMMA RoundingFindsBlock ==
    ASSUME NEW d \in Devices, BusOf[d] \in {"SPI", "IFlash"}, NEW a \in Cells(d)
    PROVE  /\ BlockFrom(d, a) = RoundDown(a)
           /\ BlockFrom(d, a) \in Nat /\ BlockFrom(d, a) % BlockSize = 0
           /\ BlockFrom(d, a) <= a /\ a < BlockFrom(d, a) + BlockSize
<1>1. /\ BlockSize \in Nat \ {0} /\ a \in Nat /\ SizeOf[d] \in Nat
      /\ Borders[d] = {c \in Cells(d) : c % BlockSize = 0}
    BY BoardAssumption DEF Cells
<1> DEFINE r == a - (a % BlockSize)
<1>2. r \in Nat /\ r <= a /\ a < r + BlockSize /\ r % BlockSize = 0
    BY <1>1, BlockStart
<1>3. r \in Borders[d]
    BY <1>1, <1>2 DEF Cells
<1>4. /\ BlockFrom(d, a) \in Borders[d] /\ BlockFrom(d, a) <= a /\ r <= BlockFrom(d, a)
      /\ BlockFrom(d, a) \in Nat /\ BlockFrom(d, a) % BlockSize = 0
    BY <1>1, <1>2, <1>3, BlockEnds DEF Cells
<1>5. ASSUME r < BlockFrom(d, a) PROVE FALSE
    <2>1. r + BlockSize <= BlockFrom(d, a)
        BY <1>1, <1>2, <1>4, <1>5, BordersApart
    <2> HIDE DEF r
    <2> QED
        BY <1>1, <1>2, <1>4, <2>1
<1>6. BlockFrom(d, a) = r
    <2> HIDE DEF r
    <2> QED
        BY <1>2, <1>4, <1>5
<1> QED
    BY <1>2, <1>4, <1>6 DEF RoundDown

\* Rounding up goes to the first border behind, and not further.
LEMMA RoundsUpShortly ==
    ASSUME NEW size \in Nat, size % BlockSize = 0, size + BlockSize < Word,
           NEW e \in 0 .. size
    PROVE  RoundUp(e) \in Nat /\ RoundUp(e) % BlockSize = 0 /\ RoundUp(e) < e + BlockSize
<1> DEFINE n == BlockSize
           x == e + n - 1
           p == n * (x \div n)
           r == x % n
<1>1. n \in Nat \ {0} /\ Word \in Nat /\ x \in Nat /\ x < Word /\ Word # 0
    BY BoardAssumption
<1>2. x % Word = x
    BY <1>1, Decoded
<1>3. x \div n \in Nat /\ r \in 0 .. n - 1 /\ x = p + r
    BY <1>1, Division
<1>4. p \in Nat /\ p % n = 0
    BY <1>1, <1>3, Multiple
<1>5. RoundUp(e) = p
    <2>1. RoundUp(e) = (x \div n) * n
        BY <1>2 DEF RoundUp
    <2>2. (x \div n) * n = n * (x \div n)
        BY <1>1, <1>3
    <2> QED
        BY <2>1, <2>2
<1>6. p < e + n
    <2>1. p + r = e + n - 1 /\ e \in Nat
        BY <1>3
    <2> HIDE DEF p, r, n, x
    <2> QED
        BY <1>1, <1>3, <1>4, <2>1
<1> QED
    BY <1>4, <1>5, <1>6

\* The end of a widened area is on a border already, so erasing widens no further.
LEMMA BorderStays ==
    ASSUME NEW a \in Nat, a % BlockSize = 0
    PROVE  UpToBorder(a) = a /\ RoundDown(a) = a
    BY DEF UpToBorder, RoundDown

\* What an erase of the widened range can take lies in blocks that the range touches.
LEMMA WidenedIsTouched ==
    ASSUME NEW d \in Devices, NEW s \in Cells(d), NEW e \in s .. SizeOf[d],
           EraseBlocks(d, s, e).ok,
           NEW a \in Erases(d, EraseBlocks(d, s, e).start, EraseBlocks(d, s, e).end).cells
    PROVE  \E b \in (s .. e - 1) \cup {s} : b \in Cells(d) /\ a \in BlockAround(d, b)
<1> DEFINE from == EraseBlocks(d, s, e).start
           to == EraseBlocks(d, s, e).end
<1>1. /\ SizeOf[d] \in Nat \ {0} /\ BusOf[d] \in Buses /\ BlockSize \in Nat \ {0}
      /\ s \in Nat /\ e \in Nat /\ s <= e /\ e <= SizeOf[d]
      /\ Cells(d) \subseteq Nat /\ Borders[d] \subseteq Cells(d)
    BY BoardAssumption DEF Cells
<1>2. CASE BusOf[d] = "ParFlash"
    <2>1. e # 0
        <3>1. EraseBlocks(d, s, e).ok = (e # 0 /\ e <= SizeOf[d])
            BY <1>2 DEF EraseBlocks
        <3> QED
            BY <3>1
    <2>2. e - 1 \in Cells(d) /\ e - 1 \in Nat
        BY <1>1, <2>1 DEF Cells
    <2>3. from = BlockFrom(d, s) /\ to = BlockUpTo(d, e - 1)
        BY <1>1, <1>2, <2>1 DEF EraseBlocks
    <2>4. from \in Borders[d] /\ from \in Cells(d) /\ from <= s /\ from \in Nat
        BY <1>1, <2>3, BlockEnds
    <2>5. BlockFrom(d, from) = from
        <3>1. BlockFrom(d, from) <= from /\ from <= BlockFrom(d, from) /\ BlockFrom(d, from) \in Nat
            BY <1>1, <2>4, BlockEnds
        <3> QED
            BY <2>4, <3>1
    <2>6. a \in Cells(d) /\ (BlockFrom(d, a) = from \/ (a > from /\ BlockFrom(d, a) < to))
        <3>1. Erases(d, from, to).cells = {c \in Cells(d) : BlockFrom(d, c) = BlockFrom(d, from)
                                                             \/ (c > from /\ BlockFrom(d, c) < to)}
            BY <1>2 DEF Erases, Does
        <3> HIDE DEF from, to
        <3> QED
            BY <2>5, <3>1 DEF from, to
    <2>7. CASE BlockFrom(d, a) = from
        BY <2>3, <2>6, <2>7, InATouchedBlock
    <2>8. CASE a > from /\ BlockFrom(d, a) < to /\ BlockFrom(d, a) # from
        <3>1. BlockFrom(d, a) \in Borders[d] /\ from <= BlockFrom(d, a) /\ BlockFrom(d, a) \in Nat
            BY <1>1, <2>4, <2>6, <2>8, BlockEnds
        <3>2. s < BlockFrom(d, a)
            <4> SUFFICES ASSUME BlockFrom(d, a) <= s PROVE FALSE
                BY <1>1, <3>1
            <4>1. BlockFrom(d, a) <= from
                BY <2>3, <3>1, BlockEnds
            <4> QED
                BY <2>4, <2>8, <3>1, <4>1
        <3>3. BlockFrom(d, a) <= e - 1
            <4> SUFFICES ASSUME BlockFrom(d, a) > e - 1 PROVE FALSE
                BY <2>2, <3>1
            <4>1. to <= BlockFrom(d, a)
                BY <2>2, <2>3, <3>1, BlockEnds
            <4>2. to \in Nat
                BY <2>2, <2>3, BlockHolds
            <4> QED
                BY <2>8, <3>1, <4>1, <4>2
        <3>4. BlockFrom(d, a) \in s .. e - 1
            BY <1>1, <3>1, <3>2, <3>3
        <3> QED
            BY <2>6, <3>4, InATouchedBlock
    <2> QED
        BY <2>6, <2>7, <2>8
<1>3. CASE BusOf[d] \in {"SPI", "IFlash"}
    <2>1. SizeOf[d] % BlockSize = 0 /\ SizeOf[d] + BlockSize < Word
        BY <1>3, BoardAssumption
    <2>2. from = RoundDown(s) /\ to = RoundUp(e)
        BY <1>3 DEF EraseBlocks
    <2>3. /\ RoundDown(s) \in Nat /\ RoundDown(s) % BlockSize = 0 /\ BlockFrom(d, s) = RoundDown(s)
          /\ s < RoundDown(s) + BlockSize
        BY <1>3, RoundingFindsBlock
    <2>4. RoundUp(e) \in Nat /\ RoundUp(e) % BlockSize = 0 /\ RoundUp(e) < e + BlockSize
        BY <1>1, <2>1, RoundsUpShortly
    <2>5. a \in RoundDown(s) .. RoundUp(e) - 1 /\ a \in Cells(d)
        <3>1. CASE BusOf[d] = "SPI"
            <4>1. Erases(d, from, to).cells = (RoundDown(from) .. UpToBorder(to) - 1) \cap Cells(d)
                BY <3>1 DEF Erases, Does
            <4>2. RoundDown(from) = from /\ UpToBorder(to) = to
                BY <2>2, <2>3, <2>4, BorderStays
            <4> HIDE DEF from, to
            <4>3. a \in Erases(d, from, to).cells
                BY DEF from, to
            <4> QED
                BY <2>2, <4>1, <4>2, <4>3
        <3>2. CASE BusOf[d] = "IFlash"
            <4>1. Erases(d, from, to).cells \subseteq (from .. to - 1) \cap Cells(d)
                BY <3>2 DEF Erases, Does, Refuses
            <4> HIDE DEF from, to
            <4>2. a \in Erases(d, from, to).cells
                BY DEF from, to
            <4> QED
                BY <2>2, <4>1, <4>2
        <3> QED
            BY <1>3, <3>1, <3>2
    <2> DEFINE f == BlockFrom(d, a)
               low == RoundDown(s)
               high == RoundUp(e)
    <2>6. f \in Nat /\ f % BlockSize = 0 /\ f <= a /\ a < f + BlockSize /\ f \in Cells(d)
        BY <1>1, <1>3, <2>5, RoundingFindsBlock, BlockEnds
    <2>7. low <= a /\ a < high /\ a \in Nat
        BY <1>1, <2>3, <2>4, <2>5
    <2>8. f < e
        <3>1. f < high
            BY <2>4, <2>6, <2>7
        <3>2. f + BlockSize <= high
            BY <1>1, <2>4, <2>6, <3>1, BordersApart
        <3> HIDE DEF f, high
        <3>3. high < e + BlockSize /\ high \in Nat
            BY <2>4 DEF high
        <3> QED
            BY <1>1, <2>6, <3>2, <3>3
    <2>9. CASE f <= s
        <3>1. f <= BlockFrom(d, s)
            BY <1>1, <2>5, <2>9, BlockEnds
        <3>2. BlockFrom(d, s) <= a /\ BlockFrom(d, s) \in Borders[d]
            BY <2>3, <2>7, BlockEnds
        <3>3. BlockFrom(d, s) <= f
            BY <2>5, <3>2, BlockEnds
        <3>4. f = BlockFrom(d, s)
            BY <2>3, <2>6, <3>1, <3>3
        <3> QED
            BY <1>1, <2>5, <3>4, InATouchedBlock
    <2>10. CASE f > s
        <3>1. f \in s .. e - 1
            BY <1>1, <2>6, <2>8, <2>10
        <3> QED
            BY <1>1, <2>5, <3>1, InATouchedBlock
    <2> QED
        BY <1>1, <2>6, <2>9, <2>10
<1>4. CASE BusOf[d] = "SDIO"
    <2>1. from = s /\ to = e
        BY <1>4 DEF EraseBlocks
    <2>2. Erases(d, from, to).cells = (from .. to - 1) \cap Cells(d)
        BY <1>4 DEF Erases, Does
    <2> HIDE DEF from, to
    <2>3. a \in Erases(d, from, to).cells
        BY DEF from, to
    <2>4. a \in s .. e - 1 /\ a \in Cells(d)
        BY <2>1, <2>2, <2>3
    <2> QED
        BY <2>4, AroundEachOther
<1> QED
    BY <1>1, <1>2, <1>3, <1>4 DEF Buses

\* Where the host's range ends, with the end of the chip resolved.
AskedEnd(d) == IF asked.end = EndOfChip THEN SizeOf[d] ELSE asked.end

\* The parameter block, changed in place, still is the host's range widened to blocks.
Stretched ==
    pc \in {"easyCheck", "easyErase"} =>
        LET d == desc.device
            area == EraseBlocks(d, asked.start, AskedEnd(d))
        IN  /\ asked.start \in Cells(d) /\ AskedEnd(d) \in asked.start .. SizeOf[d]
            /\ area.ok /\ req.start = area.start /\ req.end = area.end

LEMMA StretchedStep ==
    ASSUME IInv, Stretched, [Next]_vars
    PROVE  Stretched'
<1>1. CASE EasyArea
    <2> DEFINE d == desc.device
               area == EraseBlocks(d, req.start, ResolvedEnd)
    <2>1. /\ pc = "run" /\ req.mode = "EasyErase" /\ asked = req /\ CheckParams(req)
          /\ Stay /\ UNCHANGED <<dirty, desc, message>>
          /\ Widen(pc' = "easyCheck" /\ UNCHANGED result)
        BY <1>1 DEF EasyArea, Running, IInv, Admitted
    <2>2. /\ d \in Devices /\ req.start \in Cells(d)
          /\ \/ area.ok /\ pc' = "easyCheck" /\ req'.start = area.start /\ req'.end = area.end
             \/ pc' = "idle"
        BY <2>1, WidenTyped
    <2>3. SizeOf[d] \in Nat \ {0} /\ ResolvedEnd \in req.start .. SizeOf[d]
        <3>1. /\ req.end <= SizeOf[d] \/ req.end = EndOfChip
              /\ req.start < SizeOf[d] /\ req.start <= req.end
            BY <2>1 DEF CheckParams, CheckOffsets, DeviceModes, RangeModes
        <3>2. SizeOf[d] \in Nat \ {0} /\ req.end \in 0 .. Word - 1 /\ req.start \in Nat /\ Word \in Nat
            BY <2>2, BoardAssumption DEF IInv, TypeOK
        <3> QED
            BY <3>1, <3>2 DEF ResolvedEnd
    <2>4. asked' = asked /\ desc' = desc /\ asked.start = req.start /\ AskedEnd(d) = ResolvedEnd
        BY <2>1 DEF Stay, AskedEnd, ResolvedEnd
    <2> QED
        BY <2>2, <2>3, <2>4 DEF Stretched, AskedEnd
<1>2. CASE EasyCheck
    <2>1. pc = "easyCheck" /\ UNCHANGED <<asked, desc, req>>
        BY <1>2 DEF EasyCheck, Stay
    <2> QED
        BY <2>1 DEF Stretched, AskedEnd
<1>3. CASE UNCHANGED vars
    BY <1>3 DEF vars, Stretched, AskedEnd
<1>4. CASE pc' \notin {"easyCheck", "easyErase"}
    BY <1>4 DEF Stretched
<1>5. EasyArea \/ EasyCheck \/ (UNCHANGED vars) \/ pc' \notin {"easyCheck", "easyErase"}
    <2>1. CASE Next
        <3>1. CASE \E v \in Versions : Load(v)
            BY <3>1 DEF Load
        <3>2. CASE \E r \in Requests : Call(r)
            BY <3>2 DEF Call
        <3>3. CASE Refuse \/ Accept
            BY <3>3 DEF Refuse, Accept, Return
        <3>4. CASE Detect \/ Flash \/ Inspect \/ IsErased \/ GetBoardInfo \/ SpiMacroPlayer
            BY <3>4 DEF Detect, Flash, Inspect, IsErased, GetBoardInfo, SpiMacroPlayer, Succeed, Return
        <3>5. CASE Erase \/ EasyErase
            BY <3>5 DEF Erase, EasyErase, EraseIn, Succeed, Return
        <3>6. CASE GetEraseArea
            <4>1. pc = "run" /\ req.mode = "GetEraseArea" /\ Widen(Return("OK"))
                BY <3>6 DEF GetEraseArea, Running
            <4>2. Return("OK") \/ pc' = "idle"
                BY <4>1, WidenTyped
            <4> QED
                BY <4>2 DEF Return
        <3> QED
            BY <2>1, <3>1, <3>2, <3>3, <3>4, <3>5, <3>6 DEF Next, Step, Mode
    <2> QED
        BY <2>1
<1> QED
    BY <1>1, <1>2, <1>3, <1>4, <1>5

\* What a step can take from a flash while the host waits for EasyErase.
Confined ==
    asked.mode = "EasyErase" =>
        \A d \in Devices : \A a \in dirty[d] \ dirty'[d] :
            \E b \in Meant(asked, d) \cup {asked.start} : a \in BlockAround(d, b)

LEMMA ConfinedStep ==
    ASSUME IInv, Stretched, Next
    PROVE  Confined
<1> SUFFICES ASSUME asked.mode = "EasyErase", NEW d \in Devices, NEW a \in dirty[d] \ dirty'[d]
             PROVE  \E b \in Meant(asked, d) \cup {asked.start} : a \in BlockAround(d, b)
    BY DEF Confined
<1>1. EasyErase
    <2>1. Flash \/ Erase \/ EasyErase \/ UNCHANGED dirty
        BY DEF Next, Step, Mode, Load, Call, Refuse, Accept, Detect, Inspect, IsErased, GetEraseArea,
           GetBoardInfo, SpiMacroPlayer, EasyArea, EasyCheck
    <2>2. ~Flash /\ ~Erase
        BY DEF Flash, Erase, Running, IInv, Admitted
    <2> QED
        BY <2>1, <2>2
<1> DEFINE does == Erases(desc.device, req.start, req.end)
<1>2. pc = "easyErase" /\ \E gone \in SUBSET does.cells : dirty' = [dirty EXCEPT ![desc.device] = @ \ gone]
    BY <1>1 DEF EasyErase, EraseIn
<1>3. desc.device \in Devices
    BY <1>2 DEF IInv, Widened, CheckDeviceDescription, Described
<1>4. d = desc.device /\ a \in does.cells
    <2> HIDE DEF does
    <2>1. PICK gone \in SUBSET does.cells : dirty' = [dirty EXCEPT ![desc.device] = @ \ gone]
        BY <1>2
    <2>2. DOMAIN dirty = Devices
        BY DEF IInv, TypeOK
    <2> QED
        BY <1>3, <2>1, <2>2
<1>5. /\ asked.start \in Cells(d) /\ AskedEnd(d) \in asked.start .. SizeOf[d]
      /\ EraseBlocks(d, asked.start, AskedEnd(d)).ok
      /\ req.start = EraseBlocks(d, asked.start, AskedEnd(d)).start
      /\ req.end = EraseBlocks(d, asked.start, AskedEnd(d)).end
    BY <1>2, <1>4 DEF Stretched
<1>6. PICK b \in (asked.start .. AskedEnd(d) - 1) \cup {asked.start} : b \in Cells(d) /\ a \in BlockAround(d, b)
    BY <1>4, <1>5, WidenedIsTouched
<1>7. b \in Meant(asked, d) \cup {asked.start}
    <2>1. /\ SizeOf[d] \in Nat /\ SizeOf[d] < Word /\ Word \in Nat /\ asked.end \in 0 .. Word - 1
          /\ asked.start \in Nat
        BY BoardAssumption DEF IInv, AskedOK
    <2>2. AskedEnd(d) <= asked.end
        BY <1>5, <2>1 DEF AskedEnd, EndOfChip
    <2>3. AskedEnd(d) \in Nat /\ b \in Nat
        BY <1>5, <1>6, <2>1 DEF Cells
    <2> QED
        BY <1>6, <2>1, <2>2, <2>3 DEF Meant
<1> QED
    BY <1>6, <1>7

\* EasyErase takes nothing from outside the erase blocks the host's range touches, although
\* it widens the range in the parameter block and hands that on to check and erase.
THEOREM EasyEraseTakesOnlyItsBlocks == Spec => EasyEraseConfined
<1>1. Init => Stretched
    BY DEF Init, Stretched
<1>2. IInv /\ Stretched /\ [Next]_vars => Stretched'
    BY StretchedStep
<1>3. IInv /\ Stretched /\ [Next]_vars => [Confined]_vars
    BY ConfinedStep
<1>4. EasyEraseConfined <=> [][Confined]_vars
    BY DEF EasyEraseConfined, Confined
<1> QED
    BY <1>1, <1>2, <1>3, <1>4, Invariance, PTL DEF Spec
=============================================================================
