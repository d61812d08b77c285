-------------------------- MODULE SpiFlasher_proofs --------------------------
(***************************************************************************)
(* For every geometry, request and behaviour of the chip: the operations   *)
(* of SpiFlasher keep their inductive invariant, the properties the runs   *)
(* check follow from it, and every step is a step of FlashService.         *)
(***************************************************************************)
EXTENDS SpiFlasher, TLAPS

-----------------------------------------------------------------------------
(* Addresses and the borders of blocks                                     *)

\* An address is so many whole blocks and an offset into the next one.
LEMMA Division ==
    ASSUME NEW n \in Nat \ {0}, NEW a \in Nat
    PROVE  /\ a \div n \in Nat
           /\ a % n \in 0 .. n - 1
           /\ a = n * (a \div n) + (a % n)
    BY SMT

\* Whole blocks are on a border, and only they are.
LEMMA Multiple ==
    ASSUME NEW n \in Nat \ {0}, NEW q \in Nat
    PROVE  (n * q) % n = 0 /\ (n * q) \div n = q /\ n * q \in Nat
    BY SMT

\* A chip decodes an address that it has as itself.
LEMMA Decoded ==
    ASSUME NEW n \in Nat \ {0}, NEW a \in Nat, a < n
    PROVE  a % n = a
    BY SMT

\* What lies on a border is a whole number of blocks.
LEMMA OnBorder ==
    ASSUME NEW n \in Nat \ {0}, NEW a \in Nat, a % n = 0
    PROVE  \E q \in Nat : a = n * q
<1>1. a \div n \in Nat /\ a = n * (a \div n) + (a % n)
    BY Division
<1>2. n * (a \div n) \in Nat
    BY <1>1, SMT
<1>3. a = n * (a \div n)
    BY <1>1, <1>2
<1> QED
    BY <1>1, <1>3

\* The start of the block of an address.
LEMMA BlockStart ==
    ASSUME NEW n \in Nat \ {0}, NEW a \in Nat
    PROVE  /\ a - (a % n) \in Nat
           /\ a - (a % n) <= a
           /\ a < a - (a % n) + n
           /\ (a - (a % n)) % n = 0
    BY Division, Multiple

\* Borders are a whole block apart.
LEMMA BordersApart ==
    ASSUME NEW n \in Nat \ {0}, NEW a \in Nat, NEW b \in Nat,
           a % n = 0, b % n = 0, a < b
    PROVE  a + n <= b
<1>1. PICK p \in Nat : a = n * p
    BY OnBorder
<1>2. PICK q \in Nat : b = n * q
    BY OnBorder
<1>3. p < q
    BY <1>1, <1>2, SMT
<1>4. n * (p + 1) <= n * q
    BY <1>3, SMT
<1>5. n * (p + 1) = n * p + n
    BY SMT
<1> QED
    BY <1>1, <1>2, <1>4, <1>5

\* One block after a border there is the next border.
LEMMA NextBorder ==
    ASSUME NEW n \in Nat \ {0}, NEW a \in Nat, a % n = 0
    PROVE  (a + n) % n = 0
<1>1. PICK p \in Nat : a = n * p
    BY OnBorder
<1>2. n * (p + 1) = n * p + n
    BY SMT
<1>3. (n * (p + 1)) % n = 0
    BY Multiple
<1> QED
    BY <1>1, <1>2, <1>3

\* The borders of a size that is a multiple of another are borders of that one.
LEMMA CoarserBorder ==
    ASSUME NEW n \in Nat \ {0}, NEW m \in Nat \ {0}, NEW a \in Nat,
           m % n = 0, a % m = 0
    PROVE  a % n = 0
<1>1. PICK p \in Nat : m = n * p
    BY OnBorder
<1>2. PICK q \in Nat : a = m * q
    BY OnBorder
<1>3. p * q \in Nat
    BY SMT
<1>4. (n * p) * q = n * (p * q)
    BY SMT
<1>5. (n * (p * q)) % n = 0
    BY <1>3, Multiple
<1> QED
    BY <1>1, <1>2, <1>4, <1>5

\* Two addresses in the same block have the same block start.
LEMMA SameBlock ==
    ASSUME NEW n \in Nat \ {0}, NEW a \in Nat, NEW b \in Nat,
           a % n = 0, a <= b, b < a + n
    PROVE  b - (b % n) = a
<1> DEFINE c == b - (b % n)
<1>1. c \in Nat /\ c <= b /\ b < c + n /\ c % n = 0
    BY BlockStart
<1> HIDE DEF c
<1>2. ~(a < c)
    <2>1. a < c => a + n <= c
        BY <1>1, BordersApart
    <2> QED
        BY <1>1, <2>1
<1>3. ~(c < a)
    <2>1. c < a => c + n <= a
        BY <1>1, BordersApart
    <2> QED
        BY <1>1, <2>1
<1>4. c = a
    BY <1>1, <1>2, <1>3
<1> QED
    BY <1>4 DEF c

-----------------------------------------------------------------------------
(* The inductive invariant                                                 *)

Writing == {"write", "readFirst", "writeFirst", "writePages", "writeLast"}
Looping == Writing \cup {"verify", "read", "hash", "check"}

\* Which operation the call is in, and where in its range.
Position ==
    /\ pc \in Writing => req.mode = "Flash"
    /\ pc = "verify" => req.mode \in {"Flash", "Verify"}
    /\ pc = "read" => req.mode = "Read"
    /\ pc = "hash" => req.mode = "Checksum"
    /\ pc = "check" => req.mode = "IsErased"
    /\ pc = "area" => req.mode = "GetEraseArea"
    /\ pc = "erase" => req.mode = "Erase"
    /\ pc \in Looping => stop = req.end /\ addr \in req.start .. req.end
    /\ pc \in {"write", "readFirst", "writeFirst"} => addr = req.start
    /\ pc \in Writing \ {"write"} => PageSize <= BufferSize

\* Programs start on page borders, erases on borders of their chunk.
Aligned ==
    /\ pc = "writePages" => addr = stop \/ addr % PageSize = 0
    /\ pc = "writeLast" => addr % PageSize = 0 /\ addr < stop /\ stop - addr <= PageSize
    /\ pc = "erase" => /\ stop = EraseTo(req.start, req.end)
                       /\ EraseFrom(req.start, req.end) <= addr
                       /\ addr % EraseChunk(req.start, req.end) = 0

\* What the buffer holds between the two halves of a read-modify-write.
Buffered ==
    /\ pc = "writeFirst" =>
           \A i \in 0 .. PageSize - 1 :
               buf[i] = LET offset == addr % PageSize IN
                        IF i \in offset .. offset + FirstSegment - 1
                        THEN ram[i - offset] ELSE flash[Cell(addr - offset + i)]
    /\ pc = "writeLast" =>
           \A i \in 0 .. PageSize - 1 :
               buf[i] = IF i < stop - addr THEN ram[addr - req.start + i] ELSE flash[Cell(addr + i)]

\* How far a loop has come.
Progressed ==
    /\ pc = "verify" => \A a \in req.start .. addr - 1 : flash[Cell(a)] = ram[a - req.start]
    /\ pc = "read" => \A a \in req.start .. addr - 1 : flash[Cell(a)] = ram[a - req.start]
    /\ pc = "hash" => digest = [i \in 0 .. (addr - req.start) - 1 |-> flash[Cell(req.start + i)]]
    /\ pc = "check" => IF erased = Blank
                       THEN \A a \in req.start .. addr - 1 : flash[Cell(a)] = Blank
                       ELSE \E a \in Span(req) : flash[Cell(a)] # Blank

\* What a chip that takes everything holds by then.
Taken ==
    ~ChipFaults =>
        /\ pc \in {"writePages", "writeLast"} =>
               \A a \in req.start .. addr - 1 : flash[Cell(a)] \subseteq ram[a - req.start]
        /\ pc = "verify" /\ req.mode = "Flash" =>
               \A a \in Span(req) : flash[Cell(a)] \subseteq ram[a - req.start]
        /\ pc = "erase" /\ req.end <= FlashSize =>
               /\ addr <= stop
               /\ \A a \in EraseFrom(req.start, req.end) .. addr - 1 : flash[a] = Blank

IInv ==
    /\ TypeOK /\ Position /\ Aligned /\ Buffered /\ Progressed /\ Taken
    /\ FlashedIsVerified /\ WriteComplete /\ ErasedIsBlank /\ VerifyErrorIsDifference

-----------------------------------------------------------------------------
(* Geometry                                                                *)

\* Pages, sectors and the flash itself end on each other's borders.
LEMMA Sizes ==
    /\ FlashSize \in Nat \ {0} /\ PageSize \in Nat \ {0} /\ SectorSize \in Nat \ {0}
    /\ FlashSize % SectorSize = 0 /\ FlashSize % PageSize = 0 /\ SectorSize % PageSize = 0
    /\ BufferSize \in Nat \ {0} /\ Word \in Nat /\ 2 * FlashSize + SectorSize < Word
    BY GeometryAssumption, CoarserBorder

\* The last word is odd and lies on no border that an end is moved to.
LEMMA LastWordOffBorder ==
    ASSUME NEW n \in Nat \ {0}, n % 2 = 0
    PROVE  (Word - 1) % n # 0
<1>1. Word \in Nat /\ Word > 0 /\ Word % 2 = 0
    BY Sizes, GeometryAssumption
<1>2. Word - 1 \in Nat /\ (Word - 1) % 2 = 1
    BY <1>1
<1> QED
    BY <1>2, CoarserBorder

\* What the parameter check lets pass: only the start is in the flash for certain.
LEMMA RequestAccepted ==
    ASSUME NEW r \in Requests
    PROVE  /\ r.start \in Cells /\ r.start \in Nat /\ r.end \in 0 .. Word - 1 /\ r.start <= r.end
           /\ r.mode \in Modes
           /\ r.mode \in {"Flash", "Read", "Verify"} => r.end - r.start <= FlashSize
           /\ r.mode \in {"Read", "Verify"} => r.end <= FlashSize
           /\ r.mode \in {"Erase", "IsErased", "Checksum"} => r.end <= FlashSize \/ r.end = Word - 1
           /\ Service!Accepted(r)
<1>1. /\ r \in Service!Requests /\ Service!Accepted(r)
    BY DEF Requests
<1>2. /\ r.mode \in Modes /\ r.start \in 0 .. Word - 1 /\ r.end \in 0 .. Word - 1
      /\ r.mode \in {"Read", "Verify"} => r.end - r.start <= FlashSize
    <2>1. PICK m \in Modes, b \in Ranges : r = [mode |-> m, start |-> b[1], end |-> b[2]]
        BY <1>1 DEF Service!Requests, Service!Modes, Modes
    <2>2. b[1] \in 0 .. Word - 1 /\ b[2] \in 0 .. Word - 1
        BY EnvironmentAssumption
    <2> QED
        BY <1>1, <2>1, <2>2 DEF Service!Requests
<1>3. /\ r.start < FlashSize /\ r.start <= r.end
      /\ r.mode = "Flash" => r.end - r.start <= FlashSize
      /\ r.mode \in {"Erase", "Read", "Verify", "Checksum", "IsErased"} => r.end <= FlashSize \/ r.end = Word - 1
    BY <1>1 DEF Service!Accepted
<1> QED
    BY <1>1, <1>2, <1>3, Sizes DEF Cells

\* The span of a request is from its start on, and no longer than the flash where data
\* goes to or comes from the host.
LEMMA SpanOf ==
    ASSUME NEW r \in Requests
    PROVE  /\ r.mode # "GetEraseArea" => Span(r) = r.start .. r.end - 1
           /\ Span(r) \subseteq Nat
           /\ Named(r) = {Cell(a) : a \in Span(r)}
<1>1. r.start \in Nat /\ r.end \in Nat
    BY RequestAccepted
<1>2. Service!End(r) \in Nat /\ (r.mode # "GetEraseArea" => Service!End(r) = r.end)
    BY <1>1, Sizes DEF Service!End
<1>3. Named(r) = {Cell(a) : a \in Span(r)}
    BY DEF Named, Span, Service!Named, Service!Span, Service!Cell, Cell
<1> QED
    BY <1>1, <1>2, <1>3 DEF Span, Service!Span

\* The chip decodes every address of the flash as itself.
LEMMA CellOfAddress ==
    ASSUME NEW a \in Cells
    PROVE  Cell(a) = a
    BY Sizes, Decoded DEF Cell, Cells

\* Every address the chip sees selects a cell.
LEMMA CellInFlash ==
    ASSUME NEW a \in Nat
    PROVE  Cell(a) \in Cells
    BY Sizes, Division DEF Cell, Cells

\* Addresses less than a flash apart select different cells.
LEMMA CellsApart ==
    ASSUME NEW a \in Nat, NEW b \in Nat, a <= b, b < a + FlashSize, Cell(a) = Cell(b)
    PROVE  a = b
<1> DEFINE F == FlashSize
           p == a \div F
           q == b \div F
<1>1. /\ F \in Nat \ {0} /\ p \in Nat /\ q \in Nat
      /\ a = F * p + Cell(a) /\ b = F * q + Cell(b) /\ Cell(a) \in Nat
    <2>1. Cell(a) \in Nat
        BY Sizes, CellInFlash DEF Cells
    <2> QED
        BY <2>1, Sizes, Division DEF Cell
<1> HIDE DEF F, p, q
<1>2. F * p \in Nat /\ F * q \in Nat
    BY <1>1, SMT
<1>3. F * q < F * p + F
    BY <1>1, <1>2 DEF F
<1>4. q > p => F * p + F <= F * q
    <2>1. q > p => F * (p + 1) <= F * q
        BY <1>1, SMT
    <2>2. F * (p + 1) = F * p + F
        BY <1>1, SMT
    <2> QED
        BY <2>1, <2>2
<1>5. q < p => F * q + F <= F * p
    <2>1. q < p => F * (q + 1) <= F * p
        BY <1>1, SMT
    <2>2. F * (q + 1) = F * q + F
        BY <1>1, SMT
    <2> QED
        BY <2>1, <2>2
<1>6. q = p
    BY <1>1, <1>2, <1>3, <1>4, <1>5 DEF F
<1> QED
    BY <1>1, <1>6

\* Up to the next multiple of the flash the cells follow each other.
LEMMA CellsInOrder ==
    ASSUME NEW a \in Nat, NEW i \in Nat, Cell(a) + i < FlashSize
    PROVE  Cell(a + i) = Cell(a) + i
<1> DEFINE b == a + i
           c == Cell(a) + i
<1>1. c \in Cells /\ b \in Nat
    BY Sizes, CellInFlash DEF Cells
<1>2. Cell(a) \in Cells /\ Cell(b) \in Cells
    BY <1>1, CellInFlash
<1> DEFINE F == FlashSize
           p == a \div F
           q == b \div F
<1>3. /\ F \in Nat \ {0} /\ p \in Nat /\ q \in Nat
      /\ a = F * p + Cell(a) /\ b = F * q + Cell(b)
    BY <1>1, Sizes, Division DEF Cell
<1>4. F * p + c = F * q + Cell(b) /\ c \in 0 .. F - 1 /\ Cell(b) \in 0 .. F - 1
    <2>1. F * p \in Nat
        BY <1>3, SMT
    <2>2. b = a + i /\ c = Cell(a) + i
        OBVIOUS
    <2>3. Cell(a) \in Nat
        BY <1>2, Sizes DEF Cells
    <2> DEFINE f == F * p
    <2>4. a = f + Cell(a) /\ f \in Nat
        BY <1>3, <2>1
    <2> HIDE DEF b, c, p, q, f
    <2>5. b = f + c
        BY <2>2, <2>3, <2>4
    <2>6. b = F * p + c
        BY <2>5 DEF f
    <2> QED
        BY <1>1, <1>2, <1>3, <2>6 DEF Cells
<1> HIDE DEF F, p, q, b, c
<1>5. q = p
    <2>1. F * p \in Nat /\ F * q \in Nat
        BY <1>3, SMT
    <2>2. q > p => F * p + F <= F * q
        <3>1. q > p => F * (p + 1) <= F * q
            BY <1>3, SMT
        <3>2. F * (p + 1) = F * p + F
            BY <1>3, SMT
        <3> QED
            BY <3>1, <3>2
    <2>3. q < p => F * q + F <= F * p
        <3>1. q < p => F * (q + 1) <= F * p
            BY <1>3, SMT
        <3>2. F * (q + 1) = F * q + F
            BY <1>3, SMT
        <3> QED
            BY <3>1, <3>2
    <2> QED
        BY <1>3, <1>4, <2>1, <2>2, <2>3
<1>6. c = Cell(b)
    <2>1. F * p \in Nat
        BY <1>3, SMT
    <2> QED
        BY <1>3, <1>4, <1>5, <2>1
<1> QED
    BY <1>6 DEF b, c

\* A border of the pages or of the erase chunks is the border of a cell.
LEMMA CellOnBorder ==
    ASSUME NEW n \in Nat \ {0}, FlashSize % n = 0, NEW a \in Nat, a % n = 0
    PROVE  Cell(a) % n = 0 /\ Cell(a) + n <= FlashSize
<1> DEFINE q == a \div FlashSize
           m == Cell(a)
<1>1. q \in Nat /\ m \in 0 .. FlashSize - 1 /\ a = FlashSize * q + m /\ FlashSize \in Nat \ {0}
    BY Sizes, Division DEF Cell
<1>2. PICK k \in Nat : FlashSize = n * k
    BY <1>1, OnBorder
<1>3. PICK j \in Nat : a = n * j
    BY OnBorder
<1> HIDE DEF q, m
<1>4. k * q \in Nat /\ FlashSize * q = n * (k * q)
    BY <1>1, <1>2, SMT
<1> DEFINE h == k * q
<1>5. h \in Nat /\ n * j = n * h + m /\ m \in Nat
    BY <1>1, <1>3, <1>4
<1> HIDE DEF h
<1>6. n * (j - h) = n * j - n * h
    BY <1>5, SMT
<1>7. n * h \in Nat /\ n * j \in Nat
    BY <1>5, SMT
<1>8. m = n * (j - h)
    BY <1>5, <1>6, <1>7
<1>9. j - h \in Nat
    <2>1. j < h => n * j + n <= n * h
        <3>1. j < h => n * (j + 1) <= n * h
            BY <1>5, SMT
        <3>2. n * (j + 1) = n * j + n
            BY SMT
        <3> QED
            BY <3>1, <3>2
    <2> QED
        BY <1>5, <1>7, <2>1
<1>10. m % n = 0
    BY <1>8, <1>9, Multiple
<1>11. m + n <= FlashSize
    <2>1. m \in Nat /\ m < FlashSize /\ FlashSize \in Nat
        BY <1>1
    <2> QED
        BY <2>1, <1>10, BordersApart
<1> QED
    BY <1>10, <1>11 DEF m

\* A whole page or chunk from a border on is so many cells in order.
LEMMA CellsOfBlock ==
    ASSUME NEW n \in Nat \ {0}, FlashSize % n = 0, NEW a \in Nat, a % n = 0
    PROVE  /\ CellsAt(a, n) \subseteq Cells
           /\ \A i \in 0 .. n - 1 : Cell(a + i) = Cell(a) + i /\ Cell(a + i) \in CellsAt(a, n)
           /\ \A c \in CellsAt(a, n) : c - Cell(a) \in 0 .. n - 1 /\ c = Cell(a + (c - Cell(a)))
<1>1. Cell(a) \in Nat /\ Cell(a) + n <= FlashSize /\ FlashSize \in Nat
    BY CellOnBorder, CellInFlash, Sizes DEF Cells
<1>2. ASSUME NEW i \in 0 .. n - 1 PROVE Cell(a + i) = Cell(a) + i
    BY <1>1, CellsInOrder
<1>3. CellsAt(a, n) = Cell(a) .. Cell(a) + n - 1
    BY DEF CellsAt
<1>4. ASSUME NEW c \in CellsAt(a, n) PROVE c - Cell(a) \in 0 .. n - 1 /\ c = Cell(a) + (c - Cell(a)) /\ c \in Cells
    BY <1>1, <1>3 DEF Cells
<1>5. ASSUME NEW i \in 0 .. n - 1 PROVE Cell(a) + i \in CellsAt(a, n)
    BY <1>1, <1>3
<1>6. ASSUME NEW c \in CellsAt(a, n) PROVE c = Cell(a + (c - Cell(a)))
    <2> DEFINE k == c - Cell(a)
    <2>1. k \in 0 .. n - 1 /\ c = Cell(a) + k
        BY <1>4
    <2> HIDE DEF k
    <2>2. Cell(a + k) = Cell(a) + k
        BY <1>2, <2>1
    <2> QED
        BY <2>1, <2>2 DEF k
<1>7. ASSUME NEW i \in 0 .. n - 1 PROVE Cell(a + i) \in CellsAt(a, n)
    <2>1. Cell(a + i) = Cell(a) + i
        BY <1>2
    <2> QED
        BY <1>5, <2>1
<1>8. CellsAt(a, n) \subseteq Cells
    BY <1>4
<1> QED
    BY <1>2, <1>4, <1>6, <1>7, <1>8

\* The page of an address, and where in it the address is.
LEMMA PageOfAddress ==
    ASSUME NEW a \in Nat
    PROVE  /\ a - (a % PageSize) \in Nat
           /\ (a - (a % PageSize)) % PageSize = 0
           /\ a % PageSize \in 0 .. PageSize - 1
           /\ a < a - (a % PageSize) + PageSize
    BY Sizes, Division, BlockStart

\* Least picks one of its arguments.
LEMMA LeastIs ==
    ASSUME NEW a \in Int, NEW b \in Int
    PROVE  Least(a, b) \in {a, b} /\ Least(a, b) <= a /\ Least(a, b) <= b
    BY DEF Least

\* The unit of an erase is the page or the sector, and divides the flash.
LEMMA ChunkSize ==
    ASSUME NEW s \in Nat, NEW e \in Nat
    PROVE  /\ EraseChunk(s, e) \in Nat \ {0}
           /\ EraseChunk(s, e) \in {PageSize, SectorSize}
           /\ FlashSize % EraseChunk(s, e) = 0
           /\ SectorSize % EraseChunk(s, e) = 0
<1>1. SectorSize % SectorSize = 0
    BY Sizes, Multiple, SMT
<1> QED
    BY <1>1, Sizes DEF EraseChunk

\* The range spi_erase_with_progress erases: the request, moved out to borders.
LEMMA EraseRange ==
    ASSUME NEW s \in Cells, NEW e \in 0 .. FlashSize, s <= e
    PROVE  LET c == EraseChunk(s, e)
               f == EraseFrom(s, e)
               t == EraseTo(s, e)
           IN  /\ f \in Nat /\ f <= s /\ s < f + c /\ f % c = 0
               /\ t \in Nat /\ e <= t /\ t < e + c /\ t % c = 0
               /\ t <= FlashSize /\ f <= t
<1> DEFINE c == EraseChunk(s, e)
           f == EraseFrom(s, e)
           t == EraseTo(s, e)
<1>1. s \in Nat /\ e \in Nat /\ s < FlashSize /\ e <= FlashSize
    BY Sizes DEF Cells
<1>2. c \in Nat \ {0} /\ FlashSize % c = 0 /\ c <= SectorSize
    <2>1. PageSize <= SectorSize
        <3>1. 0 % PageSize = 0
            BY Sizes, Decoded
        <3>2. 0 + PageSize <= SectorSize
            BY <3>1, Sizes, BordersApart
        <3> QED
            BY <3>2, Sizes
    <2>2. c \in Nat \ {0} /\ c \in {PageSize, SectorSize} /\ FlashSize % c = 0
        BY <1>1, ChunkSize
    <2> HIDE DEF c
    <2> QED
        BY <2>1, <2>2, Sizes
<1>3. f = s - (s % c)
    BY DEF EraseFrom
<1>4. t = UpTo(e, c)
    BY DEF EraseTo
<1> HIDE DEF c, f, t
<1>5. f \in Nat /\ f <= s /\ s < f + c /\ f % c = 0
    BY <1>1, <1>2, <1>3, BlockStart
<1>6. t \in Nat /\ e <= t /\ t < e + c /\ t % c = 0 /\ t <= FlashSize
    <2>1. CASE e % c = 0
        BY <2>1, <1>1, <1>2, <1>4 DEF UpTo
    <2>2. CASE e % c # 0
        <3> DEFINE b == e - (e % c)
        <3>1. b \in Nat /\ b <= e /\ e < b + c /\ b % c = 0
            BY <1>1, <1>2, BlockStart
        <3>2. e % c \in 0 .. c - 1
            BY <1>1, <1>2, Division
        <3>3. e + (c - (e % c)) = b + c
            BY <1>1, <1>2, <3>2
        <3>4. b < FlashSize
            <4> DEFINE m == e % c
            <4>1. m \in Nat /\ m > 0 /\ b = e - m
                BY <2>2, <1>1, <3>2
            <4> HIDE DEF m, b
            <4> QED
                BY <4>1, <1>2, Sizes
        <3> HIDE DEF b
        <3>5. b + c <= FlashSize /\ (b + c) % c = 0
            BY <1>1, <1>2, <3>1, <3>4, Sizes, BordersApart, NextBorder
        <3>6. (b + c) % Word = b + c
            BY <3>1, <3>5, <1>2, GeometryAssumption, Decoded
        <3>7. t = b + c
            BY <1>4, <2>2, <3>3, <3>6 DEF UpTo
        <3>8. e # b
            BY <2>2, <3>1
        <3> QED
            BY <3>1, <3>5, <3>7, <3>8, <1>1, <1>2
    <2> QED
        BY <2>1, <2>2
<1>7. f <= t
    BY <1>1, <1>5, <1>6
<1> QED
    BY <1>5, <1>6, <1>7 DEF c, f, t

\* Moved up to a border of the sectors, 0xffffffff overflows: little is left to erase.
LEMMA EraseOverflow ==
    ASSUME NEW s \in Nat
    PROVE  /\ ~PageEraseFits(s, Word - 1) /\ EraseChunk(s, Word - 1) = SectorSize
           /\ EraseTo(s, Word - 1) \in Nat /\ EraseTo(s, Word - 1) < SectorSize
<1> DEFINE e == Word - 1
           m == e % SectorSize
<1>1. ~PageEraseFits(s, e)
    <2>1. PageErase => e % PageSize # 0
        BY Sizes, LastWordOffBorder, GeometryAssumption
    <2> QED
        BY <2>1 DEF PageEraseFits, OnBorders
<1>2. EraseChunk(s, e) = SectorSize
    BY <1>1 DEF EraseChunk
<1>3. e % SectorSize # 0 /\ e \in Nat /\ SectorSize \in Nat \ {0} /\ SectorSize < Word /\ Word \in Nat \ {0}
    <2>1. SectorSize \in Nat \ {0} /\ SectorSize % 2 = 0
        BY GeometryAssumption
    <2>2. e % SectorSize # 0
        BY <2>1, LastWordOffBorder
    <2>3. Word \in Nat /\ FlashSize \in Nat \ {0} /\ 2 * FlashSize + SectorSize < Word
        BY Sizes
    <2> QED
        BY <2>1, <2>2, <2>3
<1>4. m \in 0 .. SectorSize - 1
    BY <1>3, Division
<1>5. EraseTo(s, e) = (e + (SectorSize - m)) % Word
    BY <1>2, <1>3 DEF EraseTo, UpTo
<1> DEFINE x == (SectorSize - m) - 1
<1>6. x \in Nat /\ x < SectorSize /\ e + (SectorSize - m) = Word + x
    BY <1>3, <1>4
<1> HIDE DEF e, m, x
<1>7. (Word + x) % Word = x
    <2>1. x < Word
        BY <1>3, <1>6
    <2> QED
        BY <1>3, <1>6, <2>1, SMT
<1> QED
    BY <1>1, <1>2, <1>5, <1>6, <1>7 DEF e

\* Where the erase of a request begins and ends.
LEMMA EraseBounds ==
    ASSUME NEW r \in Requests, r.mode = "Erase"
    PROVE  LET c == EraseChunk(r.start, r.end)
               f == EraseFrom(r.start, r.end)
               t == EraseTo(r.start, r.end)
           IN  /\ c \in Nat \ {0} /\ FlashSize % c = 0 /\ SectorSize % c = 0
               /\ f \in Nat /\ f <= r.start /\ r.start < f + c /\ f % c = 0
               /\ t \in Nat
               /\ \/ r.end <= FlashSize /\ f <= t /\ r.end <= t /\ t < r.end + c /\ t % c = 0 /\ t <= FlashSize
                  \/ FlashSize < r.end /\ t < c /\ ~PageEraseFits(r.start, r.end)
<1>1. r.start \in Cells /\ r.start \in Nat /\ r.end \in Nat /\ r.start <= r.end
    BY RequestAccepted
<1>2. r.end <= FlashSize \/ (r.end = Word - 1 /\ FlashSize < r.end)
    BY RequestAccepted, Sizes
<1>3. /\ EraseChunk(r.start, r.end) \in Nat \ {0}
      /\ FlashSize % EraseChunk(r.start, r.end) = 0 /\ SectorSize % EraseChunk(r.start, r.end) = 0
    BY <1>1, ChunkSize
<1>4. CASE r.end <= FlashSize
    <2>1. r.end \in 0 .. FlashSize
        BY <1>1, <1>4, Sizes
    <2> QED
        BY <1>1, <1>3, <1>4, <2>1, EraseRange
<1>5. CASE r.end = Word - 1 /\ FlashSize < r.end
    <2>1. /\ ~PageEraseFits(r.start, r.end) /\ EraseChunk(r.start, r.end) = SectorSize
          /\ EraseTo(r.start, r.end) \in Nat /\ EraseTo(r.start, r.end) < SectorSize
        BY <1>1, <1>5, EraseOverflow
    <2>2. EraseFrom(r.start, r.end) = r.start - (r.start % SectorSize)
        BY <2>1 DEF EraseFrom
    <2>3. /\ EraseFrom(r.start, r.end) \in Nat /\ EraseFrom(r.start, r.end) <= r.start
          /\ r.start < EraseFrom(r.start, r.end) + SectorSize /\ EraseFrom(r.start, r.end) % SectorSize = 0
        BY <1>1, <2>2, Sizes, BlockStart
    <2> QED
        BY <1>3, <1>5, <2>1, <2>3
<1> QED
    BY <1>2, <1>4, <1>5

-----------------------------------------------------------------------------
(* Every action keeps the invariant                                        *)

\* What the invariant says of the numbers of a call.
LEMMA Numbers ==
    ASSUME IInv
    PROVE  /\ req.start \in Nat /\ req.end \in Nat /\ addr \in Nat /\ stop \in Nat
           /\ req.start < FlashSize /\ req.start <= req.end
           /\ pc \in Looping => /\ stop = req.end /\ req.start <= addr /\ addr <= stop
                                /\ Span(req) = req.start .. req.end - 1
           /\ pc \in Writing \cup {"read"} => req.end - req.start <= FlashSize
           /\ FlashSize \in Nat /\ PageSize \in Nat \ {0} /\ BufferSize \in Nat \ {0}
<1>1. req \in Requests /\ addr \in Nat /\ stop \in Nat
    BY DEF IInv, TypeOK
<1>2. /\ req.start \in Cells /\ req.end \in 0 .. Word - 1 /\ req.start <= req.end /\ req.start \in Nat
      /\ req.mode \in {"Flash", "Read"} => req.end - req.start <= FlashSize
      /\ req.mode # "GetEraseArea" => Span(req) = req.start .. req.end - 1
    BY <1>1, RequestAccepted, SpanOf
<1>3. /\ pc \in Looping => req.mode # "GetEraseArea"
      /\ pc \in Writing \cup {"read"} => req.mode \in {"Flash", "Read"}
    BY DEF IInv, Position, Looping, Writing
<1> QED
    BY <1>1, <1>2, <1>3, Sizes DEF IInv, Position, Cells

\* A read leaves bytes in the buffer.
LEMMA ReceivedBytes ==
    ASSUME NEW d \in SUBSET Nat, NEW b \in [d -> Byte], NEW at \in Nat, NEW offset \in Nat, NEW n \in Nat,
           flash \in Image
    PROVE  Received(b, offset, at, n) \in [d -> Byte]
<1> SUFFICES ASSUME NEW i \in d, i \in offset .. offset + n - 1
             PROVE  flash[Cell(at + i - offset)] \in Byte
    BY DEF Received
<1>1. at + i - offset \in Nat
    OBVIOUS
<1> QED
    BY <1>1, CellInFlash DEF Image

\* The rest of the first page, or what the request wants of it, is in both.
LEMMA FirstSegmentFits ==
    ASSUME IInv, pc \in {"readFirst", "writeFirst"}
    PROVE  /\ FirstSegment \in Nat
           /\ addr + FirstSegment <= stop
           /\ addr + FirstSegment <= addr - (addr % PageSize) + PageSize
           /\ addr + FirstSegment = stop \/ addr + FirstSegment = addr - (addr % PageSize) + PageSize
<1> DEFINE m == addr % PageSize
<1>1. m \in 0 .. PageSize - 1
    BY Numbers, Division
<1>2. /\ stop - addr \in Nat /\ PageSize - m \in Nat
      /\ addr \in Nat /\ stop \in Nat /\ PageSize \in Nat
    BY <1>1, Numbers DEF Looping, Writing
<1>3. FirstSegment = Least(stop - addr, PageSize - m)
    BY DEF FirstSegment
<1> HIDE DEF m
<1>4. /\ FirstSegment \in Nat /\ addr + FirstSegment <= stop
      /\ addr + FirstSegment <= addr - m + PageSize
      /\ addr + FirstSegment = stop \/ addr + FirstSegment = addr - m + PageSize
    BY <1>1, <1>2, <1>3 DEF Least
<1> QED
    BY <1>4 DEF m

LEMMA ReadFirstPageKeeps ==
    ASSUME IInv, ReadFirstPage
    PROVE  IInv'
<1> DEFINE offset == addr % PageSize
           start == addr - offset
           page == Received(buf, 0, start, PageSize)
<1>1. /\ pc = "readFirst" /\ req' = req /\ stop' = stop /\ calls' = calls /\ flash' = flash
      /\ ram' = ram /\ addr' = addr /\ erased' = erased /\ digest' = digest
      /\ message' = message /\ area' = area
    BY DEF ReadFirstPage, Fixed
<1>2. CASE UNCHANGED buf /\ Return("ERROR")
    BY <1>1, <1>2 DEF IInv, TypeOK, Position, Aligned, Buffered, Progressed, Taken, Return,
        FlashedIsVerified, WriteComplete, ErasedIsBlank, VerifyErrorIsDifference, Writing, Looping
<1>3. CASE /\ Goto("writeFirst")
           /\ buf' = [i \in DOMAIN buf |->
                         IF i \in offset .. offset + FirstSegment - 1
                         THEN ram[i - offset] ELSE page[i]]
    <2>1. addr \in Nat /\ PageSize <= BufferSize
        BY <1>1, Numbers DEF IInv, Position, Writing, Looping
    <2>2. start \in Nat /\ offset \in 0 .. PageSize - 1
        BY <2>1, PageOfAddress
    <2>3. buf \in [0 .. BufferSize - 1 -> Byte] /\ ram \in Image /\ flash \in Image
        BY DEF IInv, TypeOK
    <2>4. page \in [0 .. BufferSize - 1 -> Byte]
        <3>1. 0 .. BufferSize - 1 \in SUBSET Nat /\ start \in Nat
            BY <2>2, Numbers
        <3> QED
            BY <2>3, <3>1, ReceivedBytes, Numbers
    <2>5. FirstSegment \in Nat /\ FirstSegment <= FlashSize
        BY <1>1, FirstSegmentFits, Numbers DEF Looping, Writing, IInv, Position
    <2>6. ASSUME NEW i \in 0 .. PageSize - 1 PROVE page[i] = flash[Cell(start + i)]
        <3> HIDE DEF start, offset
        <3>1. i \in DOMAIN buf /\ i \in 0 .. 0 + PageSize - 1
            BY <2>1, <2>2, <2>3, Numbers
        <3>2. start + i - 0 = start + i
            BY <2>2, Numbers
        <3> QED
            BY <3>1, <3>2 DEF Received
    <2>7. buf' \in [0 .. BufferSize - 1 -> Byte]
        <3> HIDE DEF start, offset, page
        <3>1. ASSUME NEW i \in offset .. offset + FirstSegment - 1 PROVE ram[i - offset] \in Byte
            BY <2>2, <2>3, <2>5, Numbers, <1>1 DEF Image, Cells, Looping, Writing
        <3> QED
            BY <1>3, <2>3, <2>4, <3>1
    <2>8. Buffered'
        <3>1. FirstSegment' = FirstSegment
            BY <1>1 DEF FirstSegment, Least
        <3> QED
            BY <1>1, <1>3, <2>1, <2>3, <2>6, <3>1, Numbers DEF Buffered, Goto
    <2> HIDE DEF start, offset, page
    <2>9. TypeOK'
        BY <1>1, <1>3, <2>7 DEF IInv, TypeOK, Goto
    <2> QED
        BY <1>1, <1>3, <2>8, <2>9 DEF IInv, Position, Aligned, Progressed, Taken, Goto,
            FlashedIsVerified, WriteComplete, ErasedIsBlank, VerifyErrorIsDifference, Writing, Looping
<1> QED
    BY <1>1, <1>2, <1>3 DEF ReadFirstPage

\* Programming a page from its border clears exactly the bits its data wants cleared,
\* in the cells that the chip takes.
PageTaken(new, at, data, from) ==
    /\ new \in Image
    /\ \A a \in Cells :
           \/ new[a] = flash[a]
           \/ \E i \in 0 .. PageSize - 1 : a = Cell(at + i) /\ new[a] = flash[a] \cap data[from + i]
    /\ ~ChipFaults => \A i \in 0 .. PageSize - 1 : new[Cell(at + i)] \subseteq data[from + i]

LEMMA PageWrittenAt ==
    ASSUME NEW at \in Nat, at % PageSize = 0, NEW data, NEW from \in Nat,
           NEW hit \in Hits(CellsAt(at, PageSize)), flash \in Image
    PROVE  PageTaken(PageWritten(at, data, from, hit), at, data, from)
<1> DEFINE new == PageWritten(at, data, from, hit)
<1>1. /\ CellsAt(at, PageSize) \subseteq Cells
      /\ \A i \in 0 .. PageSize - 1 : Cell(at + i) = Cell(at) + i /\ Cell(at + i) \in CellsAt(at, PageSize)
      /\ \A c \in CellsAt(at, PageSize) : c - Cell(at) \in 0 .. PageSize - 1 /\ c = Cell(at + (c - Cell(at)))
    BY Sizes, CellsOfBlock
<1>2. hit \subseteq CellsAt(at, PageSize) /\ (~ChipFaults => hit = CellsAt(at, PageSize))
    BY DEF Hits
<1>3. Cell(at) \in Nat
    BY CellInFlash, Sizes DEF Cells
<1>4. ASSUME NEW a \in Cells, new[a] # flash[a]
      PROVE  \E i \in 0 .. PageSize - 1 : a = Cell(at + i) /\ new[a] = flash[a] \cap data[from + i]
    <2>1. a \in hit /\ new[a] = flash[a] \cap data[from + a - Cell(at)]
        BY <1>4 DEF PageWritten
    <2>2. from + a - Cell(at) = from + (a - Cell(at))
        BY <1>3, Sizes DEF Cells
    <2>3. a - Cell(at) \in 0 .. PageSize - 1 /\ a = Cell(at + (a - Cell(at)))
        BY <1>1, <1>2, <2>1
    <2> QED
        BY <2>1, <2>2, <2>3
<1>5. ASSUME ~ChipFaults, NEW i \in 0 .. PageSize - 1
      PROVE  new[Cell(at + i)] \subseteq data[from + i]
    <2>1. Cell(at + i) = Cell(at) + i /\ Cell(at + i) \in hit /\ Cell(at + i) \in Cells
        BY <1>1, <1>2, <1>5
    <2>2. from + Cell(at + i) - Cell(at) = from + i
        BY <2>1, <1>3
    <2> QED
        BY <2>1, <2>2 DEF PageWritten
<1>6. new \in Image
    BY DEF PageWritten, Image, Byte
<1> QED
    BY <1>4, <1>5, <1>6 DEF PageTaken

\* What a step of a write may do to the flash.
ProgramEffect ==
    /\ flash' \in Image
    /\ \A a \in Cells :
           \/ flash'[a] = flash[a]
           \/ \E b \in Span(req) : a = Cell(b) /\ flash'[a] = flash[a] \cap ram[b - req.start]

\* Nothing is ever set, and other cells than those of the request keep their value.
LEMMA ProgrammingClears ==
    ASSUME ProgramEffect
    PROVE  /\ \A a \in Nat : flash'[Cell(a)] \subseteq flash[Cell(a)]
           /\ \A a \in Cells \ {Cell(b) : b \in Span(req)} : flash'[a] = flash[a]
<1>1. \A a \in Cells : flash'[a] \subseteq flash[a]
    BY DEF ProgramEffect
<1>2. \A a \in Cells \ {Cell(b) : b \in Span(req)} : flash'[a] = flash[a]
    BY DEF ProgramEffect
<1> QED
    BY <1>1, <1>2, CellInFlash

LEMMA WriteFirstPageEffect ==
    ASSUME IInv, WriteFirstPage
    PROVE  /\ ProgramEffect
           /\ ~ChipFaults => \A a \in addr .. addr + FirstSegment - 1 : flash'[Cell(a)] \subseteq ram[a - req.start]
<1> DEFINE offset == addr % PageSize
           start == addr - offset
<1>1. pc = "writeFirst" /\ addr = req.start /\ addr \in Nat /\ flash \in Image /\ PageSize \in Nat
    BY Numbers DEF WriteFirstPage, IInv, Position, TypeOK
<1>2. PICK hit \in Hits(CellsAt(start, PageSize)) : flash' = PageWritten(start, buf, 0, hit)
    BY DEF WriteFirstPage
<1>3. /\ start \in Nat /\ start % PageSize = 0 /\ offset \in 0 .. PageSize - 1
      /\ start + offset = addr /\ 0 \in Nat
    <2>1. start \in Nat /\ start % PageSize = 0 /\ offset \in 0 .. PageSize - 1
        BY <1>1, PageOfAddress
    <2>2. offset \in Nat /\ start = addr - offset
        BY <1>1, <2>1
    <2> HIDE DEF start, offset
    <2> QED
        BY <1>1, <2>1, <2>2
<1>4. /\ FirstSegment \in Nat /\ addr + FirstSegment <= req.end
      /\ addr + FirstSegment <= start + PageSize
      /\ Span(req) = req.start .. req.end - 1 /\ req.end \in Nat
    <2>1. stop = req.end /\ Span(req) = req.start .. req.end - 1 /\ req.end \in Nat
        BY <1>1, Numbers DEF Looping, Writing
    <2>2. /\ FirstSegment \in Nat /\ addr + FirstSegment <= stop
          /\ addr + FirstSegment <= addr - (addr % PageSize) + PageSize
        BY <1>1, FirstSegmentFits
    <2> QED
        BY <2>1, <2>2
<1>5. ASSUME NEW i \in 0 .. PageSize - 1
      PROVE  buf[i] = IF i \in offset .. offset + FirstSegment - 1
                      THEN ram[i - offset] ELSE flash[Cell(start + i)]
    BY <1>1 DEF IInv, Buffered
<1>6. PageTaken(flash', start, buf, 0)
    <2> HIDE DEF start, offset
    <2> QED
        BY <1>1, <1>2, <1>3, PageWrittenAt
<1> HIDE DEF start, offset
<1>7. ASSUME NEW i \in 0 .. PageSize - 1
      PROVE  \/ start + i \in Span(req) /\ buf[0 + i] = ram[(start + i) - req.start]
             \/ buf[0 + i] = flash[Cell(start + i)]
    <2>1. CASE i \in offset .. offset + FirstSegment - 1
        <3>1. start + i \in Span(req) /\ (start + i) - req.start = i - offset /\ 0 + i = i
            BY <1>1, <1>3, <1>4, <2>1
        <3> QED
            BY <1>5, <2>1, <3>1
    <2>2. CASE i \notin offset .. offset + FirstSegment - 1
        <3>1. 0 + i = i
            OBVIOUS
        <3> QED
            BY <1>5, <2>2, <3>1
    <2> QED
        BY <2>1, <2>2
<1>8. ASSUME ~ChipFaults, NEW a \in addr .. addr + FirstSegment - 1
      PROVE  flash'[Cell(a)] \subseteq ram[a - req.start]
    <2>1. /\ a - start \in 0 .. PageSize - 1 /\ start + (a - start) = a
          /\ a - start \in offset .. offset + FirstSegment - 1
          /\ (a - start) - offset = a - req.start /\ 0 + (a - start) = a - start
        BY <1>1, <1>3, <1>4
    <2>2. buf[a - start] = ram[a - req.start]
        BY <1>5, <2>1
    <2>3. flash'[Cell(start + (a - start))] \subseteq buf[0 + (a - start)]
        BY <1>6, <1>8, <2>1 DEF PageTaken
    <2> QED
        BY <2>1, <2>2, <2>3
<1>9. ProgramEffect
    BY <1>6, <1>7 DEF ProgramEffect, PageTaken
<1> QED
    BY <1>8, <1>9

LEMMA WriteFirstPageKeeps ==
    ASSUME IInv, WriteFirstPage
    PROVE  IInv'
<1> DEFINE offset == addr % PageSize
           next == addr + FirstSegment
<1>1. /\ pc = "writeFirst" /\ req' = req /\ stop' = stop /\ calls' = calls /\ buf' = buf
      /\ ram' = ram /\ erased' = erased /\ digest' = digest
      /\ message' = message /\ area' = area
    BY DEF WriteFirstPage, Fixed
<1>2. ProgramEffect
    BY WriteFirstPageEffect
<1>3. CASE Return("ERROR") /\ UNCHANGED addr
    BY <1>1, <1>2, <1>3 DEF IInv, TypeOK, Position, Aligned, Buffered, Progressed, Taken, Return,
        FlashedIsVerified, WriteComplete, ErasedIsBlank, VerifyErrorIsDifference, Writing, Looping,
        ProgramEffect
<1>4. CASE addr' = next /\ Goto("writePages")
    <2>1. addr = req.start /\ addr \in Nat /\ stop \in Nat /\ stop = req.end
        BY <1>1, Numbers DEF IInv, Position, Looping, Writing
    <2>2. /\ FirstSegment \in Nat /\ next <= stop
          /\ next = stop \/ next = addr - offset + PageSize
        BY <1>1, FirstSegmentFits
    <2>3. addr - offset \in Nat /\ (addr - offset) % PageSize = 0
        BY <2>1, PageOfAddress
    <2>4. next = stop \/ next % PageSize = 0
        BY <2>2, <2>3, NextBorder, Sizes
    <2>5. next \in Nat /\ addr <= next
        BY <2>1, <2>2
    <2>6. ~ChipFaults => \A a \in req.start .. next - 1 : flash'[Cell(a)] \subseteq ram[a - req.start]
        <3>1. ~ChipFaults => \A a \in addr .. addr + FirstSegment - 1 : flash'[Cell(a)] \subseteq ram[a - req.start]
            BY WriteFirstPageEffect
        <3> QED
            BY <2>1, <2>2, <3>1
    <2> HIDE DEF next, offset
    <2>7. TypeOK' /\ Position'
        BY <1>1, <1>2, <1>4, <2>1, <2>2, <2>5 DEF IInv, TypeOK, Position, ProgramEffect, Goto, Looping, Writing
    <2> QED
        BY <1>1, <1>4, <2>4, <2>6, <2>7 DEF IInv, Aligned, Buffered, Progressed, Taken, Goto,
            FlashedIsVerified, WriteComplete, ErasedIsBlank, VerifyErrorIsDifference
<1> QED
    BY <1>1, <1>3, <1>4 DEF WriteFirstPage

LEMMA WriteCompletePageEffect ==
    ASSUME IInv, WriteCompletePage
    PROVE  /\ ProgramEffect
           /\ ~ChipFaults => \A a \in addr .. addr + PageSize - 1 : flash'[Cell(a)] \subseteq ram[a - req.start]
<1>1. /\ pc = "writePages" /\ addr + PageSize < stop /\ stop = req.end /\ req.start <= addr
      /\ Span(req) = req.start .. req.end - 1 /\ req.end \in Nat
      /\ addr \in Nat /\ req.start \in Nat /\ flash \in Image /\ PageSize \in Nat \ {0}
    BY Numbers DEF WriteCompletePage, IInv, TypeOK, Looping, Writing
<1>2. addr % PageSize = 0 /\ addr - req.start \in Nat
    BY <1>1 DEF IInv, Aligned
<1>3. PICK hit \in Hits(CellsAt(addr, PageSize)) : flash' = PageWritten(addr, ram, addr - req.start, hit)
    BY DEF WriteCompletePage
<1>4. PageTaken(flash', addr, ram, addr - req.start)
    BY <1>1, <1>2, <1>3, PageWrittenAt
<1>5. ASSUME NEW i \in 0 .. PageSize - 1
      PROVE  addr + i \in Span(req) /\ (addr - req.start) + i = (addr + i) - req.start
    BY <1>1
<1>6. ProgramEffect
    BY <1>4, <1>5 DEF ProgramEffect, PageTaken
<1>7. ASSUME ~ChipFaults, NEW a \in addr .. addr + PageSize - 1
      PROVE  flash'[Cell(a)] \subseteq ram[a - req.start]
    <2>1. /\ a - addr \in 0 .. PageSize - 1 /\ addr + (a - addr) = a
          /\ (addr - req.start) + (a - addr) = a - req.start
        BY <1>1
    <2>2. flash'[Cell(addr + (a - addr))] \subseteq ram[(addr - req.start) + (a - addr)]
        BY <1>4, <1>7, <2>1 DEF PageTaken
    <2> QED
        BY <2>1, <2>2
<1> QED
    BY <1>6, <1>7

LEMMA WriteCompletePageKeeps ==
    ASSUME IInv, WriteCompletePage
    PROVE  IInv'
<1>1. /\ pc = "writePages" /\ req' = req /\ stop' = stop /\ calls' = calls /\ buf' = buf
      /\ ram' = ram /\ erased' = erased /\ digest' = digest /\ addr + PageSize < stop
      /\ message' = message /\ area' = area
    BY DEF WriteCompletePage, Fixed
<1>2. ProgramEffect
    BY WriteCompletePageEffect
<1>3. CASE Return("ERROR") /\ UNCHANGED addr
    BY <1>1, <1>2, <1>3 DEF IInv, TypeOK, Position, Aligned, Buffered, Progressed, Taken, Return,
        FlashedIsVerified, WriteComplete, ErasedIsBlank, VerifyErrorIsDifference, Writing, Looping,
        ProgramEffect
<1>4. CASE addr' = addr + PageSize /\ Goto("writePages")
    <2>1. /\ req.start \in Nat /\ req.start <= addr /\ addr \in Nat /\ stop \in Nat /\ stop = req.end
          /\ PageSize \in Nat \ {0}
        BY <1>1, Numbers DEF Looping, Writing
    <2>2. addr' % PageSize = 0
        <3>1. addr % PageSize = 0
            BY <1>1, <2>1 DEF IInv, Aligned
        <3> QED
            BY <1>4, <2>1, <3>1, NextBorder
    <2>3. TypeOK' /\ Position'
        BY <1>1, <1>2, <1>4, <2>1 DEF IInv, TypeOK, Position, ProgramEffect, Goto, Looping, Writing
    <2>4. ASSUME ~ChipFaults, NEW a \in req.start .. addr' - 1
          PROVE  flash'[Cell(a)] \subseteq ram[a - req.start]
        <3>1. CASE a \in req.start .. addr - 1
            <4>1. flash[Cell(a)] \subseteq ram[a - req.start] /\ a \in Nat
                BY <1>1, <2>1, <2>4, <3>1 DEF IInv, Taken
            <4> QED
                BY <1>2, <4>1, ProgrammingClears
        <3>2. CASE a \in addr .. addr + PageSize - 1
            BY <2>4, <3>2, WriteCompletePageEffect
        <3> QED
            BY <1>4, <2>1, <3>1, <3>2
    <2> QED
        BY <1>1, <1>4, <2>2, <2>3, <2>4 DEF IInv, Aligned, Buffered, Progressed, Taken, Goto,
            FlashedIsVerified, WriteComplete, ErasedIsBlank, VerifyErrorIsDifference
<1> QED
    BY <1>1, <1>3, <1>4 DEF WriteCompletePage

LEMMA ReadLastPageKeeps ==
    ASSUME IInv, ReadLastPage
    PROVE  IInv'
<1> DEFINE seg == stop - addr
           data == [i \in DOMAIN buf |-> IF i < seg THEN ram[addr - req.start + i] ELSE buf[i]]
<1>1. /\ pc = "writePages" /\ req' = req /\ stop' = stop /\ calls' = calls /\ flash' = flash
      /\ ram' = ram /\ addr' = addr /\ erased' = erased /\ digest' = digest
      /\ message' = message /\ area' = area /\ addr < stop /\ addr + PageSize >= stop
    BY DEF ReadLastPage, Fixed
<1>2. /\ req.start \in Nat /\ req.start <= addr /\ addr \in Nat /\ stop \in Nat /\ stop = req.end
      /\ PageSize \in Nat \ {0} /\ stop - req.start <= FlashSize /\ FlashSize \in Nat /\ PageSize <= BufferSize
      /\ BufferSize \in Nat
    BY <1>1, Numbers DEF Looping, Writing, IInv, Position
<1>3. addr % PageSize = 0
    BY <1>1, <1>2 DEF IInv, Aligned
<1>4. buf \in [0 .. BufferSize - 1 -> Byte] /\ ram \in Image /\ flash \in Image
    BY DEF IInv, TypeOK
<1>5. data \in [0 .. BufferSize - 1 -> Byte]
    <2>1. ASSUME NEW i \in 0 .. BufferSize - 1, i < seg PROVE ram[addr - req.start + i] \in Byte
        <3>1. addr - req.start + i \in Cells
            BY <1>1, <1>2, <2>1 DEF Cells
        <3> QED
            BY <1>4, <3>1 DEF Image
    <2> HIDE DEF seg
    <2> QED
        BY <1>4, <2>1
<1>6. seg \in Nat /\ seg <= PageSize /\ addr + seg = stop
    BY <1>1, <1>2
<1>7. CASE buf' = data /\ Return("ERROR")
    <2> HIDE DEF data
    <2> QED
        BY <1>1, <1>5, <1>7 DEF IInv, TypeOK, Position, Aligned, Buffered, Progressed, Taken, Return,
            FlashedIsVerified, WriteComplete, ErasedIsBlank, VerifyErrorIsDifference, Writing, Looping
<1>8. CASE buf' = Received(data, seg, addr + seg, PageSize - seg) /\ Goto("writeLast")
    <2>1. buf' \in [0 .. BufferSize - 1 -> Byte]
        <3>1. 0 .. BufferSize - 1 \in SUBSET Nat /\ addr + seg \in Nat /\ PageSize - seg \in Nat
            BY <1>2, <1>6
        <3> HIDE DEF data, seg
        <3> QED
            BY <1>4, <1>5, <1>6, <1>8, <3>1, ReceivedBytes
    <2>2. ASSUME NEW i \in 0 .. PageSize - 1
          PROVE  buf'[i] = IF i < seg THEN ram[addr - req.start + i] ELSE flash[Cell(addr + i)]
        <3> HIDE DEF seg
        <3>1. i \in DOMAIN buf /\ DOMAIN data = DOMAIN buf
            BY <1>2, <1>4
        <3>2. CASE i < seg
            <4>1. i \notin seg .. seg + (PageSize - seg) - 1
                BY <1>6, <3>2
            <4> QED
                BY <1>8, <3>1, <3>2, <4>1 DEF Received
        <3>3. CASE ~(i < seg)
            <4>1. i \in seg .. seg + (PageSize - seg) - 1 /\ (addr + seg) + i - seg = addr + i
                BY <1>2, <1>6, <3>3
            <4>2. buf'[i] = flash[Cell(addr + i)]
                BY <1>8, <3>1, <4>1 DEF Received
            <4> QED
                BY <3>1, <3>3, <4>2
        <3> QED
            BY <3>2, <3>3
    <2>3. Buffered'
        BY <1>1, <1>8, <2>2 DEF Buffered, Goto
    <2>4. TypeOK' /\ Position'
        BY <1>1, <1>8, <2>1 DEF IInv, TypeOK, Position, Goto, Looping, Writing
    <2>5. Aligned'
        BY <1>1, <1>3, <1>6, <1>8 DEF Aligned, Goto
    <2> HIDE DEF data, seg
    <2> QED
        BY <1>1, <1>8, <2>3, <2>4, <2>5 DEF IInv, Progressed, Taken, Goto,
            FlashedIsVerified, WriteComplete, ErasedIsBlank, VerifyErrorIsDifference
<1> QED
    BY <1>1, <1>7, <1>8 DEF ReadLastPage

LEMMA WriteLastPageEffect ==
    ASSUME IInv, WriteLastPage
    PROVE  /\ ProgramEffect
           /\ ~ChipFaults => \A a \in addr .. stop - 1 : flash'[Cell(a)] \subseteq ram[a - req.start]
<1>1. /\ pc = "writeLast" /\ addr < stop /\ stop = req.end /\ req.start <= addr
      /\ Span(req) = req.start .. req.end - 1
      /\ addr \in Nat /\ req.start \in Nat /\ flash \in Image /\ PageSize \in Nat \ {0}
      /\ stop \in Nat
    BY Numbers DEF WriteLastPage, IInv, TypeOK, Looping, Writing, Aligned
<1>2. addr % PageSize = 0 /\ stop - addr <= PageSize /\ 0 \in Nat
    BY <1>1 DEF IInv, Aligned
<1>3. PICK hit \in Hits(CellsAt(addr, PageSize)) : flash' = PageWritten(addr, buf, 0, hit)
    BY DEF WriteLastPage
<1>4. PageTaken(flash', addr, buf, 0)
    BY <1>1, <1>2, <1>3, PageWrittenAt
<1>5. ASSUME NEW i \in 0 .. PageSize - 1
      PROVE  buf[0 + i] = IF i < stop - addr THEN ram[(addr + i) - req.start] ELSE flash[Cell(addr + i)]
    <2>1. 0 + i = i /\ addr - req.start + i = (addr + i) - req.start
        BY <1>1
    <2> QED
        BY <1>1, <2>1 DEF IInv, Buffered
<1>6. ASSUME NEW i \in 0 .. PageSize - 1, i < stop - addr PROVE addr + i \in Span(req)
    BY <1>1, <1>6
<1>7. ProgramEffect
    <2>1. ASSUME NEW a \in Cells, flash'[a] # flash[a]
          PROVE  \E b \in Span(req) : a = Cell(b) /\ flash'[a] = flash[a] \cap ram[b - req.start]
        <3>1. PICK i \in 0 .. PageSize - 1 : a = Cell(addr + i) /\ flash'[a] = flash[a] \cap buf[0 + i]
            BY <1>4, <2>1 DEF PageTaken
        <3>2. i < stop - addr
            BY <1>5, <2>1, <3>1
        <3> QED
            BY <1>5, <1>6, <3>1, <3>2
    <2> QED
        BY <1>4, <2>1 DEF ProgramEffect, PageTaken
<1>8. ASSUME ~ChipFaults, NEW a \in addr .. stop - 1 PROVE flash'[Cell(a)] \subseteq ram[a - req.start]
    <2>1. a - addr \in 0 .. PageSize - 1 /\ addr + (a - addr) = a /\ a - addr < stop - addr
        BY <1>1, <1>2
    <2>2. flash'[Cell(addr + (a - addr))] \subseteq buf[0 + (a - addr)]
        BY <1>4, <1>8, <2>1 DEF PageTaken
    <2> QED
        BY <1>5, <2>1, <2>2
<1> QED
    BY <1>7, <1>8

LEMMA WriteLastPageKeeps ==
    ASSUME IInv, WriteLastPage
    PROVE  IInv'
<1>1. /\ pc = "writeLast" /\ req' = req /\ stop' = stop /\ calls' = calls /\ buf' = buf
      /\ ram' = ram /\ erased' = erased /\ digest' = digest
      /\ message' = message /\ area' = area
    BY DEF WriteLastPage, Fixed
<1>2. ProgramEffect
    BY WriteLastPageEffect
<1>3. CASE Return("ERROR") /\ UNCHANGED addr
    BY <1>1, <1>2, <1>3 DEF IInv, TypeOK, Position, Aligned, Buffered, Progressed, Taken, Return,
        FlashedIsVerified, WriteComplete, ErasedIsBlank, VerifyErrorIsDifference, Writing, Looping,
        ProgramEffect
<1>4. CASE addr' = req.start /\ Goto("verify")
    <2>1. /\ req.start \in Nat /\ req.start <= addr /\ addr \in Nat /\ stop \in Nat /\ stop = req.end
          /\ req.start <= stop /\ Span(req) = req.start .. req.end - 1
        BY <1>1, Numbers DEF Looping, Writing
    <2>2. TypeOK' /\ Position'
        BY <1>1, <1>2, <1>4, <2>1 DEF IInv, TypeOK, Position, ProgramEffect, Goto, Looping, Writing
    <2>3. ASSUME ~ChipFaults, NEW a \in Span(req)
          PROVE  flash'[Cell(a)] \subseteq ram[a - req.start]
        <3>1. CASE a \in req.start .. addr - 1
            <4>1. flash[Cell(a)] \subseteq ram[a - req.start] /\ a \in Nat
                BY <1>1, <2>1, <2>3, <3>1 DEF IInv, Taken
            <4> QED
                BY <1>2, <4>1, ProgrammingClears
        <3>2. CASE a \in addr .. stop - 1
            BY <2>3, <3>2, WriteLastPageEffect
        <3> QED
            BY <2>1, <2>3, <3>1, <3>2
    <2>4. Taken'
        BY <1>1, <1>4, <2>3 DEF Taken, Goto
    <2>5. Progressed'
        BY <1>1, <1>4, <2>1 DEF Progressed, Goto
    <2>6. WriteComplete'
        BY <1>1, <1>4, <2>3 DEF WriteComplete, Goto
    <2> QED
        BY <1>1, <1>4, <2>2, <2>4, <2>5, <2>6 DEF IInv, Aligned, Buffered, Goto,
            FlashedIsVerified, ErasedIsBlank, VerifyErrorIsDifference
<1> QED
    BY <1>1, <1>3, <1>4 DEF WriteLastPage

LEMMA WriteRestKeeps ==
    ASSUME IInv, WriteBegin \/ WriteDone
    PROVE  IInv'
<1>1. CASE WriteBegin /\ ~(PageSize <= BufferSize)
    BY <1>1 DEF WriteBegin, Fixed, IInv, TypeOK, Position, Aligned, Buffered, Progressed, Taken, Return,
        FlashedIsVerified, WriteComplete, ErasedIsBlank, VerifyErrorIsDifference, Writing, Looping
<1>2. CASE WriteBegin /\ PageSize <= BufferSize
    <2>1. addr = req.start /\ addr \in Nat
        BY <1>2, Numbers DEF WriteBegin, IInv, Position
    <2>2. TypeOK' /\ Position'
        BY <1>2 DEF WriteBegin, Fixed, Goto, IInv, TypeOK, Position, Writing, Looping
    <2>3. pc = "write" /\ (pc' = "readFirst" \/ (pc' = "writePages" /\ addr % PageSize = 0))
        BY <1>2 DEF WriteBegin, Goto
    <2> QED
        BY <1>2, <2>1, <2>2, <2>3 DEF WriteBegin, Fixed, Goto, IInv, Aligned, Buffered, Progressed, Taken,
            FlashedIsVerified, WriteComplete, ErasedIsBlank, VerifyErrorIsDifference
<1>3. CASE WriteDone
    <2>1. /\ pc = "writePages" /\ addr = stop /\ stop = req.end /\ req.start \in Nat /\ req.start <= stop
          /\ stop \in Nat /\ Span(req) = req.start .. req.end - 1
        BY <1>3, Numbers DEF WriteDone, Looping, Writing
    <2>2. TypeOK' /\ Position'
        BY <1>3, <2>1 DEF WriteDone, Fixed, Goto, IInv, TypeOK, Position, Writing, Looping
    <2>3. ~ChipFaults => \A a \in Span(req) : flash[Cell(a)] \subseteq ram[a - req.start]
        BY <2>1 DEF IInv, Taken
    <2>4. Progressed'
        BY <1>3, <2>1 DEF WriteDone, Fixed, Goto, Progressed
    <2> QED
        BY <1>3, <2>1, <2>2, <2>3, <2>4 DEF WriteDone, Fixed, Goto, IInv, Aligned, Buffered, Taken,
            FlashedIsVerified, WriteComplete, ErasedIsBlank, VerifyErrorIsDifference
<1> QED
    BY <1>1, <1>2, <1>3

-----------------------------------------------------------------------------
(* The loops that read                                                     *)

\* A segment is not empty, ends in the range, and is what the flash holds.
LEMMA SegmentRead ==
    ASSUME IInv, pc \in Looping, addr < stop
    PROVE  /\ Segment \in Nat \ {0} /\ addr + Segment <= stop /\ Segment <= BufferSize
           /\ Received(buf, 0, addr, Segment) \in [0 .. BufferSize - 1 -> Byte]
           /\ \A i \in 0 .. Segment - 1 :
                  Received(buf, 0, addr, Segment)[i] = flash[Cell(addr + i)]
<1>1. /\ addr \in Nat /\ stop \in Nat
      /\ BufferSize \in Nat \ {0}
    BY Numbers
<1>2. Segment \in Nat \ {0} /\ addr + Segment <= stop /\ Segment <= BufferSize
    BY <1>1 DEF Segment, Least
<1>3. buf \in [0 .. BufferSize - 1 -> Byte] /\ flash \in Image
    BY DEF IInv, TypeOK
<1>4. Received(buf, 0, addr, Segment) \in [0 .. BufferSize - 1 -> Byte]
    <2>1. 0 .. BufferSize - 1 \in SUBSET Nat /\ Segment \in Nat /\ 0 \in Nat
        BY <1>1, <1>2
    <2> QED
        BY <1>1, <1>3, <2>1, ReceivedBytes
<1>5. ASSUME NEW i \in 0 .. Segment - 1
      PROVE  Received(buf, 0, addr, Segment)[i] = flash[Cell(addr + i)]
    <2>1. i \in DOMAIN buf /\ i \in 0 .. 0 + Segment - 1 /\ addr + i - 0 = addr + i
        BY <1>1, <1>2, <1>3
    <2>2. Received(buf, 0, addr, Segment)[i] = flash[Cell(addr + i - 0)]
        BY <2>1 DEF Received
    <2> QED
        BY <2>1, <2>2
<1> QED
    BY <1>2, <1>4, <1>5

LEMMA VerifySegmentKeeps ==
    ASSUME IInv, VerifySegment
    PROVE  IInv'
<1>1. /\ pc = "verify" /\ req' = req /\ stop' = stop /\ calls' = calls /\ flash' = flash
      /\ ram' = ram /\ erased' = erased /\ digest' = digest /\ area' = area /\ addr < stop
    BY DEF VerifySegment, Fixed
<1>2. /\ req.start \in Nat /\ req.start <= addr /\ addr \in Nat /\ stop \in Nat /\ stop = req.end
      /\ Span(req) = req.start .. req.end - 1
    BY <1>1, Numbers DEF Looping
<1>3. /\ Segment \in Nat \ {0} /\ addr + Segment <= stop
      /\ Received(buf, 0, addr, Segment) \in [0 .. BufferSize - 1 -> Byte]
      /\ \A i \in 0 .. Segment - 1 : Received(buf, 0, addr, Segment)[i] = flash[Cell(addr + i)]
    BY <1>1, SegmentRead DEF Looping
<1>4. buf' \in [0 .. BufferSize - 1 -> Byte]
    BY <1>3 DEF VerifySegment, IInv, TypeOK
<1>5. CASE /\ \A i \in 0 .. Segment - 1 : buf'[i] = ram[addr - req.start + i]
           /\ buf' = Received(buf, 0, addr, Segment)
           /\ addr' = addr + Segment /\ Goto("verify") /\ UNCHANGED message
    <2>1. ASSUME NEW a \in req.start .. addr' - 1 PROVE flash[Cell(a)] = ram[a - req.start]
        <3>1. CASE a \in req.start .. addr - 1
            BY <1>1, <3>1 DEF IInv, Progressed
        <3>2. CASE a \in addr .. addr' - 1
            <4>1. a - addr \in 0 .. Segment - 1 /\ addr + (a - addr) = a
                  /\ addr - req.start + (a - addr) = a - req.start
                BY <1>2, <1>3, <1>5, <3>2
            <4> QED
                BY <1>3, <1>5, <4>1
        <3> QED
            BY <1>2, <1>3, <1>5, <3>1, <3>2
    <2>2. TypeOK' /\ Position'
        BY <1>1, <1>2, <1>3, <1>4, <1>5 DEF IInv, TypeOK, Position, Goto, Looping, Writing
    <2> QED
        BY <1>1, <1>5, <2>1, <2>2 DEF IInv, Aligned, Buffered, Progressed, Taken, Goto,
            FlashedIsVerified, WriteComplete, ErasedIsBlank, VerifyErrorIsDifference
<1>6. CASE Verdict("ERROR") /\ UNCHANGED addr
    <2>1. ASSUME ~DriverFaults PROVE \E a \in Span(req) : flash[Cell(a)] # ram[a - req.start]
        <3>1. /\ buf' = Received(buf, 0, addr, Segment)
              /\ ~ \A i \in 0 .. Segment - 1 : buf'[i] = ram[addr - req.start + i]
            BY <1>6, <2>1, <1>2, <1>3 DEF VerifySegment, DriverOk, Verdict, Goto, Return
        <3>2. PICK i \in 0 .. Segment - 1 : buf'[i] # ram[addr - req.start + i]
            BY <3>1
        <3>3. /\ addr + i \in Span(req) /\ (addr + i) - req.start = addr - req.start + i
            BY <1>2, <1>3
        <3>4. buf'[i] = flash[Cell(addr + i)]
            BY <1>3, <3>1
        <3> QED
            BY <3>2, <3>3, <3>4
    <2>2. req.mode \in {"Flash", "Verify"}
        BY <1>1 DEF IInv, Position
    <2>3. TypeOK' /\ Position'
        BY <1>1, <1>4, <1>6 DEF IInv, TypeOK, Position, Verdict, Return, Looping, Writing
    <2> QED
        BY <1>1, <1>6, <2>1, <2>2, <2>3 DEF IInv, Aligned, Buffered, Progressed, Taken, Verdict, Return,
            FlashedIsVerified, WriteComplete, ErasedIsBlank, VerifyErrorIsDifference
<1> QED
    BY <1>1, <1>5, <1>6 DEF VerifySegment

LEMMA VerifyDoneKeeps ==
    ASSUME IInv, VerifyDone
    PROVE  IInv'
<1>1. /\ pc = "verify" /\ req' = req /\ stop' = stop /\ calls' = calls /\ flash' = flash /\ buf' = buf
      /\ ram' = ram /\ erased' = erased /\ digest' = digest /\ area' = area /\ addr' = addr
      /\ addr >= stop /\ pc' = "idle" /\ result' = "OK" /\ message' \in {message, "OK"}
    BY DEF VerifyDone, Fixed, Verdict, Return
<1>2. /\ req.start \in Nat /\ addr \in Nat /\ stop \in Nat /\ stop = req.end /\ addr = stop
      /\ Span(req) = req.start .. req.end - 1
    BY <1>1, Numbers DEF Looping
<1>3. \A a \in Span(req) : flash[Cell(a)] = ram[a - req.start]
    BY <1>1, <1>2 DEF IInv, Progressed
<1>4. req.mode \in {"Flash", "Verify"}
    BY <1>1 DEF IInv, Position
<1>5. TypeOK' /\ Position'
    BY <1>1 DEF IInv, TypeOK, Position, Looping, Writing
<1> QED
    BY <1>1, <1>3, <1>4, <1>5 DEF IInv, Aligned, Buffered, Progressed, Taken,
        FlashedIsVerified, WriteComplete, ErasedIsBlank, VerifyErrorIsDifference

LEMMA ReadSegmentKeeps ==
    ASSUME IInv, ReadSegment
    PROVE  /\ IInv'
           /\ \A i \in Cells : \/ ram'[i] = ram[i]
                               \/ req.start + i \in Span(req) /\ ram'[i] = flash[Cell(req.start + i)]
<1> DEFINE at == addr - req.start
<1>1. /\ pc = "read" /\ req' = req /\ stop' = stop /\ calls' = calls /\ flash' = flash /\ buf' = buf
      /\ erased' = erased /\ digest' = digest /\ area' = area /\ message' = message /\ addr < stop
    BY DEF ReadSegment, Fixed
<1>2. /\ req.start \in Nat /\ req.start <= addr /\ addr \in Nat /\ stop \in Nat /\ stop = req.end
      /\ stop - req.start <= FlashSize /\ FlashSize \in Nat /\ at \in Nat
    BY <1>1, Numbers DEF Looping, Writing
<1>3. Segment \in Nat \ {0} /\ addr + Segment <= stop
    BY <1>1, SegmentRead DEF Looping
<1>4. ram \in Image /\ flash \in Image /\ req.mode = "Read"
    BY <1>1 DEF IInv, TypeOK, Position
<1>7. Span(req) = req.start .. req.end - 1
    BY <1>1, Numbers DEF Looping
<1>5. CASE Return("ERROR") /\ UNCHANGED <<ram, addr>>
    BY <1>1, <1>5 DEF IInv, TypeOK, Position, Aligned, Buffered, Progressed, Taken, Return,
        FlashedIsVerified, WriteComplete, ErasedIsBlank, VerifyErrorIsDifference, Writing, Looping
<1>6. CASE /\ ram' = Received(ram, at, addr, Segment)
           /\ addr' = addr + Segment /\ Goto("read")
    <2>1. ram' \in Image
        <3>1. Cells \in SUBSET Nat /\ Segment \in Nat
            BY <1>2, <1>3 DEF Cells
        <3> QED
            BY <1>2, <1>4, <1>6, <3>1, ReceivedBytes DEF Image
    <2>2. ASSUME NEW i \in Cells
          PROVE  ram'[i] = IF i \in at .. at + Segment - 1 THEN flash[Cell(req.start + i)] ELSE ram[i]
        <3>1. CASE i \in at .. at + Segment - 1
            <4>1. addr + i - at = req.start + i
                BY <1>2, <1>3, <3>1
            <4>2. ram'[i] = flash[Cell(req.start + i)]
                BY <1>4, <1>6, <3>1, <4>1 DEF Received, Image
            <4> QED
                BY <3>1, <4>2
        <3> QED
            BY <1>4, <1>6, <3>1 DEF Received, Image
    <2>3. ASSUME NEW a \in req.start .. addr' - 1 PROVE flash[Cell(a)] = ram'[a - req.start]
        <3>1. a - req.start \in Cells /\ req.start + (a - req.start) = a
            BY <1>2, <1>3, <1>6 DEF Cells
        <3>2. CASE a \in req.start .. addr - 1
            <4>1. a - req.start \notin at .. at + Segment - 1
                BY <1>2, <1>3, <3>2
            <4>2. flash[Cell(a)] = ram[a - req.start]
                BY <1>1, <3>2 DEF IInv, Progressed
            <4> QED
                BY <2>2, <3>1, <4>1, <4>2
        <3>3. CASE a \in addr .. addr' - 1
            <4>1. a - req.start \in at .. at + Segment - 1
                BY <1>2, <1>3, <1>6, <3>3
            <4> QED
                BY <2>2, <3>1, <4>1
        <3> QED
            BY <1>2, <1>3, <1>6, <3>2, <3>3
    <2>4. TypeOK' /\ Position'
        BY <1>1, <1>2, <1>3, <1>6, <2>1 DEF IInv, TypeOK, Position, Goto, Looping, Writing
    <2>5. IInv'
        BY <1>1, <1>6, <2>3, <2>4 DEF IInv, Aligned, Buffered, Progressed, Taken, Goto,
            FlashedIsVerified, WriteComplete, ErasedIsBlank, VerifyErrorIsDifference
    <2>6. ASSUME NEW i \in Cells, i \in at .. at + Segment - 1 PROVE req.start + i \in Span(req)
        <3>1. i \in Nat /\ i < at + Segment /\ at = addr - req.start
            BY <1>2, <1>3, <2>6
        <3>2. req.start + i \in req.start .. req.end - 1
            BY <1>2, <1>3, <3>1
        <3> QED
            BY <1>7, <3>2
    <2> HIDE DEF at
    <2> QED
        BY <2>2, <2>5, <2>6
<1> QED
    BY <1>1, <1>5, <1>6 DEF ReadSegment

LEMMA HashSegmentKeeps ==
    ASSUME IInv, HashSegment
    PROVE  IInv'
<1> DEFINE fed == addr - req.start
<1>1. /\ pc = "hash" /\ req' = req /\ stop' = stop /\ calls' = calls /\ flash' = flash /\ ram' = ram
      /\ erased' = erased /\ area' = area /\ message' = message /\ addr < stop
    BY DEF HashSegment, Fixed
<1>2. /\ req.start \in Nat /\ req.start <= addr /\ addr \in Nat /\ stop \in Nat /\ stop = req.end
      /\ fed \in Nat /\ flash \in Image
    BY <1>1, Numbers DEF Looping, IInv, TypeOK
<1>3. /\ Segment \in Nat \ {0} /\ addr + Segment <= stop
      /\ Received(buf, 0, addr, Segment) \in [0 .. BufferSize - 1 -> Byte]
      /\ \A i \in 0 .. Segment - 1 :
            Received(buf, 0, addr, Segment)[i] = flash[Cell(addr + i)]
    BY <1>1, SegmentRead DEF Looping
<1>4. CASE Return("ERROR") /\ UNCHANGED <<buf, digest, addr>>
    BY <1>1, <1>4 DEF IInv, TypeOK, Position, Aligned, Buffered, Progressed, Taken, Return,
        FlashedIsVerified, WriteComplete, ErasedIsBlank, VerifyErrorIsDifference, Writing, Looping
<1>5. CASE /\ buf' = Received(buf, 0, addr, Segment)
           /\ digest' = [i \in 0 .. fed + Segment - 1 |-> IF i < fed THEN digest[i] ELSE buf'[i - fed]]
           /\ addr' = addr + Segment /\ Goto("hash")
    <2>1. digest = [i \in 0 .. fed - 1 |-> flash[Cell(req.start + i)]]
        BY <1>1 DEF IInv, Progressed
    <2>2. fed + Segment - 1 \in Nat /\ Segment \in Nat /\ addr = req.start + fed
        <3>1. Segment \in Nat \ {0}
            BY <1>3
        <3> QED
            BY <1>2, <3>1
    <2>3. ASSUME NEW i \in 0 .. fed + Segment - 1
          PROVE  digest'[i] = flash[Cell(req.start + i)]
        <3>1. CASE i < fed
            <4>1. i \in 0 .. fed - 1
                BY <1>2, <2>2, <3>1
            <4> QED
                BY <1>5, <2>1, <3>1, <4>1
        <3>2. CASE ~(i < fed)
            <4>1. i - fed \in 0 .. Segment - 1 /\ addr + (i - fed) = req.start + i
                BY <1>2, <2>2, <3>2
            <4>2. digest'[i] = buf'[i - fed]
                BY <1>5, <3>2
            <4> QED
                BY <1>3, <1>5, <4>1, <4>2
        <3> QED
            BY <3>1, <3>2
    <2>4. fed + Segment - 1 = (addr' - req.start) - 1
        <3>1. addr' = addr + Segment
            BY <1>5
        <3>2. addr \in Nat /\ req.start \in Nat /\ Segment \in Nat
            BY <1>2, <2>2
        <3> QED
            BY <3>1, <3>2, SMT
    <2> HIDE DEF fed
    <2>5. digest' = [i \in 0 .. (addr' - req.start) - 1 |-> flash[Cell(req.start + i)]]
        BY <1>5, <2>3, <2>4
    <2>6. DOMAIN digest' \subseteq Nat /\ \A i \in DOMAIN digest' : digest'[i] \in Byte
        <3>1. ASSUME NEW i \in 0 .. fed + Segment - 1 PROVE digest'[i] \in Byte
            <4>1. req.start + i \in Nat
                BY <1>2
            <4> QED
                BY <1>2, <2>3, <4>1, CellInFlash DEF Image
        <3> QED
            BY <1>5, <3>1
    <2>7. TypeOK' /\ Position'
        BY <1>1, <1>2, <1>3, <1>5, <2>6 DEF IInv, TypeOK, Position, Goto, Looping, Writing
    <2> QED
        BY <1>1, <1>5, <2>5, <2>7 DEF IInv, Aligned, Buffered, Progressed, Taken, Goto,
            FlashedIsVerified, WriteComplete, ErasedIsBlank, VerifyErrorIsDifference
<1> QED
    BY <1>1, <1>4, <1>5 DEF HashSegment

LEMMA ReadDoneKeeps ==
    ASSUME IInv, ReadDone
    PROVE  IInv'
<1>1. req.mode \in {"Read", "Checksum"}
    BY DEF ReadDone, IInv, Position
<1>2. TypeOK' /\ Position'
    BY DEF ReadDone, Fixed, Return, IInv, TypeOK, Position, Looping, Writing
<1> QED
    BY <1>1, <1>2 DEF ReadDone, Fixed, Return, IInv, Aligned, Buffered, Progressed, Taken,
        FlashedIsVerified, WriteComplete, ErasedIsBlank, VerifyErrorIsDifference

LEMMA CheckSegmentKeeps ==
    ASSUME IInv, CheckSegment
    PROVE  IInv'
<1>1. /\ pc = "check" /\ req' = req /\ stop' = stop /\ calls' = calls /\ flash' = flash /\ ram' = ram
      /\ digest' = digest /\ area' = area /\ message' = message /\ addr < stop /\ erased = Blank
    BY DEF CheckSegment, Fixed
<1>2. /\ req.start \in Nat /\ req.start <= addr /\ addr \in Nat /\ stop \in Nat /\ stop = req.end
      /\ flash \in Image
    BY <1>1, Numbers DEF Looping, IInv, TypeOK
<1>6. Span(req) = req.start .. req.end - 1
    BY <1>1, Numbers DEF Looping
<1>3. /\ Segment \in Nat \ {0} /\ addr + Segment <= stop
      /\ Received(buf, 0, addr, Segment) \in [0 .. BufferSize - 1 -> Byte]
      /\ \A i \in 0 .. Segment - 1 :
            Received(buf, 0, addr, Segment)[i] = flash[Cell(addr + i)]
    BY <1>1, SegmentRead DEF Looping
<1>4. CASE Return("ERROR") /\ UNCHANGED <<buf, erased, addr>>
    BY <1>1, <1>4 DEF IInv, TypeOK, Position, Aligned, Buffered, Progressed, Taken, Return,
        FlashedIsVerified, WriteComplete, ErasedIsBlank, VerifyErrorIsDifference, Writing, Looping
<1>5. CASE /\ buf' = Received(buf, 0, addr, Segment)
           /\ erased' = {b \in erased : \A i \in 0 .. Segment - 1 : b \in buf'[i]}
           /\ addr' = IF erased' = Blank THEN addr + Segment ELSE addr
           /\ Goto("check")
    <2>1. ASSUME erased' = Blank, NEW a \in addr .. addr' - 1 PROVE flash[Cell(a)] = Blank
        <3>1. a - addr \in 0 .. Segment - 1 /\ addr + (a - addr) = a
            BY <1>2, <1>3, <1>5, <2>1
        <3>2. Blank \subseteq buf'[a - addr]
            BY <1>5, <2>1, <3>1
        <3>3. buf'[a - addr] = flash[Cell(a)] /\ Cell(a) \in Cells
            <4>1. a \in Nat
                BY <1>2
            <4> QED
                BY <1>3, <1>5, <3>1, <4>1, CellInFlash
        <3> QED
            BY <1>2, <3>2, <3>3 DEF Image, Byte, Blank
    <2>2. ASSUME erased' = Blank, NEW a \in req.start .. addr' - 1 PROVE flash[Cell(a)] = Blank
        <3>1. CASE a \in req.start .. addr - 1
            BY <1>1, <3>1 DEF IInv, Progressed
        <3>2. CASE a \in addr .. addr' - 1
            BY <2>1, <2>2, <3>2
        <3> QED
            BY <1>2, <1>3, <1>5, <2>2, <3>1, <3>2
    <2>3. ASSUME erased' # Blank PROVE \E a \in Span(req) : flash[Cell(a)] # Blank
        <3>1. PICK b \in Blank, i \in 0 .. Segment - 1 : b \notin buf'[i]
            BY <1>1, <1>5, <2>3
        <3>2. addr + i \in req.start .. req.end - 1
            BY <1>2, <1>3
        <3>3. flash[Cell(addr + i)] # Blank
            BY <1>3, <1>5, <3>1
        <3> QED
            BY <1>6, <3>2, <3>3
    <2>4. erased' \in Byte
        BY <1>1, <1>5 DEF Byte, Blank
    <2>5. addr' \in Nat /\ addr <= addr' /\ addr' <= stop
        BY <1>2, <1>3, <1>5
    <2>6. TypeOK' /\ Position'
        <3>1. /\ pc' = "check" /\ result' = result
              /\ buf' \in [0 .. BufferSize - 1 -> Byte] /\ addr' \in Nat
            BY <1>3, <1>5, <2>5 DEF Goto
        <3>2. TypeOK'
            BY <1>1, <2>4, <3>1 DEF IInv, TypeOK
        <3>3. addr' \in req.start .. req.end
            BY <1>2, <2>5
        <3>4. Position'
            BY <1>1, <1>2, <3>1, <3>3 DEF IInv, Position, Looping, Writing
        <3> QED
            BY <3>2, <3>4
    <2>7. Progressed'
        BY <1>1, <1>5, <2>2, <2>3 DEF Progressed, Goto
    <2> QED
        BY <1>1, <1>5, <2>6, <2>7 DEF IInv, Aligned, Buffered, Taken, Goto,
            FlashedIsVerified, WriteComplete, ErasedIsBlank, VerifyErrorIsDifference
<1> QED
    BY <1>1, <1>4, <1>5 DEF CheckSegment

LEMMA CheckDoneKeeps ==
    ASSUME IInv, CheckDone
    PROVE  IInv'
<1>1. req.mode = "IsErased"
    BY DEF CheckDone, IInv, Position
<1>2. TypeOK' /\ Position'
    BY DEF CheckDone, Fixed, Return, IInv, TypeOK, Position, Looping, Writing
<1> QED
    BY <1>1, <1>2 DEF CheckDone, Fixed, Return, IInv, Aligned, Buffered, Progressed, Taken,
        FlashedIsVerified, WriteComplete, ErasedIsBlank, VerifyErrorIsDifference

-----------------------------------------------------------------------------
(* Erasing                                                                 *)

\* The chunk at addr is one of the flash: one between the borders the erase was moved
\* out to, or the first one at its start when the end has overflown.
LEMMA ChunkInRange ==
    ASSUME IInv, pc = "erase", addr < stop
    PROVE  LET c == EraseChunk(req.start, req.end)
               f == EraseFrom(req.start, req.end)
               t == EraseTo(req.start, req.end)
           IN  /\ c \in Nat \ {0} /\ (addr + c) % c = 0
               /\ CellsAt(addr, c) = addr .. addr + c - 1
               /\ addr .. addr + c - 1 \subseteq Cells
               /\ f \in Nat /\ f <= addr /\ addr \in Nat /\ stop = t /\ t \in Nat
               /\ \/ req.end <= FlashSize /\ addr + c <= t
                  \/ FlashSize < req.end /\ addr + c = f + c
<1> DEFINE c == EraseChunk(req.start, req.end)
           f == EraseFrom(req.start, req.end)
           t == EraseTo(req.start, req.end)
<1>1. req \in Requests /\ req.mode = "Erase"
    BY DEF IInv, TypeOK, Position
<1>2. /\ c \in Nat \ {0} /\ FlashSize % c = 0 /\ f \in Nat /\ t \in Nat
      /\ \/ req.end <= FlashSize /\ f <= t /\ t % c = 0 /\ t <= FlashSize
         \/ FlashSize < req.end /\ t < c
    BY <1>1, EraseBounds
<1>3. addr \in Nat /\ addr % c = 0 /\ stop = t /\ f <= addr
    BY DEF IInv, TypeOK, Aligned
<1>4. req.end \in Nat /\ FlashSize \in Nat \ {0}
    BY <1>1, RequestAccepted, Sizes
<1> HIDE DEF c, f, t
<1>5. (addr + c) % c = 0
    BY <1>2, <1>3, NextBorder
<1>6. Cell(addr) = addr
    <2>1. addr < FlashSize
        <3>1. c <= FlashSize
            <4>1. 0 % c = 0
                BY <1>2, Decoded
            <4>2. 0 + c <= FlashSize
                BY <1>2, <1>4, <4>1, BordersApart
            <4> QED
                BY <1>2, <1>4, <4>2
        <3>2. c \in Nat /\ t \in Nat /\ FlashSize \in Nat /\ (t <= FlashSize \/ t < c)
            BY <1>2, <1>4
        <3> QED
            BY <1>3, <3>1, <3>2
    <2>2. addr \in Cells
        BY <1>3, <1>4, <2>1 DEF Cells
    <2> QED
        BY <2>2, CellOfAddress
<1>7. CellsAt(addr, c) = addr .. addr + c - 1 /\ addr .. addr + c - 1 \subseteq Cells
    <2>1. CellsAt(addr, c) \subseteq Cells
        BY <1>2, <1>3, CellsOfBlock
    <2>2. CellsAt(addr, c) = addr .. addr + c - 1
        BY <1>6 DEF CellsAt
    <2> QED
        BY <2>1, <2>2
<1>8. \/ req.end <= FlashSize /\ addr + c <= t
      \/ FlashSize < req.end /\ addr + c = f + c
    <2>1. CASE req.end <= FlashSize
        <3>1. t % c = 0 /\ addr < t
            BY <2>1, <1>2, <1>3, <1>4
        <3>2. c \in Nat \ {0} /\ t \in Nat
            BY <1>2
        <3> QED
            BY <2>1, <3>1, <3>2, <1>3, BordersApart
    <2>2. CASE FlashSize < req.end
        <3>1. addr < c
            BY <2>2, <1>2, <1>3, <1>4
        <3>2. addr = 0
            BY <1>2, <1>3, <3>1, Decoded
        <3> QED
            BY <2>2, <1>2, <1>3, <3>2
    <2> QED
        BY <2>1, <2>2, <1>4
<1> QED
    BY <1>2, <1>3, <1>5, <1>7, <1>8 DEF c, f, t

\* What a step of an erase does to the flash.
LEMMA EraseEffect ==
    ASSUME IInv, EraseOneChunk
    PROVE  LET c == EraseChunk(req.start, req.end)
               f == EraseFrom(req.start, req.end)
               t == EraseTo(req.start, req.end)
           IN  /\ flash' \in Image
               /\ \A a \in Cells : flash'[a] # flash[a] =>
                      /\ flash'[a] = Blank /\ f <= a
                      /\ \/ req.end <= FlashSize /\ a < t
                         \/ FlashSize < req.end /\ a < f + c
               /\ ~ChipFaults => \A a \in Cells : IF a \in addr .. addr + c - 1
                                                  THEN flash'[a] = Blank ELSE flash'[a] = flash[a]
<1> DEFINE c == EraseChunk(req.start, req.end)
           f == EraseFrom(req.start, req.end)
           t == EraseTo(req.start, req.end)
<1>1. pc = "erase" /\ addr < stop /\ flash \in Image
    BY DEF EraseOneChunk, IInv, TypeOK
<1>2. /\ c \in Nat \ {0} /\ CellsAt(addr, c) = addr .. addr + c - 1
      /\ f \in Nat /\ f <= addr /\ addr \in Nat /\ t \in Nat
      /\ \/ req.end <= FlashSize /\ addr + c <= t
         \/ FlashSize < req.end /\ addr + c = f + c
    BY <1>1, ChunkInRange
<1>3. PICK hit \in Hits(CellsAt(addr, c)) : flash' = ChunkErased(hit)
    BY DEF EraseOneChunk
<1> HIDE DEF c, f, t
<1>4. hit \subseteq addr .. addr + c - 1 /\ (~ChipFaults => hit = addr .. addr + c - 1)
    BY <1>2, <1>3 DEF Hits
<1>5. ASSUME NEW a \in Cells, flash'[a] # flash[a]
      PROVE  /\ flash'[a] = Blank /\ f <= a
             /\ \/ req.end <= FlashSize /\ a < t
                \/ FlashSize < req.end /\ a < f + c
    <2>1. a \in hit /\ flash'[a] = Blank
        BY <1>3, <1>5 DEF ChunkErased
    <2>2. a \in addr .. addr + c - 1
        BY <1>4, <2>1
    <2> QED
        BY <1>2, <2>1, <2>2
<1>6. flash' \in Image
    BY <1>1, <1>3 DEF ChunkErased, Image, Byte, Blank
<1>7. ~ChipFaults => \A a \in Cells : IF a \in addr .. addr + c - 1
                                      THEN flash'[a] = Blank ELSE flash'[a] = flash[a]
    BY <1>3, <1>4 DEF ChunkErased
<1> QED
    BY <1>5, <1>6, <1>7 DEF c, f, t

LEMMA EraseOneChunkKeeps ==
    ASSUME IInv, EraseOneChunk
    PROVE  IInv'
<1> DEFINE c == EraseChunk(req.start, req.end)
           f == EraseFrom(req.start, req.end)
<1>1. /\ pc = "erase" /\ req' = req /\ stop' = stop /\ calls' = calls /\ buf' = buf /\ ram' = ram
      /\ erased' = erased /\ digest' = digest /\ area' = area /\ message' = message /\ addr < stop
    BY DEF EraseOneChunk, Fixed
<1>2. req.mode = "Erase"
    BY <1>1 DEF IInv, Position
<1>3. flash' \in Image
    BY EraseEffect
<1>4. CASE Return("ERROR") /\ UNCHANGED addr
    BY <1>1, <1>2, <1>3, <1>4 DEF IInv, TypeOK, Position, Aligned, Buffered, Progressed, Taken, Return,
        FlashedIsVerified, WriteComplete, ErasedIsBlank, VerifyErrorIsDifference, Writing, Looping
<1>5. CASE addr' = addr + c /\ Goto("erase")
    <2>1. /\ c \in Nat \ {0} /\ (addr + c) % c = 0 /\ addr .. addr + c - 1 \subseteq Cells
          /\ f \in Nat /\ f <= addr /\ addr \in Nat /\ stop \in Nat /\ stop = EraseTo(req.start, req.end)
        BY <1>1, ChunkInRange
    <2>2. req.end <= FlashSize => addr + c <= stop
        <3>1. req.end \in Nat /\ FlashSize \in Nat
            BY Numbers
        <3> QED
            BY <1>1, <3>1, ChunkInRange
    <2>3. ~ChipFaults /\ req.end <= FlashSize => \A a \in f .. addr - 1 : flash[a] = Blank
        BY <1>1 DEF IInv, Taken
    <2>4. ~ChipFaults => \A a \in Cells : IF a \in addr .. addr + c - 1
                                          THEN flash'[a] = Blank ELSE flash'[a] = flash[a]
        BY EraseEffect
    <2>5. f .. addr - 1 \subseteq Cells
        <3>1. addr \in Cells /\ FlashSize \in Nat
            BY <2>1, Sizes
        <3> HIDE DEF f
        <3> QED
            BY <2>1, <3>1 DEF Cells
    <2>6. Aligned'
        <3> HIDE DEF c, f
        <3>1. f <= addr' /\ addr' % c = 0
            BY <1>5, <2>1
        <3> QED
            BY <1>1, <1>5, <2>1, <3>1 DEF Aligned, Goto, c, f
    <2> HIDE DEF c, f
    <2>7. ASSUME ~ChipFaults, req.end <= FlashSize, NEW a \in f .. addr' - 1 PROVE flash'[a] = Blank
        <3>1. CASE a \in f .. addr - 1
            <4>1. a \in Cells /\ a \notin addr .. addr + c - 1
                BY <2>1, <2>5, <3>1
            <4> QED
                BY <2>3, <2>4, <2>7, <3>1, <4>1
        <3>2. CASE a \in addr .. addr + c - 1
            BY <2>1, <2>4, <2>7, <3>2
        <3> QED
            BY <1>5, <2>1, <2>7, <3>1, <3>2
    <2>8. Taken'
        BY <1>1, <1>5, <2>2, <2>7 DEF Taken, Goto, f
    <2>9. TypeOK' /\ Position'
        BY <1>1, <1>2, <1>3, <1>5, <2>1 DEF IInv, TypeOK, Position, Goto, Looping, Writing
    <2> QED
        BY <1>1, <1>5, <2>6, <2>8, <2>9 DEF IInv, Buffered, Progressed, Goto,
            FlashedIsVerified, WriteComplete, ErasedIsBlank, VerifyErrorIsDifference
<1> QED
    BY <1>1, <1>4, <1>5 DEF EraseOneChunk

LEMMA EraseDoneKeeps ==
    ASSUME IInv, EraseDone
    PROVE  IInv'
<1>1. /\ pc = "erase" /\ req.mode = "Erase" /\ addr >= stop
      /\ stop = EraseTo(req.start, req.end) /\ req \in Requests
    BY DEF EraseDone, IInv, Position, Aligned, TypeOK
<1>2. /\ req.start \in Nat /\ req.end \in Nat /\ FlashSize \in Nat /\ addr \in Nat
      /\ EraseFrom(req.start, req.end) \in Nat /\ EraseFrom(req.start, req.end) <= req.start /\ stop \in Nat
      /\ req.end <= FlashSize => req.end <= stop
    BY <1>1, EraseBounds, RequestAccepted, Sizes, Numbers
<1>3. ASSUME ~ChipFaults, req.end <= FlashSize, NEW a \in Span(req) PROVE flash[a] = Blank
    <2>1. a \in req.start .. req.end - 1
        BY <1>1, <1>3, SpanOf
    <2>2. a \in EraseFrom(req.start, req.end) .. addr - 1
        BY <1>1, <1>2, <1>3, <2>1
    <2> QED
        BY <1>1, <1>3, <2>2 DEF IInv, Taken
<1>4. TypeOK' /\ Position'
    BY DEF EraseDone, Fixed, Return, IInv, TypeOK, Position, Looping, Writing
<1>5. /\ pc' = "idle" /\ result' = "OK" /\ UNCHANGED <<flash, buf, ram, addr, erased, req>>
    BY DEF EraseDone, Fixed, Return
<1>6. ErasedIsBlank'
    BY <1>3, <1>5 DEF ErasedIsBlank
<1> QED
    BY <1>1, <1>4, <1>5, <1>6 DEF IInv, Aligned, Buffered, Progressed, Taken,
        FlashedIsVerified, WriteComplete, VerifyErrorIsDifference

\* Dividing by the size of a block and multiplying with it gives its start.
LEMMA DivMul ==
    ASSUME NEW n \in Nat \ {0}, NEW a \in Nat
    PROVE  (a \div n) * n = a - (a % n)
<1> DEFINE q == a \div n
           m == a % n
<1>1. q \in Nat /\ m \in 0 .. n - 1 /\ a = n * q + m
    BY Division
<1>2. n * q \in Nat /\ q * n = n * q
    BY <1>1, Multiple, SMT
<1> HIDE DEF q, m
<1> DEFINE p == n * q
<1>3. p \in Nat /\ a = p + m /\ q * n = p
    BY <1>1, <1>2
<1> HIDE DEF p
<1>4. q * n = a - m
    BY <1>1, <1>3
<1> QED
    BY <1>4 DEF q, m

\* Rounding by adding first gives the same borders, unless the sum overflows: then it
\* gives 0.
LEMMA AreaIsEraseRange ==
    ASSUME NEW r \in Requests
    PROVE  LET e == Service!End(r)
               t == AreaEnd(e)
           IN  /\ AreaStart(r.start) = SectorStart(r.start) /\ SectorStart(r.start) \in Nat
               /\ SectorStart(r.start) <= r.start
               /\ e \in Nat /\ t \in Nat /\ t % SectorSize = 0
               /\ \/ e <= t /\ t < e + SectorSize /\ t < Word
                  \/ t = 0 /\ FlashSize < e
<1> DEFINE S == SectorSize
           e == Service!End(r)
           b == e + S - 1
<1>1. /\ r.start \in Nat /\ e \in Nat /\ e < Word /\ S \in Nat \ {0} /\ FlashSize \in Nat
      /\ Word \in Nat \ {0} /\ 2 * FlashSize + S < Word /\ FlashSize \in Nat
    <2>1. r.start \in Nat /\ r.end \in Nat /\ r.end < Word
        BY RequestAccepted, Sizes
    <2>2. FlashSize \in Nat \ {0} /\ S \in Nat \ {0} /\ Word \in Nat /\ 2 * FlashSize + S < Word
        BY Sizes
    <2>3. e \in {FlashSize, r.end}
        BY DEF Service!End
    <2> QED
        BY <2>1, <2>2, <2>3
<1>2. /\ AreaStart(r.start) = SectorStart(r.start) /\ SectorStart(r.start) \in Nat
      /\ SectorStart(r.start) <= r.start
    BY <1>1, DivMul, BlockStart DEF AreaStart, SectorStart
<1> HIDE DEF S, e
<1>3. b \in Nat /\ b >= e /\ b = e + S - 1
    BY <1>1
<1>4. AreaEnd(e) = ((b % Word) \div S) * S
    BY DEF AreaEnd, S
<1> HIDE DEF b
<1>5. CASE b < Word
    <2> DEFINE t == b - (b % S)
    <2>1. AreaEnd(e) = t
        BY <1>1, <1>3, <1>4, <1>5, Decoded, DivMul
    <2>2. t \in Nat /\ t <= b /\ b < t + S /\ t % S = 0
        BY <1>1, <1>3, BlockStart
    <2> HIDE DEF t
    <2>3. e <= t /\ t < e + S /\ t < Word
        BY <1>1, <1>3, <1>5, <2>2
    <2> QED
        BY <1>1, <1>2, <2>1, <2>2, <2>3 DEF S, e
<1>6. CASE ~(b < Word)
    <2> DEFINE x == b - Word
    <2>1. x \in Nat /\ x < S /\ b = Word + x /\ x < Word
        BY <1>1, <1>3, <1>6
    <2> HIDE DEF x
    <2>2. b % Word = x
        BY <1>1, <2>1, SMT
    <2>3. x - (x % S) = 0
        <3>1. x % S = x
            BY <1>1, <2>1, Decoded
        <3> QED
            BY <2>1, <3>1
    <2>4. AreaEnd(e) = 0
        BY <1>1, <1>4, <2>1, <2>2, <2>3, DivMul
    <2>5. 0 % S = 0
        BY <1>1, Decoded
    <2>6. FlashSize < e
        BY <1>1, <1>3, <1>6
    <2> QED
        BY <1>1, <1>2, <2>4, <2>5, <2>6 DEF S, e
<1> QED
    BY <1>5, <1>6

LEMMA GetEraseAreaKeeps ==
    ASSUME IInv, GetEraseArea
    PROVE  IInv'
<1>1. AreaStart(req.start) \in Nat /\ AreaEnd(Service!End(req)) \in Nat
    BY AreaIsEraseRange DEF IInv, TypeOK
<1>2. req.mode = "GetEraseArea"
    BY DEF GetEraseArea, IInv, Position
<1>3. TypeOK' /\ Position'
    BY <1>1 DEF GetEraseArea, Fixed, Return, IInv, TypeOK, Position, Looping, Writing
<1> QED
    BY <1>2, <1>3 DEF GetEraseArea, Fixed, Return, IInv, Aligned, Buffered, Progressed, Taken,
        FlashedIsVerified, WriteComplete, ErasedIsBlank, VerifyErrorIsDifference

LEMMA CallKeeps ==
    ASSUME IInv, NEW r \in Requests, NEW image \in RamImages, Call(r, image)
    PROVE  IInv'
<1> DEFINE c == EraseChunk(r.start, r.end)
           f == EraseFrom(r.start, r.end)
           t == EraseTo(r.start, r.end)
<1>1. r.start \in Cells /\ r.start <= r.end /\ r.mode \in Modes
    BY RequestAccepted
<1>2. r.mode = "Erase" => f \in Nat /\ t \in Nat /\ f % c = 0 /\ (r.end <= FlashSize => f <= t)
    <2>1. r.end \in Nat /\ FlashSize \in Nat
        BY RequestAccepted, Sizes
    <2> QED
        BY <2>1, EraseBounds
<1>3. r.start \in Nat /\ r.end \in Nat
    BY RequestAccepted
<1>4. image \in Image
    BY EnvironmentAssumption
<1>5. /\ req' = r /\ ram' = image /\ flash' = flash /\ buf' = buf /\ message' = message /\ area' = area
      /\ result' = "none" /\ erased' = Blank /\ digest' = [i \in {} |-> {}]
      /\ calls < MaxCalls /\ calls' = calls + 1
    BY DEF Call
<1>6. /\ r.mode = "Flash" => pc' = "write"
      /\ r.mode = "Verify" => pc' = "verify"
      /\ r.mode = "Read" => pc' = "read"
      /\ r.mode = "Checksum" => pc' = "hash"
      /\ r.mode = "IsErased" => pc' = "check"
      /\ r.mode = "GetEraseArea" => pc' = "area"
      /\ r.mode = "Erase" => pc' = "erase"
    BY DEF Call, Entry
<1>7. /\ r.mode = "Erase" => addr' = f /\ stop' = t
      /\ r.mode # "Erase" => addr' = r.start /\ stop' = r.end
    BY DEF Call
<1> HIDE DEF c, f, t
<1>8. calls' \in 0 .. MaxCalls
    BY <1>5, EnvironmentAssumption DEF IInv, TypeOK
<1>9. TypeOK'
    BY <1>1, <1>2, <1>3, <1>4, <1>5, <1>6, <1>7, <1>8 DEF IInv, TypeOK, Modes, Byte, Blank
<1>10. Position'
    BY <1>1, <1>3, <1>5, <1>6, <1>7 DEF Position, Modes, Looping, Writing
<1>11. Aligned'
    BY <1>1, <1>2, <1>5, <1>6, <1>7 DEF Aligned, Modes, c, f, t
<1>12. Progressed'
    BY <1>1, <1>3, <1>5, <1>6, <1>7 DEF Progressed, Modes
<1>13. Taken'
    BY <1>1, <1>2, <1>5, <1>6, <1>7 DEF Taken, Modes, f
<1>14. Buffered'
    BY <1>1, <1>6 DEF Buffered, Modes
<1>15. pc' # "idle"
    BY <1>1, <1>6 DEF Modes
<1> QED
    BY <1>5, <1>6, <1>1, <1>9, <1>10, <1>11, <1>12, <1>13, <1>14, <1>15 DEF IInv, Modes,
        FlashedIsVerified, WriteComplete, ErasedIsBlank, VerifyErrorIsDifference

-----------------------------------------------------------------------------
(* The theorems                                                            *)

LEMMA InitHolds ==
    ASSUME Init
    PROVE  IInv
<1>1. flash \in Image /\ ram \in Image /\ 0 \in 0 .. MaxCalls
    BY EnvironmentAssumption DEF Init
<1>2. TypeOK
    <2>1. buf \in [0 .. BufferSize - 1 -> Byte]
        BY DEF Init, Byte
    <2> QED
        BY <1>1, <2>1 DEF Init, TypeOK, Blank, Byte
<1> QED
    BY <1>2 DEF Init, IInv, Position, Aligned, Buffered, Progressed, Taken, Looping, Writing,
        FlashedIsVerified, WriteComplete, ErasedIsBlank, VerifyErrorIsDifference

LEMMA StepKeeps ==
    ASSUME IInv, [Next]_vars
    PROVE  IInv'
<1>1. CASE \E r \in Requests, image \in RamImages : Call(r, image)
    BY <1>1, CallKeeps
<1>2. CASE Write
    BY <1>2, WriteRestKeeps, ReadFirstPageKeeps, WriteFirstPageKeeps, WriteCompletePageKeeps,
        ReadLastPageKeeps, WriteLastPageKeeps DEF Write
<1>3. CASE Inspect
    BY <1>3, VerifySegmentKeeps, VerifyDoneKeeps, ReadSegmentKeeps, HashSegmentKeeps,
        ReadDoneKeeps, CheckSegmentKeeps, CheckDoneKeeps DEF Inspect
<1>4. CASE EraseOneChunk \/ EraseDone \/ GetEraseArea
    BY <1>4, EraseOneChunkKeeps, EraseDoneKeeps, GetEraseAreaKeeps
<1>5. CASE UNCHANGED vars
    BY <1>5 DEF vars, IInv, TypeOK, Position, Aligned, Buffered, Progressed, Taken, FirstSegment,
        FlashedIsVerified, WriteComplete, ErasedIsBlank, VerifyErrorIsDifference
<1> QED
    BY <1>1, <1>2, <1>3, <1>4, <1>5 DEF Next, Step

\* The inductive invariant: where each loop of flasher_spi.c stands in its range, what
\* its buffer holds, and what the flash holds up to there.
THEOREM Invariance == Spec => []IInv
    BY InitHolds, StepKeeps, PTL DEF Spec

\* The state of flasher_spi.c has its type; the buffers are never left (TypeOK).
THEOREM TypeCorrect == Spec => []TypeOK
<1>1. IInv => TypeOK
    BY DEF IInv
<1> QED
    BY <1>1, Invariance, PTL

\* Whatever the chip did with the pages sent to it, spi_flash returns OK only
\* when the whole range holds the data.
THEOREM FlashReturnsOkIsVerified == Spec => []FlashedIsVerified
<1>1. IInv => FlashedIsVerified
    BY DEF IInv
<1> QED
    BY <1>1, Invariance, PTL

\* First page, whole pages and tail of spi_write_with_progress leave no gap.
THEOREM WritesEverything == Spec => []WriteComplete
<1>1. IInv => WriteComplete
    BY DEF IInv
<1> QED
    BY <1>1, Invariance, PTL

\* spi_erase leaves no byte of the request out, for every sector and page size.
THEOREM ErasesEverything == Spec => []ErasedIsBlank
<1>1. IInv => ErasedIsBlank
    BY DEF IInv
<1> QED
    BY <1>1, Invariance, PTL

\* spi_verify raises no false alarm.
THEOREM VerifyIsExact == Spec => []VerifyErrorIsDifference
<1>1. IInv => VerifyErrorIsDifference
    BY DEF IInv
<1> QED
    BY <1>1, Invariance, PTL

\* Drv_SpiWritePage is called with page borders and at most one page.
THEOREM ProgramsAligned == Spec => []ProgramsFromPageBorder
<1>1. IInv => ProgramsFromPageBorder
    <2> SUFFICES ASSUME IInv, pc = "writePages", addr < stop
                 PROVE  addr % PageSize = 0
        BY DEF IInv, Aligned, ProgramsFromPageBorder
    <2> QED
        BY Numbers DEF IInv, Aligned
<1> QED
    BY <1>1, Invariance, PTL

\* The actions that leave the flash alone: all but the four that program or erase.
LEMMA FlashKept ==
    ASSUME [Next]_vars, flash' # flash
    PROVE  WriteFirstPage \/ WriteCompletePage \/ WriteLastPage \/ EraseOneChunk
BY DEF Next, Step, Write, Inspect, vars, Call, WriteBegin, ReadFirstPage, ReadLastPage,
    WriteDone, VerifySegment, VerifyDone, ReadSegment, HashSegment, ReadDone, CheckSegment, CheckDone,
    EraseDone, GetEraseArea

\* No step of a write changes a cell that its range does not select, on any path.
THEOREM WritesInRange == Spec => WriteConfined
<1>1. ASSUME IInv, [Next]_vars, req.mode = "Flash", NEW a \in Cells \ Named(req)
      PROVE  flash'[a] = flash[a]
    <2>1. CASE flash' = flash
        BY <2>1
    <2>2. CASE flash' # flash
        <3>1. ~EraseOneChunk
            BY <1>1 DEF EraseOneChunk, IInv, Position
        <3>2. ProgramEffect
            BY <1>1, <2>2, <3>1, FlashKept, WriteFirstPageEffect, WriteCompletePageEffect,
                WriteLastPageEffect
        <3>3. Named(req) = {Cell(b) : b \in Span(req)}
            BY <1>1, SpanOf DEF IInv, TypeOK
        <3> QED
            BY <1>1, <3>2, <3>3, ProgrammingClears
    <2> QED
        BY <2>1, <2>2
<1>2. IInv /\ [Next]_vars =>
          [req.mode = "Flash" => \A a \in Cells \ Named(req) : flash'[a] = flash[a]]_vars
    BY <1>1
<1> QED
    BY <1>2, Invariance, PTL DEF Spec, WriteConfined

\* A byte of the request that is in the flash is one of the cells it names.
LEMMA NamedCell ==
    ASSUME NEW r \in Requests
    PROVE  /\ \A b \in Span(r) \cap Cells : b \in Named(r)
           /\ Named(r) \subseteq Cells /\ r.start \in Cells
<1>1. Named(r) = {Cell(b) : b \in Span(r)} /\ Span(r) \subseteq Nat /\ r.start \in Cells
    BY SpanOf, RequestAccepted
<1>2. \A b \in Cells : Cell(b) = b
    BY CellOfAddress
<1>3. \A b \in Nat : Cell(b) \in Cells
    BY CellInFlash
<1> QED
    BY <1>1, <1>2, <1>3

\* What is erased beside the request shares a sector with its first or last byte.
LEMMA ErasedSectorIsTouched ==
    ASSUME NEW r \in Requests, r.mode = "Erase", NEW a \in Cells,
           EraseFrom(r.start, r.end) <= a,
           \/ r.end <= FlashSize /\ a < EraseTo(r.start, r.end)
           \/ FlashSize < r.end /\ a < EraseFrom(r.start, r.end) + EraseChunk(r.start, r.end)
    PROVE  \E b \in Named(r) \cup {r.start} : SectorStart(a) = SectorStart(b)
<1> DEFINE s == r.start
           e == r.end
           c == EraseChunk(s, e)
           f == EraseFrom(s, e)
           t == EraseTo(s, e)
<1>1. /\ c \in Nat \ {0} /\ SectorSize % c = 0
      /\ f \in Nat /\ f <= s /\ s < f + c /\ f % c = 0 /\ t \in Nat
      /\ e <= FlashSize => e <= t /\ t < e + c /\ t % c = 0
    <2>1. e \in Nat /\ FlashSize \in Nat
        BY RequestAccepted, Sizes
    <2> QED
        BY <2>1, EraseBounds
<1>2. s \in Nat /\ e \in Nat /\ s <= e /\ a \in Nat /\ a < FlashSize /\ FlashSize \in Nat /\ SectorSize \in Nat \ {0}
    BY RequestAccepted, Sizes DEF Cells
<1>3. Span(r) = s .. e - 1
    BY SpanOf
<1>4. f <= a /\ (\/ e <= FlashSize /\ a < t
                 \/ FlashSize < e /\ a < f + c)
    OBVIOUS
<1>5. ASSUME NEW b \in s .. e - 1, b < FlashSize PROVE b \in Named(r)
    <2>1. b \in Cells
        BY <1>2, <1>5 DEF Cells
    <2> QED
        BY <1>3, <1>5, <2>1, NamedCell
<1> HIDE DEF s, e, c, f, t
<1> DEFINE T == s - (s % SectorSize)
<1>6. T \in Nat /\ T <= s /\ s < T + SectorSize /\ T % SectorSize = 0
    BY <1>2, BlockStart
<1>7. SectorStart(s) = T
    BY DEF SectorStart
<1> HIDE DEF T
<1>8. T <= f
    <2>1. T % c = 0
        BY <1>1, <1>2, <1>6, CoarserBorder
    <2>2. f < T => f + c <= T
        BY <1>1, <1>6, <2>1, BordersApart
    <2> QED
        BY <2>2, <1>1, <1>2, <1>6
<1>9. CASE T <= a /\ a < T + SectorSize
    <2>1. a - (a % SectorSize) = T
        BY <1>2, <1>6, <1>9, SameBlock
    <2> QED
        BY <1>7, <2>1 DEF SectorStart, s
<1>10. CASE a \in s .. e - 1
    BY <1>2, <1>5, <1>10
<1>11. CASE FlashSize < e /\ a < f + c
    <2>1. T + SectorSize \in Nat /\ (T + SectorSize) % SectorSize = 0
        <3>1. T + SectorSize \in Nat
            BY <1>2, <1>6
        <3> QED
            BY <3>1, <1>2, <1>6, NextBorder
    <2>2. (T + SectorSize) % c = 0
        BY <2>1, <1>1, <1>2, CoarserBorder
    <2>3. f < T + SectorSize
        BY <1>1, <1>2, <1>6
    <2>4. f + c <= T + SectorSize
        BY <1>1, <2>1, <2>2, <2>3, BordersApart
    <2> QED
        BY <1>1, <1>2, <1>4, <1>6, <1>8, <1>9, <1>11, <2>1, <2>4
<1>12. CASE e <= FlashSize /\ a < t /\ a >= e /\ s < e
    <2> DEFINE b == e - 1
               B == b - (b % SectorSize)
    <2>1. b \in Nat /\ b \in s .. e - 1 /\ b < FlashSize /\ e = b + 1
        BY <1>2, <1>12
    <2>2. b \in Named(r)
        BY <1>5, <2>1
    <2> HIDE DEF b
    <2>3. B \in Nat /\ B <= b /\ b < B + SectorSize /\ B % SectorSize = 0
        BY <1>2, <2>1, BlockStart
    <2>4. SectorStart(b) = B
        BY DEF SectorStart
    <2> HIDE DEF B
    <2>5. B + SectorSize \in Nat /\ (B + SectorSize) % SectorSize = 0
        <3>1. B + SectorSize \in Nat
            BY <1>2, <2>3
        <3> QED
            BY <3>1, <1>2, <2>3, NextBorder
    <2>6. (B + SectorSize) % c = 0
        BY <2>5, <1>1, <1>2, CoarserBorder
    <2>7. t <= B + SectorSize
        <3>1. t % c = 0 /\ t < e + c /\ e <= B + SectorSize
            BY <1>1, <1>2, <1>12, <2>1, <2>3
        <3>2. B + SectorSize < t => (B + SectorSize) + c <= t
            BY <1>1, <2>5, <2>6, <3>1, BordersApart
        <3> QED
            BY <1>1, <1>2, <2>5, <3>1, <3>2
    <2>8. B <= a /\ a < B + SectorSize
        BY <1>1, <1>2, <1>12, <2>1, <2>3, <2>5, <2>7
    <2>9. a - (a % SectorSize) = B
        BY <1>2, <2>3, <2>8, SameBlock
    <2> QED
        BY <2>2, <2>4, <2>9 DEF SectorStart
<1>13. CASE e <= FlashSize /\ a < t /\ a >= e /\ s = e
    <2>1. T + SectorSize \in Nat /\ (T + SectorSize) % SectorSize = 0
        <3>1. T + SectorSize \in Nat
            BY <1>2, <1>6
        <3> QED
            BY <3>1, <1>2, <1>6, NextBorder
    <2>2. (T + SectorSize) % c = 0
        BY <2>1, <1>1, <1>2, CoarserBorder
    <2>3. t <= T + SectorSize
        <3>1. t % c = 0 /\ t < e + c /\ e <= T + SectorSize
            BY <1>1, <1>2, <1>6, <1>13
        <3>2. T + SectorSize < t => (T + SectorSize) + c <= t
            BY <1>1, <2>1, <2>2, <3>1, BordersApart
        <3> QED
            BY <1>1, <1>2, <2>1, <3>1, <3>2
    <2> QED
        BY <1>1, <1>2, <1>6, <1>9, <1>13, <2>1, <2>3
<1>14. CASE a < s
    BY <1>1, <1>2, <1>4, <1>6, <1>8, <1>9, <1>14
<1> QED
    BY <1>2, <1>4, <1>10, <1>11, <1>12, <1>13, <1>14

\* With a page erase that fits, the borders are the request's own.
LEMMA PageEraseIsExact ==
    ASSUME NEW r \in Requests, PageEraseFits(r.start, r.end)
    PROVE  EraseFrom(r.start, r.end) = r.start /\ EraseTo(r.start, r.end) = r.end
<1>1. r.start \in Nat /\ r.end \in Nat
    BY RequestAccepted
<1>2. r.start % PageSize = 0 /\ r.end % PageSize = 0 /\ EraseChunk(r.start, r.end) = PageSize
    BY DEF PageEraseFits, OnBorders, EraseChunk
<1> QED
    BY <1>1, <1>2 DEF EraseFrom, EraseTo, UpTo

\* An erase reaches no sector the request does not touch, and with page erase no
\* byte the request does not name.
THEOREM ErasesInRange == Spec => EraseConfined
<1>1. ASSUME IInv, [Next]_vars, req.mode = "Erase", NEW a \in Cells, flash'[a] # flash[a]
      PROVE  /\ \E b \in Named(req) \cup {req.start} : SectorStart(a) = SectorStart(b)
             /\ PageEraseFits(req.start, req.end) => a \in Named(req)
    <2>1. EraseOneChunk
        BY <1>1, FlashKept DEF WriteFirstPage, WriteCompletePage, WriteLastPage, IInv, Position, Writing
    <2>2. /\ EraseFrom(req.start, req.end) <= a
          /\ \/ req.end <= FlashSize /\ a < EraseTo(req.start, req.end)
             \/ FlashSize < req.end /\ a < EraseFrom(req.start, req.end) + EraseChunk(req.start, req.end)
        BY <1>1, <2>1, EraseEffect
    <2>3. req \in Requests
        BY <1>1 DEF IInv, TypeOK
    <2>4. ASSUME PageEraseFits(req.start, req.end) PROVE a \in Named(req)
        <3>1. req.end <= FlashSize
            BY <1>1, <2>3, <2>4, EraseBounds
        <3>2. /\ req.start \in Nat /\ req.end \in Nat /\ FlashSize \in Nat /\ a \in Nat
              /\ Span(req) = req.start .. req.end - 1
            BY <1>1, <2>3, RequestAccepted, SpanOf, Sizes DEF Cells
        <3>3. a \in Span(req)
            BY <2>2, <2>3, <2>4, <3>1, <3>2, PageEraseIsExact
        <3> QED
            BY <2>3, <3>3, NamedCell
    <2> QED
        BY <1>1, <2>2, <2>3, <2>4, ErasedSectorIsTouched
<1>2. IInv /\ [Next]_vars =>
          [req.mode = "Erase" =>
              \A a \in Cells : flash'[a] # flash[a] =>
                  /\ \E b \in Named(req) \cup {req.start} : SectorStart(a) = SectorStart(b)
                  /\ PageEraseFits(req.start, req.end) => a \in Named(req)]_vars
    BY <1>1
<1> QED
    BY <1>2, Invariance, PTL DEF Spec, EraseConfined

-----------------------------------------------------------------------------
(* What a step does to the flash and to the host's buffer                  *)

\* The contract speaks of the same cells, bytes and spans.
LEMMA SameWords ==
    /\ Service!Image = Image /\ Service!Cells = Cells /\ Service!Blank = Blank
    /\ \A r : Service!Span(r) = Span(r) /\ Service!Named(r) = Named(r)
    /\ \A a : Service!Cell(a) = Cell(a)
    BY DEF Service!Image, Image, Service!Cells, Cells, Service!Byte, Byte, Service!Blank, Blank, Span,
        Named, Service!Cell, Cell

\* The erase block of the contract is the sector.
LEMMA SectorIsBlock ==
    ASSUME NEW r \in Requests, NEW a \in Cells,
           \E b \in Named(r) \cup {r.start} : SectorStart(a) = SectorStart(b)
    PROVE  a \in Service!Touched(r)
<1>1. PICK b \in Named(r) \cup {r.start} : SectorStart(a) = SectorStart(b)
    OBVIOUS
<1>2. b \in Cells
    BY <1>1, NamedCell
<1>3. a \in Nat /\ SectorSize \in Nat \ {0}
    BY Sizes DEF Cells
<1>4. SectorStart(a) \in Nat /\ SectorStart(a) <= a /\ a < SectorStart(a) + SectorSize
    BY <1>3, BlockStart DEF SectorStart
<1>5. a \in SectorStart(b) .. SectorStart(b) + SectorSize - 1
    BY <1>1, <1>3, <1>4
<1> QED
    BY <1>1, <1>2, <1>5, SameWords DEF Service!Touched

\* Writing programs within the request, erasing blanks touched sectors, and no other
\* operation changes the flash.
LEMMA FlashChange ==
    ASSUME IInv, Step
    PROVE  CASE req.mode = "Flash" -> flash' \in Service!Image /\ Service!Programs(req)
             [] req.mode = "Erase" -> flash' \in Service!Image /\ Service!Erases(req)
             [] OTHER              -> flash' = flash
<1>1. flash \in Image /\ [Next]_vars /\ req \in Requests
    BY DEF IInv, TypeOK, Next
<1>2. CASE flash' = flash
    <2>1. Service!Erases(req)
        BY <1>2 DEF Service!Erases
    <2>2. Service!Programs(req)
        BY <1>2 DEF Service!Programs
    <2> QED
        BY <1>1, <1>2, <2>1, <2>2, SameWords
<1>3. CASE WriteFirstPage \/ WriteCompletePage \/ WriteLastPage
    <2>1. ProgramEffect
        BY <1>3, WriteFirstPageEffect, WriteCompletePageEffect, WriteLastPageEffect
    <2>2. req.mode = "Flash"
        BY <1>3 DEF WriteFirstPage, WriteCompletePage, WriteLastPage, IInv, Position, Writing
    <2>3. /\ req.start \in Nat /\ req.end \in Nat /\ req.end - req.start <= FlashSize /\ FlashSize \in Nat
          /\ Span(req) = req.start .. req.end - 1 /\ Named(req) = {Cell(b) : b \in Span(req)}
        BY <1>1, <2>2, RequestAccepted, SpanOf, Sizes
    <2>4. ASSUME NEW b \in Span(req)
          PROVE  /\ flash[Cell(b)] \cap ram[b - req.start] \subseteq flash'[Cell(b)]
                 /\ flash'[Cell(b)] \subseteq flash[Cell(b)]
        <3>1. b \in Nat /\ Cell(b) \in Cells
            BY <2>3, CellInFlash
        <3>2. \/ flash'[Cell(b)] = flash[Cell(b)]
              \/ \E d \in Span(req) : Cell(b) = Cell(d) /\ flash'[Cell(b)] = flash[Cell(b)] \cap ram[d - req.start]
            BY <2>1, <3>1 DEF ProgramEffect
        <3>3. ASSUME NEW d \in Span(req), Cell(b) = Cell(d) PROVE b = d
            <4>1. d \in Nat /\ (b <= d => d < b + FlashSize) /\ (d <= b => b < d + FlashSize)
                BY <2>3
            <4> QED
                BY <3>1, <3>3, <4>1, CellsApart
        <3> QED
            BY <3>2, <3>3
    <2>5. \A a \in Cells \ Named(req) : flash'[a] = flash[a]
        BY <2>1, <2>3, ProgrammingClears
    <2>6. Service!Programs(req)
        BY <2>4, <2>5, SameWords DEF Service!Programs
    <2> QED
        BY <2>1, <2>2, <2>6, SameWords DEF ProgramEffect
<1>4. CASE EraseOneChunk
    <2>1. req.mode = "Erase"
        BY <1>4 DEF EraseOneChunk, IInv, Position
    <2>2. flash' \in Image
        BY <1>4, EraseEffect
    <2>3. ASSUME NEW a \in Cells
          PROVE  flash'[a] = flash[a] \/ (a \in Service!Touched(req) /\ flash'[a] = Blank)
        BY <1>1, <1>4, <2>1, <2>3, EraseEffect, ErasedSectorIsTouched, SectorIsBlock
    <2>4. Service!Erases(req)
        BY <2>3, SameWords DEF Service!Erases
    <2> QED
        BY <2>1, <2>2, <2>4, SameWords
<1> QED
    BY <1>1, <1>2, <1>3, <1>4, FlashKept

\* Only reading writes to the host's buffer, each byte to its place.
LEMMA RamChange ==
    ASSUME IInv, Step
    PROVE  IF req.mode = "Read" THEN ram' \in Service!Image /\ Service!Reads(req) ELSE ram' = ram
<1>1. ram' \in Image
    BY StepKeeps DEF Next, IInv, TypeOK
<1>2. CASE ram' = ram
    BY <1>1, <1>2, SameWords DEF Service!Reads
<1>3. CASE ReadSegment
    <2>1. req.mode = "Read"
        BY <1>3 DEF ReadSegment, IInv, Position
    <2>2. Service!Reads(req)
        BY <1>3, ReadSegmentKeeps, SameWords DEF Service!Reads
    <2> QED
        BY <1>1, <2>1, <2>2, SameWords
<1>4. ram' = ram \/ ReadSegment
    BY DEF Step, Write, Inspect, WriteBegin, ReadFirstPage, WriteFirstPage,
        WriteCompletePage, ReadLastPage, WriteLastPage, WriteDone, VerifySegment, VerifyDone,
        HashSegment, ReadDone, CheckSegment, CheckDone, EraseOneChunk, EraseDone, GetEraseArea
<1> QED
    BY <1>2, <1>3, <1>4

-----------------------------------------------------------------------------
(* What a return promises                                                  *)

\* Flash, Verify and Read end with flash and buffer equal over the request.
LEMMA MatchPromise ==
    ASSUME IInv, Step, pc' = "idle", result' = "OK", req.mode \in {"Flash", "Verify", "Read"}
    PROVE  Service!Matches(req) /\ (req.mode = "Verify" => message' = "OK")
<1>1. VerifyDone \/ (ReadDone /\ pc = "read")
    BY DEF Step, Write, Inspect, WriteBegin, ReadFirstPage, WriteFirstPage, Return, Goto,
        WriteCompletePage, ReadLastPage, WriteLastPage, WriteDone, VerifySegment, ReadSegment, Verdict,
        HashSegment, ReadDone, CheckSegment, CheckDone, EraseOneChunk, EraseDone, GetEraseArea, IInv, Position
<1>2. /\ pc \in {"verify", "read"} /\ addr >= stop /\ flash' = flash /\ ram' = ram
      /\ req.mode = "Verify" => message' = "OK"
    BY <1>1 DEF VerifyDone, ReadDone, Verdict, Return, IInv, Position
<1>3. addr \in Nat /\ addr = req.end /\ req.start \in Nat /\ Span(req) = req.start .. req.end - 1
    BY <1>2, Numbers DEF Looping
<1>4. \A a \in Span(req) : flash[Cell(a)] = ram[a - req.start]
    BY <1>2, <1>3 DEF IInv, Progressed
<1> QED
    BY <1>2, <1>4, SameWords DEF Service!Matches

\* Every sector of the area GetEraseArea answers holds a byte of the request or its start.
LEMMA AreaSectorIsTouched ==
    ASSUME NEW r \in Requests, NEW a \in Cells,
           a \in SectorStart(r.start) .. AreaEnd(Service!End(r)) - 1
    PROVE  \E b \in Named(r) \cup {r.start} : SectorStart(a) = SectorStart(b)
<1> DEFINE s == r.start
           e == Service!End(r)
           f == SectorStart(s)
           t == AreaEnd(e)
<1>1. /\ s \in Nat /\ e \in Nat /\ s <= e /\ SectorSize \in Nat \ {0} /\ FlashSize \in Nat
      /\ a \in Nat /\ a < FlashSize
    <2>1. s \in Nat /\ s < FlashSize /\ s <= r.end /\ FlashSize \in Nat /\ r.end \in Nat
        BY RequestAccepted, Sizes DEF Cells
    <2>2. e \in {FlashSize, r.end}
        BY DEF Service!End
    <2> QED
        BY <2>1, <2>2, Sizes DEF Cells
<1>2. f \in Nat /\ f <= s /\ s < f + SectorSize /\ f % SectorSize = 0
    BY <1>1, BlockStart DEF SectorStart
<1>3. t \in Nat /\ e <= t /\ t < e + SectorSize /\ t % SectorSize = 0 /\ a \in f .. t - 1
    BY <1>1, <1>2, AreaIsEraseRange
<1>4. Span(r) = s .. e - 1
    BY DEF Span, Service!Span
<1>5. ASSUME NEW b \in s .. e - 1, b < FlashSize PROVE b \in Named(r)
    <2>1. b \in Cells
        BY <1>1, <1>5 DEF Cells
    <2> QED
        BY <1>4, <1>5, <2>1, NamedCell
<1> DEFINE b == IF s < e THEN e - 1 ELSE s
           T == b - (b % SectorSize)
<1>6. b \in Nat /\ s <= b /\ b <= e /\ e <= b + 1 /\ (s < e => b \in s .. e - 1 /\ b = e - 1) /\ (~(s < e) => b = s)
    BY <1>1
<1>7. SectorStart(b) = T
    BY DEF SectorStart
<1> HIDE DEF b
<1>8. T \in Nat /\ T <= b /\ b < T + SectorSize /\ T % SectorSize = 0
    BY <1>1, <1>6, BlockStart
<1> HIDE DEF T, t, f, e
<1>9. CASE a < s
    <2>1. f <= a /\ a < f + SectorSize
        BY <1>1, <1>2, <1>3, <1>9
    <2>2. a - (a % SectorSize) = f
        BY <1>1, <1>2, <2>1, SameBlock
    <2> QED
        BY <2>2 DEF SectorStart, f
<1>10. CASE a \in s .. e - 1
    BY <1>1, <1>5, <1>10
<1>11. CASE a >= e
    <2>1. T + SectorSize \in Nat /\ (T + SectorSize) % SectorSize = 0
        <3>1. T + SectorSize \in Nat
            BY <1>1, <1>8
        <3>2. (T + SectorSize) % SectorSize = 0
            BY <1>1, <1>8, NextBorder
        <3> QED
            BY <3>1, <3>2
    <2>2. t <= T + SectorSize
        <3> SUFFICES ASSUME T + SectorSize < t PROVE FALSE
            BY <1>3, <2>1
        <3>1. (T + SectorSize) + SectorSize <= t
            BY <1>1, <1>3, <2>1, BordersApart
        <3>2. e <= T + SectorSize
            BY <1>1, <1>6, <1>8
        <3> QED
            BY <3>1, <3>2, <1>1, <1>3, <2>1
    <2>3. T <= a /\ a < T + SectorSize
        BY <1>1, <1>3, <1>6, <1>8, <1>11, <2>1, <2>2
    <2>4. a - (a % SectorSize) = T
        BY <1>1, <1>8, <2>3, SameBlock
    <2>5. b \in Named(r) \cup {r.start}
        BY <1>1, <1>5, <1>6, <1>11
    <2> QED
        BY <1>7, <2>4, <2>5 DEF SectorStart
<1> QED
    BY <1>1, <1>9, <1>10, <1>11

\* IsErased tells whether the whole range is blank, Checksum has hashed it in order,
\* GetEraseArea covers the request with touched sectors.
LEMMA AnswerPromise ==
    ASSUME IInv, Step, pc' = "idle", result' = "OK",
           req.mode \in {"IsErased", "Checksum", "GetEraseArea"}
    PROVE  Service!Promise(req)
<1>1. \/ CheckDone /\ req.mode = "IsErased"
      \/ ReadDone /\ pc = "hash" /\ req.mode = "Checksum"
      \/ GetEraseArea /\ req.mode = "GetEraseArea"
    BY DEF Step, Write, Inspect, WriteBegin, ReadFirstPage, WriteFirstPage, Return, Goto,
        WriteCompletePage, ReadLastPage, WriteLastPage, WriteDone, VerifySegment, ReadSegment, Verdict, Writing,
        VerifyDone,
        HashSegment, ReadDone, CheckSegment, CheckDone, EraseOneChunk, EraseDone, GetEraseArea, IInv, Position
<1>2. req \in Requests
    BY DEF IInv, TypeOK
<1>3. CASE CheckDone /\ req.mode = "IsErased"
    <2>1. pc = "check" /\ (addr >= stop \/ erased # Blank) /\ flash' = flash
        BY <1>3 DEF CheckDone
    <2>2. message' = IF erased = Blank THEN "blank" ELSE "dirty"
        BY <1>3 DEF CheckDone
    <2>3. /\ addr \in Nat /\ stop \in Nat /\ addr <= stop /\ stop = req.end /\ req.start \in Nat
          /\ Span(req) = req.start .. req.end - 1
        BY <2>1, Numbers DEF Looping
    <2>4. erased = Blank <=> \A a \in Span(req) : flash[Cell(a)] = Blank
        BY <2>1, <2>3 DEF IInv, Progressed
    <2>5. (\A a \in Span(req) : flash[Cell(a)] = Blank) <=> \A a \in Named(req) : flash[a] = Blank
        BY <1>2, SpanOf
    <2>6. message' = "blank" <=> \A a \in Service!Named(req) : flash'[a] = Service!Blank
        BY <2>1, <2>2, <2>4, <2>5, SameWords
    <2> QED
        BY <1>3, <2>6 DEF Service!Promise
<1>4. CASE ReadDone /\ pc = "hash" /\ req.mode = "Checksum"
    <2>1. addr >= stop /\ flash' = flash /\ digest' = digest
        BY <1>4 DEF ReadDone
    <2>2. addr \in Nat /\ addr = req.end /\ req.start \in Nat
        BY <1>4, <2>1, Numbers DEF Looping
    <2>3. digest = [i \in 0 .. (req.end - req.start) - 1 |-> flash[Cell(req.start + i)]]
        BY <1>4, <2>2 DEF IInv, Progressed
    <2>4. digest' = [i \in 0 .. (req.end - req.start) - 1 |-> flash'[Service!Cell(req.start + i)]]
        BY <2>1, <2>3 DEF Cell, Service!Cell
    <2> QED
        BY <1>4, <2>4 DEF Service!Promise
<1>5. CASE GetEraseArea /\ req.mode = "GetEraseArea"
    <2> DEFINE s == req.start
               e == Service!End(req)
               f == SectorStart(s)
               t == AreaEnd(e)
    <2>1. /\ f \in Nat /\ f <= s /\ e \in Nat /\ t \in Nat /\ t % SectorSize = 0
          /\ \/ e <= t /\ t < e + SectorSize /\ t < Word
             \/ t = 0 /\ FlashSize < e
          /\ area' = <<f, t>>
        BY <1>2, <1>5, AreaIsEraseRange DEF GetEraseArea
    <2>2. /\ s \in Cells /\ SectorSize \in Nat \ {0} /\ FlashSize \in Nat \ {0} /\ FlashSize % SectorSize = 0
          /\ (Word - 1) % SectorSize # 0
        BY <1>2, RequestAccepted, Sizes, LastWordOffBorder, GeometryAssumption
    <2>3. e <= FlashSize => t <= FlashSize
        <3> HIDE DEF t, e
        <3> SUFFICES ASSUME e <= FlashSize, FlashSize < t PROVE FALSE
            BY <2>1, <2>2
        <3>1. FlashSize + SectorSize <= t
            BY <2>1, <2>2, BordersApart
        <3> QED
            BY <3>1, <2>1, <2>2
    <2>4. t # Word - 1
        BY <2>1, <2>2
    <2>5. e <= t \/ (FlashSize < e /\ t <= f)
        BY <2>1
    <2>6. f \in SectorStart(s) .. SectorStart(s) + SectorSize - 1
        <3> HIDE DEF f
        <3> QED
            BY <2>1, <2>2 DEF f
    <2>7. ASSUME NEW a \in Cells, f <= a, a < t
          PROVE  a \in Service!Touched(req)
        <3>1. a \in f .. t - 1
            <4>1. a \in Nat
                BY <2>2 DEF Cells
            <4> HIDE DEF f, t
            <4> QED
                BY <2>1, <2>7, <4>1
        <3>2. \E b \in Named(req) \cup {req.start} : SectorStart(a) = SectorStart(b)
            BY <1>2, <2>7, <3>1, AreaSectorIsTouched
        <3> QED
            BY <1>2, <2>7, <3>2, SectorIsBlock
    <2>8. area'[1] = f /\ area'[2] = t
        BY <2>1
    <2> HIDE DEF t, e
    <2>9. Service!Covers(req)
        BY <2>1, <2>2, <2>3, <2>4, <2>5, <2>6, <2>7, <2>8, SameWords DEF Service!Covers, e
    <2> QED
        BY <1>5, <2>9 DEF Service!Promise
<1> QED
    BY <1>1, <1>3, <1>4, <1>5

-----------------------------------------------------------------------------
(* Every step                                                              *)

\* The host's call.
LEMMA CallRefines ==
    ASSUME IInv, NEW r \in Requests, NEW image \in RamImages, Call(r, image)
    PROVE  Service!Call
<1>1. image \in Service!Image /\ r \in Service!Requests
    BY EnvironmentAssumption, SameWords DEF Requests
<1>2. pc' # "idle"
    BY RequestAccepted DEF Call, Entry, Modes
<1> QED
    BY <1>1, <1>2 DEF Call, Service!Call

\* A step of an operation that goes on, or ends with a result.
LEMMA StepRefines ==
    ASSUME IInv, Step
    PROVE  Service!Work \/ Service!Return
<1>1. Service!Accepted(req)
    BY RequestAccepted DEF IInv, TypeOK
<1>2. Service!Change
    BY <1>1, FlashChange, RamChange DEF Service!Change
<1>3. pc # "idle" /\ req' = req
    BY DEF Step, Write, Inspect, WriteBegin, ReadFirstPage, WriteFirstPage, Fixed,
        WriteCompletePage, ReadLastPage, WriteLastPage, WriteDone, VerifySegment, VerifyDone, ReadSegment,
        HashSegment, ReadDone, CheckSegment, CheckDone, EraseOneChunk, EraseDone, GetEraseArea
<1>4. CASE pc' # "idle"
    <2>1. UNCHANGED <<result, message, area>>
        BY <1>4 DEF Step, Write, Inspect, WriteBegin, ReadFirstPage, WriteFirstPage, Fixed,
            Goto, Return, Verdict,
            WriteCompletePage, ReadLastPage, WriteLastPage, WriteDone, VerifySegment, VerifyDone, ReadSegment,
            HashSegment, ReadDone, CheckSegment, CheckDone, EraseOneChunk, EraseDone, GetEraseArea
    <2> QED
        BY <1>2, <1>3, <1>4, <2>1 DEF Service!Work
<1>5. CASE pc' = "idle"
    <2>1. /\ result' \in {"OK", "ERROR"}
          /\ req.mode \in {"Verify", "IsErased"} \/ message' = message
          /\ req.mode = "GetEraseArea" \/ area' = area
        BY <1>5 DEF Step, Write, Inspect, WriteBegin, ReadFirstPage, WriteFirstPage, Fixed,
            Goto, Return, Verdict, IInv, Position,
            WriteCompletePage, ReadLastPage, WriteLastPage, WriteDone, VerifySegment, VerifyDone, ReadSegment,
            HashSegment, ReadDone, CheckSegment, CheckDone, EraseOneChunk, EraseDone, GetEraseArea
    <2>2. ASSUME result' = "OK"
          PROVE  Service!Promise(req)
        <3>1. CASE req.mode \in {"Flash", "Verify", "Read"}
            BY <1>5, <2>2, <3>1, MatchPromise DEF Service!Promise
        <3>2. CASE req.mode \in {"IsErased", "Checksum", "GetEraseArea"}
            BY <1>5, <2>2, <3>2, AnswerPromise
        <3>3. CASE req.mode \notin {"Flash", "Verify", "Read", "IsErased", "Checksum", "GetEraseArea"}
            BY <3>3 DEF Service!Promise
        <3> QED
            BY <3>1, <3>2, <3>3
    <2> QED
        BY <1>1, <1>2, <1>3, <1>5, <2>1, <2>2 DEF Service!Return
<1> QED
    BY <1>4, <1>5

LEMMA NextRefines ==
    ASSUME IInv, [Next]_vars
    PROVE  [Service!Next]_(Service!vars)
<1>1. CASE \E r \in Requests, image \in RamImages : Call(r, image)
    BY <1>1, CallRefines DEF Service!Next
<1>2. CASE Step
    BY <1>2, StepRefines DEF Service!Next
<1>3. CASE UNCHANGED vars
    BY <1>3 DEF vars, Service!vars
<1> QED
    BY <1>1, <1>2, <1>3 DEF Next

\* flasher_spi.c implements FlashService: whatever the geometry, the request that
\* check_params lets through, the chip and the driver do, each call keeps its frame and
\* its promise.
THEOREM Refinement == Spec => ServiceSpec
<1>1. Init => Service!Init
    BY EnvironmentAssumption, SameWords DEF Init, Service!Init, Requests
<1>2. IInv /\ [Next]_vars => [Service!Next]_(Service!vars)
    BY NextRefines
<1> QED
    BY <1>1, <1>2, Invariance, PTL DEF Spec, ServiceSpec, Service!Spec
=============================================================================
