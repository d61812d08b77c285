------------------------ MODULE InternalFlash_proofs ------------------------
(***************************************************************************)
(* What the internal flash keeps, for every size of the arrays, the pages  *)
(* and the blocks and for cells that may fail: an OK of Flash and of Erase *)
(* is true of the named area, and no other section is ever changed.        *)
(*                                                                         *)
(* The arithmetic comes first: a page or a block lies in one section, at   *)
(* consecutive cells (InPlace), so that writing it changes exactly its own *)
(* offsets of the area (PutOwn).  The inductive invariant then says how    *)
(* far the loops of Flash and Erase have come.                             *)
(***************************************************************************)
EXTENDS InternalFlash, TLAPS

-----------------------------------------------------------------------------
(* Addresses and the borders of blocks                                     *)

\* An address is so many whole blocks and an offset into the next one.
LEMMA Division ==
    ASSUME NEW n \in Nat \ {0}, NEW a \in Nat
    PROVE  /\ a \div n \in Nat
           /\ a % n \in 0 .. n - 1
           /\ a = n * (a \div n) + (a % n)
    BY SMT

\* Whole blocks are on a border, and only they are.
LEMMA Multiple ==
    ASSUME NEW n \in Nat \ {0}, NEW q \in Nat
    PROVE  (n * q) % n = 0 /\ (n * q) \div n = q /\ n * q \in Nat
    BY SMT

\* A chip decodes an address that it has as itself.
LEMMA Decoded ==
    ASSUME NEW n \in Nat \ {0}, NEW a \in Nat, a < n
    PROVE  a % n = a
    BY SMT

\* What lies on a border is a whole number of blocks.
LEMMA OnBorder ==
    ASSUME NEW n \in Nat \ {0}, NEW a \in Nat, a % n = 0
    PROVE  \E q \in Nat : a = n * q
<1>1. a \div n \in Nat /\ a = n * (a \div n) + (a % n)
    BY Division
<1>2. n * (a \div n) \in Nat
    BY <1>1, SMT
<1>3. a = n * (a \div n)
    BY <1>1, <1>2
<1> QED
    BY <1>1, <1>3

\* The start of the block of an address.
LEMMA BlockStart ==
    ASSUME NEW n \in Nat \ {0}, NEW a \in Nat
    PROVE  /\ a - (a % n) \in Nat
           /\ a - (a % n) <= a
           /\ a < a - (a % n) + n
           /\ (a - (a % n)) % n = 0
    BY Division, Multiple

\* Borders are a whole block apart.
LEMMA BordersApart ==
    ASSUME NEW n \in Nat \ {0}, NEW a \in Nat, NEW b \in Nat,
           a % n = 0, b % n = 0, a < b
    PROVE  a + n <= b
<1>1. PICK p \in Nat : a = n * p
    BY OnBorder
<1>2. PICK q \in Nat : b = n * q
    BY OnBorder
<1>3. p < q
    BY <1>1, <1>2, SMT
<1>4. n * (p + 1) <= n * q
    BY <1>3, SMT
<1>5. n * (p + 1) = n * p + n
    BY SMT
<1> QED
    BY <1>1, <1>2, <1>4, <1>5

\* One block after a border there is the next border.
LEMMA NextBorder ==
    ASSUME NEW n \in Nat \ {0}, NEW a \in Nat, a % n = 0
    PROVE  (a + n) % n = 0
<1>1. PICK p \in Nat : a = n * p
    BY OnBorder
<1>2. n * (p + 1) = n * p + n
    BY SMT
<1>3. (n * (p + 1)) % n = 0
    BY Multiple
<1> QED
    BY <1>1, <1>2, <1>3

\* The borders of a size that is a multiple of another are borders of that one.
LEMMA CoarserBorder ==
    ASSUME NEW n \in Nat \ {0}, NEW m \in Nat \ {0}, NEW a \in Nat,
           m % n = 0, a % m = 0
    PROVE  a % n = 0
<1>1. PICK p \in Nat : m = n * p
    BY OnBorder
<1>2. PICK q \in Nat : a = m * q
    BY OnBorder
<1>3. p * q \in Nat
    BY SMT
<1>4. (n * p) * q = n * (p * q)
    BY SMT
<1>5. (n * (p * q)) % n = 0
    BY <1>3, Multiple
<1> QED
    BY <1>1, <1>2, <1>4, <1>5

\* Two addresses in the same block have the same block start.
LEMMA SameBlock ==
    ASSUME NEW n \in Nat \ {0}, NEW a \in Nat, NEW b \in Nat,
           a % n = 0, a <= b, b < a + n
    PROVE  b - (b % n) = a
<1> DEFINE c == b - (b % n)
<1>1. c \in Nat /\ c <= b /\ b < c + n /\ c % n = 0
    BY BlockStart
<1> HIDE DEF c
<1>2. ~(a < c)
    <2>1. a < c => a + n <= c
        BY <1>1, BordersApart
    <2> QED
        BY <1>1, <2>1
<1>3. ~(c < a)
    <2>1. c < a => c + n <= a
        BY <1>1, BordersApart
    <2> QED
        BY <1>1, <2>1
<1>4. c = a
    BY <1>1, <1>2, <1>3
<1> QED
    BY <1>4 DEF c

-----------------------------------------------------------------------------
(* Offsets, sections and cells.                                            *)

LEMMA UniqueDivision ==
    ASSUME NEW n \in Nat \ {0}, NEW q \in Nat, NEW r \in 0 .. n - 1, NEW a \in Nat, a = n * q + r
    PROVE  a \div n = q /\ a % n = r
    BY SMT

LEMMA Product ==
    ASSUME NEW n \in Nat, NEW k \in Nat, NEW q \in Nat
    PROVE  (n * k) * q = n * (k * q) /\ k * q \in Nat
    BY SMT

\* The difference of two offsets on borders is on a border.
LEMMA BorderDifference ==
    ASSUME NEW n \in Nat \ {0}, NEW a \in Nat, NEW b \in Nat, a % n = 0, b % n = 0, b <= a
    PROVE  (a - b) % n = 0
<1>1. PICK p \in Nat : a = n * p
    BY OnBorder
<1>2. PICK q \in Nat : b = n * q
    BY OnBorder
<1>3. q <= p
    BY <1>1, <1>2, SMT
<1>4. p - q \in Nat /\ a - b = n * (p - q)
    BY <1>1, <1>2, <1>3, SMT
<1> QED
    BY <1>4, Multiple

\* Cells further on, as long as they stay behind the same controller.
LEMMA ShiftedCell ==
    ASSUME NEW n \in Nat \ {0}, NEW q \in Nat, NEW c \in Nat, NEW d \in Nat,
           NEW at \in Nat, at = n * q + c, c + d < n
    PROVE  (at + d) \div n = q /\ (at + d) % n = c + d
<1>1. n * q \in Nat
    BY Multiple
<1>2. at + d = n * q + (c + d) /\ c + d \in 0 .. n - 1 /\ at + d \in Nat
    BY <1>1
<1> QED
    BY <1>2, UniqueDivision

\* The sizes that pages and blocks divide.
LEMMA Sizes ==
    ASSUME NEW a \in Areas, NEW n \in {PageSize, BlockSize}
    PROVE  /\ n \in Nat \ {0} /\ MainSize \in Nat \ {0}
           /\ MainSize % n = 0
           /\ SizeOf(a) \in Nat \ {0} /\ SizeOf(a) % n = 0
           /\ a[1] \in 0 .. 3 /\ Part(a) \in Parts
           /\ a[1] = 3 => SizeOf(a) = 2 * MainSize
           /\ a[1] # 3 => SizeOf(a) <= MainSize
<1>1. n \in Nat \ {0} /\ MainSize \in Nat \ {0}
    BY SizeAssumption
<1>2. ASSUME NEW s \in Nat, s % BlockSize = 0 PROVE s % n = 0
    BY <1>2, SizeAssumption, CoarserBorder
<1>3. MainSize % n = 0 /\ InfoSize % n = 0 /\ InfoKSize % n = 0
    <2>1. MainSize \in Nat /\ InfoSize \in Nat /\ InfoKSize \in Nat
        BY SizeAssumption
    <2>2. MainSize % BlockSize = 0 /\ InfoSize % BlockSize = 0 /\ InfoKSize % BlockSize = 0
        BY SizeAssumption
    <2> QED
        BY <1>2, <2>1, <2>2
<1>4. (2 * MainSize) % n = 0
    <2>1. (MainSize + MainSize) % n = 0
        <3>1. PICK q \in Nat : MainSize = n * q
            BY <1>1, <1>3, OnBorder
        <3>2. MainSize + MainSize = n * (q + q) /\ q + q \in Nat
            BY <1>1, <3>1, SMT
        <3> QED
            BY <1>1, <3>2, Multiple
    <2> QED
        BY <1>1, <2>1
<1>5. a = <<a[1], a[2]>> /\ (a \in Controllers \X Parts \/ a = <<3, 0>>)
    BY DEF Areas
<1> QED
    BY <1>1, <1>3, <1>4, <1>5, SizeAssumption DEF SizeOf, Part, Controllers, Parts

LEMMA ControllerTyped ==
    ASSUME NEW a \in Areas, NEW o \in Nat, o < SizeOf(a)
    PROVE  /\ Controller(a, o) \in Controllers
           /\ Section(a, o) \in Sections
           /\ Cell(o) \in Cells
<1>1. MainSize \in Nat \ {0} /\ a[1] \in 0 .. 3 /\ Part(a) \in Parts /\ (a[1] = 3 => SizeOf(a) = 2 * MainSize)
    BY Sizes
<1>2. o \div MainSize \in Nat /\ Cell(o) \in 0 .. MainSize - 1 /\ o = MainSize * (o \div MainSize) + Cell(o)
    BY <1>1, Division DEF Cell
<1>3. Controller(a, o) \in 0 .. 2
    <2>1. CASE a[1] = 3
        <3>1. MainSize * (o \div MainSize) < MainSize * 2
            BY <1>1, <1>2, <2>1, SMT
        <3>2. o \div MainSize < 2
            BY <1>1, <1>2, <3>1, SMT
        <3> QED
            BY <1>2, <2>1, <3>2 DEF Controller
    <2> QED
        BY <1>1, <2>1 DEF Controller
<1> QED
    BY <1>1, <1>2, <1>3 DEF Section, Sections, Controllers, Cells

\* Offsets behind the same controller are as far apart as their cells.
LEMMA SameController ==
    ASSUME NEW a \in Areas, NEW o \in Nat, o < SizeOf(a), NEW p \in Nat, p < SizeOf(a),
           Controller(a, o) = Controller(a, p)
    PROVE  Cell(o) - Cell(p) = o - p
<1>1. MainSize \in Nat \ {0} /\ a[1] \in 0 .. 3 /\ (a[1] # 3 => SizeOf(a) <= MainSize)
    BY Sizes
<1>2. CASE a[1] = 3
    <2>1. o \div MainSize = p \div MainSize
        BY <1>2 DEF Controller
    <2>2. /\ o = MainSize * (o \div MainSize) + Cell(o)
          /\ o \div MainSize \in Nat /\ Cell(o) \in 0 .. MainSize - 1
        BY <1>1, Division DEF Cell
    <2>4. p = MainSize * (p \div MainSize) + Cell(p) /\ Cell(p) \in 0 .. MainSize - 1
        BY <1>1, Division DEF Cell
    <2> DEFINE base == MainSize * (o \div MainSize)
    <2>3. base \in Nat /\ o = base + Cell(o) /\ p = base + Cell(p)
        BY <1>1, <2>1, <2>2, <2>4, Multiple
    <2>5. Cell(o) \in Nat /\ Cell(p) \in Nat
        BY <1>1, <2>2, <2>4
    <2> HIDE DEF base
    <2> QED
        BY <2>3, <2>5
<1>3. CASE a[1] # 3
    <2>1. Cell(o) = o /\ Cell(p) = p
        BY <1>1, <1>3, Decoded, Sizes DEF Cell
    <2> QED
        BY <2>1
<1> QED
    BY <1>2, <1>3

\* A page or a block that starts in the area lies in it, and behind one controller.
LEMMA InPlace ==
    ASSUME NEW a \in Areas, NEW n \in {PageSize, BlockSize},
           NEW at \in Nat, at % n = 0, at < SizeOf(a)
    PROVE  /\ at + n <= SizeOf(a)
           /\ Cell(at) + n <= MainSize
           /\ \A o \in at .. at + n - 1 :
                 Controller(a, o) = Controller(a, at) /\ Cell(o) = Cell(at) + (o - at)
<1>1. /\ n \in Nat \ {0} /\ MainSize \in Nat \ {0} /\ MainSize % n = 0
      /\ SizeOf(a) \in Nat /\ SizeOf(a) % n = 0
    BY Sizes
<1>2. at + n <= SizeOf(a)
    BY <1>1, BordersApart
<1>3. PICK q \in Nat : q = at \div MainSize /\ Cell(at) \in 0 .. MainSize - 1 /\ at = MainSize * q + Cell(at)
    BY <1>1, Division DEF Cell
<1>4. Cell(at) % n = 0
    <2>1. PICK k \in Nat : MainSize = n * k
        BY <1>1, OnBorder
    <2>2. MainSize * q = n * (k * q) /\ k * q \in Nat
        BY <1>1, <1>3, <2>1, Product
    <2>3. (MainSize * q) % n = 0 /\ MainSize * q \in Nat
        BY <1>1, <2>2, Multiple
    <2>4. at - MainSize * q = Cell(at) /\ MainSize * q <= at
        BY <1>3, <2>3
    <2> QED
        BY <1>1, <2>3, <2>4, BorderDifference
<1>5. Cell(at) + n <= MainSize
    BY <1>1, <1>3, <1>4, BordersApart
<1>6. ASSUME NEW o \in at .. at + n - 1
      PROVE  o \div MainSize = q /\ Cell(o) = Cell(at) + (o - at)
    <2>1. o - at \in Nat /\ Cell(at) + (o - at) < MainSize /\ Cell(at) \in Nat /\ q \in Nat
        BY <1>1, <1>3, <1>5
    <2>2. o \in Nat /\ o = at + (o - at)
        BY <1>1
    <2> DEFINE d == o - at
               c == Cell(at)
    <2>3. d \in Nat /\ c \in Nat /\ c + d < MainSize /\ at = MainSize * q + c /\ MainSize \in Nat \ {0}
        BY <1>1, <1>3, <2>1
    <2> HIDE DEF d, c
    <2>4. (at + d) \div MainSize = q /\ (at + d) % MainSize = c + d
        BY <2>3, ShiftedCell
    <2> QED
        BY <2>2, <2>4 DEF Cell, c, d
<1> QED
    BY <1>2, <1>3, <1>5, <1>6 DEF Controller

-----------------------------------------------------------------------------
(* What writing one page or block does to the area and to the rest.        *)

\* The bytes new have replaced n bytes of the area, and nothing else has changed.
Wrote(at, n, new) ==
    /\ flash' \in Content
    /\ \A o \in 0 .. SizeOf(desc) - 1 :
          flash'[Section(desc, o)][Cell(o)] = IF o \in at .. at + n - 1 THEN new[o] ELSE Own(desc, o)
    /\ \A s \in Sections, i \in Cells :
          \/ flash'[s][i] = flash[s][i]
          \/ \E o \in at .. at + n - 1 :
                s = Section(desc, o) /\ i = Cell(o) /\ flash'[s][i] = new[o]

LEMMA PutOwn ==
    ASSUME TypeOK, desc \in Areas, NEW n \in {PageSize, BlockSize},
           NEW at \in Nat, at % n = 0, at < SizeOf(desc),
           NEW new \in [at .. at + n - 1 -> Byte],
           flash' = Put(Section(desc, at), at, n, new)
    PROVE  Wrote(at, n, new)
<1> DEFINE here == Section(desc, at)
           c == Cell(at)
<1>1. /\ n \in Nat \ {0} /\ MainSize \in Nat \ {0} /\ SizeOf(desc) \in Nat
      /\ here \in Sections /\ c \in Cells /\ flash \in Content
    BY Sizes, ControllerTyped DEF TypeOK
<1>2. /\ at + n <= SizeOf(desc) /\ c + n <= MainSize
      /\ \A o \in at .. at + n - 1 : Controller(desc, o) = Controller(desc, at) /\ Cell(o) = c + (o - at)
    BY InPlace
<1>3. \A s \in Sections, i \in Cells :
         flash'[s][i] = IF s = here /\ i \in c .. c + n - 1 THEN new[at + i - c] ELSE flash[s][i]
    BY <1>1 DEF Put, Content
<1>4. ASSUME NEW i \in c .. c + n - 1 PROVE at + i - c \in at .. at + n - 1 /\ new[at + i - c] \in Byte
    BY <1>1, <1>4 DEF Cells
<1>5. flash' \in Content
    <2>1. ASSUME NEW i \in Cells
          PROVE  (IF i \in c .. c + n - 1 THEN new[at + i - c] ELSE flash[here][i]) \in Byte
        BY <1>1, <1>4 DEF Content
    <2>2. [i \in Cells |-> IF i \in c .. c + n - 1 THEN new[at + i - c] ELSE flash[here][i]] \in [Cells -> Byte]
        BY <2>1
    <2> QED
        BY <1>1, <2>2 DEF Put, Content
<1>6. ASSUME NEW o \in 0 .. SizeOf(desc) - 1
      PROVE  flash'[Section(desc, o)][Cell(o)] = IF o \in at .. at + n - 1 THEN new[o] ELSE Own(desc, o)
    <2>1. Section(desc, o) \in Sections /\ Cell(o) \in Cells /\ o \in Nat /\ o < SizeOf(desc)
        BY <1>1, ControllerTyped
    <2>2. CASE o \in at .. at + n - 1
        <3>1. Section(desc, o) = here /\ Cell(o) = c + (o - at) /\ Cell(o) \in c .. c + n - 1
            BY <1>1, <1>2, <2>1, <2>2 DEF Section, Cells
        <3>2. at + Cell(o) - c = o
            BY <1>1, <2>1, <3>1 DEF Cells
        <3> QED
            BY <1>3, <2>1, <2>2, <3>1, <3>2
    <2>3. CASE o \notin at .. at + n - 1
        <3>1. ASSUME Section(desc, o) = here, Cell(o) \in c .. c + n - 1 PROVE FALSE
            <4>1. Controller(desc, o) = Controller(desc, at)
                BY <3>1 DEF Section
            <4>2. Cell(o) - c = o - at
                BY <2>1, <4>1, SameController
            <4> QED
                BY <1>1, <2>1, <2>3, <3>1, <4>2 DEF Cells
        <3> QED
            BY <1>3, <2>1, <2>3, <3>1 DEF Own
    <2> QED
        BY <2>2, <2>3
<1>7. ASSUME NEW s \in Sections, NEW i \in Cells, flash'[s][i] # flash[s][i]
      PROVE  \E o \in at .. at + n - 1 : s = Section(desc, o) /\ i = Cell(o) /\ flash'[s][i] = new[o]
    <2>1. s = here /\ i \in c .. c + n - 1 /\ flash'[s][i] = new[at + i - c]
        BY <1>3, <1>7
    <2> DEFINE o == at + i - c
    <2>2. o \in at .. at + n - 1
        BY <1>4, <2>1
    <2>3. Cell(o) = i
        BY <1>1, <1>2, <2>1, <2>2 DEF Cells
    <2>4. s = Section(desc, o) /\ flash'[s][i] = new[o]
        BY <1>2, <2>1, <2>2 DEF Section
    <2> QED
        BY <2>2, <2>3, <2>4
<1> QED
    BY <1>5, <1>6, <1>7 DEF Wrote

-----------------------------------------------------------------------------
(* One page, one block.                                                    *)

LEMMA SelectedPart ==
    ASSUME TypeOK, desc \in Areas, NEW at \in Nat, at < SizeOf(desc)
    PROVE  LET c == Controller(desc, at) IN
           /\ <<c, Selected(c)[c]>> = Section(desc, at)
           /\ Selected(c) \in [Controllers -> Parts]
<1>1. Controller(desc, at) \in Controllers /\ Part(desc) \in Parts
    BY ControllerTyped, Sizes
<1> QED
    BY <1>1 DEF TypeOK, Selected, Section

\* What is in the section of a page or a block, as the driver reads it.
LEMMA OldTyped ==
    ASSUME TypeOK, desc \in Areas, NEW n \in {PageSize, BlockSize},
           NEW at \in Nat, at % n = 0, at < SizeOf(desc)
    PROVE  /\ [o \in at .. at + n - 1 |-> flash[Section(desc, at)][Cell(o)]] \in [at .. at + n - 1 -> Byte]
           /\ \A o \in at .. at + n - 1 : Section(desc, o) = Section(desc, at)
<1>1. n \in Nat /\ SizeOf(desc) \in Nat /\ at + n <= SizeOf(desc)
    BY Sizes, InPlace
<1>2. ASSUME NEW o \in at .. at + n - 1
      PROVE  Section(desc, o) = Section(desc, at) /\ flash[Section(desc, at)][Cell(o)] \in Byte
    <2>1. Controller(desc, o) = Controller(desc, at)
        BY InPlace
    <2>2. o \in Nat /\ o < SizeOf(desc)
        BY <1>1
    <2>3. Section(desc, o) \in Sections /\ Cell(o) \in Cells
        BY <2>2, ControllerTyped
    <2> QED
        BY <2>1, <2>3 DEF Section, TypeOK, Content
<1> QED
    BY <1>2

LEMMA PageStep ==
    ASSUME TypeOK, desc \in Areas, NEW at \in Nat, at % PageSize = 0, at < SizeOf(desc),
           NEW size, FlashPage(at, size)
    PROVE  /\ flash' \in Content /\ selected' \in [Controllers -> Parts]
           /\ \A s \in Sections, i \in Cells :
                 \/ Kept(s, i)
                 \/ \E o \in Page(at) :
                       s = Section(desc, o) /\ i = Cell(o) /\ flash'[s][i] \subseteq flash[s][i]
           /\ \A o \in 0 .. SizeOf(desc) - 1 :
                 \/ flash'[Section(desc, o)][Cell(o)] = Own(desc, o)
                 \/ /\ o \in Page(at) /\ PageData(at)[o] \subseteq flash'[Section(desc, o)][Cell(o)]
                    /\ flash'[Section(desc, o)][Cell(o)] \subseteq Own(desc, o)
           /\ \/ Return("ERROR") /\ offset' = offset
              \/ /\ offset' = offset + size /\ pc' = "pages" /\ result' = result
                 /\ \A o \in 0 .. SizeOf(desc) - 1 :
                       flash'[Section(desc, o)][Cell(o)] =
                           IF o \in Page(at) THEN PageData(at)[o] ELSE Own(desc, o)
<1> DEFINE section == Section(desc, at)
           old == [o \in Page(at) |-> flash[section][Cell(o)]]
           data == PageData(at)
<1>1. /\ section = <<Controller(desc, at), Selected(Controller(desc, at))[Controller(desc, at)]>>
      /\ Selected(Controller(desc, at)) \in [Controllers -> Parts]
    BY SelectedPart
<1>2. /\ selected' = Selected(Controller(desc, at))
      /\ \E new \in Programs(old, data) :
            /\ flash' = Put(section, at, PageSize, new)
            /\ IF new = data
               THEN offset' = offset + size /\ pc' = "pages" /\ result' = result
               ELSE Return("ERROR") /\ offset' = offset
    BY <1>1 DEF FlashPage
<1>3. PICK new \in Programs(old, data) :
         /\ flash' = Put(section, at, PageSize, new)
         /\ IF new = data
            THEN offset' = offset + size /\ pc' = "pages" /\ result' = result
            ELSE Return("ERROR") /\ offset' = offset
    BY <1>2
<1>4. old \in [Page(at) -> Byte] /\ \A o \in Page(at) : Section(desc, o) = section
    BY OldTyped DEF Page
<1>5. /\ new \in [Page(at) -> Byte] /\ \A o \in Page(at) : new[o] \subseteq old[o]
      /\ new = old \/ \A o \in Page(at) : data[o] \subseteq new[o]
    <2>1. DOMAIN data = Page(at)
        BY DEF PageData
    <2> HIDE DEF old, data
    <2> QED
        BY <1>3, <1>4, <2>1 DEF Programs
<1>6. /\ flash' \in Content
      /\ \A o \in 0 .. SizeOf(desc) - 1 :
            flash'[Section(desc, o)][Cell(o)] = IF o \in Page(at) THEN new[o] ELSE Own(desc, o)
      /\ \A s \in Sections, i \in Cells :
            \/ flash'[s][i] = flash[s][i]
            \/ \E o \in Page(at) : s = Section(desc, o) /\ i = Cell(o) /\ flash'[s][i] = new[o]
    <2>1. new \in [at .. at + PageSize - 1 -> Byte] /\ PageSize \in {PageSize, BlockSize}
        BY <1>5 DEF Page
    <2>2. flash' = Put(Section(desc, at), at, PageSize, new)
        BY <1>3
    <2>3. Wrote(at, PageSize, new)
        BY <2>1, <2>2, PutOwn
    <2> QED
        BY <2>3 DEF Page, Wrote
<1>7. ASSUME NEW s \in Sections, NEW i \in Cells
      PROVE  \/ Kept(s, i)
             \/ \E o \in Page(at) : s = Section(desc, o) /\ i = Cell(o) /\ flash'[s][i] \subseteq flash[s][i]
    <2>1. CASE flash'[s][i] = flash[s][i]
        BY <2>1 DEF Kept
    <2>2. CASE \E o \in Page(at) : s = Section(desc, o) /\ i = Cell(o) /\ flash'[s][i] = new[o]
        BY <1>4, <1>5, <2>2
    <2> QED
        BY <1>6, <2>1, <2>2
<1>8. ASSUME NEW o \in 0 .. SizeOf(desc) - 1
      PROVE  LET now == flash'[Section(desc, o)][Cell(o)] IN
             \/ now = Own(desc, o)
             \/ o \in Page(at) /\ data[o] \subseteq now /\ now \subseteq Own(desc, o)
    <2>1. CASE o \notin Page(at)
        BY <1>6, <2>1
    <2>2. CASE o \in Page(at)
        <3>1. flash'[Section(desc, o)][Cell(o)] = new[o]
            BY <1>6, <2>2
        <3>2. old[o] = Own(desc, o)
            BY <1>4, <2>2 DEF Own
        <3> HIDE DEF old, data, section
        <3> QED
            BY <1>5, <2>2, <3>1, <3>2
    <2> QED
        BY <2>1, <2>2
<1> HIDE DEF old, data, section
<1> QED
    BY <1>1, <1>2, <1>3, <1>6, <1>7, <1>8 DEF data

LEMMA BlockStep ==
    ASSUME TypeOK, desc \in Areas, NEW at \in Nat, at % BlockSize = 0, at < SizeOf(desc),
           EraseBlock(at)
    PROVE  /\ flash' \in Content /\ selected' \in [Controllers -> Parts]
           /\ \A s \in Sections, i \in Cells :
                 Kept(s, i) \/ \E o \in Block(at) : s = Section(desc, o) /\ i = Cell(o)
           /\ \/ Return("ERROR") /\ offset' = offset
              \/ /\ offset' = offset + BlockSize
                 /\ IF offset' < req.end THEN UNCHANGED <<pc, result>> ELSE Return("OK")
                 /\ \A o \in 0 .. SizeOf(desc) - 1 :
                       flash'[Section(desc, o)][Cell(o)] =
                           IF o \in Block(at) THEN Blank ELSE Own(desc, o)
<1> DEFINE section == Section(desc, at)
           old == [o \in Block(at) |-> flash[section][Cell(o)]]
           ending == IF offset' < req.end THEN UNCHANGED <<pc, result>> ELSE Return("OK")
<1>1. /\ section = <<Controller(desc, at), Selected(Controller(desc, at))[Controller(desc, at)]>>
      /\ Selected(Controller(desc, at)) \in [Controllers -> Parts]
    BY SelectedPart
<1>2. /\ selected' = Selected(Controller(desc, at))
      /\ \E new \in Erases(old) :
            /\ flash' = Put(section, at, BlockSize, new)
            /\ IF \E o \in Block(at) : new[o] # Blank
               THEN Return("ERROR") /\ offset' = offset
               ELSE offset' = offset + BlockSize /\ ending
    BY <1>1 DEF EraseBlock
<1>3. PICK new \in Erases(old) :
         /\ flash' = Put(section, at, BlockSize, new)
         /\ IF \E o \in Block(at) : new[o] # Blank
            THEN Return("ERROR") /\ offset' = offset
            ELSE offset' = offset + BlockSize /\ ending
    BY <1>2
<1>4. new \in [Block(at) -> Byte]
    BY <1>3 DEF Erases
<1>5. /\ flash' \in Content
      /\ \A o \in 0 .. SizeOf(desc) - 1 :
            flash'[Section(desc, o)][Cell(o)] = IF o \in Block(at) THEN new[o] ELSE Own(desc, o)
      /\ \A s \in Sections, i \in Cells :
            \/ flash'[s][i] = flash[s][i]
            \/ \E o \in Block(at) : s = Section(desc, o) /\ i = Cell(o) /\ flash'[s][i] = new[o]
    <2>1. new \in [at .. at + BlockSize - 1 -> Byte] /\ BlockSize \in {PageSize, BlockSize}
        BY <1>4 DEF Block
    <2>2. flash' = Put(Section(desc, at), at, BlockSize, new)
        BY <1>3
    <2>3. Wrote(at, BlockSize, new)
        BY <2>1, <2>2, PutOwn
    <2> QED
        BY <2>3 DEF Block, Wrote
<1>6. \A s \in Sections, i \in Cells :
         Kept(s, i) \/ \E o \in Block(at) : s = Section(desc, o) /\ i = Cell(o)
    BY <1>5 DEF Kept
<1> HIDE DEF old, section, ending
<1>7. CASE \E o \in Block(at) : new[o] # Blank
    BY <1>1, <1>2, <1>3, <1>5, <1>6, <1>7
<1>8. CASE \A o \in Block(at) : new[o] = Blank
    BY <1>1, <1>2, <1>3, <1>5, <1>6, <1>8 DEF ending
<1> QED
    BY <1>7, <1>8

-----------------------------------------------------------------------------
(* The inductive invariant: a loop runs over a range inside the area of    *)
(* the description, and what lies before its offset is done.               *)

Inside ==
    /\ desc \in Areas
    /\ req.start \in Nat /\ req.end \in Nat /\ req.start < req.end /\ req.end <= SizeOf(desc)
    /\ req.start <= offset /\ offset <= req.end

Progress ==
    /\ pc \in {"first", "pages", "erase"} => Inside
    /\ pc = "first" => req.mode = "Flash" /\ offset = req.start
    /\ pc = "pages" =>
          /\ req.mode = "Flash"
          /\ offset = req.end \/ offset % PageSize = 0
          /\ \A o \in req.start .. offset - 1 : Own(desc, o) = ram[o - req.start]
    /\ pc = "erase" =>
          /\ req.mode = "Erase"
          /\ offset < req.end /\ offset % BlockSize = 0 /\ req.end % BlockSize = 0
          /\ \A o \in req.start .. offset - 1 : Own(desc, o) = Blank

IInv == TypeOK /\ Progress /\ FlashOkIsWritten /\ EraseOkIsBlank

\* A request other than a detection carries a range of numbers.
LEMMA RangeOfRequest ==
    ASSUME NEW r \in Requests, r.mode # "Detect"
    PROVE  r.start \in Nat /\ r.end \in Nat
    BY HostAssumption DEF Requests

LEMMA InitKeeps ==
    ASSUME Init
    PROVE  IInv
<1>1. TypeOK
    BY HostAssumption DEF Init, TypeOK, Controllers, Parts
<1> QED
    BY <1>1 DEF Init, IInv, Progress, FlashOkIsWritten, EraseOkIsBlank, Returned

\* A step that neither ends a Flash or an Erase call well nor works on the flash.
LEMMA Aside ==
    ASSUME IInv, TypeOK', pc' \in {"idle", "run"},
           ~(pc' = "idle" /\ result' = "OK" /\ req'.mode \in {"Flash", "Erase"})
    PROVE  IInv'
    BY DEF IInv, Progress, FlashOkIsWritten, EraseOkIsBlank, Returned

LEMMA CallKeeps ==
    ASSUME IInv, Call
    PROVE  IInv'
<1>1. ram' \in Buffer
    BY HostAssumption DEF Call, IInv, TypeOK
<1>2. TypeOK'
    BY <1>1, HostAssumption DEF Call, IInv, TypeOK
<1> QED
    BY <1>2, Aside DEF Call

LEMMA DetectKeeps ==
    ASSUME IInv, Detect
    PROVE  IInv'
<1>1. TypeOK'
    BY DEF Detect, IInv, TypeOK, Return
<1> QED
    BY <1>1, Aside DEF Detect, Return

LEMMA NotDetectedKeeps ==
    ASSUME IInv, NotDetected
    PROVE  IInv'
<1>1. TypeOK'
    BY DEF NotDetected, IInv, TypeOK, Return
<1> QED
    BY <1>1, Aside DEF NotDetected, Return

\* An empty range has no byte that could be wrong.
LEMMA NothingKeeps ==
    ASSUME IInv, Nothing
    PROVE  IInv'
<1>1. TypeOK' /\ pc' = "idle" /\ req' = req /\ req.mode # "Detect"
    BY DEF Nothing, IInv, TypeOK, Return, Stay
<1>2. CASE Empty
    <2>1. Span(req)' = {}
        BY <1>1, <1>2, RangeOfRequest DEF IInv, TypeOK, Span, Empty
    <2> QED
        BY <1>1, <2>1 DEF IInv, Progress, FlashOkIsWritten, EraseOkIsBlank
<1>3. CASE ~Empty
    BY <1>1, <1>3, Aside DEF Nothing, Return
<1> QED
    BY <1>2, <1>3

\* The range that the loops of Flash and Erase go over.
LEMMA SomethingInside ==
    ASSUME IInv, NEW mode \in {"Flash", "Erase"}, Something(mode)
    PROVE  /\ desc \in Areas /\ req.mode = mode
           /\ req.start \in Nat /\ req.end \in Nat /\ req.start < req.end /\ req.end <= SizeOf(desc)
<1>1. desc \in Areas /\ req.mode = mode /\ req.start \in Nat /\ req.end \in Nat
    BY RangeOfRequest DEF Something, Running, IInv, TypeOK
<1>2. SizeOf(desc) \in Nat
    BY <1>1, Sizes
<1> QED
    BY <1>1, <1>2 DEF Something, Empty, InCommandArea

LEMMA FlashKeeps ==
    ASSUME IInv, Flash
    PROVE  IInv'
<1>1. /\ desc \in Areas /\ req.mode = "Flash"
      /\ req.start \in Nat /\ req.end \in Nat /\ req.start < req.end /\ req.end <= SizeOf(desc)
    BY SomethingInside DEF Flash
<1>2. /\ offset' = req.start /\ UNCHANGED <<flash, selected, ram, result, message, area, desc, req, calls>>
      /\ pc' \in {"first", "pages"} /\ (pc' = "pages" => req.start % PageSize = 0)
    BY DEF Flash, Stay
<1>3. TypeOK'
    BY <1>1, <1>2 DEF IInv, TypeOK
<1>4. Progress'
    BY <1>1, <1>2 DEF Progress, Inside, Own
<1> QED
    BY <1>2, <1>3, <1>4 DEF IInv, FlashOkIsWritten, EraseOkIsBlank, Returned

\* A page is written: what comes before the new offset is the host's data.
LEMMA PageKeeps ==
    ASSUME IInv, pc \in {"first", "pages"}, offset < req.end,
           NEW at \in Nat, at % PageSize = 0, at <= offset,
           NEW size \in Nat, offset + size <= req.end, offset + size <= at + PageSize,
           offset + size = req.end \/ (offset + size) % PageSize = 0,
           at = offset \/ offset = req.start,
           FlashPage(at, size), Stay, UNCHANGED <<ram, message, area>>
    PROVE  IInv'
<1>1. Inside /\ req.mode = "Flash" /\ offset \in Nat /\ TypeOK
    BY DEF IInv, Progress, TypeOK
<1>2. at < SizeOf(desc) /\ SizeOf(desc) \in Nat /\ PageSize \in Nat
    BY <1>1, Sizes, SizeAssumption DEF Inside
<1>3. /\ flash' \in Content /\ selected' \in [Controllers -> Parts]
      /\ \/ Return("ERROR") /\ offset' = offset
         \/ /\ offset' = offset + size /\ pc' = "pages" /\ result' = result
            /\ \A o \in 0 .. SizeOf(desc) - 1 :
                  flash'[Section(desc, o)][Cell(o)] =
                      IF o \in Page(at) THEN PageData(at)[o] ELSE Own(desc, o)
    BY <1>1, <1>2, PageStep DEF Inside
<1>4. desc' = desc /\ req' = req /\ ram' = ram
    BY DEF Stay
<1>5. CASE Return("ERROR") /\ offset' = offset
    <2>1. TypeOK'
        BY <1>1, <1>3, <1>5 DEF TypeOK, Return, Stay
    <2> QED
        BY <2>1, <1>5, Aside DEF Return
<1>6. CASE /\ offset' = offset + size /\ pc' = "pages" /\ result' = result
           /\ \A o \in 0 .. SizeOf(desc) - 1 :
                 flash'[Section(desc, o)][Cell(o)] =
                     IF o \in Page(at) THEN PageData(at)[o] ELSE Own(desc, o)
    <2>1. TypeOK'
        BY <1>1, <1>3, <1>6 DEF TypeOK, Stay
    <2>2. ASSUME NEW o \in req.start .. offset' - 1
          PROVE  flash'[Section(desc, o)][Cell(o)] = ram[o - req.start]
        <3>1. o \in 0 .. SizeOf(desc) - 1 /\ o \in Span(req)
            BY <1>1, <1>2, <1>6 DEF Inside, Span
        <3>2. CASE o \in Page(at)
            BY <1>6, <3>1, <3>2 DEF PageData
        <3>3. CASE o \notin Page(at)
            <4>1. o \in req.start .. offset - 1 /\ pc = "pages"
                BY <1>1, <1>2, <1>6, <3>3 DEF Inside, Page, IInv, Progress
            <4> QED
                BY <1>6, <3>1, <3>3, <4>1 DEF IInv, Progress
        <3> QED
            BY <3>2, <3>3
    <2>3. Progress'
        BY <1>1, <1>4, <1>6, <2>2 DEF Progress, Inside, Own
    <2> QED
        BY <1>6, <2>1, <2>3 DEF IInv, FlashOkIsWritten, EraseOkIsBlank, Returned
<1> QED
    BY <1>3, <1>5, <1>6

LEMMA FlashFirstKeeps ==
    ASSUME IInv, FlashFirst
    PROVE  IInv'
<1>1. Inside /\ offset = req.start /\ offset \in Nat /\ PageSize \in Nat \ {0} /\ pc = "first"
    BY SizeAssumption DEF FlashFirst, IInv, Progress, TypeOK
<1>2. PICK at, rest, size : at = PageStart(offset) /\ rest = offset % PageSize
                             /\ size = Least(PageSize - rest, req.end - offset)
    OBVIOUS
<1>3. /\ at \in Nat /\ at <= offset /\ offset < at + PageSize /\ at % PageSize = 0
      /\ rest \in 0 .. PageSize - 1 /\ offset = at + rest
    <2>1. at = offset - (offset % PageSize)
        BY <1>2 DEF PageStart
    <2>2. at \in Nat /\ at <= offset /\ offset < at + PageSize /\ at % PageSize = 0
        BY <1>1, <2>1, BlockStart
    <2>3. rest \in 0 .. PageSize - 1
        BY <1>1, <1>2, Division
    <2>4. at = offset - rest
        BY <1>2, <2>1
    <2> QED
        BY <1>1, <2>2, <2>3, <2>4
<1>4. (at + PageSize) % PageSize = 0
    BY <1>1, <1>3, NextBorder
<1>5. offset < req.end /\ req.end \in Nat
    BY <1>1 DEF Inside
<1>6. /\ size \in Nat /\ offset + size <= req.end /\ offset + size <= at + PageSize
      /\ offset + size = req.end \/ offset + size = at + PageSize
    BY <1>1, <1>2, <1>3, <1>5 DEF Least
<1>7. FlashPage(at, size) /\ Stay /\ UNCHANGED <<ram, message, area>>
    BY <1>2 DEF FlashFirst
<1> QED
    BY <1>1, <1>3, <1>4, <1>5, <1>6, <1>7, PageKeeps

LEMMA FlashCompleteKeeps ==
    ASSUME IInv, FlashComplete
    PROVE  IInv'
<1>1. Inside /\ offset \in Nat /\ PageSize \in Nat \ {0} /\ pc = "pages" /\ offset + PageSize <= req.end
    BY SizeAssumption DEF FlashComplete, IInv, Progress, TypeOK
<1>2. offset % PageSize = 0 /\ offset < req.end
    BY <1>1 DEF Inside, IInv, Progress
<1>3. (offset + PageSize) % PageSize = 0
    BY <1>1, <1>2, NextBorder
<1>4. FlashPage(offset, PageSize) /\ Stay /\ UNCHANGED <<ram, message, area>>
    BY DEF FlashComplete
<1> QED
    BY <1>1, <1>2, <1>3, <1>4, PageKeeps

LEMMA FlashLastKeeps ==
    ASSUME IInv, FlashLast
    PROVE  IInv'
<1>1. Inside /\ offset \in Nat /\ PageSize \in Nat \ {0} /\ pc = "pages"
    BY SizeAssumption DEF FlashLast, IInv, Progress, TypeOK
<1>2. PICK size : size = req.end - offset
    OBVIOUS
<1>3. /\ offset % PageSize = 0 /\ offset < req.end /\ size \in Nat
      /\ offset + size = req.end /\ offset + size <= offset + PageSize
    BY <1>1, <1>2 DEF FlashLast, Inside, IInv, Progress
<1>4. FlashPage(offset, size) /\ Stay /\ UNCHANGED <<ram, message, area>>
    BY <1>2 DEF FlashLast
<1> QED
    BY <1>1, <1>3, <1>4, PageKeeps

\* The loop is through: what came before its offset is the whole range.
LEMMA FlashDoneKeeps ==
    ASSUME IInv, FlashDone
    PROVE  IInv'
<1>1. /\ pc = "pages" /\ offset = req.end /\ pc' = "idle" /\ result' = "OK"
      /\ UNCHANGED <<flash, selected, ram, offset, message, area, desc, req, calls>>
    BY DEF FlashDone, Return, Stay
<1>2. TypeOK'
    BY <1>1 DEF IInv, TypeOK
<1>3. req.mode = "Flash" /\ \A o \in Span(req) : Own(desc, o) = ram[o - req.start]
    BY <1>1 DEF IInv, Progress, Span
<1>4. FlashOkIsWritten'
    BY <1>1, <1>3 DEF FlashOkIsWritten, Own, Span
<1> QED
    BY <1>1, <1>2, <1>3, <1>4 DEF IInv, Progress, EraseOkIsBlank, Returned

LEMMA EraseEntryKeeps ==
    ASSUME IInv, Erase
    PROVE  IInv'
<1>1. /\ desc \in Areas /\ req.mode = "Erase"
      /\ req.start \in Nat /\ req.end \in Nat /\ req.start < req.end /\ req.end <= SizeOf(desc)
    BY SomethingInside DEF Erase
<1>2. UNCHANGED <<flash, selected, ram, message, area, desc, req, calls>>
    BY DEF Erase, Stay
<1>3. CASE Return("ERROR") /\ offset' = offset
    <2>1. TypeOK'
        BY <1>2, <1>3 DEF IInv, TypeOK, Return
    <2> QED
        BY <1>3, <2>1, Aside DEF Return
<1>4. CASE /\ offset' = req.start /\ pc' = "erase" /\ result' = result
           /\ req.start % BlockSize = 0 /\ req.end % BlockSize = 0
    <2>1. TypeOK'
        BY <1>1, <1>2, <1>4 DEF IInv, TypeOK
    <2>2. Progress'
        BY <1>1, <1>2, <1>4 DEF Progress, Inside
    <2> QED
        BY <1>4, <2>1, <2>2 DEF IInv, FlashOkIsWritten, EraseOkIsBlank, Returned
<1> QED
    BY <1>3, <1>4 DEF Erase

\* A block is erased: what comes before the new offset is blank, and the loop ends
\* at the end of the range.
LEMMA EraseNextKeeps ==
    ASSUME IInv, EraseNext
    PROVE  IInv'
<1>1. /\ Inside /\ req.mode = "Erase" /\ offset \in Nat /\ TypeOK /\ pc = "erase"
      /\ offset < req.end /\ offset % BlockSize = 0 /\ req.end % BlockSize = 0
      /\ \A o \in req.start .. offset - 1 : Own(desc, o) = Blank
    BY DEF EraseNext, IInv, Progress, TypeOK
<1>2. offset < SizeOf(desc) /\ SizeOf(desc) \in Nat /\ BlockSize \in Nat \ {0}
    BY <1>1, Sizes, SizeAssumption DEF Inside
<1>3. offset + BlockSize <= req.end /\ (offset + BlockSize) % BlockSize = 0
    BY <1>1, <1>2, BordersApart, NextBorder DEF Inside
<1>4. UNCHANGED <<ram, message, area, desc, req, calls>>
    BY DEF EraseNext, Stay
<1>5. /\ flash' \in Content /\ selected' \in [Controllers -> Parts]
      /\ \/ Return("ERROR") /\ offset' = offset
         \/ /\ offset' = offset + BlockSize
            /\ IF offset' < req.end THEN UNCHANGED <<pc, result>> ELSE Return("OK")
            /\ \A o \in 0 .. SizeOf(desc) - 1 :
                  flash'[Section(desc, o)][Cell(o)] =
                      IF o \in Block(offset) THEN Blank ELSE Own(desc, o)
    BY <1>1, <1>2, BlockStep DEF EraseNext, Inside
<1>6. CASE Return("ERROR") /\ offset' = offset
    <2>1. TypeOK'
        BY <1>1, <1>4, <1>5, <1>6 DEF TypeOK, Return
    <2> QED
        BY <1>6, <2>1, Aside DEF Return
<1>7. CASE /\ offset' = offset + BlockSize
           /\ IF offset' < req.end THEN UNCHANGED <<pc, result>> ELSE Return("OK")
           /\ \A o \in 0 .. SizeOf(desc) - 1 :
                 flash'[Section(desc, o)][Cell(o)] =
                     IF o \in Block(offset) THEN Blank ELSE Own(desc, o)
    <2>1. offset' \in Nat /\ offset' <= req.end /\ req.end \in Nat /\ req.start \in Nat
        BY <1>1, <1>2, <1>3, <1>7 DEF Inside
    <2>2. TypeOK'
        BY <1>1, <1>4, <1>5, <1>7, <2>1 DEF TypeOK, Return
    <2>3. ASSUME NEW o \in req.start .. offset' - 1
          PROVE  flash'[Section(desc, o)][Cell(o)] = Blank
        <3>1. o \in 0 .. SizeOf(desc) - 1 /\ (o \in Block(offset) \/ o \in req.start .. offset - 1)
            BY <1>1, <1>2, <1>7, <2>1 DEF Inside, Block
        <3> QED
            BY <1>1, <1>7, <3>1
    <2>4. CASE offset' < req.end
        <3>1. Inside' /\ offset' % BlockSize = 0 /\ pc' = "erase" /\ req' = req /\ desc' = desc
            BY <1>1, <1>2, <1>3, <1>4, <1>7, <2>1, <2>4 DEF Inside
        <3>2. \A o \in req'.start .. offset' - 1 : Own(desc, o)' = Blank
            BY <2>3, <3>1 DEF Own
        <3>3. Progress'
            BY <1>1, <2>4, <3>1, <3>2 DEF Progress
        <3> QED
            BY <1>1, <2>2, <3>1, <3>3 DEF IInv, FlashOkIsWritten, EraseOkIsBlank, Returned
    <2>5. CASE ~(offset' < req.end)
        <3>1. pc' = "idle" /\ offset' = req.end
            BY <1>7, <2>1, <2>5 DEF Return
        <3>2. EraseOkIsBlank'
            BY <1>4, <2>3, <3>1 DEF EraseOkIsBlank, Own, Span
        <3> QED
            BY <1>1, <1>4, <2>2, <3>1, <3>2 DEF IInv, Progress, FlashOkIsWritten, Returned
    <2> QED
        BY <2>4, <2>5
<1> QED
    BY <1>5, <1>6, <1>7

\* Reading fills the host's buffer with bytes of the section the call has selected.
LEMMA ReadKeeps ==
    ASSUME IInv, Read
    PROVE  IInv'
<1>1. /\ desc \in Areas /\ req.mode = "Read" /\ req.start \in Nat /\ req.end \in Nat
      /\ req.start < req.end /\ req.end <= SizeOf(desc) /\ SizeOf(desc) \in Nat
    <2>1. desc \in Areas /\ req.mode = "Read" /\ req.start \in Nat /\ req.end \in Nat
        BY RangeOfRequest DEF Read, Something, Running, IInv, TypeOK
    <2>2. SizeOf(desc) \in Nat
        BY <2>1, Sizes
    <2> QED
        BY <2>1, <2>2 DEF Read, Something, Empty, InCommandArea
<1>2. selected' = Selected(Controller(desc, req.start)) /\ flash \in Content
    BY DEF Read, Looks, IInv, TypeOK
<1>3. selected' \in [Controllers -> Parts]
    BY <1>1, <1>2, SelectedPart DEF IInv
<1>4. ASSUME NEW o \in Nat, o < req.end
      PROVE  SeenNow(o) \in Byte
    <2>1. o < SizeOf(desc)
        BY <1>1, <1>4
    <2>2. Controller(desc, o) \in Controllers /\ Cell(o) \in Cells
        BY <1>1, <2>1, ControllerTyped
    <2>3. <<Controller(desc, o), selected'[Controller(desc, o)]>> \in Sections
        BY <1>3, <2>2 DEF Sections
    <2> QED
        BY <1>2, <2>2, <2>3 DEF SeenNow, Content
<1>5. ram' \in Buffer
    <2>1. ram \in Buffer /\ DOMAIN ram = 0 .. 2 * MainSize - 1
        BY DEF IInv, TypeOK, Buffer
    <2>2. ASSUME NEW i \in 0 .. 2 * MainSize - 1
          PROVE  (IF req.start + i < req.end THEN SeenNow(req.start + i) ELSE ram[i]) \in Byte
        <3>1. req.start + i \in Nat /\ ram[i] \in Byte
            BY <1>1, <2>1 DEF Buffer
        <3> QED
            BY <1>4, <3>1
    <2>3. ram' = [i \in 0 .. 2 * MainSize - 1 |->
                     IF req.start + i < req.end THEN SeenNow(req.start + i) ELSE ram[i]]
        BY <2>1 DEF Read
    <2> QED
        BY <2>2, <2>3 DEF Buffer
<1>6. TypeOK'
    BY <1>3, <1>5 DEF Read, Return, Stay, IInv, TypeOK
<1> QED
    BY <1>1, <1>6, Aside DEF Read, Return, Stay

\* The calls that only look: what they select, and that they are no Flash or Erase.
LEMMA LooksTyped ==
    ASSUME IInv, NEW mode \in {"Verify", "IsErased"}, Something(mode), Looks(req)
    PROVE  selected' \in [Controllers -> Parts] /\ req.mode = mode
<1>1. desc \in Areas /\ req.mode = mode /\ req.start \in Nat /\ req.end \in Nat
    BY RangeOfRequest DEF Something, Running, IInv, TypeOK
<1>2. SizeOf(desc) \in Nat
    BY <1>1, Sizes
<1>3. req.start < SizeOf(desc)
    BY <1>1, <1>2 DEF Something, Empty, InCommandArea
<1> QED
    BY <1>1, <1>3, SelectedPart DEF Looks, IInv

LEMMA VerifyKeeps ==
    ASSUME IInv, Verify
    PROVE  IInv'
<1>1. selected' \in [Controllers -> Parts] /\ req.mode = "Verify"
    BY LooksTyped DEF Verify
<1>2. result' \in {"OK", "ERROR"} /\ message' = result' /\ pc' = "idle"
    BY DEF Verify, Return
<1>3. TypeOK'
    BY <1>1, <1>2 DEF Verify, Stay, IInv, TypeOK
<1> QED
    BY <1>1, <1>2, <1>3, Aside DEF Verify, Stay

LEMMA IsErasedKeeps ==
    ASSUME IInv, IsErased
    PROVE  IInv'
<1>1. selected' \in [Controllers -> Parts] /\ req.mode = "IsErased"
    BY LooksTyped DEF IsErased
<1>2. result' = "OK" /\ message' \in {"blank", "dirty"} /\ pc' = "idle"
    BY DEF IsErased, Return
<1>3. TypeOK'
    BY <1>1, <1>2 DEF IsErased, Stay, IInv, TypeOK
<1> QED
    BY <1>1, <1>2, <1>3, Aside DEF IsErased, Stay

LEMMA ChecksumKeeps ==
    ASSUME IInv, Checksum
    PROVE  IInv'
<1>1. TypeOK'
    BY DEF Checksum, Return, Stay, IInv, TypeOK
<1> QED
    BY <1>1, Aside DEF Checksum, Return

LEMMA GetEraseAreaKeeps ==
    ASSUME IInv, GetEraseArea
    PROVE  IInv'
<1>1. req.start \in Nat /\ req.end \in Nat /\ req.mode = "GetEraseArea" /\ BlockSize \in Nat \ {0}
    BY RangeOfRequest, SizeAssumption DEF GetEraseArea, Running, IInv, TypeOK
<1>2. req.end + BlockSize - 1 \in Nat
    BY <1>1
<1>3. req.start \div BlockSize \in Nat /\ (req.end + BlockSize - 1) \div BlockSize \in Nat
    BY <1>1, <1>2, Division
<1>4. \A q \in Nat : q * BlockSize \in Nat
    BY <1>1, SMT
<1>5. area' \in Nat \X Nat /\ result' \in {"OK", "ERROR"} /\ pc' = "idle"
    BY <1>3, <1>4 DEF GetEraseArea, Return, IInv, TypeOK
<1>6. TypeOK'
    BY <1>5 DEF GetEraseArea, Stay, IInv, TypeOK
<1> QED
    BY <1>1, <1>5, <1>6, Aside DEF GetEraseArea, Stay

LEMMA ResetKeeps ==
    ASSUME IInv, Reset
    PROVE  IInv'
<1>1. TypeOK'
    BY DEF Reset, IInv, TypeOK, Parts
<1> QED
    BY <1>1, Aside DEF Reset

-----------------------------------------------------------------------------
(* The theorems.                                                           *)

\* How far the loops have come, and what a good return means, in every state.
THEOREM Invariance == Spec => []IInv
<1>1. Init => IInv
    BY InitKeeps
<1>2. IInv /\ [Next]_vars => IInv'
    <2> SUFFICES ASSUME IInv, [Next]_vars
                 PROVE  IInv'
        OBVIOUS
    <2>1. CASE Call
        BY <2>1, CallKeeps
    <2>2. CASE Detect
        BY <2>2, DetectKeeps
    <2>3. CASE NotDetected
        BY <2>3, NotDetectedKeeps
    <2>4. CASE Nothing
        BY <2>4, NothingKeeps
    <2>5. CASE Flash
        BY <2>5, FlashKeeps
    <2>6. CASE FlashFirst
        BY <2>6, FlashFirstKeeps
    <2>7. CASE FlashComplete
        BY <2>7, FlashCompleteKeeps
    <2>8. CASE FlashLast
        BY <2>8, FlashLastKeeps
    <2>9. CASE FlashDone
        BY <2>9, FlashDoneKeeps
    <2>10. CASE Erase
        BY <2>10, EraseEntryKeeps
    <2>11. CASE EraseNext
        BY <2>11, EraseNextKeeps
    <2>12. CASE Read
        BY <2>12, ReadKeeps
    <2>13. CASE Verify
        BY <2>13, VerifyKeeps
    <2>14. CASE IsErased
        BY <2>14, IsErasedKeeps
    <2>15. CASE Checksum
        BY <2>15, ChecksumKeeps
    <2>16. CASE GetEraseArea
        BY <2>16, GetEraseAreaKeeps
    <2>17. CASE Reset
        BY <2>17, ResetKeeps
    <2>18. CASE UNCHANGED vars
        BY <2>18 DEF vars, IInv, TypeOK, Progress, Inside, FlashOkIsWritten, EraseOkIsBlank, Returned, Own
    <2> QED
        BY <2>1, <2>2, <2>3, <2>4, <2>5, <2>6, <2>7, <2>8, <2>9, <2>10, <2>11, <2>12, <2>13,
           <2>14, <2>15, <2>16, <2>17, <2>18 DEF Next, Step
<1> QED
    BY <1>1, <1>2, PTL DEF Spec

\* Every variable keeps its type: no offset leaves the area, no write leaves the array.
THEOREM TypeCorrect == Spec => []TypeOK
<1>1. IInv => TypeOK
    BY DEF IInv
<1> QED
    BY <1>1, Invariance, PTL

\* An OK of flash means that the area holds the host's data, whatever part other calls
\* had selected and whatever cells failed (internal_flash_maz_v0_flash).
THEOREM FlashReturnsOkIsWritten == Spec => []FlashOkIsWritten
<1>1. IInv => FlashOkIsWritten
    BY DEF IInv
<1> QED
    BY <1>1, Invariance, PTL

\* An OK of erase means that the range is blank (internal_flash_maz_v0_erase).
THEOREM EraseReturnsOkIsBlank == Spec => []EraseOkIsBlank
<1>1. IInv => EraseOkIsBlank
    BY DEF IInv
<1> QED
    BY <1>1, Invariance, PTL

\* What the runs check of the two (netx_consoleapp_main returns the result).
THEOREM ReturnsOkIsDone == Spec => []OkMeansDone
<1>1. FlashOkIsWritten /\ EraseOkIsBlank => OkMeansDone
    BY DEF OkMeansDone
<1> QED
    BY <1>1, FlashReturnsOkIsWritten, EraseReturnsOkIsBlank, PTL

-----------------------------------------------------------------------------
(* What a step may change.                                                 *)

Touched == IF req.mode = "Flash" THEN PagesOf(req) ELSE Span(req)

Confined ==
    /\ req.mode \in {"Flash", "Erase"}
    /\ \A s \in Sections, i \in Cells :
          \/ Kept(s, i)
          \/ \E o \in Touched :
                /\ s = Section(desc, o) /\ i = Cell(o)
                /\ req.mode = "Flash" => flash'[s][i] \subseteq flash[s][i]

\* A page that the loop of Flash comes to holds a byte of the range.
LEMMA PageConfined ==
    ASSUME IInv, pc \in {"first", "pages"}, offset < req.end,
           NEW at \in Nat, at % PageSize = 0, at <= offset, offset < at + PageSize,
           NEW size, FlashPage(at, size)
    PROVE  Confined
<1>1. Inside /\ req.mode = "Flash" /\ offset \in Nat /\ TypeOK
    BY DEF IInv, Progress, TypeOK
<1>2. at < SizeOf(desc) /\ SizeOf(desc) \in Nat /\ PageSize \in Nat \ {0}
    BY <1>1, Sizes, SizeAssumption DEF Inside
<1>3. at + PageSize <= SizeOf(desc)
    BY <1>1, <1>2, InPlace DEF Inside
<1>4. Page(at) \subseteq PagesOf(req)
    <2>1. ASSUME NEW o \in Page(at)
          PROVE  o \in 0 .. SizeOf(desc) - 1 /\ PageStart(o) = at
        <3>1. o \in Nat /\ at <= o /\ o < at + PageSize
            BY <1>2 DEF Page
        <3>2. o - (o % PageSize) = at
            BY <1>2, <3>1, SameBlock
        <3> QED
            BY <1>2, <1>3, <3>1, <3>2 DEF PageStart
    <2>2. at < req.end /\ at + PageSize > req.start
        BY <1>1, <1>2 DEF Inside
    <2> QED
        BY <2>1, <2>2 DEF PagesOf
<1>5. \A s \in Sections, i \in Cells :
         \/ Kept(s, i)
         \/ \E o \in Page(at) : s = Section(desc, o) /\ i = Cell(o) /\ flash'[s][i] \subseteq flash[s][i]
    BY <1>1, <1>2, PageStep DEF Inside
<1> QED
    BY <1>1, <1>4, <1>5 DEF Confined, Touched

LEMMA BlockConfined ==
    ASSUME IInv, EraseNext
    PROVE  Confined
<1>1. /\ Inside /\ req.mode = "Erase" /\ offset \in Nat /\ TypeOK
      /\ offset < req.end /\ offset % BlockSize = 0 /\ req.end % BlockSize = 0
    BY DEF EraseNext, IInv, Progress, TypeOK
<1>2. offset < SizeOf(desc) /\ SizeOf(desc) \in Nat /\ BlockSize \in Nat \ {0}
    BY <1>1, Sizes, SizeAssumption DEF Inside
<1>3. offset + BlockSize <= req.end
    BY <1>1, <1>2, BordersApart DEF Inside
<1>4. Block(offset) \subseteq Span(req)
    BY <1>1, <1>2, <1>3 DEF Inside, Block, Span
<1>5. \A s \in Sections, i \in Cells :
         Kept(s, i) \/ \E o \in Block(offset) : s = Section(desc, o) /\ i = Cell(o)
    BY <1>1, <1>2, BlockStep DEF EraseNext, Inside
<1> QED
    BY <1>1, <1>4, <1>5 DEF Confined, Touched

\* Only the steps that program a page or erase a block change the flash.
LEMMA ConfinedStep ==
    ASSUME IInv, Next, flash' # flash
    PROVE  Confined
<1>1. \/ FlashFirst \/ FlashComplete \/ FlashLast \/ EraseNext
    BY DEF Next, Step, Call, Detect, NotDetected, Nothing, Flash, FlashDone, Erase, Read, Verify,
           IsErased, Checksum, GetEraseArea, Reset
<1>2. pc \in {"first", "pages"} => Inside /\ offset \in Nat /\ PageSize \in Nat \ {0} /\ req.end \in Nat
    BY SizeAssumption DEF IInv, Progress, TypeOK, Inside
<1>3. CASE FlashFirst
    <2>1. PICK at, size : at = PageStart(offset) /\ FlashPage(at, size)
        BY <1>3 DEF FlashFirst
    <2>2. Inside /\ offset \in Nat /\ PageSize \in Nat \ {0} /\ pc = "first" /\ offset = req.start
        BY <1>2, <1>3 DEF FlashFirst, IInv, Progress
    <2>3. at = offset - (offset % PageSize)
        BY <2>1 DEF PageStart
    <2>4. at \in Nat /\ at <= offset /\ offset < at + PageSize /\ at % PageSize = 0
        BY <2>2, <2>3, BlockStart
    <2>5. offset < req.end
        BY <2>2 DEF Inside
    <2> QED
        BY <2>1, <2>2, <2>4, <2>5, PageConfined
<1>4. CASE FlashComplete \/ FlashLast
    <2>1. PICK size : FlashPage(offset, size)
        BY <1>4 DEF FlashComplete, FlashLast
    <2>2. pc = "pages" /\ offset # req.end
        BY <1>2, <1>4 DEF FlashComplete, FlashLast
    <2>3. offset < req.end /\ offset % PageSize = 0
        BY <1>2, <2>2 DEF Inside, IInv, Progress
    <2> QED
        BY <1>2, <2>1, <2>2, <2>3, PageConfined
<1>5. CASE EraseNext
    BY <1>5, BlockConfined
<1> QED
    BY <1>1, <1>3, <1>4, <1>5

\* No step changes a byte outside the section, and outside the pages or blocks, that the
\* call is about, although all sections share one address window.
THEOREM NamedAreaOnly == Spec => OnlyTheNamedArea
<1>1. IInv /\ [Next]_vars => [flash' # flash => Confined]_vars
    <2>1. UNCHANGED vars => flash' = flash
        BY DEF vars
    <2> QED
        BY <2>1, ConfinedStep
<1>2. OnlyTheNamedArea <=> [][flash' # flash => Confined]_vars
    BY DEF OnlyTheNamedArea, Confined, Touched
<1> QED
    BY <1>1, <1>2, Invariance, PTL DEF Spec

-----------------------------------------------------------------------------
(* Looking through the window.                                             *)

\* Offsets between two that lie behind one controller lie behind it too.
LEMMA Between ==
    ASSUME NEW a \in Areas, NEW low \in Nat, NEW high \in Nat, NEW o \in Nat,
           low <= o, o <= high, Controller(a, low) = Controller(a, high)
    PROVE  Controller(a, o) = Controller(a, low)
<1>1. MainSize \in Nat \ {0}
    BY SizeAssumption
<1>2. CASE a[1] = 3
    <2> DEFINE q == low \div MainSize
               p == o \div MainSize
    <2>1. q = high \div MainSize
        BY <1>2 DEF Controller
    <2>2. /\ q \in Nat /\ low % MainSize \in 0 .. MainSize - 1 /\ low = MainSize * q + (low % MainSize)
          /\ high % MainSize \in 0 .. MainSize - 1 /\ high = MainSize * q + (high % MainSize)
        BY <1>1, <2>1, Division
    <2>3. p \in Nat /\ o % MainSize \in 0 .. MainSize - 1 /\ o = MainSize * p + (o % MainSize)
        BY <1>1, Division
    <2>4. MainSize * q \in Nat /\ MainSize * (q + 1) = MainSize * q + MainSize
        BY <1>1, <2>2, SMT
    <2> DEFINE r == o - MainSize * q
    <2>5. r \in 0 .. MainSize - 1
        BY <1>1, <2>2, <2>4
    <2>6. o = MainSize * q + r
        BY <2>4
    <2> HIDE DEF q, r
    <2>7. o \div MainSize = q
        BY <1>1, <2>2, <2>5, <2>6, UniqueDivision
    <2> QED
        BY <1>2, <2>7 DEF Controller, q
<1>3. CASE a[1] # 3
    BY <1>3 DEF Controller
<1> QED
    BY <1>2, <1>3

\* What a call that looks finds: its range in the area, and there the area itself as
\* long as one controller holds it.
LEMMA LooksAtTheArea ==
    ASSUME IInv, NEW mode \in {"Verify", "Read", "IsErased"}, Something(mode), Looks(req)
    PROVE  /\ desc \in Areas /\ req.mode = mode
           /\ req.start \in Nat /\ req.end \in Nat /\ req.start < req.end
           /\ SizeOf(desc) \in Nat /\ req.end <= SizeOf(desc) /\ SizeOf(desc) <= 2 * MainSize
           /\ OneController(req) => \A o \in Span(req) : SeenNow(o) = Own(desc, o)
<1>1. desc \in Areas /\ req.mode = mode /\ req.start \in Nat /\ req.end \in Nat /\ TypeOK
    BY RangeOfRequest DEF Something, Running, IInv, TypeOK
<1>2. SizeOf(desc) \in Nat /\ SizeOf(desc) <= 2 * MainSize /\ MainSize \in Nat
    BY <1>1, Sizes, SizeAssumption
<1>3. req.start < req.end /\ req.end <= SizeOf(desc)
    BY <1>1, <1>2 DEF Something, Empty, InCommandArea
<1>4. ASSUME OneController(req), NEW o \in Span(req)
      PROVE  SeenNow(o) = Own(desc, o)
    <2>1. o \in Nat /\ req.start <= o /\ o <= req.end - 1 /\ req.end - 1 \in Nat
        BY <1>1, <1>3 DEF Span
    <2> DEFINE c == Controller(desc, req.start)
    <2>2. Controller(desc, o) = c
        BY <1>1, <1>4, <2>1, Between DEF OneController
    <2>3. req.start < SizeOf(desc)
        BY <1>1, <1>2, <1>3
    <2>4. <<c, selected'[c]>> = Section(desc, req.start)
        BY <1>1, <2>3, SelectedPart DEF Looks
    <2> QED
        BY <2>2, <2>4 DEF SeenNow, Own, Section
<1> QED
    BY <1>1, <1>2, <1>3, <1>4

\* What AnswersAboutTheArea asks for, and that a call gives no answer before it ends.
Answered ==
    CASE req.mode = "Verify" ->
            (result = "OK") <=> \A o \in Span(req) : Own(desc, o) = ram[o - req.start]
      [] req.mode = "Read" ->
            \A o \in Span(req) : Own(desc, o) = ram[o - req.start]
      [] req.mode = "IsErased" ->
            (message = "blank") <=> \A o \in Span(req) : Own(desc, o) = Blank

Silent == pc # "idle" => result = "none"

LEMMA VerifyAnswers ==
    ASSUME IInv, Verify, OneController(req)
    PROVE  (result' = "OK") <=> \A o \in Span(req) : Own(desc, o)' = ram'[o - req.start]
<1>1. \A o \in Span(req) : SeenNow(o) = Own(desc, o)
    BY LooksAtTheArea DEF Verify
<1>2. (result' = "OK") <=> \A o \in Span(req) : Own(desc, o) = ram[o - req.start]
    BY <1>1 DEF Verify, Return
<1> QED
    BY <1>2 DEF Verify, Stay, Own

LEMMA ReadAnswers ==
    ASSUME IInv, Read, OneController(req)
    PROVE  \A o \in Span(req) : Own(desc, o)' = ram'[o - req.start]
<1>1. /\ \A o \in Span(req) : SeenNow(o) = Own(desc, o)
      /\ req.start \in Nat /\ req.end \in Nat /\ req.end <= 2 * MainSize /\ MainSize \in Nat
    BY LooksAtTheArea, SizeAssumption DEF Read
<1>2. DOMAIN ram = 0 .. 2 * MainSize - 1
    BY DEF IInv, TypeOK, Buffer
<1>3. ASSUME NEW o \in Span(req)
      PROVE  ram'[o - req.start] = Own(desc, o)
    <2>1. o - req.start \in DOMAIN ram /\ req.start + (o - req.start) = o /\ o < req.end
        BY <1>1, <1>2 DEF Span
    <2> QED
        BY <1>1, <2>1 DEF Read
<1> QED
    BY <1>3 DEF Read, Stay, Own

LEMMA IsErasedAnswers ==
    ASSUME IInv, IsErased, OneController(req)
    PROVE  (message' = "blank") <=> \A o \in Span(req) : Own(desc, o)' = Blank
<1>1. /\ \A o \in Span(req) : SeenNow(o) = Own(desc, o)
      /\ req.start \in Nat /\ req.end \in Nat
    BY LooksAtTheArea DEF IsErased
<1>2. PICK o \in Span(req) :
         /\ SeenNow(o) # Blank \/ o = req.end - 1
         /\ \A b \in req.start .. o - 1 : SeenNow(b) = Blank
         /\ message' = IF SeenNow(o) = Blank THEN "blank" ELSE "dirty"
    BY DEF IsErased
<1>3. ASSUME SeenNow(o) = Blank, NEW b \in Span(req)
      PROVE  SeenNow(b) = Blank
    <2>1. o = req.end - 1
        BY <1>2, <1>3
    <2>2. b = o \/ b \in req.start .. o - 1
        BY <1>1, <2>1 DEF Span
    <2> QED
        BY <1>2, <1>3, <2>2
<1>4. (message' = "blank") <=> \A b \in Span(req) : SeenNow(b) = Blank
    BY <1>2, <1>3
<1>5. (message' = "blank") <=> \A b \in Span(req) : Own(desc, b) = Blank
    BY <1>1, <1>4
<1> QED
    BY <1>5 DEF IsErased, Stay, Own

-----------------------------------------------------------------------------
\* No call answers before it ends.
LEMMA SilentKeeps ==
    ASSUME IInv, Silent, [Next]_vars
    PROVE  Silent'
<1>1. CASE Call \/ Detect \/ NotDetected \/ Nothing \/ Flash \/ FlashDone \/ Erase \/ Read \/ Verify
           \/ IsErased \/ Checksum \/ GetEraseArea \/ Reset \/ UNCHANGED vars
    BY <1>1 DEF Call, Detect, NotDetected, Nothing, Flash, FlashDone, Erase, Read, Verify, IsErased, Checksum,
       GetEraseArea, Reset, vars, Silent, Return, Something, Running
<1>2. CASE FlashFirst \/ FlashComplete \/ FlashLast
    <2>1. PICK at, size : FlashPage(at, size)
        BY <1>2 DEF FlashFirst, FlashComplete, FlashLast
    <2>2. pc' = "idle" \/ (pc # "idle" /\ result' = result)
        BY <1>2, <2>1 DEF FlashPage, Return, FlashFirst, FlashComplete, FlashLast
    <2> QED
        BY <2>2 DEF Silent
<1>3. CASE EraseNext
    BY <1>3 DEF EraseNext, EraseBlock, Return, Silent
<1> QED
    BY <1>1, <1>2, <1>3 DEF Next, Step

\* Only the calls that look give an answer that the property is about, and nothing
\* changes before the next call that the answer depends on.
LEMMA AnswersKeep ==
    ASSUME IInv, Silent, AnswersAboutTheArea, [Next]_vars
    PROVE  AnswersAboutTheArea'
<1> SUFFICES ASSUME (result \in {"OK", "ERROR"})', (req.mode \in {"Verify", "Read", "IsErased"})', (desc # Unknown)',
                    (req.start < req.end)', InCommandArea(req.start, req.end)', OneController(req)'
             PROVE  Answered'
    BY DEF AnswersAboutTheArea, Answered
<1>1. CASE Call \/ Reset
    BY <1>1 DEF Call, Reset
<1>2. CASE Detect \/ NotDetected \/ Flash \/ FlashDone \/ Erase \/ Checksum \/ GetEraseArea
    BY <1>2 DEF Detect, NotDetected, Flash, FlashDone, Erase, Checksum, GetEraseArea, Something, Running, Stay,
       IInv, Progress
<1>3. CASE FlashFirst \/ FlashComplete \/ FlashLast \/ EraseNext
    BY <1>3 DEF FlashFirst, FlashComplete, FlashLast, EraseNext, Stay, IInv, Progress
<1>4. CASE Nothing
    <2>1. req' = req /\ desc' = desc /\ (Empty \/ ~InCommandArea(req.start, req.end))
        BY <1>4 DEF Nothing, Stay
    <2>2. req.start \in Nat /\ req.end \in Nat
        BY <1>4, RangeOfRequest DEF Nothing, IInv, TypeOK
    <2> QED
        BY <2>1, <2>2 DEF Empty, InCommandArea
<1>5. CASE Verify
    <2>1. req' = req /\ desc' = desc /\ req.mode = "Verify" /\ OneController(req)
        BY <1>5 DEF Verify, Stay, Something, Running, OneController
    <2> QED
        BY <1>5, <2>1, VerifyAnswers DEF Answered, Span
<1>6. CASE Read
    <2>1. req' = req /\ desc' = desc /\ req.mode = "Read" /\ OneController(req)
        BY <1>6 DEF Read, Stay, Something, Running, OneController
    <2> QED
        BY <1>6, <2>1, ReadAnswers DEF Answered, Span
<1>7. CASE IsErased
    <2>1. req' = req /\ desc' = desc /\ req.mode = "IsErased" /\ OneController(req)
        BY <1>7 DEF IsErased, Stay, Something, Running, OneController
    <2> QED
        BY <1>7, <2>1, IsErasedAnswers DEF Answered, Span
<1>8. CASE UNCHANGED vars
    BY <1>8 DEF vars, AnswersAboutTheArea, Answered, Span, Own, InCommandArea, OneController
<1> QED
    BY <1>1, <1>2, <1>3, <1>4, <1>5, <1>6, <1>7, <1>8 DEF Next, Step

\* Verify, Read and IsErased tell what is in the named area, whatever the calls before
\* had selected, as long as the range lies behind one controller.
THEOREM AnswersAreAboutTheArea == Spec => []AnswersAboutTheArea
<1>1. Init => Silent /\ AnswersAboutTheArea
    BY DEF Init, Silent, AnswersAboutTheArea
<1>2. IInv /\ Silent /\ AnswersAboutTheArea /\ [Next]_vars => (Silent /\ AnswersAboutTheArea)'
    BY SilentKeeps, AnswersKeep
<1> QED
    BY <1>1, <1>2, Invariance, PTL DEF Spec

-----------------------------------------------------------------------------
(* The bytes around the range.                                             *)

\* A page that is padded with what is seen keeps its other bytes if the part that is
\* seen is the one that is programmed.
LEMMA PageKeepsTheRest ==
    ASSUME TypeOK, desc \in Areas, NEW at \in Nat, at % PageSize = 0, at < SizeOf(desc),
           NEW size, FlashPage(at, size), selected[Controller(desc, at)] = Part(desc)
    PROVE  RestKept
<1> SUFFICES ASSUME NEW o \in PagesOf(req) \ Span(req)
             PROVE  flash'[Section(desc, o)][Cell(o)] = Own(desc, o)
    BY DEF RestKept, Kept, Own
<1>1. o \in 0 .. SizeOf(desc) - 1
    BY DEF PagesOf
<1>2. ASSUME o \in Page(at)
      PROVE  PageData(at)[o] = Own(desc, o)
    <2>1. PageData(at)[o] = Seen(desc, o)
        BY <1>2 DEF PageData
    <2>2. Controller(desc, o) = Controller(desc, at)
        BY <1>2, InPlace DEF Page
    <2> QED
        BY <2>1, <2>2 DEF Seen, Own, Section
<1>3. \/ flash'[Section(desc, o)][Cell(o)] = Own(desc, o)
      \/ /\ o \in Page(at) /\ PageData(at)[o] \subseteq flash'[Section(desc, o)][Cell(o)]
         /\ flash'[Section(desc, o)][Cell(o)] \subseteq Own(desc, o)
    BY <1>1, PageStep
<1> QED
    BY <1>2, <1>3

\* The page of the loop lies behind the controller of the offset.
LEMMA RestIsKept ==
    ASSUME IInv, Next, pc \in {"first", "pages"}, selected[Controller(desc, offset)] = Part(desc), flash' # flash
    PROVE  RestKept
<1>1. /\ TypeOK /\ Inside /\ offset \in Nat /\ PageSize \in Nat \ {0} /\ SizeOf(desc) \in Nat
      /\ pc = "first" => offset = req.start
      /\ pc = "pages" => offset = req.end \/ offset % PageSize = 0
    BY SizeAssumption, Sizes DEF IInv, Progress, TypeOK, Inside
<1>2. FlashFirst \/ FlashComplete \/ FlashLast
    BY DEF Next, Step, Call, Detect, NotDetected, Nothing, Flash, FlashDone, Erase, EraseNext, Read, Verify,
       IsErased, Checksum, GetEraseArea, Reset, Something, Running
<1>3. CASE FlashFirst
    <2>1. PICK at, size : at = PageStart(offset) /\ FlashPage(at, size)
        BY <1>3 DEF FlashFirst
    <2>2. at \in Nat /\ at <= offset /\ offset < at + PageSize /\ at % PageSize = 0
        BY <1>1, <2>1, BlockStart DEF PageStart
    <2>3. offset < SizeOf(desc) /\ at < SizeOf(desc)
        BY <1>1, <1>3, <2>2 DEF Inside, FlashFirst
    <2>4. Controller(desc, at) = Controller(desc, offset)
        BY <1>1, <2>2, <2>3, InPlace DEF Inside
    <2> QED
        BY <1>1, <2>1, <2>2, <2>3, <2>4, PageKeepsTheRest DEF Inside
<1>4. CASE FlashComplete \/ FlashLast
    <2>1. PICK size : FlashPage(offset, size)
        BY <1>4 DEF FlashComplete, FlashLast
    <2>2. pc = "pages" /\ offset # req.end
        BY <1>1, <1>4 DEF FlashComplete, FlashLast, Inside
    <2>3. offset % PageSize = 0 /\ offset < SizeOf(desc)
        BY <1>1, <2>2 DEF Inside
    <2> QED
        BY <1>1, <2>1, <2>3, PageKeepsTheRest DEF Inside
<1> QED
    BY <1>2, <1>3, <1>4

\* A Flash call keeps the bytes around its range on a controller whose part was selected
\* before: the page is padded before the part is selected (lines 1005 and 1063).
THEOREM RestSurvives == Spec => FlashKeepsTheRestOnceSelected
<1> DEFINE Keeps == req.mode = "Flash" /\ pc \in {"first", "pages"}
                    /\ selected[Controller(desc, offset)] = Part(desc) => RestKept
<1>1. IInv /\ [Next]_vars => [Keeps]_vars
    <2>1. CASE flash' = flash
        BY <2>1 DEF RestKept
    <2>2. CASE flash' # flash
        BY <2>2, RestIsKept DEF vars
    <2> QED
        BY <2>1, <2>2
<1>2. FlashKeepsTheRestOnceSelected <=> [][Keeps]_vars
    BY DEF FlashKeepsTheRestOnceSelected
<1> HIDE DEF Keeps
<1> QED
    BY <1>1, <1>2, Invariance, PTL DEF Spec
=============================================================================
