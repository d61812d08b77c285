-------------------------- MODULE MCInternalFlash --------------------------
(* InternalFlash with arrays and info pages of one block of two pages. *)
EXTENDS InternalFlash

MCBits == {0}

\* An info page of unit 1, the arrays of units 0 and 1 in a row, and no device.
MCDevices == {<<1, 1>>, <<3, 0>>, <<3, 1>>}

\* Inside a page, over pages, blocks and controllers; and reversed.
MCRanges == {<<0, 4>>, <<1, 3>>, <<3, 7>>, <<5, 6>>, <<0, 8>>, <<2, 2>>, <<6, 2>>}

Filled(b) == [i \in Cells |-> b]
Image(main, info) == [s \in Sections |-> IF s[2] = 0 THEN Filled(main) ELSE Filled(info)]

MCFlashes == {Image({}, Blank), Image(Blank, {})}
MCPayloads == {[i \in 0 .. 2 * MainSize - 1 |-> {}],
               [i \in 0 .. 2 * MainSize - 1 |-> IF i % 2 = 0 THEN Blank ELSE {}]}
=============================================================================
