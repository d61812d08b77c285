---------------------------- MODULE MCSpiFlasher ----------------------------
(* SpiFlasher on a flash of two sectors with two pages each. *)
EXTENDS SpiFlasher

MCBits == {0}

Filled(b) == [a \in 0 .. 7 |-> b]
Alternating(b, c) == [a \in 0 .. 7 |-> IF a % 2 = 0 THEN b ELSE c]

\* An erased flash, one full of zeros, and a mixed one.
MCFlashImages == {Filled(MCBits), Alternating({}, MCBits)}
MCRamImages == {Alternating({}, MCBits), Filled({})}

\* For two calls in a row: ends inside and on the borders of pages and sectors, data
\* that reaches behind the flash, 0xffffffff, and an end whose rounding overflows.
SomeRanges == {<<0, 8>>, <<1, 7>>, <<3, 4>>, <<2, 6>>, <<4, 8>>, <<5, 5>>,
               <<7, 10>>, <<3, Word - 1>>, <<2, Word - 2>>}
=============================================================================
