--------------------------- MODULE MCHostFlasher ---------------------------
(* HostFlasher on a flash of two erase blocks with two cells each. *)
EXTENDS HostFlasher

MCBits == {0}
MCBlock == [a \in 0 .. Size - 1 |-> {b \in 0 .. Size - 1 : b \div 2 = a \div 2}]
MCRanges == ((0 .. Size) \X (0 .. Size)) \cup {<<3, 5>>, <<3, 6>>, <<5, 4>>}
            \cup {<<a, EndOfChip>> : a \in {0, 1, 5}}

Zero == {}
One == MCBits

Part(offset, file) == [offset |-> offset, len |-> Len(file), file |-> file]
Area(offset, len) == [offset |-> offset, len |-> len, file |-> <<>>]
Cli(mode, p) == [tool |-> "cli", bus |-> "SPI", mode |-> mode, parts |-> <<p>>]
Wfp(ps) == [tool |-> "wfp", bus |-> "SPI", mode |-> "Flash", parts |-> ps]
Card(j) == [j EXCEPT !.bus = "SDIO"]

Whole == Part(0, <<One, Zero, One, Zero>>)
Inner == Part(1, <<Zero, Zero>>)
Behind == Part(3, <<Zero, Zero>>)
Nothing == Part(1, <<>>)

MCJobs ==
    {Cli(m, p) : m \in FileModes, p \in {Whole, Inner, Behind, Nothing}}
    \cup {Cli(m, Area(o, EndOfChip)) : m \in {"Erase", "Read", "Hash"}, o \in {1, 5}}
    \cup {Cli(m, Area(1, 2)) : m \in RangeModes}
    \cup {Wfp(<<Part(0, <<Zero>>), Part(2, <<One, Zero>>)>>),
          Wfp(<<Part(0, <<Zero>>), Part(1, <<Zero, Zero>>)>>),
          Wfp(<<Part(2, <<>>), Part(0, <<Zero>>)>>),
          Wfp(<<Part(0, <<Zero>>), Behind>>)}
    \cup {Card(Cli("Flash", p)) : p \in {Whole, Inner, Behind, Nothing}}
    \cup {Card(Cli(m, Area(1, EndOfChip))) : m \in {"Erase", "Hash"}}
    \cup {Card(Wfp(<<Part(0, <<Zero>>), Part(2, <<One, Zero>>)>>))}
=============================================================================
