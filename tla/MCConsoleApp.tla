---------------------------- MODULE MCConsoleApp ----------------------------
(* ConsoleApp with one flash memory on each bus. *)
EXTENDS ConsoleApp

MCDevices == {"cfi", "serial", "intern", "card"}

MCBusOf == [d \in MCDevices |-> CASE d = "cfi" -> "ParFlash" [] d = "serial" -> "SPI"
                                  [] d = "intern" -> "IFlash" [] OTHER -> "SDIO"]
MCSizeOf == [d \in MCDevices |-> IF d = "card" THEN 3 ELSE 4]

\* The parallel flash has small sectors at its bottom, the card has no blocks.
MCBorders == [d \in MCDevices |-> CASE d = "cfi" -> {0, 1} [] d = "card" -> {0, 1, 2} [] OTHER -> {0, 2}]

\* Inside, at the end of and behind the flash, and the end of the chip.
MCOffsets == {0, 1, 3, 4, 5, 15}

MCDirt == {[d \in MCDevices |-> 0 .. MCSizeOf[d] - 1], [d \in MCDevices |-> {1}]}
=============================================================================
