---------------------------- MODULE MCRegression ----------------------------
(* A board with a large and a small memory, two interfaces at the host.    *)
EXTENDS Regression

MCPorts == {"uart", "jtag"}
MCMemories == {"sqi", "par"}
MCSize == [m \in MCMemories |-> IF m = "sqi" THEN 3 ELSE 1]

Test(class, enabled, memories, otherwise) ==
    [class |-> class, enabled |-> enabled, memories |-> memories, otherwise |-> otherwise]

\* unittest takes the methods by name.
MCCampaigns ==
    {<<Test("NxtFlasher_51", TRUE, <<>>, "skipped"),
       Test("FltStandardOtherFlash", TRUE, <<"par", "par">>, "skipped"),
       Test("FltStandardSqiFlash", TRUE, <<"sqi">>, "failed"),
       Test("FltHash", TRUE, <<"sqi">>, "failed")>>,
     <<Test("NxtFlasher_51", TRUE, <<"sqi">>, "skipped"),
       Test("FltStandardOtherFlash", FALSE, <<"par">>, "skipped"),
       Test("FltHash", TRUE, <<"sqi">>, "failed"),
       Test("FltTestcliSqiFlash", TRUE, <<"sqi">>, "failed")>>}
=============================================================================
