----------------------------- MODULE MCSwapLib -----------------------------
(***************************************************************************)
(* Binary amounts, so that numbers of several digits, with zeros inside    *)
(* and behind, stay small; buffers scaled alike.  Three tokens: one that   *)
(* prints like TRX, one without decimals, one print_amount has no room for.*)
(***************************************************************************)
EXTENDS SwapLib

MCPaths == {"m0", "m1"}
MCAddressOf == [p \in MCPaths |-> IF p = "m0" THEN "A" ELSE "B"]
MCTokens == [USDT |-> 2, BTT |-> 0, LONG |-> 5]
=============================================================================
