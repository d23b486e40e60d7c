--------------------------- MODULE MCTradeGuards ---------------------------
(* An instance of TradeGuards: i128 of 7 bits, a tolerance of 2 in 10, at  *)
(* most two tokens of a Soroswap path and two operations of a Phoenix swap,*)
(* which need not chain; paths and lists just under and over both bounds.  *)
EXTENDS TradeGuards

CONSTANTS usdc, xlm

MCWhitelists == {{}, {usdc}, {usdc, xlm}}

MCPaths == {<<usdc>>, <<usdc, usdc>>, <<usdc, xlm>>, <<xlm, usdc, xlm>>,
            <<usdc, xlm, usdc, xlm>>}

Swap(a, b) == [offer_asset |-> a, ask_asset |-> b]

MCOperations ==
    {<<>>, <<Swap(usdc, xlm)>>, <<Swap(usdc, usdc), Swap(xlm, xlm)>>,
     <<Swap(usdc, xlm), Swap(xlm, usdc), Swap(usdc, xlm)>>}

MCAmounts == {-1, 0, 1, 4, 5, 6, 40, 63}

=============================================================================
