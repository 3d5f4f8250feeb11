----------------------------- MODULE MCRtBlocks -----------------------------
(***************************************************************************)
(* RtBlocks on the two lowest kinds of block of a gateway: a carrier below *)
(* that reads a socket, and above it a block that pushes in its onInit,    *)
(* reads another event source downward and shares messages from its upward *)
(* to its downward channel, as all the blocks of terminals and gateways do *)
(* (priority 4 for the opposite channel, 6 for the next block).            *)
(***************************************************************************)
EXTENDS RtBlocks, TLC

CONSTANTS upLow, downLow, upHigh, downHigh

MCChannels == {upLow, downLow, upHigh, downHigh}
MCThreads == <<{upHigh, downHigh}, {upLow, downLow}>>
MCLinks == {<<upLow, upHigh>>, <<downHigh, downLow>>, <<upLow, downLow>>,
            <<upHigh, downHigh>>}
MCInputs == {<<Env, upLow>>, <<Env, downHigh>>}
MCAtInit == {<<upLow, upHigh>>}
MCPriority == (<<upLow, upHigh>> :> 6) @@ (<<downHigh, downLow>> :> 6)
              @@ (<<upLow, downLow>> :> 4) @@ (<<upHigh, downHigh>> :> 4)
              @@ (<<Env, upLow>> :> 3) @@ (<<Env, downHigh>> :> 4)
=============================================================================
