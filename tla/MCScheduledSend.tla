-------------------------- MODULE MCScheduledSend --------------------------
(* A small instance of ScheduledSend: one call of each flow, to one to three  *)
(* recipients of different amounts, in the modes that change its course.      *)
EXTENDS ScheduledSend

CallOf(flow, amounts) ==
    [flow |-> flow, amounts |-> amounts, remote |-> FALSE, native |-> FALSE,
     token |-> "erc20", pre |-> TRUE, returnTx |-> FALSE,
     fee |-> [flat |-> 1, rate |-> 3]]

MCRequests ==
    {CallOf("evm", <<1, 2>>), CallOf("tron", <<2, 1>>), CallOf("solana", <<1, 4>>),
     CallOf("lifi", <<3>>), CallOf("deposit", <<2>>), CallOf("proofless", <<2, 2>>),
     CallOf("solanaDeposit", <<2>>), CallOf("evm", <<0>>), CallOf("tron", <<1, 1, 1>>),
     [CallOf("evm", <<1, 2>>) EXCEPT !.remote = TRUE, !.pre = FALSE, !.token = "usdt"],
     [CallOf("lifi", <<1, 2>>) EXCEPT !.remote = TRUE],
     [CallOf("lifi", <<3>>) EXCEPT !.native = TRUE],
     [CallOf("tron", <<2>>) EXCEPT !.pre = FALSE],
     [CallOf("evm", <<2>>) EXCEPT !.token = "native"],
     [CallOf("solana", <<1, 4, 2>>) EXCEPT !.remote = TRUE],
     [CallOf("proofless", <<2>>) EXCEPT !.returnTx = TRUE],
     [CallOf("deposit", <<2>>) EXCEPT !.pre = FALSE, !.token = "usdt"]}
=============================================================================
