---------------------------- MODULE MCTransact ----------------------------
(* A small instance of Transact: a wallet with more notes of one token than   *)
(* the large circuit takes, a note to claim, calls of every flow with the fee *)
(* in the token that is sent, in the one that is bought and in a third, and a *)
(* second call that wants the same notes.                                     *)
EXTENDS Transact

Note(i, token, amount, keys) ==
    [id |-> i, token |-> token, amount |-> amount, keys |-> keys]

MCWallet == {Note(1, "A", 6, "me"), Note(2, "A", 3, "me"), Note(3, "A", 2, "me"),
             Note(4, "A", 1, "me"), Note(5, "B", 4, "me"), Note(6, "F", 2, "me"),
             Note(7, "A", 6, "claim")}
MCStrangers == {Note(9, "A", 6, "other")}

MCSetups == {[chain |-> ch, remote |-> b[1], prover |-> b[2]] :
               ch \in {"evm", "tron", "solana"},
               b \in {<<TRUE, FALSE>>, <<FALSE, FALSE>>, <<FALSE, TRUE>>}}

Fee(token, flat, rate) == [token |-> token, flat |-> flat, rate |-> rate]
Fees == {Fee("A", 1, 1), Fee("F", 1, 1), Fee("", 1, 0)}

Ask(goal, tokens, amounts, to, fee, quoted) ==
    [goal |-> goal, chain |-> "evm", tokens |-> tokens, amounts |-> amounts,
     to |-> to, fee |-> fee, quoted |-> quoted, source |-> <<>>,
     splits |-> <<>>, speculative |-> FALSE]

Claim(fee, quoted) ==
    [Ask("claim", <<"A">>, <<6>>, "me", fee, quoted)
       EXCEPT !.source = Note(7, "A", 6, "claim")]

Send(fee, speculative) ==
    [Ask("send", <<"A">>, <<3>>, "someone", fee, FALSE)
       EXCEPT !.source = Note(2, "A", 3, "me"), !.speculative = speculative]

(* Calls of any chain.                                                        *)
Common ==
    {Ask("withdraw", <<"A">>, <<n>>, "someone", fee, FALSE) :
       n \in {4, 9, 12}, fee \in Fees}
    \cup {Ask("transfer", <<"A">>, <<4>>, "friend", fee, quoted) :
            fee \in Fees, quoted \in BOOLEAN}
    \cup {Ask("swap", <<"A", "B">>, <<4, 10>>, "", fee, quoted) :
            fee \in Fees \cup {Fee("B", 2, 1), Fee("B", 11, 1)}, quoted \in BOOLEAN}
    \cup {Claim(fee, FALSE) : fee \in Fees \cup {Fee("A", 6, 1)}}
    \cup {Claim(Fee("A", 1, 0), TRUE)}
    \cup {Ask("withdrawSelf", <<"A">>, <<4>>, "someone", Fee("A", 1, 1), FALSE)}
    \cup {Ask("stuck", <<"A">>, <<>>, "someone", Fee("A", 1, 1), TRUE)}

NotSolana ==
    {Ask("withdraw", <<"A", "B">>, <<4, 2>>, "someone", fee, FALSE) : fee \in Fees}
    \cup {Ask("deposit", <<"A", "B">>, <<3, 2>>, "", Fee("A", 1, 1), FALSE),
          Ask("depositFor", <<"A", "B">>, <<3, 2>>, "friend", Fee("A", 1, 1), FALSE)}
    \cup {Send(Fee("A", 1, 1), s) : s \in BOOLEAN}

TronOnly == {[Ask("split", <<"A">>, <<3>>, "", Fee("A", 1, 1), FALSE)
                EXCEPT !.splits = <<2, 1>>]}

On(chain, asks) == {[ask EXCEPT !.chain = chain] : ask \in asks}

(* The second call transfers while the first is under way.                    *)
MCAsks(c) ==
    IF c = 1
    THEN On("evm", Common \cup NotSolana) \cup On("solana", Common)
         \cup On("tron", Common \cup NotSolana \cup TronOnly)
    ELSE On("evm", {Ask("transfer", <<"A">>, <<4>>, "friend", Fee("A", 1, 1), FALSE)})
=============================================================================
