-------------------------- MODULE MCPrivateBridge --------------------------
(* A small instance of PrivateBridge: two callers in every pairing that can   *)
(* meet, an address of the old key scheme that is about to expire, a record   *)
(* that is not the account's, and a temporary wallet of the old scheme that   *)
(* holds money.                                                               *)
EXTENDS PrivateBridge

CONSTANTS c1, c2, sender, old

MCNoPay ==
    [at |-> "none", vault |-> NoVault, chain |-> "main", token |-> "known",
     risky |-> FALSE, route |-> "none", deadline |-> 0, since |-> 0,
     overlapped |-> FALSE, amount |-> 0]

MCInitNonces ==
    {[nonce |-> old, created |-> -1, legacy |-> TRUE, dest |-> "confidential"]}

MCInitServer ==
    {[index |-> i, expiry |-> e, version |-> 0,
      vault |-> [owner |-> o, index |-> i, version |-> 0]] :
       <<i, e, o>> \in {<<0, 1, "nk">>, <<1, 3, "other">>}}

MCHabits ==
    {[chain |-> "main", token |-> "known", risky |-> FALSE],
     [chain |-> "side", token |-> "known", risky |-> TRUE],
     [chain |-> "side", token |-> "odd", risky |-> FALSE]}

(* A sender pays in the sessions that rescue, and money of an earlier session *)
(* lies in a temporary wallet in those that recover.                          *)
Calls(one, two) ==
    [plan |-> [c \in Callers |-> IF c = c1 THEN one ELSE two],
     pay  |-> [p \in Payments |-> MCNoPay]]

SenderDone(s) == [s EXCEPT !.pay[sender].at = "note"]
OldStuck(s)   == [s EXCEPT !.pay[old] = [@ EXCEPT !.at = "wallet", !.route = "lifi",
                                                  !.amount = Amount]]

(* An upgrade matters to a claim that has read the version and not yet        *)
(* registered, and to those after it.                                         *)
UpgradeWhenClaiming ==
    versions' # versions => \E c \in Callers : call[c].pc \in {"index", "register"}

MCSessions ==
    {SenderDone(Calls(<<"near">>, <<"address">>)),
     Calls(<<"near">>, <<"rescue">>),
     Calls(<<"rescue">>, <<"fresh", "rescue">>),
     SenderDone(Calls(<<"fresh">>, <<"near">>)),
     SenderDone(Calls(<<"lifi">>, <<"fresh">>)),
     SenderDone(Calls(<<"nearTo">>, <<"fresh">>)),
     SenderDone(OldStuck(Calls(<<"lifi", "recover">>, <<"recover">>))),
     SenderDone(OldStuck(Calls(<<"public", "recover">>, <<"recover">>)))}
=============================================================================
