---------------------------- MODULE RefundClaim ----------------------------
(***************************************************************************)
(* What claiming a bridge refund promises, whatever the relay, the         *)
(* contract and the bridge do with the requests: a claim takes the amount  *)
(* it listed from the account it listed, once or never; it reports success *)
(* only for a withdrawal that was taken and, on a bridge the client        *)
(* watches, delivered; and every claim that is started returns.            *)
(*                                                                         *)
(* Nothing is promised about a claim that reports a failure: its           *)
(* withdrawal may have been taken already, or be taken later.              *)
(***************************************************************************)
EXTENDS Integers

CONSTANTS
    Claims,     \* the calls that claim a refund
    Accounts,   \* the accounts refunds land in
    Amounts     \* the amounts a refund can have

VARIABLES
    funds,      \* what each account holds
    claim,      \* per claim: the account and the amount it listed
    watched,    \* the claims on a bridge whose deliveries can be observed
    taken,      \* the claims whose amount left the account
    delivered,  \* the claims whose amount reached the destination
    outcome     \* per claim: "idle", "running", "done" or "failed"

vars == <<funds, claim, watched, taken, delivered, outcome>>

Init ==
    /\ funds \in [Accounts -> Amounts \cup {0}]
    /\ claim \in [Claims -> [account : Accounts, amount : {0}]]
    /\ watched \in SUBSET Claims
    /\ taken = {}
    /\ delivered = {}
    /\ outcome = [c \in Claims |-> "idle"]

\* A bridge leg fails and its amount lands in an account.
Refund(a, n) ==
    /\ funds' = [funds EXCEPT ![a] = @ + n]
    /\ UNCHANGED <<claim, watched, taken, delivered, outcome>>

\* A claim is started for what an account was seen to hold.
Start(c, a) ==
    /\ outcome[c] = "idle"
    /\ funds[a] > 0
    /\ outcome' = [outcome EXCEPT ![c] = "running"]
    /\ claim' = [claim EXCEPT ![c] = [account |-> a, amount |-> funds[a]]]
    /\ UNCHANGED <<funds, watched, taken, delivered>>

\* The contract takes the claim's amount, once.
Take(c) ==
    /\ outcome[c] # "idle" /\ c \notin taken
    /\ funds[claim[c].account] >= claim[c].amount
    /\ funds' = [funds EXCEPT ![claim[c].account] = @ - claim[c].amount]
    /\ taken' = taken \cup {c}
    /\ UNCHANGED <<claim, watched, delivered, outcome>>

Deliver(c) ==
    /\ c \in taken
    /\ delivered' = delivered \cup {c}
    /\ UNCHANGED <<funds, claim, watched, taken, outcome>>

Report(c) ==
    /\ outcome[c] = "running"
    /\ \E result \in {"done", "failed"} :
        /\ result = "done" => c \in taken /\ (c \in watched => c \in delivered)
        /\ outcome' = [outcome EXCEPT ![c] = result]
    /\ UNCHANGED <<funds, claim, watched, taken, delivered>>

Next ==
    \/ \E a \in Accounts, n \in Amounts : Refund(a, n)
    \/ \E c \in Claims, a \in Accounts : Start(c, a)
    \/ \E c \in Claims : Take(c) \/ Deliver(c) \/ Report(c)

Fairness == \A c \in Claims : WF_vars(Report(c))

Spec == Init /\ [][Next]_vars /\ Fairness
=============================================================================
