---------------------------- MODULE EscrowAccounts ----------------------------
(***************************************************************************)
(* What the on-chain escrow promises, whatever drives it: an account is    *)
(* opened for a payer, a payee and an amount; the amount moves into the    *)
(* vault at most once, and out of it at most once, to the payee or back to *)
(* the payer, in the very step that records it.  Nothing else moves money. *)
(***************************************************************************)
EXTENDS Integers, Sequences

CONSTANTS Parties, Vault, Currencies, Amounts

VARIABLES
    accounts,       \* sequence of [payer, payee, amount, state]
    ledger          \* ledger[currency][holder]

vars == << accounts, ledger >>

Move(currency, from, to, amount) ==
    /\ ledger[currency][from] >= amount
    /\ ledger' = [ledger EXCEPT ![currency] =
          [h \in Parties \cup {Vault} |->
               ledger[currency][h] - (IF h = from THEN amount ELSE 0)
                                   + (IF h = to THEN amount ELSE 0)]]

Init ==
    /\ accounts = << >>
    /\ \A c \in Currencies : ledger[c][Vault] = 0

Open ==
    /\ \E payer, payee \in Parties, amount \in Amounts :
           accounts' = Append(accounts, [payer |-> payer, payee |-> payee,
                                         amount |-> amount, state |-> "NotFunded"])
    /\ UNCHANGED ledger

Step(id, from, to, before, after) ==
    /\ accounts[id].state = before
    /\ accounts' = [accounts EXCEPT ![id].state = after]
    /\ \E c \in Currencies : Move(c, from, to, accounts[id].amount)

Deposit(id) == Step(id, accounts[id].payer, Vault, "NotFunded", "Funded")
Release(id) == Step(id, Vault, accounts[id].payee, "Funded", "Released")
Refund(id) == Step(id, Vault, accounts[id].payer, "Funded", "Refunded")

Next ==
    \/ Open
    \/ \E id \in DOMAIN accounts : Deposit(id) \/ Release(id) \/ Refund(id)

Spec == Init /\ [][Next]_vars
=============================================================================
