------------------------------ MODULE CardLedger ------------------------------
(***************************************************************************)
(* What a Bolt Card promises about money, with no sessions, rows, processes *)
(* or lookups: an invoice is held against a card at most once, and a held   *)
(* invoice ends either paid (the money left) or returned (the card has it   *)
(* back), never both.  CardWithdraw is shown to implement this module.      *)
(***************************************************************************)
EXTENDS Naturals

CONSTANTS Cards,     \* card rows (boltcards.id)
          Hashes,    \* payment hashes of the invoices presented to the cards
          Amount,    \* what paying each invoice costs the card
          InitialBalance,
          TopUp,     \* what one credit adds to a card
          None

VARIABLES bal,       \* bal[c]: spendable balance of card c
          pay,       \* pay[h]: what became of invoice h
          holder,    \* holder[h]: the card invoice h was debited from
          credits    \* credits[c]: how often card c was credited

ledgerVars == <<bal, pay, holder, credits>>

LedgerInit ==
    /\ bal = [c \in Cards |-> InitialBalance]
    /\ pay = [h \in Hashes |-> "free"]
    /\ holder = [h \in Hashes |-> None]
    /\ credits = [c \in Cards |-> 0]

Hold(c, h) ==
    /\ pay[h] = "free"
    /\ Amount[h] <= bal[c]
    /\ bal' = [bal EXCEPT ![c] = @ - Amount[h]]
    /\ pay' = [pay EXCEPT ![h] = "held"]
    /\ holder' = [holder EXCEPT ![h] = c]
    /\ UNCHANGED credits

Settle(h) ==
    /\ pay[h] = "held"
    /\ pay' = [pay EXCEPT ![h] = "paid"]
    /\ UNCHANGED <<bal, holder, credits>>

(* Only to the card it came from. *)
Return(c, h) ==
    /\ pay[h] = "held" /\ holder[h] = c
    /\ pay' = [pay EXCEPT ![h] = "returned"]
    /\ bal' = [bal EXCEPT ![c] = @ + Amount[h]]
    /\ UNCHANGED <<holder, credits>>

(* Money is added to a card by a credit and by nothing else. *)
Credit(c) ==
    /\ bal' = [bal EXCEPT ![c] = @ + TopUp]
    /\ credits' = [credits EXCEPT ![c] = @ + 1]
    /\ UNCHANGED <<pay, holder>>

(* The card row is deleted; what it held can no longer be returned. *)
Retire(c) ==
    /\ bal' = [bal EXCEPT ![c] = 0]
    /\ holder' = [h \in Hashes |-> IF holder[h] = c THEN None ELSE holder[h]]
    /\ UNCHANGED <<pay, credits>>

LedgerNext ==
    \/ \E c \in Cards, h \in Hashes : Hold(c, h) \/ Return(c, h)
    \/ \E h \in Hashes : Settle(h)
    \/ \E c \in Cards : Credit(c) \/ Retire(c)

LedgerSpec == LedgerInit /\ [][LedgerNext]_ledgerVars
===============================================================================
