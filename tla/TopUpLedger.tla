----------------------------- MODULE TopUpLedger -----------------------------
(***************************************************************************)
(* What topping up a Bolt Card promises about money, with no pending rows,  *)
(* claims, processors or answers: an invoice is for one card and is paid at *)
(* most once; what was paid is credited to that card at most once and in    *)
(* full, and to a USD card only when the sats have moved to the USD wallet, *)
(* which they do at most once.  CardTopUp is shown to implement this.       *)
(***************************************************************************)
EXTENDS Naturals

CONSTANTS Cards,
          UsdCards,  \* the cards whose wallet is the USD wallet
          Hashes,    \* payment hashes of the top-up invoices
          Worth,     \* what each card is credited for each invoice
          None

VARIABLES live,      \* the cards whose row exists
          bal,       \* bal[c]: what top-ups put on card c
          due,       \* due[h]: what became of invoice h
          card,      \* card[h]: the card invoice h is for
          inUsd      \* inUsd[h]: how often the sats of h were moved

topUpVars == <<live, bal, due, card, inUsd>>

LedgerInit ==
    /\ live = Cards
    /\ bal = [c \in Cards |-> 0]
    /\ due = [h \in Hashes |-> "free"]
    /\ card = [h \in Hashes |-> None]
    /\ inUsd = [h \in Hashes |-> 0]

Issue(c, h) ==
    /\ c \in live /\ due[h] = "free"
    /\ due' = [due EXCEPT ![h] = "issued"]
    /\ card' = [card EXCEPT ![h] = c]
    /\ UNCHANGED <<live, bal, inUsd>>

(* The payer pays, or the only payment fails. *)
Settle(h, s) ==
    /\ due[h] = "issued"
    /\ due' = [due EXCEPT ![h] = s]
    /\ UNCHANGED <<live, bal, card, inUsd>>

(* Before the credit and never again. *)
MoveToUsd(h) ==
    /\ due[h] = "received" /\ card[h] \in UsdCards /\ inUsd[h] = 0
    /\ inUsd' = [inUsd EXCEPT ![h] = 1]
    /\ UNCHANGED <<live, bal, due, card>>

Credit(c, h) ==
    /\ due[h] = "received" /\ card[h] = c
    /\ c \in live
    /\ c \in UsdCards => inUsd[h] = 1
    /\ due' = [due EXCEPT ![h] = "credited"]
    /\ bal' = [bal EXCEPT ![c] = @ + Worth[h]]
    /\ UNCHANGED <<live, card, inUsd>>

(* A deleted card takes its balance with it and is credited no more. *)
Retire(c) ==
    /\ live' = live \ {c}
    /\ bal' = [bal EXCEPT ![c] = 0]
    /\ UNCHANGED <<due, card, inUsd>>

LedgerNext ==
    \/ \E c \in Cards, h \in Hashes : Issue(c, h) \/ Credit(c, h)
    \/ \E h \in Hashes : MoveToUsd(h) \/ Settle(h, "received") \/ Settle(h, "failed")
    \/ \E c \in Cards : Retire(c)

LedgerSpec == LedgerInit /\ [][LedgerNext]_topUpVars
===============================================================================
