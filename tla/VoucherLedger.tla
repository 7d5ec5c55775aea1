---------------------------- MODULE VoucherLedger ----------------------------
(***************************************************************************)
(* What a voucher promises about the wallet's money, with no rows, clocks,  *)
(* requests, scripts or answers: an issued voucher is closed unpaid, or it  *)
(* is held by one redemption that draws its amount from the wallet; what    *)
(* was drawn is spent for good or put back.  Nothing else changes the       *)
(* balance.  Voucher is shown to implement this module.                     *)
(***************************************************************************)
EXTENDS Naturals

CONSTANTS Vouchers, Amount, Funds

VARIABLES bal,    \* the balance of the wallet
          stage   \* stage[v]: where voucher v stands

ledgerVars == <<bal, stage>>

LedgerInit ==
    /\ bal \in Funds
    /\ stage = [v \in Vouchers |-> "none"]

Passes(v, from, to) == stage[v] = from /\ stage' = [stage EXCEPT ![v] = to]

Issue(v) == Passes(v, "none", "open") /\ UNCHANGED bal
Close(v) == Passes(v, "open", "closed") /\ UNCHANGED bal
Hold(v) == Passes(v, "open", "held") /\ UNCHANGED bal
Release(v) == Passes(v, "held", "open") /\ UNCHANGED bal

Draw(v) ==
    /\ Passes(v, "held", "drawn")
    /\ Amount[v] <= bal /\ bal' = bal - Amount[v]

PutBack(v) == Passes(v, "drawn", "held") /\ bal' = bal + Amount[v]
Spend(v) == Passes(v, "drawn", "spent") /\ UNCHANGED bal

Step(v) ==
    Issue(v) \/ Close(v) \/ Hold(v) \/ Release(v) \/ Draw(v) \/ PutBack(v) \/ Spend(v)

LedgerNext == \E v \in Vouchers : stage'[v] # stage[v] /\ Step(v)

LedgerSpec == LedgerInit /\ [][LedgerNext]_ledgerVars
===============================================================================
