----------------------------- MODULE CardLimits -----------------------------
(***************************************************************************)
(* What one card may spend: its balance and its daily allowance            *)
(* (lib/boltcard/store.ts), as claims, restores, the lazy cleanup, top-ups  *)
(* and the owner's requests (pages/api/boltcard/fund.ts, cards/[cardId].ts) *)
(* write the same row.                                                     *)
(*                                                                         *)
(* Abstracted: how a claim becomes settled or given back (CardWithdraw);    *)
(* the maximum per transaction; the wallet balance the funding looks up,    *)
(* which only words a warning.  A window is a number, its daily_reset_at is *)
(* past (over) or not; 0 is NULL.  A card starts with no negative balance.   *)
(***************************************************************************)
EXTENDS Integers, FiniteSetsExt

CONSTANTS Spends,      \* withdrawals
          Amount,      \* Amount[q]: what q asks for
          Owners,      \* the owner's requests in progress
          Limits,      \* daily limits the owner may choose
          Sums,        \* amounts of top-ups, of funding and balances to set
          MaxGranted,  \* bound: what is ever put on the card
          MaxWindow    \* bound: windows ever opened

ASSUME CardLimitsAssumption ==
    /\ Amount \in [Spends -> Nat \ {0}]
    /\ Limits \subseteq Nat
    /\ Sums \subseteq Nat \ {0}
    /\ MaxGranted \in Nat /\ MaxWindow \in Nat \ {0}

VARIABLES card,     \* the columns of the boltcards row
          claim,    \* claim[q]: the withdrawal row, into: where a restore counted
          request,  \* request[o]: what the owner's request read and will write
          opened,   \* the last window that was opened
          granted,  \* what owner and payers put on the card (history)
          erased    \* a funding wrote over a later balance (history)

vars == <<card, claim, request, opened, granted, erased>>
history == <<granted, erased>>

(* daily_limit is NULL; a stored 0 allows nothing. *)
NoLimit == 0 - 1
NoWindow == 0
Windows == 0..MaxWindow

(* Spending is counted in sums over claims. *)
Total(S) == MapThenSumSet(LAMBDA q : Amount[q], S)
Standing == {q \in Spends : claim[q].state = "held"}
SpentIn(w) == {q \in Standing : claim[q].window = w}
(* Claims made outside any window and given back inside window w. *)
CrossedInto(w) == {q \in Spends : /\ claim[q].state = "restored"
                                  /\ claim[q].window = NoWindow
                                  /\ w # NoWindow /\ claim[q].into = w}

TypeOK ==
    /\ card \in [status : {"ACTIVE", "DISABLED"}, balance : Nat, limit : {NoLimit} \cup Limits,
                 spent : Nat, window : Windows, over : BOOLEAN]
    /\ card.over => card.window # NoWindow
    /\ claim \in [Spends -> [state : {"none", "held", "restored"}, window : Windows,
                             into : Windows]]
    /\ request \in [Owners -> [read : BOOLEAN, new : Nat, add : Int, raced : BOOLEAN]]
    /\ opened \in Windows /\ card.window \in {NoWindow, opened}
    /\ granted \in Int /\ erased \in BOOLEAN

NoClaim == [state |-> "none", window |-> NoWindow, into |-> NoWindow]
NoRequest == [read |-> FALSE, new |-> 0, add |-> 0, raced |-> FALSE]

(* createCard: a window is opened only if the card is created with a limit,  *)
(* and it stores 0 as NULL.                                                 *)
Init ==
    /\ \E limit \in {NoLimit} \cup (Limits \ {0}), s \in {0} \cup Sums :
        /\ card = [status |-> "ACTIVE", balance |-> s, limit |-> limit, spent |-> 0,
                   window |-> IF limit = NoLimit THEN NoWindow ELSE 1, over |-> FALSE]
        /\ opened = card.window
        /\ granted = s
    /\ claim = [q \in Spends |-> NoClaim]
    /\ request = [o \in Owners |-> NoRequest]
    /\ erased = FALSE

(* Every write of the balance makes what a request has read stale. *)
Overtaken == [o \in Owners |-> [request[o] EXCEPT !.raced = request[o].read]]

---------------------------------------------------------------------------
(* Claims and what becomes of them *)

(* A clock read before the statement runs may miss that the window is over. *)
Clocks == {now \in BOOLEAN : now => card.over}
Spent(late) == IF late THEN 0 ELSE card.spent
Allowed(q, late) == card.limit # NoLimit => Spent(late) + Amount[q] <= card.limit

(* The deduction of claimAndDeductWithdrawal, and the window it notes. *)
Claim(q) ==
    /\ claim[q].state = "none"
    /\ card.status = "ACTIVE" /\ card.balance >= Amount[q]
    /\ \E late \in Clocks :
        /\ Allowed(q, late)
        /\ late => opened < MaxWindow
        /\ opened' = IF late THEN opened + 1 ELSE opened
        /\ card' = [card EXCEPT !.balance = @ - Amount[q],
                                !.spent = Spent(late) + Amount[q],
                                !.window = IF late THEN opened + 1 ELSE @,
                                !.over = @ /\ ~late]
    /\ claim' = [claim EXCEPT ![q] = [@ EXCEPT !.state = "held", !.window = card'.window]]
    /\ request' = Overtaken
    /\ UNCHANGED history

(* daily_spent goes down in the window of the claim only, and never below 0. *)
CountsAnyway(q) == TRUE
CountsUntilOver(q) == claim[q].window \in {NoWindow, card.window} /\ ~card.over
CountsHere(q) == claim[q].window \in {NoWindow, card.window}
Unbounded(n) == n
AtLeast0(n) == IF n < 0 THEN 0 ELSE n

(* resolvePendingWithdrawalFailed: once per row. *)
RestorableAgain(q) == claim[q].state # "none"
Restorable(q) == claim[q].state = "held"
Restore(q) ==
    /\ Restorable(q)
    /\ card' = [card EXCEPT !.balance = @ + Amount[q],
                            !.spent = IF CountsHere(q) THEN AtLeast0(@ - Amount[q]) ELSE @]
    /\ claim' = [claim EXCEPT ![q] = [@ EXCEPT !.state = "restored", !.into = card.window]]
    /\ request' = Overtaken
    /\ UNCHANGED <<opened, granted, erased>>

(* topUpCard *)
TopUp(s) ==
    /\ card.status = "ACTIVE"
    /\ granted + s <= MaxGranted
    /\ card' = [card EXCEPT !.balance = @ + s]
    /\ granted' = granted + s
    /\ request' = Overtaken
    /\ UNCHANGED <<claim, opened, erased>>

---------------------------------------------------------------------------
(* The window *)

WindowEnds ==
    /\ card.window # NoWindow /\ ~card.over
    /\ card' = [card EXCEPT !.over = TRUE]
    /\ UNCHANGED <<claim, request, opened, granted, erased>>

OpenWindow ==
    /\ opened < MaxWindow
    /\ opened' = opened + 1
    /\ card' = [card EXCEPT !.spent = 0, !.window = opened + 1, !.over = FALSE]
    /\ UNCHANGED <<claim, request, granted, erased>>

(* reset_boltcard_daily_limits, run by the lazy cleanup of any process. *)
Expired == card.status = "ACTIVE" /\ card.over
ResetDailyLimits == Expired /\ OpenWindow

(* resetDailySpent, the owner's "Reset Daily". *)
ResetDailySpent == OpenWindow

(* updateCard: the limit changes, the window does not. *)
SetLimit(limit) ==
    /\ card' = [card EXCEPT !.limit = limit]
    /\ UNCHANGED <<claim, request, opened, granted, erased>>

---------------------------------------------------------------------------
(* The owner *)

SetStatus ==
    /\ \/ card.status = "ACTIVE" /\ card' = [card EXCEPT !.status = "DISABLED"]
       \/ card.status = "DISABLED" /\ card' = [card EXCEPT !.status = "ACTIVE"]
    /\ UNCHANGED <<claim, request, opened, granted, erased>>

(* What a request computes from the balance it read: an increment, an      *)
(* adjustment that leaves the balance non-negative, or the balance to set.  *)
Targets == {card.balance + s : s \in Sums} \cup {b \in {card.balance - s : s \in Sums} : b >= 0}
           \cup Sums

ReadBalance(o) ==
    /\ ~request[o].read
    /\ \E new \in Targets :
        /\ granted + new - card.balance <= MaxGranted
        /\ request' = [request EXCEPT ![o] = [read |-> TRUE, new |-> new,
                                              add |-> new - card.balance, raced |-> FALSE]]
    /\ UNCHANGED <<card, claim, opened, granted, erased>>

(* updateCardBalance writes the computed balance, if the card is ACTIVE. *)
WriteBalance(o) ==
    /\ request[o].read /\ card.status = "ACTIVE"
    /\ card' = [card EXCEPT !.balance = request[o].new]
    /\ granted' = granted + request[o].add
    /\ erased' = (erased \/ request[o].raced)
    /\ request' = [Overtaken EXCEPT ![o] = NoRequest]
    /\ UNCHANGED <<claim, opened>>

(* The card is not ACTIVE, or the process dies between the two. *)
WriteFails(o) ==
    /\ request[o].read
    /\ request' = [request EXCEPT ![o] = NoRequest]
    /\ UNCHANGED <<card, claim, opened, granted, erased>>

Next ==
    \/ \E q \in Spends : Claim(q) \/ Restore(q)
    \/ \E s \in Sums : TopUp(s)
    \/ WindowEnds \/ ResetDailyLimits \/ ResetDailySpent
    \/ \E limit \in {NoLimit} \cup Limits : SetLimit(limit)
    \/ SetStatus
    \/ \E o \in Owners : ReadBalance(o) \/ WriteBalance(o) \/ WriteFails(o)

Spec == Init /\ [][Next]_vars

---------------------------------------------------------------------------
(* Properties *)

(* The balance is what was put on the card less what stands as spent, for    *)
(* any order of claims, restores, top-ups, funding and adjustments, unless a *)
(* funding's balance was computed before another write and stored after it   *)
(* (updateCardBalance stores an absolute number: store.ts:1260).             *)
BalanceIsExact == ~erased => card.balance + Total(Standing) = granted

(* daily_spent is never more than the claims that stand in the card's        *)
(* window, so no claim is declined for spending that was given back or       *)
(* belongs to an earlier day, however resets and restores are ordered.       *)
NothingCountedTwice == card.spent <= Total(SpentIn(card.window))

(* A claim is only made while what stands in its window stays within the     *)
(* limit in force.  The one way past it is a claim from before the card had  *)
(* a window, given back after the owner opened one: the restore cannot tell  *)
(* (daily_window_reset_at is NULL) and takes its amount off the new day.     *)
WindowWithinLimit ==
    [][\A q \in Spends : claim[q].state = "none" /\ claim'[q].state = "held"
            => card.limit = NoLimit
               \/ Total(SpentIn(card.window))' <= card.limit + Total(CrossedInto(card.window))']_vars
=============================================================================
