----------------------------- MODULE CardWithdraw -----------------------------
(***************************************************************************)
(* Spending from a Bolt Card: lib/boltcard/lnurlw.ts over the rows of       *)
(* lib/boltcard/store.ts.  A tap opens a single-use session (k1); an HTTP   *)
(* callback consumes it, claims the invoice's hash and deducts in one       *)
(* transaction, hands the claim to the pay path, pays through Blink and     *)
(* finalises the claim row.  Reconciliation passes (the scheduler, or the   *)
(* owner's balance tap) settle the rows a callback left open.  Every await  *)
(* of the code is a step boundary here, any handler may die between two     *)
(* steps, and a request handed to Blink may be executed long after the      *)
(* handler that sent it is gone.                                            *)
(*                                                                          *)
(* Abstracted: the invoice and SUN message formats (a hash, a counter), the *)
(* USD conversion (Amount is what the card is charged), the daily window    *)
(* (module CardLimits; here a claim may always be declined), the row's      *)
(* attempt number (a hash is claimed once, so it never changes), the audit  *)
(* rows of boltcard_transactions, and the programming of a card (module     *)
(* CardLifecycle): a card is followed from one activation to the next       *)
(* re-programming or deletion.                                              *)
(***************************************************************************)
EXTENDS Naturals, FiniteSets

CONSTANTS Cards,          \* card rows
          Hashes,         \* payment hashes
          Taps,           \* withdraw requests: each may obtain one k1
          Requests,       \* callback requests
          Passes,         \* reconciliation passes running concurrently
          Amount,         \* [Hashes -> Nat \ {0}]
          InitialBalance, \* balance of a card when the behaviour starts
          MaxCounter,     \* bound: highest SUN counter a card emits
          Offers,         \* bound: the maxima a tap may compute from the limits
          TopUp,          \* amount of one top-up credit
          MaxTopUps,      \* bound: top-ups per card
          None            \* no card / no tap / no invoice yet

ASSUME CardWithdrawAssumption ==
    /\ Amount \in [Hashes -> Nat \ {0}]
    /\ InitialBalance \in Nat
    /\ TopUp \in Nat \ {0}
    /\ MaxCounter \in Nat /\ MaxTopUps \in Nat
    /\ Offers \subseteq Nat
    /\ None \notin Cards \cup Hashes \cup Taps

VARIABLES status,     \* status[c]: boltcards.status, "deleted" once the row is gone
          balance,    \* balance[c]: boltcards.balance
          counter,    \* counter[c]: boltcards.last_counter
          tap,        \* tap[k]: the withdraw request and its session row
          row,        \* row[h]: boltcard_pending_withdrawals
          consumed,   \* boltcard_consumed_payment_hashes
          req,        \* req[q]: a callback request in progress
          pass,       \* pass[r]: a reconciliation pass in progress
          blink,      \* blink[h]: the payment at Blink
          topUps,     \* topUps[c]: top-ups credited so far
          restored    \* hashes whose deduction was given back (history)

cardVars == <<status, balance, counter, topUps>>
rowVars == <<row, consumed, restored>>
vars == <<cardVars, tap, rowVars, req, pass, blink>>

CardStatuses == {"ACTIVE", "DISABLED", "WIPED", "deleted"}
Kinds == {"CLAIMED", "UNKNOWN", "PENDING", "SUCCESS"}
Outcomes == {"OPEN", "SUCCESS", "FAILED"}
TapStates == {"none", "read", "open", "used", "over"}
BlinkStates == {"none", "wire", "rejected", "inflight", "settled", "failed"}

(* Where a callback stands.  "refused" ended before the tap was consumed,   *)
(* "declined" after that without a deduction, "done" after a deduction.     *)
BeforeConsume == {"idle", "peeked", "refused"}
BeforeClaim == {"consumed", "carded", "declined"}
Deducted == {"claimed", "begun", "paying", "rejected", "unknown", "pending",
             "success", "done"}
Finished == {"refused", "declined", "done"}
Sending == {"begun", "paying", "rejected", "unknown", "pending", "success"}
Answers == {"PAID", "EXPIRED", "UNSEEN"}

NoRow == [card |-> None, kind |-> "NONE", outcome |-> "NONE", aged |-> FALSE]
NoTap == [st |-> "none", card |-> None, ctr |-> 0, max |-> 0]
IdleRequest == [pc |-> "idle", tap |-> None, hash |-> None]
IdlePass == [pc |-> "idle", hash |-> None, kind |-> "NONE", seen |-> "NONE"]

ClaimRows == [card : Cards, kind : Kinds, outcome : Outcomes, aged : BOOLEAN]
Rows == {NoRow} \cup ClaimRows
TapRecords == [st : TapStates, card : Cards \cup {None},
               ctr : 0..MaxCounter, max : Nat]
RequestRecords == [pc : BeforeConsume \cup BeforeClaim \cup Deducted,
                   tap : Taps \cup {None}, hash : Hashes \cup {None}]
PassRecords == [pc : {"idle", "picked", "gone", "live", "answered"},
                hash : Hashes \cup {None}, kind : Kinds \cup {"NONE"},
                seen : Answers \cup {"NONE"}]

(* Mutants end in a name of the bug; each stands before what it replaces.    *)
UnresolvedUnchecked(h) == row[h] # NoRow

(* resolved_at IS NULL, the guard of every later write to the row. *)
Unresolved(h) == row[h].outcome = "OPEN"

TypeOK ==
    /\ status \in [Cards -> CardStatuses]
    /\ balance \in [Cards -> Nat]
    /\ counter \in [Cards -> 0..MaxCounter]
    /\ topUps \in [Cards -> 0..MaxTopUps]
    /\ tap \in [Taps -> TapRecords]
    /\ row \in [Hashes -> Rows]
    /\ consumed \in SUBSET Hashes
    /\ restored \in SUBSET Hashes
    /\ req \in [Requests -> RequestRecords]
    /\ pass \in [Passes -> PassRecords]
    /\ blink \in [Hashes -> BlinkStates]

Init ==
    /\ status = [c \in Cards |-> "ACTIVE"]
    /\ balance = [c \in Cards |-> InitialBalance]
    /\ counter = [c \in Cards |-> 0]
    /\ topUps = [c \in Cards |-> 0]
    /\ tap = [k \in Taps |-> NoTap]
    /\ row = [h \in Hashes |-> NoRow]
    /\ consumed = {}
    /\ restored = {}
    /\ req = [q \in Requests |-> IdleRequest]
    /\ pass = [r \in Passes |-> IdlePass]
    /\ blink = [h \in Hashes |-> "none"]

-------------------------------------------------------------------------------
(* The tap: handleWithdrawRequest reads the card, verifies the SUN message  *)
(* against the counter it read, and offers a maximum computed from the      *)
(* balance it read; startWithdrawSession then advances the counter and      *)
(* inserts the session in one statement.                                    *)

TapRead(k, c, n, m) ==
    /\ tap[k].st = "none"
    /\ status[c] = "ACTIVE"
    /\ counter[c] < n
    /\ m \in 1..balance[c]
    /\ tap' = [tap EXCEPT ![k] = [st |-> "read", card |-> c, ctr |-> n, max |-> m]]
    /\ UNCHANGED <<cardVars, rowVars, req, pass, blink>>

SessionAllowedOnRead(k) == status[tap[k].card] = "ACTIVE"

(* WHERE last_counter < $2 AND status = 'ACTIVE' *)
SessionAllowed(k) ==
    /\ status[tap[k].card] = "ACTIVE"
    /\ counter[tap[k].card] < tap[k].ctr

StartWithdrawSession(k) ==
    /\ tap[k].st = "read"
    /\ IF SessionAllowed(k)
         THEN /\ counter' = [counter EXCEPT ![tap[k].card] = tap[k].ctr]
              /\ tap' = [tap EXCEPT ![k].st = "open"]
         ELSE /\ tap' = [tap EXCEPT ![k].st = "over"]
              /\ UNCHANGED counter
    /\ UNCHANGED <<status, balance, topUps, rowVars, req, pass, blink>>

(* Five minutes pass without the wallet using the session. *)
SessionExpires(k) ==
    /\ tap[k].st = "open"
    /\ tap' = [tap EXCEPT ![k].st = "over"]
    /\ UNCHANGED <<cardVars, rowVars, req, pass, blink>>

-------------------------------------------------------------------------------
(* The callback: handleWithdrawCallback, one action per await. *)

(* Request q goes from one step of the handler to the next. *)
Goto(q, next) == req' = [req EXCEPT ![q].pc = next]

PeekSession(q, k, h) ==
    /\ req[q].pc = "idle"
    /\ tap[k].st = "open"
    /\ Amount[h] <= tap[k].max
    /\ req' = [req EXCEPT ![q] = [pc |-> "peeked", tap |-> k, hash |-> h]]
    /\ UNCHANGED <<cardVars, tap, rowVars, pass, blink>>

ConsumeWithdrawSession(q) ==
    LET k == req[q].tap IN
    /\ req[q].pc = "peeked"
    /\ IF tap[k].st = "open"
         THEN tap' = [tap EXCEPT ![k].st = "used"] /\ Goto(q, "consumed")
         ELSE Goto(q, "refused") /\ UNCHANGED tap
    /\ UNCHANGED <<cardVars, rowVars, pass, blink>>

(* The card the URL names is the session's card: peek and consume match it. *)
CardOf(q) == tap[req[q].tap].card

ReadCard(q) ==
    /\ req[q].pc = "consumed"
    /\ Goto(q, IF status[CardOf(q)] = "ACTIVE" THEN "carded" ELSE "declined")
    /\ UNCHANGED <<cardVars, tap, rowVars, pass, blink>>

HashFreeUntilWiped(h) == row[h] = NoRow

(* Neither the pre-check, the row's primary key nor the retention trigger   *)
(* of boltcard_consumed_payment_hashes objects.                             *)
HashFree(h) == h \notin consumed

DeductibleUnchecked(c, h) == status[c] = "ACTIVE"

(* The conditional UPDATE of the card row. *)
Deductible(c, h) == status[c] = "ACTIVE" /\ Amount[h] <= balance[c]

ClaimAndDeductWithdrawal(q) ==
    LET c == CardOf(q)
        h == req[q].hash IN
    /\ req[q].pc = "carded"
    /\ HashFree(h)
    /\ Deductible(c, h)
    /\ balance' = [balance EXCEPT ![c] = @ - Amount[h]]
    /\ row' = [row EXCEPT ![h] = [card |-> c, kind |-> "CLAIMED",
                                  outcome |-> "OPEN", aged |-> FALSE]]
    /\ consumed' = consumed \cup {h}
    /\ Goto(q, "claimed")
    /\ UNCHANGED <<status, counter, topUps, tap, restored, pass, blink>>

(* "spent" (the hash is taken), or "declined": status, balance, or the      *)
(* per-transaction and daily limits, which may decline any claim.           *)
ClaimRefused(q) ==
    /\ req[q].pc = "carded"
    /\ Goto(q, "declined")
    /\ UNCHANGED <<cardVars, tap, rowVars, pass, blink>>

StillClaimedUnchecked(h) == row[h] # NoRow

StillClaimed(h) == Unresolved(h) /\ row[h].kind = "CLAIMED"

BeginWithdrawalSend(q) ==
    LET h == req[q].hash IN
    /\ req[q].pc = "claimed"
    /\ IF StillClaimed(h)
         THEN row' = [row EXCEPT ![h].kind = "UNKNOWN"] /\ Goto(q, "begun")
         ELSE Goto(q, "done") /\ UNCHANGED row
    /\ UNCHANGED <<cardVars, tap, consumed, restored, pass, blink>>

(* payCardInvoice: the wallet lookup fails, nothing has been sent ... *)
WalletLookupFails(q) ==
    /\ req[q].pc = "begun"
    /\ Goto(q, "rejected")
    /\ UNCHANGED <<cardVars, tap, rowVars, pass, blink>>

(* ... or the mutation goes out. *)
PayLnInvoice(q) ==
    /\ req[q].pc = "begun"
    /\ blink' = [blink EXCEPT ![req[q].hash] = "wire"]
    /\ Goto(q, "paying")
    /\ UNCHANGED <<cardVars, tap, rowVars, pass>>

(* What Blink's answer makes of the payment; a transport error, an          *)
(* ALREADY_PAID or an unreadable answer may replace it at any time.         *)
Verdict(h) == CASE blink[h] \in {"rejected", "failed"} -> "rejected"
                [] blink[h] = "settled"  -> "success"
                [] blink[h] = "inflight" -> "pending"
                [] OTHER -> "unknown"

PayAnswered(q) ==
    /\ req[q].pc = "paying"
    /\ \/ Goto(q, Verdict(req[q].hash))
       \/ Goto(q, "unknown")
    /\ UNCHANGED <<cardVars, tap, rowVars, pass, blink>>

(* resolvePendingWithdrawalFailed: resolve and give back in one statement.  *)
Restore(h) ==
    /\ row' = [row EXCEPT ![h].outcome = "FAILED"]
    /\ balance' = [balance EXCEPT ![row[h].card] = @ + Amount[h]]
    /\ restored' = restored \cup {h}

RestoreRejected(q) ==
    LET h == req[q].hash IN
    /\ req[q].pc = "rejected"
    /\ IF Unresolved(h) THEN Restore(h) ELSE UNCHANGED <<row, balance, restored>>
    /\ Goto(q, "done")
    /\ UNCHANGED <<status, counter, topUps, tap, consumed, pass, blink>>

(* The kind finalizeWithdrawal is called with. *)
FinalKind(pc) == CASE pc = "unknown" -> "UNKNOWN"
                   [] pc = "pending" -> "PENDING"
                   [] OTHER -> "SUCCESS"

(* finalizeWithdrawal: UNKNOWN and PENDING leave the row open.  A row that   *)
(* was resolved or cascaded away meanwhile makes the write throw.           *)
FinalizeWithdrawal(q) ==
    LET h == req[q].hash
        newKind == FinalKind(req[q].pc) IN
    /\ req[q].pc \in {"unknown", "pending", "success"}
    /\ row' = IF Unresolved(h)
                THEN [row EXCEPT ![h].kind = newKind,
                        ![h].outcome = IF newKind = "SUCCESS" THEN "SUCCESS" ELSE "OPEN"]
                ELSE row
    /\ Goto(q, "done")
    /\ UNCHANGED <<cardVars, tap, consumed, restored, pass, blink>>

(* The handler dies, or throws on a lost database result, between two steps. *)
Crash(q) ==
    /\ req[q].pc \notin Finished \cup {"idle"}
    /\ Goto(q, IF req[q].pc \in BeforeConsume THEN "refused"
               ELSE IF req[q].pc \in BeforeClaim THEN "declined" ELSE "done")
    /\ UNCHANGED <<cardVars, tap, rowVars, pass, blink>>

-------------------------------------------------------------------------------
(* Blink, modelled from what payLnInvoice and transactionsByPaymentHash may *)
(* answer: a request on the wire is refused or becomes a transaction, and a *)
(* transaction in flight settles or fails.                                  *)

BlinkExecutes(h, s) ==
    /\ \/ blink[h] = "wire" /\ s \in {"rejected", "inflight", "settled", "failed"}
       \/ blink[h] = "inflight" /\ s \in {"settled", "failed"}
    /\ blink' = [blink EXCEPT ![h] = s]
    /\ UNCHANGED <<cardVars, tap, rowVars, req, pass>>

-------------------------------------------------------------------------------
(* Reconciliation: reconcilePendingWithdrawals, one row at a time. *)

SelectedOnceReported(h) == Unresolved(h) /\ row[h].kind = "PENDING"

(* PENDING_WITHDRAWALS_SQL; which of the selected rows comes first is the   *)
(* subject of module ReconcileScheduler.                                    *)
Selected(h) == Unresolved(h)

PickRow(r, h) ==
    /\ pass[r].pc = "idle"
    /\ Selected(h)
    /\ pass' = [pass EXCEPT ![r] = [pc |-> "picked", hash |-> h,
                                    kind |-> row[h].kind, seen |-> "NONE"]]
    /\ UNCHANGED <<cardVars, tap, rowVars, req, blink>>

CardGoneOrDisabled(h) == row[h] = NoRow \/ status[row[h].card] # "ACTIVE"

CardGone(h) == row[h] = NoRow \/ status[row[h].card] \in {"WIPED", "deleted"}

(* getCard: a deleted row is null ... *)
PassReadsCard(r) ==
    /\ pass[r].pc = "picked"
    /\ pass' = [pass EXCEPT ![r].pc = IF CardGone(pass[r].hash) THEN "gone" ELSE "live"]
    /\ UNCHANGED <<cardVars, tap, rowVars, req, blink>>

(* ... and so is a database error. *)
PassReadFails(r) ==
    /\ pass[r].pc = "picked"
    /\ pass' = [pass EXCEPT ![r].pc = "gone"]
    /\ UNCHANGED <<cardVars, tap, rowVars, req, blink>>

(* No card was read: close the row, nothing given back. *)
CloseRow(r) ==
    LET h == pass[r].hash IN
    /\ pass[r].pc = "gone"
    /\ row' = IF Unresolved(h) THEN [row EXCEPT ![h].outcome = "FAILED"] ELSE row
    /\ pass' = [pass EXCEPT ![r] = IdlePass]
    /\ UNCHANGED <<cardVars, tap, consumed, restored, req, blink>>

LookupAnswer(h) == CASE blink[h] = "settled" -> "PAID"
                     [] blink[h] = "failed" -> "EXPIRED"
                     [] OTHER -> "UNSEEN"

LookUpPayment(r) ==
    LET h == pass[r].hash IN
    /\ pass[r].pc = "live"
    /\ blink[h] # "inflight"
    /\ pass' = [pass EXCEPT ![r].pc = "answered", ![r].seen = LookupAnswer(h)]
    /\ UNCHANGED <<cardVars, tap, rowVars, req, blink>>

(* PENDING, ERROR, the pass deadline, or the process dying: the row waits   *)
(* for the next pass.                                                       *)
PassGivesUp(r) ==
    /\ pass[r].pc # "idle"
    /\ pass' = [pass EXCEPT ![r] = IdlePass]
    /\ UNCHANGED <<cardVars, tap, rowVars, req, blink>>

AbandonedWhenRead(h) == Unresolved(h) /\ row[h].aged

(* An abandoned claim is given back only if the row is still CLAIMED and    *)
(* older than the grace at the moment of the write.                         *)
Abandoned(h) == Unresolved(h) /\ row[h].kind = "CLAIMED" /\ row[h].aged

PassWrites(r) ==
    LET h == pass[r].hash
        giveBack == \/ pass[r].seen = "EXPIRED" /\ Unresolved(h)
                    \/ pass[r].seen = "UNSEEN" /\ pass[r].kind = "CLAIMED" /\ Abandoned(h) IN
    /\ pass[r].pc = "answered"
    /\ IF giveBack
         THEN Restore(h)
         ELSE /\ row' = IF pass[r].seen = "PAID" /\ Unresolved(h)
                          THEN [row EXCEPT ![h].outcome = "SUCCESS"] ELSE row
              /\ UNCHANGED <<balance, restored>>
    /\ pass' = [pass EXCEPT ![r] = IdlePass]
    /\ UNCHANGED <<status, counter, topUps, tap, consumed, req, blink>>

(* Two minutes pass since the claim (CLAIMED_UNSEEN_GRACE_MS). *)
GracePasses(h) ==
    /\ Unresolved(h) /\ ~row[h].aged
    /\ row' = [row EXCEPT ![h].aged = TRUE]
    /\ UNCHANGED <<cardVars, tap, consumed, restored, req, pass, blink>>

-------------------------------------------------------------------------------
(* The card's owner and its payers. *)

SetStatus(c, from, to) ==
    /\ status[c] \in from
    /\ status' = [status EXCEPT ![c] = to]
    /\ UNCHANGED <<balance, counter, topUps, tap, rowVars, req, pass, blink>>

DisableCard(c) == SetStatus(c, {"ACTIVE"}, "DISABLED")
EnableCard(c) == SetStatus(c, {"DISABLED"}, "ACTIVE")
WipeCard(c) == SetStatus(c, {"ACTIVE", "DISABLED"}, "WIPED")

(* Registering the wiped card's UID again deletes its row; the withdrawal   *)
(* rows and sessions go with it, the consumed hashes stay.                  *)
DeleteWipedCard(c) ==
    /\ status[c] = "WIPED"
    /\ status' = [status EXCEPT ![c] = "deleted"]
    /\ balance' = [balance EXCEPT ![c] = 0]
    /\ row' = [h \in Hashes |-> IF row[h].card = c THEN NoRow ELSE row[h]]
    /\ tap' = [k \in Taps |-> IF tap[k].card = c /\ tap[k].st = "open"
                                THEN [tap[k] EXCEPT !.st = "over"] ELSE tap[k]]
    /\ UNCHANGED <<counter, topUps, consumed, restored, req, pass, blink>>

(* A balance tap or a reset tap uses up its counter value too. *)
AdvanceCounter(c, n) ==
    /\ status[c] # "deleted"
    /\ counter[c] < n
    /\ counter' = [counter EXCEPT ![c] = n]
    /\ UNCHANGED <<status, balance, topUps, tap, rowVars, req, pass, blink>>

TopUpCard(c) ==
    /\ status[c] = "ACTIVE"
    /\ topUps[c] < MaxTopUps
    /\ topUps' = [topUps EXCEPT ![c] = @ + 1]
    /\ balance' = [balance EXCEPT ![c] = @ + TopUp]
    /\ UNCHANGED <<status, counter, tap, rowVars, req, pass, blink>>

-------------------------------------------------------------------------------
TapNext == \E k \in Taps :
    \/ \E c \in Cards, n \in 1..MaxCounter, m \in Offers : TapRead(k, c, n, m)
    \/ StartWithdrawSession(k)
    \/ SessionExpires(k)

CallbackNext == \E q \in Requests :
    \/ \E k \in Taps, h \in Hashes : PeekSession(q, k, h)
    \/ ConsumeWithdrawSession(q) \/ ReadCard(q)
    \/ ClaimAndDeductWithdrawal(q) \/ ClaimRefused(q)
    \/ BeginWithdrawalSend(q)
    \/ WalletLookupFails(q) \/ PayLnInvoice(q) \/ PayAnswered(q)
    \/ RestoreRejected(q) \/ FinalizeWithdrawal(q)
    \/ Crash(q)

ReconcileStep(r) ==
    \/ PassReadsCard(r) \/ CloseRow(r) \/ LookUpPayment(r) \/ PassWrites(r)

ReconcileNext == \E r \in Passes :
    \/ \E h \in Hashes : PickRow(r, h)
    \/ ReconcileStep(r) \/ PassReadFails(r) \/ PassGivesUp(r)

BlinkNext == \E h \in Hashes, s \in BlinkStates : BlinkExecutes(h, s)

OwnerNext == \E c \in Cards :
    \/ DisableCard(c) \/ EnableCard(c) \/ WipeCard(c) \/ DeleteWipedCard(c) \/ TopUpCard(c)
    \/ \E n \in 1..MaxCounter : AdvanceCounter(c, n)

Next == TapNext \/ CallbackNext \/ ReconcileNext \/ BlinkNext \/ OwnerNext
          \/ \E h \in Hashes : GracePasses(h)

Spec == Init /\ [][Next]_vars

(* Scheduler and handlers keep running: a pass finishes what it started, the *)
(* rotation of last_checked_at brings every open row up again and again     *)
(* (module ReconcileScheduler), a pass is not cut short for ever at the same *)
(* step, and the clock passes the grace.  Nothing is assumed of the        *)
(* callbacks, of Blink or of the card's owner.                              *)
Fairness ==
    /\ \A r \in Passes : /\ WF_vars(ReconcileStep(r))
                         /\ SF_vars(PassWrites(r))
                         /\ SF_vars(LookUpPayment(r))
                         /\ SF_vars(PassReadsCard(r))
                         /\ SF_vars(CloseRow(r))
                         /\ \A h \in Hashes : SF_vars(PickRow(r, h))
    /\ \A h \in Hashes : WF_vars(GracePasses(h))

FairSpec == Spec /\ Fairness

-------------------------------------------------------------------------------
(* Properties. *)

(* A deduction that was given back belongs to a payment that did not go out *)
(* and never will: not one on the wire, in flight or settled                *)
(* (beginWithdrawalSend against the CLAIMED compare-and-set).               *)
NeverPaidAndRestored ==
    \A h \in restored : blink[h] \in {"none", "rejected", "failed"}

(* One tap pays at most one invoice, and no tap is replayed: requests that  *)
(* consumed a session of the same card used different sessions, opened at   *)
(* different counter values (startWithdrawSession, consumeWithdrawSession). *)
(* Re-programming starts another series of counters and keys, not this one. *)
EverySpendHasItsOwnTap ==
    \A p, q \in {x \in Requests : req[x].pc \notin BeforeConsume} :
        p # q => /\ req[p].tap # req[q].tap
                 /\ CardOf(p) = CardOf(q) =>
                      tap[req[p].tap].ctr # tap[req[q].tap].ctr

(* An invoice debits once, ever: also when its first card was wiped, its    *)
(* row cascaded away, and another card is presented with it (migration 028). *)
HashDebitsOnce ==
    \A p, q \in {x \in Requests : req[x].pc \in Deducted} :
        p # q => req[p].hash # req[q].hash

(* What a resolved row says of the payment is final: it never reopens, and  *)
(* its outcome never changes while the row exists.                          *)
ResolutionIsFinal ==
    [][\A h \in Hashes : row[h].outcome \in {"SUCCESS", "FAILED"} =>
          row'[h] = NoRow \/ (row'[h].outcome = row[h].outcome
                              /\ row'[h].kind = row[h].kind)]_vars

(* A row whose outcome is SUCCESS stands for a payment that settled.        *)
SuccessMeansSettled ==
    \A h \in Hashes : row[h].outcome = "SUCCESS" => blink[h] = "settled"

(* Every payment Blink has decided ends in a resolved row, even if the      *)
(* callback that sent it died before it could read the answer.              *)
DecidedIsResolved ==
    \A h \in Hashes : (blink[h] \in {"settled", "failed"}) ~> ~Unresolved(h)

(* A pass takes the card of h's row for gone, and it is not: it could not read  *)
(* it.  (A card that is gone stays so.)                                     *)
Misread(h) == ~CardGone(h) /\ \E r \in Passes : pass[r].pc = "gone" /\ pass[r].hash = h

(* A claim whose handler died before the pay path does not stay held: unless   *)
(* it is handed on after all, the reconciliation gives the deduction back, or  *)
(* the card is gone.  Excepted is a pass that could not read the card: it      *)
(* closes the row of a live card with nothing given back (lnurlw.ts:772).     *)
AbandonedClaimIsReleased ==
    \A h \in Hashes :
        StillClaimed(h) ~> \/ row[h].kind # "CLAIMED"
                           \/ h \in restored
                           \/ status[row[h].card] \in {"WIPED", "deleted"}
                           \/ Misread(h)

(* The contract this module implements: "paid and returned" is no state of  *)
(* an invoice there.                                                        *)
Promise == INSTANCE CardLedger WITH
    bal <- balance,
    pay <- [h \in Hashes |->
              IF h \in restored /\ blink[h] = "settled" THEN "paid and returned"
              ELSE IF h \in restored THEN "returned"
              ELSE IF blink[h] = "settled" THEN "paid"
              ELSE IF h \in consumed THEN "held" ELSE "free"],
    holder <- [h \in Hashes |-> row[h].card],
    credits <- topUps

(* Every step of taps, callbacks, passes and crashes is a step of the       *)
(* contract or changes nothing in it.                                       *)
ImplementsCardLedger == Promise!LedgerSpec

-------------------------------------------------------------------------------
(* The inductive invariant: what handlers, rows, sessions and Blink know of *)
(* one another between any two steps.                                       *)

Opened(k) == tap[k].st \in {"open", "used"}

(* A session in use was opened by advancing its card's counter to its own.  *)
SessionsInv ==
    /\ \A k \in Taps : tap[k].st # "none" => tap[k].card \in Cards
    /\ \A k \in Taps : Opened(k) => tap[k].ctr <= counter[tap[k].card]
    /\ \A k, l \in Taps : k # l /\ Opened(k) /\ Opened(l) /\ tap[k].card = tap[l].card =>
          tap[k].ctr # tap[l].ctr

RequestsInv ==
    /\ \A q \in Requests : req[q].pc # "idle" =>
          /\ req[q].tap \in Taps /\ req[q].hash \in Hashes
          /\ tap[req[q].tap].st # "none"
    /\ \A q \in Requests : req[q].pc \notin BeforeConsume => tap[req[q].tap].st = "used"
    /\ \A q \in Requests : req[q].pc \in Deducted => req[q].hash \in consumed
    /\ \A p, q \in Requests : p # q /\ req[p].pc \notin BeforeConsume
                                    /\ req[q].pc \notin BeforeConsume =>
          req[p].tap # req[q].tap

RowsInv ==
    /\ \A h \in Hashes : row[h] # NoRow => h \in consumed
    /\ \A h \in Hashes : row[h].kind = "CLAIMED" => blink[h] = "none"
    /\ \A h \in Hashes : blink[h] # "none" => h \in consumed
    /\ restored \subseteq consumed
    /\ \A h \in restored : row[h] = NoRow \/ row[h].outcome = "FAILED"

(* How far Blink can be when the handler that sent the payment is at pc.    *)
SendingInv ==
    \A q \in Requests :
        /\ req[q].pc \in Sending => row[req[q].hash].kind # "CLAIMED"
        /\ req[q].pc \in {"claimed", "begun"} => blink[req[q].hash] = "none"
        /\ req[q].pc = "begun" => req[q].hash \notin restored
        /\ req[q].pc = "rejected" => blink[req[q].hash] \in {"none", "rejected", "failed"}
        /\ req[q].pc = "success" => blink[req[q].hash] = "settled"

PassesInv ==
    \A r \in Passes :
        /\ pass[r].pc # "idle" => pass[r].hash \in Hashes
        /\ pass[r].pc # "answered" => pass[r].seen = "NONE"
        /\ pass[r].seen = "EXPIRED" => blink[pass[r].hash] = "failed"
        /\ pass[r].seen = "PAID" => blink[pass[r].hash] = "settled"

IInv ==
    /\ TypeOK
    /\ SessionsInv
    /\ RequestsInv
    /\ RowsInv
    /\ SendingInv
    /\ PassesInv
    /\ HashDebitsOnce
    /\ NeverPaidAndRestored
    /\ SuccessMeansSettled

===============================================================================
