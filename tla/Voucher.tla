-------------------------------- MODULE Voucher --------------------------------
(***************************************************************************)
(* Vouchers drawn on one wallet: lib/voucher-store.ts, the create, callback *)
(* and cancel endpoints of pages/api/voucher/ and the operator's script     *)
(* scripts/reconcile-voucher-claims.js.  A voucher is issued only if the    *)
(* live balance backs it and all others; a callback claims it, pays the     *)
(* wallet's invoice and records the result; every await is a step boundary, *)
(* answers get lost, and a callback may die anywhere.                       *)
(*                                                                          *)
(* Abstracted: amounts in the wallet's minor unit, with the USD re-rating;  *)
(* fees; what else the owner spends from the wallet (nothing, here).  Time  *)
(* is what the code compares: a voucher is expired or not, and the match    *)
(* window of a claim is the era of the claim and the next one.              *)
(***************************************************************************)
EXTENDS Integers, FiniteSets, FiniteSetsExt

CONSTANTS Vouchers,
          Callbacks,  \* redemption requests, each with an invoice of its own
          Crashing,   \* the callbacks that may die
          Amount,     \* [Vouchers -> Nat \ {0}]
          Funds,      \* the balances the wallet may have before the first voucher
          MaxEra,     \* bound on the passing of time
          None

ASSUME VoucherAssumption ==
    /\ Crashing \subseteq Callbacks
    /\ Amount \in [Vouchers -> Nat \ {0}]
    /\ Funds \subseteq Nat /\ MaxEra \in Nat
    /\ None \notin Vouchers

VARIABLES voucher,  \* voucher[v]: the row: status, expired, era of its claim
          making,   \* making[v]: the request that creates v
          lock,     \* the wallet's advisory lock: the creating request
          balance,  \* the live balance of the wallet at Blink
          call,     \* call[r]: a callback
          payment,  \* payment[r]: the payment of that callback at Blink
          script,   \* the operator's reconciliation run
          era,
          late      \* a claim landed after its voucher had expired (history)

storeVars == <<voucher, making, lock>>
vars == <<storeVars, balance, call, payment, script, era, late>>

Statuses == {"none", "ACTIVE", "CLAIMED", "PAID", "CANCELLED", "EXPIRED", "deleted"}
Eras == 0..MaxEra
VoucherRows == [status : Statuses, expired : BOOLEAN, era : Eras]
CreateSteps == {"idle", "timed", "locked", "fetched", "approved", "done"}
Makings == [pc : CreateSteps, past : SUBSET Vouchers, seen : Int]
CallSteps == {"idle", "found", "timed", "claimed", "sending", "marking", "unclaiming", "done"}
Calls == [pc : CallSteps, voucher : Vouchers \cup {None}, live : BOOLEAN]
Payments == [st : {"none", "wire", "rejected", "flight", "settled", "failed"}, era : Eras]
NoScript == [pc |-> "idle", rows |-> {}, targets |-> {}]

TypeOK ==
    /\ voucher \in [Vouchers -> VoucherRows]
    /\ making \in [Vouchers -> Makings]
    /\ lock \in Vouchers \cup {None}
    /\ \A v \in Vouchers : lock = v <=> making[v].pc \in {"locked", "fetched", "approved"}
    /\ balance \in Nat
    /\ call \in [Callbacks -> Calls]
    /\ payment \in [Callbacks -> Payments]
    /\ script \in [pc : {"idle", "read", "matched"}, rows : SUBSET (Vouchers \X Eras),
                   targets : SUBSET Vouchers]
    /\ era \in Eras
    /\ late \in BOOLEAN

Init ==
    /\ voucher = [v \in Vouchers |-> [status |-> "none", expired |-> FALSE, era |-> 0]]
    /\ making = [v \in Vouchers |-> [pc |-> "idle", past |-> {}, seen |-> 0]]
    /\ lock = None
    /\ balance \in Funds
    /\ call = [r \in Callbacks |-> [pc |-> "idle", voucher |-> None, live |-> FALSE]]
    /\ payment = [r \in Callbacks |-> [st |-> "none", era |-> 0]]
    /\ script = NoScript
    /\ era = 0
    /\ late = FALSE

Is(v, s) == voucher[v].status = s
SetStatus(v, s) == voucher' = [voucher EXCEPT ![v].status = s]
Total(S) == MapThenSumSet(LAMBDA v : Amount[v], S)

-------------------------------------------------------------------------------
(* createVoucher, under the wallet's lock except for its first step.        *)

Making(v, step) == making' = [making EXCEPT ![v].pc = step]

(* The request is over: what it had read is forgotten. *)
Finished(v) == making' = [making EXCEPT ![v] = [pc |-> "done", past |-> {}, seen |-> 0]]

Elsewhere == UNCHANGED <<call, payment, script, era, late>>

(* The limit check (which a database error passes) and the request's clock: *)
(* the vouchers that are past their expiry now.                             *)
StartCreate(v) ==
    /\ making[v].pc = "idle" /\ Is(v, "none")
    /\ making' = [making EXCEPT ![v] = [pc |-> "timed", seen |-> 0,
                                         past |-> {u \in Vouchers : voucher[u].expired}]]
    /\ UNCHANGED <<voucher, lock, balance>> /\ Elsewhere

WalletFreeUnlocked == lock \in Vouchers \cup {None}

(* pg_advisory_xact_lock(hashtext(wallet_id)) can be had. *)
WalletFree == lock = None

LockWallet(v) ==
    /\ making[v].pc = "timed" /\ WalletFree
    /\ lock' = v
    /\ Making(v, "locked")
    /\ UNCHANGED <<voucher, balance>> /\ Elsewhere

FetchBacking(v) ==
    /\ making[v].pc = "locked"
    /\ making' = [making EXCEPT ![v] = [@ EXCEPT !.pc = "fetched", !.seen = balance]]
    /\ UNCHANGED <<voucher, lock, balance>> /\ Elsewhere

LiabilitiesActiveOnly(past) == {v \in Vouchers : Is(v, "ACTIVE") /\ v \notin past}

(* The vouchers that still draw on the balance, seen from a clock. *)
Liabilities(past) ==
    {v \in Vouchers : Is(v, "CLAIMED") \/ (Is(v, "ACTIVE") /\ v \notin past)}

SumLiabilities(v) ==
    /\ making[v].pc = "fetched"
    /\ Total(Liabilities(making[v].past)) + Amount[v] <= making[v].seen
    /\ Making(v, "approved")
    /\ UNCHANGED <<voucher, lock, balance>> /\ Elsewhere

InsertVoucher(v) ==
    /\ making[v].pc = "approved"
    /\ SetStatus(v, "ACTIVE")
    /\ Finished(v)
    /\ lock' = None
    /\ UNCHANGED balance /\ Elsewhere

(* Not backed, the lock or the fetch timed out, the process died: rollback. *)
CreateFails(v) ==
    /\ making[v].pc \notin {"idle", "done"}
    /\ Finished(v)
    /\ lock' = IF lock = v THEN None ELSE lock
    /\ UNCHANGED <<voucher, balance>> /\ Elsewhere

-------------------------------------------------------------------------------
(* The callback. *)

VoucherOf(r) == call[r].voucher
At(r, step) == call[r].pc = step
Goto(r, step) == call' = [call EXCEPT ![r].pc = step]

GetVoucher(r, v) ==
    /\ At(r, "idle")
    /\ Is(v, "ACTIVE") /\ ~voucher[v].expired
    /\ call' = [call EXCEPT ![r] = [pc |-> "found", voucher |-> v, live |-> FALSE]]
    /\ UNCHANGED <<storeVars, balance, payment, script, era, late>>

(* claimVoucher reads its clock, then waits for a connection and the row.   *)
ClaimClock(r) ==
    /\ At(r, "found")
    /\ call' = [call EXCEPT ![r] = [@ EXCEPT !.pc = "timed", !.live = ~voucher[VoucherOf(r)].expired]]
    /\ UNCHANGED <<storeVars, balance, payment, script, era, late>>

Claimable(r) == call[r].live /\ Is(VoucherOf(r), "ACTIVE")

(* An error after the commit answers "not claimed", and the callback stops. *)
ClaimVoucher(r) ==
    /\ At(r, "timed") /\ Claimable(r)
    /\ voucher' = [voucher EXCEPT ![VoucherOf(r)] = [@ EXCEPT !.status = "CLAIMED", !.era = era]]
    /\ late' = (late \/ voucher[VoucherOf(r)].expired)
    /\ Goto(r, "claimed") \/ (r \in Crashing /\ Goto(r, "done"))
    /\ UNCHANGED <<making, lock, balance, payment, script, era>>

ClaimRefused(r) ==
    /\ At(r, "timed") /\ ~Claimable(r)
    /\ Goto(r, "done")
    /\ UNCHANGED <<storeVars, balance, payment, script, era, late>>

SendPayment(r) ==
    /\ At(r, "claimed")
    /\ payment' = [payment EXCEPT ![r] = [st |-> "wire", era |-> era]]
    /\ Goto(r, "sending")
    /\ UNCHANGED <<storeVars, balance, script, era, late>>

(* Blink: a rejected payment debits nothing, a failed one is reverted. *)
BlinkExecutes(r, s) ==
    /\ \/ payment[r].st = "wire" /\ s = "rejected" /\ UNCHANGED balance
       \/ /\ payment[r].st = "wire" /\ s = "flight"
          /\ balance >= Amount[VoucherOf(r)]
          /\ balance' = balance - Amount[VoucherOf(r)]
       \/ payment[r].st = "flight" /\ s = "settled" /\ UNCHANGED balance
       \/ payment[r].st = "flight" /\ s = "failed" /\ balance' = balance + Amount[VoucherOf(r)]
    /\ payment' = [payment EXCEPT ![r].st = s]
    /\ UNCHANGED <<storeVars, call, script, era, late>>

NotSentUnlessSettled(r) == payment[r].st # "settled"

(* A definite outcome without a debit: rejected, refused or failed. *)
NotSent(r) == payment[r].st \in {"rejected", "failed"}

(* SUCCESS goes on to markVoucherPaid, a definite failure to unclaimVoucher. *)
(* PENDING keeps the claim, and so does an answer that is lost, whatever it  *)
(* would have said.                                                          *)
PayAnswered(r) ==
    /\ At(r, "sending")
    /\ \/ payment[r].st = "settled" /\ Goto(r, "marking")
       \/ NotSent(r) /\ Goto(r, "unclaiming")
       \/ payment[r].st = "flight" /\ Goto(r, "done")
    /\ UNCHANGED <<storeVars, balance, payment, script, era, late>>

Settle(v) == IF Is(v, "CLAIMED") THEN SetStatus(v, "PAID") ELSE UNCHANGED voucher

(* The write takes the wallet's lock; after three lock timeouts, or on a    *)
(* database error, the voucher stays CLAIMED (Crash).                       *)
MarkVoucherPaid(r) ==
    /\ At(r, "marking") /\ WalletFree
    /\ Settle(VoucherOf(r))
    /\ Goto(r, "done")
    /\ UNCHANGED <<making, lock, balance, payment, script, era, late>>

UnclaimVoucher(r) ==
    LET v == VoucherOf(r) IN
    /\ At(r, "unclaiming")
    /\ IF Is(v, "CLAIMED") /\ ~voucher[v].expired
         THEN SetStatus(v, "ACTIVE") ELSE UNCHANGED voucher
    /\ Goto(r, "done")
    /\ UNCHANGED <<making, lock, balance, payment, script, era, late>>

(* The process dies, an answer is lost, a write fails for good. *)
Crash(r) ==
    /\ r \in Crashing
    /\ call[r].pc \notin {"idle", "done"}
    /\ Goto(r, "done")
    /\ UNCHANGED <<storeVars, balance, payment, script, era, late>>

-------------------------------------------------------------------------------
(* The owner, the clock and the lazy cleanup. *)

CancellableIfClaimed(v) == voucher[v].status \in {"ACTIVE", "CLAIMED"}
Cancellable(v) == Is(v, "ACTIVE")

CancelVoucher(v) ==
    /\ Cancellable(v)
    /\ SetStatus(v, "CANCELLED")
    /\ UNCHANGED <<making, lock, balance>> /\ Elsewhere

VoucherExpires(v) ==
    /\ ~Is(v, "none") /\ ~voucher[v].expired
    /\ voucher' = [voucher EXCEPT ![v].expired = TRUE]
    /\ UNCHANGED <<making, lock, balance>> /\ Elsewhere

UpdateExpired(v) ==
    /\ Is(v, "ACTIVE") /\ voucher[v].expired
    /\ SetStatus(v, "EXPIRED")
    /\ UNCHANGED <<making, lock, balance>> /\ Elsewhere

(* Cancelled and expired rows are deleted in the end, redeemed ones never.  *)
CleanupOld(v) ==
    /\ voucher[v].status \in {"CANCELLED", "EXPIRED"}
    /\ SetStatus(v, "deleted")
    /\ UNCHANGED <<making, lock, balance>> /\ Elsewhere

(* "The callback claims immediately": its payment is made in the window.     *)
EraPasses ==
    /\ era < MaxEra
    /\ \A r \in Callbacks : At(r, "claimed") => voucher[VoucherOf(r)].era = era
    /\ era' = era + 1
    /\ UNCHANGED <<storeVars, balance, call, payment, script, late>>

-------------------------------------------------------------------------------
(* reconcile-voucher-claims.js --apply: a snapshot of the redeemed rows,    *)
(* then the ledger, then one locked write per match.                        *)

OldEnoughTooSoon(v) == voucher[v].era < era

(* --min-age-minutes: the match window of the claim closed before now.      *)
OldEnough(v) == voucher[v].era + 1 < era

SnapshotClaims ==
    /\ script.pc = "idle"
    /\ LET redeemed == {v \in Vouchers : voucher[v].status \in {"CLAIMED", "PAID"}} IN
       script' = [pc |-> "read",
                  rows |-> {<<v, voucher[v].era>> : v \in redeemed},
                  targets |-> {v \in redeemed : Is(v, "CLAIMED") /\ OldEnough(v)}]
    /\ UNCHANGED <<storeVars, balance, call, payment, era, late>>

(* A settled payment fits a claim of the same look (amount, memo) in whose  *)
(* window it was made.                                                      *)
Fits(r, v, claimed) ==
    /\ payment[r].st = "settled"
    /\ Amount[VoucherOf(r)] = Amount[v]
    /\ payment[r].era \in {claimed, claimed + 1}

Candidates(row) == {r \in Callbacks : Fits(r, row[1], row[2])}

(* Exactly one payment fits, and it fits no other row of the snapshot. *)
Matched(row) ==
    \E r \in Callbacks :
        /\ Candidates(row) = {r}
        /\ {other \in script.rows : r \in Candidates(other)} = {row}

ReadLedger ==
    /\ script.pc = "read"
    /\ script' = [script EXCEPT
           !.pc = "matched",
           !.targets = {v \in @ : \E row \in script.rows : row[1] = v /\ Matched(row)}]
    /\ UNCHANGED <<storeVars, balance, call, payment, era, late>>

MarkPaidLocked(v) ==
    /\ script.pc = "matched" /\ v \in script.targets
    /\ WalletFree
    /\ Settle(v)
    /\ script' = [script EXCEPT !.targets = @ \ {v}]
    /\ UNCHANGED <<making, lock, balance, call, payment, era, late>>

(* The run is over, or it is interrupted; it is safe to repeat. *)
ScriptEnds ==
    /\ script.pc # "idle"
    /\ script' = NoScript
    /\ UNCHANGED <<storeVars, balance, call, payment, era, late>>

-------------------------------------------------------------------------------
CreateNext == \E v \in Vouchers :
    \/ StartCreate(v) \/ LockWallet(v) \/ FetchBacking(v) \/ SumLiabilities(v)
    \/ InsertVoucher(v) \/ CreateFails(v)

CallStep(r) ==
    \/ \E v \in Vouchers : GetVoucher(r, v)
    \/ ClaimClock(r) \/ ClaimVoucher(r) \/ ClaimRefused(r) \/ SendPayment(r)
    \/ PayAnswered(r) \/ MarkVoucherPaid(r) \/ UnclaimVoucher(r)

BlinkStep(r) == \E s \in {"rejected", "flight", "settled", "failed"} : BlinkExecutes(r, s)

OwnerNext == \E v \in Vouchers :
    CancelVoucher(v) \/ VoucherExpires(v) \/ UpdateExpired(v) \/ CleanupOld(v)

ScriptNext ==
    \/ SnapshotClaims \/ ReadLedger \/ ScriptEnds
    \/ \E v \in Vouchers : MarkPaidLocked(v)

Next ==
    \/ CreateNext \/ OwnerNext \/ ScriptNext \/ EraPasses
    \/ \E r \in Callbacks : CallStep(r) \/ Crash(r) \/ BlinkStep(r)

Spec == Init /\ [][Next]_vars

-------------------------------------------------------------------------------
(* Properties. *)

PaymentsOf(v, S) == {r \in Callbacks : VoucherOf(r) = v /\ payment[r].st \in S}
Debited(v) == PaymentsOf(v, {"flight", "settled"}) # {}

(* However many wallets redeem a voucher, and however often a failed        *)
(* redemption gave it back, it is paid out at most once (claim before pay,  *)
(* unclaim only after a definite failure).                                  *)
PaidOutOnce == \A v \in Vouchers :
    Cardinality(PaymentsOf(v, {"wire", "flight", "settled"})) <= 1

(* A voucher that can be redeemed, cancelled or deleted has no payment that *)
(* settled or still may: cancel, expiry, cleanup and unclaim never meet a   *)
(* redemption half way.                                                     *)
UnclaimedIsUnpaid == \A v \in Vouchers :
    voucher[v].status \notin {"CLAIMED", "PAID"} =>
        PaymentsOf(v, {"wire", "flight", "settled"}) = {}

(* PAID takes the liability out of the sum for good, so it must stand for a *)
(* settled debit of this voucher: also when the operator's script credits   *)
(* it from a snapshot that was taken before other vouchers were claimed.    *)
PaidIsSettled == \A v \in Vouchers :
    Is(v, "PAID") => PaymentsOf(v, {"settled"}) # {}

(* The backing invariant (voucher-store.ts:40): the balance covers every    *)
(* unexpired ACTIVE and every CLAIMED voucher that is not debited yet.      *)
(* A claim whose clock was read before the expiry but which lands after it  *)
(* brings a liability back that a creation no longer counted: `late`.       *)
Backed ==
    ~late =>
        balance >= Total({v \in Liabilities({u \in Vouchers : voucher[u].expired}) : ~Debited(v)})

(* Where a voucher stands in the contract this module implements.  A debit  *)
(* of a voucher that is not redeemed is no stage there, nor is PAID without *)
(* one.                                                                     *)
Undebited == [none |-> "none", ACTIVE |-> "open", CLAIMED |-> "held", PAID |-> "paid by nobody",
              CANCELLED |-> "closed", EXPIRED |-> "closed", deleted |-> "closed"]
Redeemed == {"CLAIMED", "PAID"}
HasPayment(v, s) == \E r \in Callbacks : payment[r].st = s /\ VoucherOf(r) = v
Stage(v) ==
    IF HasPayment(v, "settled")
      THEN IF voucher[v].status \in Redeemed THEN "spent" ELSE "spent and unclaimed"
    ELSE IF HasPayment(v, "flight")
      THEN IF voucher[v].status \in Redeemed THEN "drawn" ELSE "drawn and unclaimed"
    ELSE Undebited[voucher[v].status]

Promise == INSTANCE VoucherLedger WITH
    bal <- balance,
    stage <- [v \in Vouchers |-> Stage(v)]

(* Every step of creations, redemptions, Blink, the owner, the clock and    *)
(* the script is a step of the contract or changes nothing in it: a voucher *)
(* is drawn at most once at a time and never again once spent, PAID stands  *)
(* for a settled debit of its own, also when the script writes it from a    *)
(* snapshot, and what is drawn comes back in full or not at all.            *)
ImplementsVoucherLedger == Promise!LedgerSpec

===============================================================================
