# Formal models of Blink Terminal

TLA+ specifications of the parts of Blink Terminal that move or promise money or sign
somebody in, TLC configurations that check them on small instances, and theorems about them
that TLAPS proves for every instance. Paths are relative to the repository.

Contents: 1 the system; 2 the modules and how they correspond to the code; 3 what
each run checks; 4 fairness; 5 what is proved; 6 where the code and its comments
disagree; 7 what is only model-checked, and what is not modelled; 8 plan.

To repeat: `tlc -config CardWithdraw.cfg MCCardWithdraw` (and so on for each row of
section 3), `tlapm CardWithdrawProofs.tla` (and so on for each `*Proofs` module and
`SumTheorems`).

## 1. The system

Blink Terminal is a Next.js point of sale over a Blink wallet. Requests are handled by
any number of server processes; the durable state is PostgreSQL, Redis holds caches
and single-use tokens, Blink's GraphQL API holds the money. Nearly every handler is a
chain of awaits between these three, and none of them shares a transaction with
another. That is where the properties of this project come from.

| Component | State it keeps | Operations | What makes it hard |
|---|---|---|---|
| Bolt Card spending: `lib/boltcard/lnurlw.ts`, `lib/boltcard/store.ts` | `boltcards` (balance, counter, status), `boltcard_withdraw_sessions`, `boltcard_pending_withdrawals`, `boltcard_consumed_payment_hashes` | tap opens a session, callback consumes it, claims the invoice and deducts, pays, finalises; passes settle open rows | a crash between any two awaits; payments that outlive their sender; passes that race the callback |
| Reconciliation scheduler: `lib/boltcard/reconcile-scheduler.ts` | `last_checked_at`, an advisory lock | tick, select a batch, examine, deadline | passes that outlive their tick; starvation |
| Bolt Card top-ups: `lib/boltcard/lnurlp.ts` | `boltcard_pending_topups`, `boltcard_credited_topups` | create invoice, process a payment (webhook or tap), release, review | concurrent replays; a transfer at Blink in the middle |
| Bolt Card life cycle: registration, reset, wipe | `boltcards.version/status/last_counter`, `boltcard_pending_registrations` | claim a link, create, re-program, verify a reset, wipe, delete | unconditional writes after reads; a counter that restarts |
| Bolt Card funding and limits: `pages/api/boltcard/fund.ts`, `cards/[cardId].ts` | `boltcards.balance`, `daily_limit`, `daily_spent`, `daily_reset_at` | fund, adjust, set, change the limit, reset the window | absolute writes of computed values; restores that meet a reset |
| Vouchers: `lib/voucher-store.ts`, `pages/api/voucher/` | `vouchers`, an advisory lock per wallet | create against the live balance, redeem, cancel, expire, operator's script | a balance read outside the database; retries of a payment |
| Payment splits and tips: `lib/storage/hybrid-store.ts`, `pages/api/blink/` | `payment_splits`, a copy in Redis | store, claim, forward, tip, complete, release, expire | webhook and client forward the same receipt; retries |
| Challenges and rate limits: `lib/auth/challengeStore.ts`, `lib/rate-limit.ts` | keys in Redis | consume once; count | several Redis calls on a shared connection |
| NIP-46 sign-in: `lib/nip46-server/`, `pages/api/nostr-connect/` | live sessions and reservations in the process, records in Redis or a map | create, wait for the signer, poll, cancel, consume | late approvals; Redis errors after the write; restarts |
| NWC client | none | request and response over a relay | lost answers |
| Communities, batch payments, rate providers, keyring | tables, a cache | administration, imports, polling | mostly sequential |
| Browser, printing, PDF, CI | React state | | not server state |

How they interact. The withdrawal callback, the scheduler and the owner's balance tap
meet only in the rows of `boltcard_pending_withdrawals`: each write is a compare-and-set
on `resolved_at IS NULL` (and the kind). The webhook and the balance tap meet in
`boltcard_pending_topups.processed`. Voucher creation, settlement and the script meet in
the wallet's advisory lock, redemption and cancellation in the row's status. Blink's
webhook, the forwarding endpoints and the POS meet in `payment_splits.status`, of which
Redis holds a copy that some of them trust. A sign-in's worker, the browser's polls and a
later sign-in of the same browser meet in the session's record. Cards are also read and
written by their owner at any time: wiping and deleting a card cascades to its sessions and
withdrawal rows, but not to the consumed and credited hashes.

What makes each part correct, in one line each:

- spending: money is neither lost nor minted; an invoice is not both paid and given back;
  one tap, one payment; one invoice, one debit; whatever Blink decides ends in the row;
- scheduler: every open row is examined again and again; a pass is not wasted;
- top-ups: one receipt, one credit and one transfer; no credit without a receipt; a claim
  is given back only where nothing moved;
- vouchers: paid out at most once; the wallet backs what it issued; a liability leaves the
  sum only when it is settled or will never be paid;
- life cycle: a link mints once; one tap is used once although re-programming restarts the
  counter; the row never falls behind the chip's keys; a live card is not deleted;
- limits: the balance is exact; a window's allowance is neither exceeded nor charged twice;
- splits: a receipt is forwarded and tipped once; a finished payment is not reopened; a
  claim whose holder died ends;
- NIP-46: one approval, one sign-in, none after a recorded failure; the caps hold; every
  slot is freed.

`PROJECT.json` lists every component with its status and every hazard at its line.

## 2. Modules

| Module | Models | Extended by |
|---|---|---|
| `CardLedger` | what a card promises: an invoice is held once, then paid or returned; money is added by credits only | instantiated by `CardWithdraw` |
| `CardWithdraw` | taps, callbacks, the pay path, Blink, reconciliation of a row, the owner | `MCCardWithdraw`, `CardWithdrawProofs` |
| `ReconcileScheduler` | which open rows a pass reaches and when | `MCReconcileScheduler`, `CardWithdrawProofs` |
| `TopUpLedger` | what a top-up promises: a receipt moves at most once and is credited at most once, to its own card | instantiated by `CardTopUp` |
| `CardTopUp` | invoices, pending rows, processors, transfers, credits, the owner | `MCCardTopUp`, `CardTopUpProofs` |
| `VoucherLedger` | what a voucher promises: closed unpaid, or held by one redemption whose draw is spent or put back | instantiated by `Voucher` |
| `Voucher` | creation, redemption, cancellation, expiry, the script, on one wallet | `MCVoucher`, `VoucherProofs` |
| `PaymentSplits` | one escrowed payment: claim, forward, tips, release, completion, its Redis copy, expiry | `MCPaymentSplits`, `PaymentSplitsProofs` |
| `CardLifecycle` | one card and its row: links, registration, re-programming, reset, wipe, deletion, taps | `MCCardLifecycle`, `CardLifecycleProofs` |
| `CardLimits` | balance and daily window of one card under claims, restores and the owner | `MCCardLimits`, `CardLimitsProofs` |
| `Nip46Sessions` | server-held sign-in sessions, their worker, sockets and records | `MCNip46Sessions`, `Nip46SessionsProofs` |
| `SumTheorems` | no code: facts about sums over finite sets | `CardWithdrawProofs`, `CardTopUpProofs`, `VoucherProofs`, `PaymentSplitsProofs`, `CardLimitsProofs` |

Conventions. A handler is a process with a `pc`; each action is the code between two
awaits, so a SQL statement or a transaction is one step and everything a handler knows
from an earlier step may be stale. "The handler dies, or throws on a lost answer" is an
action of its own (`Crash`, `Abort`). Blink is modelled from what the code sends to it and
how it reads the answers: a request may be executed after its sender has given up.
Variables marked (history) are not in the code and guard nothing.
`MC*` modules only give constants their values. Definitions that stand before the one
they resemble and are named for a mistake (`HashFreeUntilWiped` before `HashFree`) are
the plausible bugs each property is known to detect; nothing else uses them.

### CardWithdraw and CardLedger

`status`, `balance` and `counter` are columns of `boltcards`; `tap[k]` is one tap's request
with the session row it obtains; `row[h]` is the `boltcard_pending_withdrawals` row of
invoice `h` (`kind`, `outcome`, whether it is older than `CLAIMED_UNSEEN_GRACE_MS`);
`consumed` is `boltcard_consumed_payment_hashes`; `req[q]` and `pass[r]` are a callback and a
reconciliation pass in progress; `blink[h]` is the payment.

`TapRead`, `StartWithdrawSession`: `handleWithdrawRequest`. `PeekSession`,
`ConsumeWithdrawSession`, `ReadCard`, `ClaimAndDeductWithdrawal` / `ClaimRefused`,
`BeginWithdrawalSend`, `WalletLookupFails` / `PayLnInvoice`, `PayAnswered`,
`RestoreRejected` / `FinalizeWithdrawal`: the awaits of `handleWithdrawCallback` in order.
`PickRow`, `PassReadsCard` (or `PassReadFails`: `getCard` returns null for a database error),
`CloseRow` / `LookUpPayment`, `PassWrites`: one iteration of `reconcilePendingWithdrawals`.

`CardLedger` has four variables (balances, what became of each invoice, the card it was
debited from, the number of credits) and no processes. `CardWithdraw` implements it under
the mapping at its end: an invoice is `returned` if its deduction was given back, `paid` if
Blink settled it, `held` if its hash is consumed, and "paid and returned", which is no state
of the contract, if both happened. Every change of a balance must be a hold, a return of a
held invoice to its own card, a counted credit or the card's deletion, so the refinement is
the strongest statement made about this component.

No sat is lost or minted because each step of the contract moves a held amount from one
place to one other. A card is followed from one activation to the next re-programming, and
the daily window appears as a claim that may be declined: the first is `CardLifecycle`, the
second `CardLimits`. The three modules divide the columns of one row between them and share
its status changes.

### ReconcileScheduler

`fresh` and `checked` are the open rows in selection order (never checked first, then by
`last_checked_at`); `run[s]` is the pass in slot `s` of any replica, `late` once its deadline
has settled the tick while the pass still waits for a row; `lock` is the advisory lock.
`wait` is history: for each row the completed scheduled passes that missed it since it was
created or last examined, and its `room`, the open rows at that moment and those that have
come since.
`BeginRow` is the stamp and the head of the loop, `RowDone` everything
`CardWithdraw` says in detail.

### CardTopUp and TopUpLedger

`pending[h]` and `credited` are the two top-up tables, `work[w]` a run of
`processTopUpPayment` started by a webhook delivery or a balance tap, one action per await
(`FindPending` to `Release`). `TransferExecutes` is Blink's side of the transfer to a USD
wallet; `AfterTransfer` is what the handler makes of the answer. `ClaimOutcomeUnknown` is the
claim whose commit may or may not have happened.

`TopUpLedger` knows cards, balances and invoices, but no rows, claims or processors. An invoice
is issued for one card, received, and credited in full; the sats of a USD card's receipt move
to the USD wallet once, and before the credit. `CardTopUp` implements it (`Promise`): the
balances are its own, `inUsd` is the number of executed transfers, and what became of an
invoice (`Due`) is `credited` if its hash is in `credited`, and otherwise Blink's word on it. A
second transfer, a credit without a receipt, to another card, or of a USD card before the
transfer, is no step of the contract.

### Voucher and VoucherLedger

`voucher[v]` is the row, `making[v]` the request that creates it, `lock` the wallet's advisory
lock, `call[r]` a redemption with `payment[r]`, the payment it sent, and `script` a run of
`scripts/reconcile-voucher-claims.js --apply`. Time is what the code compares: a voucher is
past its expiry or not, and the script's match window of a claim is the era of the claim
and the next one. A creation sums liabilities at the clock it read when it started
(`past`). What else is spent from the wallet is left out: the code cannot prevent it, and
`Backed` says what the code itself guarantees.

`VoucherLedger` has the balance and a stage for each voucher: `none`, `open`, `closed`, `held`,
`drawn`, `spent`. The stage of a voucher (`Stage`) is read off its row and the debits at Blink: a
settled debit of a redeemed row is `spent`, one in flight `drawn`; a row without a debit is what
its status says. A debit of a row that is not redeemed, and `PAID` without a debit, are no
stages of the contract. So "never drawn by two redemptions at once, never again after it was
spent", "cancelled, expired and given back only without a debit", "PAID only with a settled
debit" and "every change of the balance is the draw of a held voucher or its return" are one
statement.

### PaymentSplits

`row` is the `payment_splits` row, `cache` the status in its Redis copy, `task[w]` one webhook
delivery, request, POS flow or status poll. `Claim`, `ClaimRefused`, `ClaimFails` and
`ClaimAnswerLost` are the outcomes of `claimPaymentForProcessing`; `Pay` to `CompleteFails` the
awaits of the webhook, `forward-with-tips` and `forward-ln-address`; `DeferTips` to
`SendNwcTips` the three requests of the POS's own flow. `ReturnsHolding` is the early return
that keeps the claim, `Release` the one that gives it back, without asking whose it is.
`base[w]` is the payment an attempt sent: each attempt pays a fresh invoice, so nothing at
Blink joins two attempts. `Poll` and `WarmUp` read a pending row and write it to Redis after
the row may have moved on. `RecipientAmounts` is the arithmetic of the shares, which may be any
whole numbers: `create-invoice.ts:418-421` stores what the client sent, and 100 for each missing
one. `SharesFit` is what `TipsWithinTip` needs of them.

The history variable `marks` notes the two releases the code accepts as unsafe (of a payment
whose outcome is not known, and of somebody else's claim), the completion before payment of a
POS without tips, and the answer "already processed". `ForwardedOnce` and `CompletedIsPaid`
say that nothing else goes wrong.

### CardLifecycle

One UID. `card` is its row, `link[l]` a registration link with the `card_id` it was marked
with, `task[w]` a request. `ClaimLink` to `AnswerKeys` are the awaits of
`completePendingRegistration` and `_completeClaimedRegistration`; `LookUpCard` and
`RereadCard` may see null for an existing row, as `getCard` does on a database error.
`VerifyTap`/`StartWithdrawSession` and `VerifyReset`/`RecordVerifiedResetTap` are the two uses
of a tap, split where the code awaits. The chip is external: `ProgramChip`, `EraseChip` and
`TapChip` are what the programmer app and an NTAG 424 do. Keys are derived from the UID, the
owner's issuer key and the version (`deriveAllKeys`), so here they are an owner and a version:
the row's id is in the chip's URL (`holds.url`) and not in its keys, and a tap carries none. A
row that was deleted and the same owner's next row, which starts again at version 1 and counter
0, have the same keys, and each accepts the taps of the other.

`TapUsedOnce` is about what one row grants (section 6 has two rows), and about taps under the
current keys at the moment they are granted: a tap
that was verified before a re-programming and is granted after it is excepted, because
`startWithdrawSession` compares counters and not versions. `marks` notes the two races the
unconditional `UPDATE` of `reprogramCard` allows: over a row that was wiped meanwhile, and
over a version another re-programming wrote.

### CardLimits

`card` holds the columns, `claim[q]` a withdrawal with the window it noted
(`daily_window_reset_at`), `request[o]` what an owner's request read and is going to write. A
window is a number; `over` says that its `daily_reset_at` is past, and a claim's clock, read
before its statement, may not know it yet (`Clocks`). `Claim` is the deduction and the window
arithmetic of `claimAndDeductWithdrawal`, `Restore` of `resolvePendingWithdrawalFailed`,
`ResetDailyLimits` the cleanup's (ACTIVE cards only), `ResetDailySpent` the owner's.
`ReadBalance` and `WriteBalance` are the two ends of a funding. `granted` and `erased` are
history: what was put on the card, and whether a funding wrote over a later balance.

### Nip46Sessions

`create[s]` is the request that creates a session, `holding` the reservations, `live` the
sessions with sockets, `worker[s]` its wait for the signer, `record[s]` the session's status
in the process's map (`mem`) and in Redis (`red`): a write that Redis answers with an error
falls back to the map and may leave a copy behind. Every Redis command may fail before it is
executed (`NotExecuted`) or after (`ApprovalUnknown`, `ConsumeFails`). `sent` holds the
`markFailed` of a superseded session, which nobody waits for. `Restart` is a shutdown or a
crash: the map, the sockets and the reservations are gone, what Redis has stays.
`Poll` is one step although `resolveStatus` reads before it writes: for a record in the map
nothing runs between the two, and for one in Redis the transition checks again.

## 3. Runs

All runs use `-workers 2` and finish within four minutes.

| Run | Instance | Shows |
|---|---|---|
| `CardWithdraw` | 1 card, 2 invoices (1 and 2 sats on a balance of 2), 2 taps, 2 callbacks, 1 pass | types; `EverySpendHasItsOwnTap`; `ImplementsCardLedger` |
| `CardWithdrawRaces` | 2 cards, 1 invoice, 2 taps, 2 callbacks, 2 passes | `HashDebitsOnce`, also after the first card's rows cascaded away; `NeverPaidAndRestored` and `ResolutionIsFinal` with pass against pass against callback |
| `CardWithdrawLive` | 1 card, 1 invoice, 1 callback, 1 pass, fairness | `DecidedIsResolved`, `AbandonedClaimIsReleased` |
| `ReconcileScheduler` | 3 withdrawals on 2 cards, 1 row per tick, 2 passes at once, fairness | `CoveredByPasses`, `EveryOpenRowIsExamined` |
| `CardTopUp` | a BTC and a USD card, 1 invoice, 2 processors | `CreditsAddUp`, `ClaimableIsUntouched`, `ImplementsTopUpLedger` |
| `Voucher` | 2 equal vouchers, a wallet that backs one or both, 2 redemptions that may die, 3 eras | `PaidOutOnce`, `UnclaimedIsUnpaid`, `Backed`, `ImplementsVoucherLedger` |
| `PaymentSplits` | 1 payment to any destination, no tip, 2 sats shared 50/25/25, or 1 sat for three recipients without shares (100 each), 3 tasks of any kind, fairness of the cleanup | `ForwardedOnce`, `CompletedIsPaid`, `TipsWithinTip`, `NeverReopened`, `ClaimsEnd` |
| `PaymentSplitsUnpaid` | the same, 2 tasks | a violation, section 6 |
| `CardLifecycle` | 2 links, 2 owners, 3 requests, 2 rows of up to 3 versions, 2 taps per programming | `LinkMintsOnce`, `TapUsedOnce`, `KeysStayKnown`, `WipedIsFinal`, `NoLiveCardDeleted` |
| `CardLifecycleWiped` | 2 links, 2 requests | a violation, section 6 |
| `CardLimits` | withdrawals of 1, 1 and 2, a limit of 0, 2 or none, 2 windows, 1 owner's request at a time | `BalanceIsExact`, `NothingCountedTwice`, `WindowWithinLimit` |
| `Nip46Sessions` | 2 sessions of one client, room for 1, 2 requests to consume, restarts, fairness | `CapsHold`, `OneSignIn`, `SlotsAreFreed` |

Why these bounds are enough to be interesting. The write conflicts are between two
writers of one row, so two callbacks (one invoice or two, one session or two), two
passes, or a callback and a pass cover the pairs. Two invoices on a balance that holds one
or both make the second claim depend on whether the first was given back. Two cards and one
invoice are the smallest instance in which a hash can outlive its row. In the scheduler
three rows with a batch of one give a backlog that is three times the batch, and two slots
are the new tick's pass beside a late one or beside an owner's tap. The script needs two
vouchers that look alike (to be confused), two payments (one per redemption) and three eras
(a claim older than the window, with claims before and after its snapshot). A split needs
three tasks: a holder, one that takes the claim after it, and one that releases or warms the
copy between. A life cycle needs three requests and two rows for a deletion decided on one
row to meet another, and three versions and two links for two re-programmings of one reading.
The limits need a third claim to see what the restore of the first did to the second's window.
With room for one session, the second is refused, supersedes the first or comes after it. The
proofs of section 5 do not depend on any of these bounds.

Bounds in the models, each a constant: `MaxCounter` (counter values a card emits, per
programming in `CardLifecycle`), `Offers` (maxima a tap may compute; the code's maximum
depends on limits and rates, so any value between 1 and the balance read is possible),
`MaxTopUps`, `MaxEra`, `MaxCards`, `MaxVersion`, `MaxGranted`, `MaxWindow`. A hash, a tap, a
callback, a voucher, a request and a session are used once, as in the code. Symmetry is used
for sets no definition orders, and only in runs without liveness properties (in `CardLimits`
only for the two withdrawals of the same amount).

`CHECK_DEADLOCK FALSE` everywhere: each instance has finitely many taps, invoices, vouchers
or requests, and the system is at rest when they are used up.

## 4. Fairness

No property assumes that a callback, Blink, an owner or a payer ever does anything, except
where a run says so.

- `CardWithdraw!FairSpec`: a pass finishes the row it is at (`WF` on its steps: every await
  returns, the lookup is aborted by the deadline's signal), and it is not aborted at the
  same step for ever (`SF` on each step: a failing lookup or a deadline that hits one row in
  every pass would keep it open, in the code as well). `SF` on `PickRow(r, h)` says each open
  row is picked again and again. That is not free: it is what `ReconcileScheduler` shows as
  `EveryOpenRowIsExamined` for as many withdrawals as arrive in an instance. The clock passes
  the grace period. The callback gets no fairness, so `DecidedIsResolved` covers a callback
  that died right after it sent the payment.
- `ReconcileScheduler!FairSchedulerSpec`: every await of a pass returns; ticks keep coming (the
  timer re-arms itself after each tick) and find a free slot; and a tick is not cut short for ever
  before it has selected its batch and stamped its first row (a database that is slower than
  the deadline in every tick starves everything). Nothing else is assumed: every lookup may
  run into the deadline.
- `PaymentSplits!FairSpec`: `WF` of `Expire` only. `expireOldPayments` runs every five minutes
  for as long as a server is up, and takes rows in processing as well; no holder of a claim is
  assumed to do anything.
- `Nip46Sessions!FairSpec`: the timers fire and the awaits return (opening relays and waiting
  for the signer have deadlines, a Redis command is answered, be it with an error). No signer,
  browser or poll is assumed.

## 5. Proofs

Checked by tlapm with Z3, Zenon and LS4, from the named assumptions on the constants and
nothing else; the sets of cards, invoices, taps, requests, sessions and so on may be of any
size, and the bounds of section 3 any numbers. The assumptions are about types (amounts are
numbers, `None` is none of the values it stands in for) and finiteness. No theorem has a
hypothesis of its own.

In every module the argument has one shape. An inductive invariant `IInv` says, beside the
types, what a process knows at each of its steps although others have run since it read; one
lemma for each action (or each kind of action) shows that it is kept; the theorems are read
off it. Each `IInv` was checked by TLC on the instances of section 3 before it was proved. A
property of a run appears in its theorem as the run's own definition.

`CardWithdrawProofs`:

- `Invariance`: `IInv` of `CardWithdraw` is inductive. None of the safety properties is
  inductive alone. `NeverPaidAndRestored` needs to know that a row that is still `CLAIMED`
  has no payment (`RowsInv`), that a handler past `beginWithdrawalSend` has taken its row out
  of `CLAIMED` and its hash is not restored until it sends (`SendingInv`), that a handler
  that restores saw a rejection (`SendingInv`), and that what a pass read of a decided
  payment is still true when it writes (`PassesInv`). `HashDebitsOnce` needs
  `RequestsInv` (a deducted hash is in `consumed`); `EverySpendHasItsOwnTap` needs
  `SessionsInv` (open sessions of a card have different counters, none above the card's).
  The argument goes over what a step may do to a row: apart from the claim, every step
  leaves a row, advances it while it is open, or removes it (`RowsAdvanceStep`), and Blink's
  state of a hash moves along its own order (`BlinkMoves`).
- `TypeCorrect`, `PaidIsNeverRestored`, `EachHashDebitsOnce`, `TapsAreNotReplayed`,
  `ResolutionsAreFinal`: the properties of the runs, from `IInv`; and `SuccessIsTrue`: a row
  resolved SUCCESS stands for a payment that settled.
- `Refinement`: `Spec => ImplementsCardLedger`. Each kind of step is mapped to a step of the
  contract or a stutter; a restore is the contract's `Return`, which is enabled because `IInv`
  says the hash is held and neither paid nor returned.
- `KeepFacts`: what the filter of the selection order keeps (`Keep`, a function along the
  queue): the rows asked for, in their old order.
- `SchedulerInvariance`, and from it `BacklogTypeCorrect` and `NoPassIsWasted`
  (`CoveredByPasses`). The bound counts history, so the invariant relates it to the queue: the
  rows that stand before a row fit into the room that the passes that missed it have left
  (`QueueInv`). A pass that misses a row counts only when it ends, so while it is under way the
  rows before it that this pass will not examine any more must leave room for it too
  (`ProgressInv`): what it selected stood before the row, and what it has examined is behind it.
  A pass cut short by the deadline misses nothing and is not counted.

`CardTopUpProofs`:

- `Invariance`: the claim is a lock. `OneHolder` says two processors between claim and
  release never hold the same top-up, `Knows` what the holder knows at each step
  (`HolderKnows`: not credited; no transfer, or a moved one, according to the step), `RowFits`
  that a row that can be claimed is untouched and that `moves` counts the transfer.
- `TypeCorrect`, `ReleasedIsUntouched`: properties of the run; and, of the invariant as well,
  `TransferredOnce` (the sats of a receipt move once) and `NoCreditWithoutReceipt` (a credited
  top-up was received by Blink, whoever started the run).
- `CreditsAreExact`: a balance is the sum of the credits of its card. The invariant adds that
  `credited` is finite and that only its elements are summed; a credit adds one term
  (`SumAdd`), every other step leaves the sum alone.
- `Refinement`: `Spec => ImplementsTopUpLedger`. The contract's guards are what a processor knows
  at that step: `MoveToUsd` follows from `Knows` (a transfer on its way has not moved), `Credit`
  from `Knows` and `MovedInv`, which adds that a transfer executes for USD cards only.

`SumTheorems`: `MapThenSumSet` and `SumFunctionOnSet` are folds, defined by recursion over an
arbitrary choice of elements. Theorems of induction take the induction hypothesis as an
operator, which the provers cannot instantiate, so induction is done with sets: `LeastNumber`
takes a least element of a set of numbers, `SubsetsByElements` a smallest counterexample among
the subsets of a finite set. From these, `AddsUpOnce` and `AddsUpExists` say that the recursion has one
solution whatever the choices, and `SumEmpty`, `SumAdd`, `SumRemove`, `SumSame`, `SumChange`,
`SumGrows` and `SumSplit` how sums change. The other modules use nothing else about them.

`VoucherProofs`:

- `Invariance`: a callback redeems its voucher from the claim until a definite failure gives
  it back; it is alone in that (`OneRedeemer`), the row stays `CLAIMED` or `PAID` meanwhile
  and its payment is of the era of the claim or the next (`CallsInv`). `ScriptInv` says what
  the script's snapshot is worth when it is used: a target's match window is over, so every
  payment that could match it is that of a row of the snapshot.
- `TypeCorrect`, `PaysOnce`, `NoPaymentUnclaimed`: properties of the run, from `IInv`, and so is
  `PaidMeansSettled`, a part of the contract in words of its own.
- `BalanceBacksVouchers`: a debit moves an amount from the balance to what was drawn on
  vouchers still `CLAIMED`, a revert moves it back; the sum of both (`Worth`) only shrinks when
  a voucher becomes `PAID`, which waits for the wallet's lock. So a creation that fetched the
  balance under the lock never saw more than the worth when it sums and inserts (`BackInv`),
  and `Backed` follows.
- `Refinement`: `Spec => ImplementsVoucherLedger`. `IInv` says which debits a row can have
  (`StageKnown`): none unless it is redeemed, and while a callback redeems it only that
  callback's. A step that writes a row leaves the debits, and `RowMoves` lists the changes of
  status the code makes with what must be known of the debit for each: a voucher is given back
  without one, and the script writes PAID over a settled one. A step of Blink leaves the rows
  and moves one voucher between `held`, `drawn` and `spent`.

`PaymentSplitsProofs`:

- `Invariance`: `IInv` holds whatever goes wrong: what the Redis copy may say (`CacheInv`;
  never `processing`, and `completed` only of a row that is done) and what a task knows of
  its payment and its tips at each place. `AloneInv` is about the histories without the two
  unsafe releases that `marks` notes: there the claim is a lock, and a task past it is alone.
- `TypeCorrect`, `CompletedMeansPaid`, `ForwardsOnce`, `StaysDone`: the properties of the run.
- `TipsStayWithin`: `TipsWithinTip` for every split. Its condition, `SharesFit`, is about the
  stored row: the shares before the last are not 0 and add up to at most 100. Then the floors
  add up to at most the tip, the last recipient's remainder is not negative, and no selection of
  recipients gets more than the tip (`SumsWithinTip`). With `AloneInv` only one task sends any,
  so all attempts together stay within it too (`OneSender`). The run has a split that does
  not satisfy the condition; section 6 says what is sent for such splits.

`Nip46SessionsProofs`:

- `Invariance`: `SessionFits` says what can still become of a session: nothing exists of it
  before it is stored, only its worker approves it, and once it signed in or a failure was
  reported no copy of its record, in the map or in Redis, is approved or can become so.
  `ReadInv` says that a consuming request that has read stands by a session of the instance.
- `TypeCorrect`, `SignsInOnce`, `CapsAreKept`. The caps need the types only: the check and
  the reservation are one step, and every other step moves a session from `holding` to `live`
  or takes it out.

`CardLimitsProofs`:

- `Invariance`: `BalanceIsExact` is inductive with what a request has read (`RequestsInv`:
  unless overtaken, what it will write is the balance and its increment). `daily_spent` is
  bounded from both sides (`CountInv`): never more than the claims that stand in the card's
  window, and short of them by no more than what claims from before the window took off.
- `TypeCorrect`, `BalanceAddsUp`, `CountsOnce`, and `LimitHolds` from the lower bound: the
  statement compares `daily_spent` with the limit, the property the claims themselves.

`CardLifecycleProofs`:

- `Invariance`: every step makes the row age (`RowAges`): it keeps its id, its version and
  counter only move on unless re-programmings overlapped, it stays `WIPED` unless revived, or
  a new row takes the next id. What requests, keys and taps remember of a row survives ageing:
  a row about to be deleted is `WIPED` or was revived (`TasksInv`), keys programmed for
  the row are not newer than it (`KeysInv`), the row is past every tap that this row granted
  something under its keys (`UsesInv`). `LinksInv`
  says that a link has one holder from its claim to its mint or release.
- `TypeCorrect`, `MintsOnce`, `TapsCountOnce` (for each row), `KeysAreKnown`,
  `WipedStaysWiped`, `LiveCardsStay`: the properties of the run.

## 6. Where the code and its comments disagree

Two runs end in a violation; the quoted lines and the traces in words are in `PROJECT.json`
under "findings".

1. `PaymentSplitsUnpaid`. A POS that pays with its own wallet and has no tip to defer gets
   the row completed before anything was paid (`pages/api/blink/forward-nwc-with-tips.ts:273`);
   its request for the base amount is then answered "already forwarded"
   (`pages/api/blink/pay-invoice.ts:93`).
2. `CardLifecycleWiped`. "If card is WIPED, delete it completely to allow fresh registration"
   (`lib/boltcard/store.ts:691`): the row of a card that was registered through a link is
   referenced by that link, without `ON DELETE`, and cannot be deleted.

Read in the code while modelling it, without a run of their own (the models take the step,
and the properties are worded so that they do not claim otherwise):

- `getCard` answers null for a database error, and "Card gone: nothing to restore"
  (`lib/boltcard/lnurlw.ts:773`) then closes a live card's row without giving the deduction
  back (`PassReadFails`). It is the stated exception of `AbandonedClaimIsReleased` (`Misread`).
- "The whole backlog is covered in ceil(backlog/batch) passes"
  (`lib/boltcard/reconcile-scheduler.ts:24`) does not count arrivals, which go first. The
  bound with arrivals is `CoveredByPasses`.
- "A replay of a processed claim that never got a credit must stay visible"
  (`lib/boltcard/lnurlp.ts:564`): a replay that starts after the claim selects unprocessed rows
  only and never reaches that branch; a release whose write failed (`store.ts:2360`) is the same
  case. A top-up row is found for an hour only (`store.ts:2199`).
- "An unresolved claim stays a liability until reconciliation, unclaim or cancel resolves it"
  (`lib/voucher-store.ts:85`): after the voucher expired, unclaim refuses a definite failure
  (691) and nothing else applies either.
- A tap of a deleted row is good again at its owner's next row: the keys depend on the issuer
  key, the UID and the version (`lib/boltcard/crypto.ts:352-397`), and a new row starts at
  version 1 and counter 0 (`lib/boltcard/store.ts:927`, `977`), below every tap the chip made
  before. `TapUsedOnce` is therefore about one row. Likewise a chip left from the deleted row may
  hold keys of a version the new row has not reached; `KeysStayKnown` is about the row that the
  chip's URL names.
- Shares are stored as they come, and 100 for each missing one
  (`pages/api/blink/create-invoice.ts:418-421`); the last recipient's negative remainder is
  skipped. Three recipients without shares are sent the tip twice. A share of 0 is read as an even
  one (`pages/api/blink/webhook.ts:879`, `forward-with-tips.ts:332`), so 0/100/100 of 3 sats
  sends 4. `TipsWithinTip` says which shares exclude this; the run has both kinds.
- A limit set on a card that was created without one never opens a window (`updateCard`,
  `store.ts:1221`), so what is spent is counted for ever until the owner resets it once.
  `WindowWithinLimit` holds, as "window" then is that whole time. A claim from before that
  reset, given back after it, comes off the new day's spending (`store.ts:2168`); the property
  adds exactly these amounts.
- `updateCardBalance`, "atomic operation" (`store.ts:1257`), stores an absolute number computed
  from an earlier read. `BalanceIsExact` excepts the writes that were overtaken.
- Cancelling a sign-in answers "cancelled" also if the record could not be written
  (`lib/nip46-server/sessionManager.ts:365`); `OneSignIn` is about failures that were recorded.
  Two creates of one browser that overlap both live: a session is superseded only once it is
  live.

## 7. Only model-checked, and not modelled

Only model-checked: liveness (`DecidedIsResolved`, `AbandonedClaimIsReleased`,
`EveryOpenRowIsExamined`, `ClaimsEnd`, `SlotsAreFreed`), which the installed provers cannot
treat, and the two violations of section 6, which are counterexamples. All other properties of
the runs, the three refinements among them, are theorems.

Left out of the modules on purpose: message formats and cryptography (a tap is a counter
value that verifies under a key version), exchange rates and fees, audit rows and event logs,
a voucher's limit per wallet, re-rating of USD vouchers, other spending from the wallet, the
scheduler's timers, failed unlock and stale-row report, payout limits, and what the NIP-46
messages contain. Also left out:

- rows of the kind `RESTORE_FAILED` (`lib/boltcard/lnurlw.ts:819-829`). The claim writes
  `CLAIMED` and the pay path `SEND_ATTEMPTED`; the one function that takes a kind
  (`recordPendingWithdrawal`, `lib/boltcard/store.ts:1760`) is called by tests only.
- a stamp of `last_checked_at` that fails (`markWithdrawalChecked`, caught for each row at
  `lnurlw.ts:846`). Such a row keeps its place, and one that fails in every pass would hold up
  the rows behind it in a batch of one: `EveryOpenRowIsExamined` and `CoveredByPasses` are about
  passes whose stamps succeed.
- `forward-nwc-with-tips` without deferred tips (291-508): it sends the tips with no base payment
  at all. The one caller (`components/POS.tsx:565`) always defers them.
- a negative initial balance, which `pages/api/boltcard/register.ts:138` does not refuse.
  `CardLimits` starts with none, and its type invariant (no negative balance) says that no
  statement makes one; a negative `daily_limit` blocks every claim, as a limit of 0 does.
- shares that are not whole numbers.

Not modelled components, with reasons, are in `PROJECT.json`. Authentication challenges and
rate limits are short sequences of Redis commands: whether two requests share a connection
between `WATCH` and `EXEC` (`lib/auth/challengeStore.ts:316`) is decided by the driver, which is
not in the repository, and a counter whose `EXPIRE` never came (`lib/rate-limit.ts:149`) is one
fact and no protocol. Read-only endpoints, stateless clients and byte layouts keep no state a
property could be about. Browser and printing code is large and sequential, and nothing on
the server depends on it. Communities are table writes and an import keyed by transaction id.

## 8. Plan

The components that move money or sign somebody in are modelled, and their safety is proved.
What is left, in order:

1. A contract of a claimable job (held by one, given back only untouched, done once) which
   `CardTopUp` and `PaymentSplits` would share.
2. Communities: the import of transactions and the consent of members, as a module of its own.
3. The limit on unclaimed vouchers per wallet and other spending from it, in `Voucher`.
