---------------------------- MODULE PaymentSplits ----------------------------
(***************************************************************************)
(* One escrowed payment: the customer paid the platform's invoice, and the  *)
(* stored split (lib/storage/hybrid-store.ts) is forwarded to the merchant  *)
(* and the tips to their recipients.  Blink's webhook, the two forwarding    *)
(* endpoints and the POS's own NWC flow compete for the row: the claim      *)
(* decides, a release gives another try, a background job expires the row.  *)
(* Payments share nothing, so the module has one row.                       *)
(*                                                                          *)
(* Abstracted: the invoice each attempt pays is a fresh one, so an attempt   *)
(* is a payment of its own; the redis commands of a step happen with it or   *)
(* fail, and a copy's time to live is a step that may come at any time; the  *)
(* tip sends of an attempt are one step; memos, limits and the event log.    *)
(* Shares are whole numbers, and any: create-invoice stores what it is sent, *)
(* and 100 for a share that is missing.                                      *)
(***************************************************************************)
EXTENDS Integers, Sequences, FiniteSets, Functions

CONSTANTS Tasks,   \* webhook deliveries, requests, POS flows and status polls
          Splits,  \* [tip |-> sats, shares |-> percent per recipient]
          None

Statuses == {"pending", "processing", "completed", "failed", "expired"}

ASSUME SplitsAssumption ==
    /\ IsFiniteSet(Tasks) /\ None \notin Tasks \cup Statuses
    /\ \A s \in Splits : s.tip \in Nat /\ s.shares \in Seq(Int)

VARIABLES row,     \* the payment_splits row
          cache,   \* the redis copy's status
          task,    \* task[w]: what w runs and where it stands
          base,    \* base[w]: the base payment w asked Blink for
          tips,    \* tips[w]: sats of tips w sent
          holder,  \* whose claim the row's 'processing' is (history)
          marks    \* what went wrong on the way (history)

vars == <<row, cache, task, base, tips, holder, marks>>

(* An NWC wallet whose URI was not stored is nowhere for the webhook too.      *)
Dests == {"address", "npub", "nwc", "apiKey", "nowhere"}
Forwarders == {"webhook", "withTips", "toAddress"}
Kinds == Forwarders \cup {"pos", "poll", None}
Places == {"idle", "chosen", "paying", "tips", "complete", "release",
           "payInvoice", "sendTips", "warm", "done"}
BaseStates == {"none", "wire", "inflight", "settled", "failed"}

(* The base payment may have reached the merchant, or still may. *)
Out(w) == base[w] \in {"wire", "inflight", "settled"}
Payments == {w \in Tasks : Out(w)}

-------------------------------------------------------------------------------
(* How a tip is shared: floor of each one's percentage, a missing or zero     *)
(* share read as an even one, and the last recipient gets what is left.      *)

HasTips(s) == s.tip > 0 /\ s.shares # <<>>

Portion(s, i) ==
    IF s.shares[i] = 0 THEN s.tip \div Len(s.shares) ELSE (s.tip * s.shares[i]) \div 100

RecipientAmountsRounded(s) ==
    [i \in 1..Len(s.shares) |-> (s.tip * s.shares[i] + 50) \div 100]

RecipientAmounts(s) ==
    LET n == Len(s.shares)
        part == [i \in 1..n |-> Portion(s, i)] IN
    [part EXCEPT ![n] = s.tip - SumFunctionOnSet(part, 1..(n - 1))]

(* The sums that may go out: a recipient's payment can fail without stopping  *)
(* the others, and an amount of 0 or less is skipped.                        *)
TipSums(s) ==
    IF ~HasTips(s) THEN {0}
    ELSE LET a == RecipientAmounts(s) IN
         {SumFunctionOnSet(a, R) : R \in SUBSET {i \in DOMAIN a : a[i] > 0}}

-------------------------------------------------------------------------------
TypeOK ==
    /\ row \in [status : Statuses, dest : Dests, split : Splits]
    /\ cache \in Statuses \cup {None}
    /\ task \in [Tasks -> [kind : Kinds, at : Places]]
    /\ base \in [Tasks -> BaseStates]
    /\ tips \in [Tasks -> Int]
    /\ holder \in Tasks \cup {None}
    /\ holder # None <=> row.status = "processing"
    /\ marks \subseteq {"unsure", "foreign", "shortcut", "told"}

Init ==
    /\ row \in [status : {"pending"}, dest : Dests, split : Splits]
    /\ cache \in {"pending", None}
    /\ task = [w \in Tasks |-> [kind |-> None, at |-> "idle"]]
    /\ base = [w \in Tasks |-> "none"]
    /\ tips = [w \in Tasks |-> 0]
    /\ holder = None
    /\ marks = {}

At(w, kinds, place) == task[w].kind \in kinds /\ task[w].at = place
Ended == [kind |-> None, at |-> "done"]
Go(w, place) ==
    task' = [task EXCEPT ![w] = IF place = "done" THEN Ended ELSE [@ EXCEPT !.at = place]]
Begin(w, k, place) ==
    /\ task[w].at = "idle"
    /\ task' = [task EXCEPT ![w] = IF place = "done" THEN Ended ELSE [kind |-> k, at |-> place]]

SetStatusOnce(st) == row' = IF row.status = "pending" THEN [row EXCEPT !.status = st] ELSE row
SetStatus(st) == row' = [row EXCEPT !.status = st]

(* DEL of the copy, or redis does not answer. *)
DropCopy == cache' \in {None, cache}
(* updatePaymentStatus rewrites a copy that is there; removeTipData drops it. *)
Recopied(st) == {cache} \cup (IF cache = None THEN {} ELSE {st})

-------------------------------------------------------------------------------
(* claimPaymentForProcessing *)

ClaimableUnlessDone == row.status \in {"pending", "processing"}
Claimable == row.status = "pending"

Claim(w, k) ==
    /\ Claimable
    /\ Begin(w, k, "chosen")
    /\ SetStatus("processing") /\ holder' = w
    /\ DropCopy
    /\ UNCHANGED <<base, tips, marks>>

(* Every answer but a claim ends the request: 200, 409 or a skip for the POS. *)
ClaimRefused(w, k) ==
    /\ ~Claimable
    /\ Begin(w, k, "done")
    /\ UNCHANGED <<row, cache, base, tips, holder, marks>>

(* A statement of the claim fails.  Only the webhook's catch releases, and it *)
(* does so whether or not the claim is its own.                             *)
AfterError(k) == IF k = "webhook" THEN "release" ELSE "done"

ClaimFails(w, k) ==
    /\ Begin(w, k, AfterError(k))
    /\ UNCHANGED <<row, cache, base, tips, holder, marks>>

ClaimAnswerLost(w, k) ==
    /\ Claimable
    /\ Begin(w, k, AfterError(k))
    /\ SetStatus("processing") /\ holder' = w
    /\ UNCHANGED <<cache, base, tips, marks>>

(* releaseFailedClaim: whose claim it is is not asked. *)
ReleasableAnyway == row.status \notin {"completed"}
Releasable == row.status = "processing"

Release(w) ==
    /\ task[w].at = "release"
    /\ Go(w, "done")
    /\ IF Releasable
       THEN /\ SetStatus("pending") /\ holder' = None
            /\ marks' = marks \cup (IF Out(w) THEN {"unsure"} ELSE {})
                              \cup (IF holder # w THEN {"foreign"} ELSE {})
       ELSE UNCHANGED <<row, holder, marks>>
    /\ UNCHANGED <<cache, base, tips>>

-------------------------------------------------------------------------------
(* The forwarders: the webhook, forward-with-tips and forward-ln-address.     *)

CanPay(k, dest) ==
    \/ k = "webhook" /\ dest \in {"address", "nwc", "apiKey"}
    \/ k = "withTips" /\ dest = "apiKey"
    \/ k = "toAddress" /\ dest = "address"

Pay(w) ==
    /\ At(w, Forwarders, "chosen")
    /\ CanPay(task[w].kind, row.dest)
    /\ base' = [base EXCEPT ![w] = "wire"]
    /\ Go(w, "paying")
    /\ UNCHANGED <<row, cache, tips, holder, marks>>

(* No destination for this handler, no wallet or no invoice to pay. *)
NothingToPay(w) ==
    /\ At(w, Forwarders, "chosen")
    /\ ~(task[w].kind = "webhook" /\ row.dest = "npub")
    /\ Go(w, "release")
    /\ UNCHANGED <<row, cache, base, tips, holder, marks>>

(* A missing configuration, an invoice error or a status other than SUCCESS   *)
(* is a plain return here: the row stays 'processing'.                       *)
ReturnsHolding(w) ==
    /\ \/ At(w, {"withTips", "toAddress"}, "chosen")
       \/ At(w, {"toAddress"}, "paying") /\ base[w] \in {"inflight", "failed"}
    /\ Go(w, "done")
    /\ UNCHANGED <<row, cache, base, tips, holder, marks>>

(* npub.cash: the webhook marks the row 'failed', whatever it is by then. *)
MarkFailed(w) ==
    /\ At(w, {"webhook"}, "chosen") /\ row.dest = "npub"
    /\ \/ /\ SetStatus("failed") /\ holder' = None
          /\ cache' \in Recopied("failed")
          /\ Go(w, "done")
       \/ /\ Go(w, "release")
          /\ UNCHANGED <<row, cache, holder>>
    /\ UNCHANGED <<base, tips, marks>>

(* payLnInvoice answers SUCCESS. *)
SaysSuccessOnPending(w) == base[w] \in {"inflight", "settled"}
SaysSuccess(w) == base[w] = "settled"

Paid(w) ==
    /\ task[w].at = "paying"
    /\ SaysSuccess(w)
    /\ Go(w, IF task[w].kind = "pos" THEN "sendTips" ELSE "tips")
    /\ UNCHANGED <<row, cache, base, tips, holder, marks>>

(* It throws, for a timeout or a lost answer too, or PENDING makes the caller *)
(* throw: the claim is released whatever became of the payment.              *)
PayFails(w) ==
    /\ task[w].at = "paying"
    /\ Go(w, "release")
    /\ UNCHANGED <<row, cache, base, tips, holder, marks>>

SendTips(w) ==
    /\ task[w].at = "tips"
    /\ \E n \in TipSums(row.split) : tips' = [tips EXCEPT ![w] = n]
    /\ Go(w, "complete")
    /\ UNCHANGED <<row, cache, base, holder, marks>>

(* removeTipData *)
Complete(w) ==
    /\ task[w].at = "complete"
    /\ SetStatus("completed") /\ holder' = None
    /\ cache' \in Recopied("completed") \cup {None}
    /\ Go(w, "done")
    /\ UNCHANGED <<base, tips, marks>>

(* The write fails, or only its answer: the forwarders release the claim, and *)
(* send-nwc-tips answers 500.                                               *)
CompleteFails(w) ==
    /\ task[w].at = "complete"
    /\ \/ UNCHANGED <<row, holder>>
       \/ SetStatus("completed") /\ holder' = None
    /\ Go(w, IF task[w].kind = "pos" THEN "done" ELSE "release")
    /\ UNCHANGED <<cache, base, tips, marks>>

-------------------------------------------------------------------------------
(* The POS and its three requests: forward-nwc-with-tips with deferTips,      *)
(* pay-invoice, send-nwc-tips.  The POS claims like the others.              *)

DeferTips(w) ==
    /\ At(w, {"pos"}, "chosen") /\ HasTips(row.split)
    /\ Go(w, "payInvoice")
    /\ UNCHANGED <<row, cache, base, tips, holder, marks>>

(* Without tips the row is completed before the base amount is paid.  When the *)
(* write, or only its answer, is lost, the catch releases the claim.         *)
NoTipsToDefer(w) ==
    /\ At(w, {"pos"}, "chosen") /\ ~HasTips(row.split)
    /\ \/ /\ SetStatus("completed") /\ holder' = None
          /\ cache' \in Recopied("completed") \cup {None}
          /\ marks' = marks \cup {"shortcut"}
          /\ Go(w, "payInvoice")
       \/ /\ SetStatus("completed") /\ holder' = None
          /\ marks' = marks \cup {"shortcut"}
          /\ Go(w, "release")
          /\ UNCHANGED cache
       \/ /\ Go(w, "release")
          /\ UNCHANGED <<row, cache, holder, marks>>
    /\ UNCHANGED <<base, tips>>

(* getTipData: the copy if redis has one and answers, the row otherwise. *)
Reads(status) == status = row.status \/ status = cache

(* A pending row is written to redis after it was read. *)
NeedsWarmUp(status) == status = "pending" /\ row.status = "pending"
After(status) == IF NeedsWarmUp(status) THEN "warm" ELSE "done"

MayPay(status) == status = "processing"

PayInvoice(w) ==
    /\ At(w, {"pos"}, "payInvoice")
    /\ \E status \in Statuses :
         /\ Reads(status)
         /\ base' = IF MayPay(status) THEN [base EXCEPT ![w] = "wire"] ELSE base
         /\ Go(w, IF MayPay(status) THEN "paying"
                  ELSE IF status = "completed" /\ HasTips(row.split) THEN "sendTips"
                  ELSE After(status))
         /\ marks' = IF status = "completed" THEN marks \cup {"told"} ELSE marks
    /\ UNCHANGED <<row, cache, tips, holder>>

(* The row cannot be read: the catch releases the claim. *)
PayInvoiceReadFails(w) ==
    /\ At(w, {"pos"}, "payInvoice")
    /\ Go(w, "release")
    /\ UNCHANGED <<row, cache, base, tips, holder, marks>>

SendNwcTips(w) ==
    /\ At(w, {"pos"}, "sendTips")
    /\ \E status \in Statuses :
         /\ Reads(status)
         /\ Go(w, IF status = "processing" THEN "tips" ELSE After(status))
    /\ UNCHANGED <<row, cache, base, tips, holder, marks>>

-------------------------------------------------------------------------------
(* payment-status, polled by the POS every second. *)

Poll(w) ==
    /\ \E status \in Statuses : Reads(status) /\ Begin(w, "poll", After(status))
    /\ UNCHANGED <<row, cache, base, tips, holder, marks>>

WarmUp(w) ==
    /\ task[w].at = "warm"
    /\ cache' \in {"pending", cache}
    /\ Go(w, "done")
    /\ UNCHANGED <<row, base, tips, holder, marks>>

-------------------------------------------------------------------------------
(* The server restarts, the POS goes away or its wallet makes no invoice. *)
Stop(w) ==
    /\ task[w].at \notin {"idle", "done"}
    /\ Go(w, "done")
    /\ UNCHANGED <<row, cache, base, tips, holder, marks>>

BlinkExecutes(w) ==
    /\ \E b \in BaseStates :
         /\ <<base[w], b>> \in {<<"wire", "inflight">>, <<"wire", "failed">>,
                                <<"inflight", "settled">>, <<"inflight", "failed">>}
         /\ base' = [base EXCEPT ![w] = b]
    /\ UNCHANGED <<row, cache, task, tips, holder, marks>>

(* expireOldPayments, after 15 minutes. *)
ExpirableIdle == row.status = "pending"
Expirable == row.status \in {"pending", "processing"}

Expire ==
    /\ Expirable
    /\ SetStatus("expired") /\ holder' = None
    /\ DropCopy
    /\ UNCHANGED <<task, base, tips, marks>>

CopyExpires ==
    /\ cache # None
    /\ cache' = None
    /\ UNCHANGED <<row, task, base, tips, holder, marks>>

Next ==
    \/ \E w \in Tasks, k \in Forwarders \cup {"pos"} :
         Claim(w, k) \/ ClaimRefused(w, k) \/ ClaimFails(w, k) \/ ClaimAnswerLost(w, k)
    \/ \E w \in Tasks :
         \/ Release(w) \/ Pay(w) \/ NothingToPay(w) \/ ReturnsHolding(w) \/ MarkFailed(w)
         \/ Paid(w) \/ PayFails(w) \/ SendTips(w) \/ Complete(w) \/ CompleteFails(w)
         \/ DeferTips(w) \/ NoTipsToDefer(w) \/ PayInvoice(w) \/ PayInvoiceReadFails(w)
         \/ SendNwcTips(w) \/ Poll(w) \/ WarmUp(w) \/ Stop(w) \/ BlinkExecutes(w)
    \/ Expire \/ CopyExpires

Spec == Init /\ [][Next]_vars

(* The cleanup job runs every five minutes for as long as a server is up.   *)
FairSpec == Spec /\ WF_vars(Expire)

-------------------------------------------------------------------------------
(* Every release was its holder's, of a payment that definitely failed. *)
Clean == marks \cap {"unsure", "foreign"} = {}

(* The claim exists so that a payment is forwarded once (forward-with-tips.ts *)
(* :84, "only ONE request can process this payment").  A second base payment,  *)
(* or a second round of tips, takes a claim that was released while its        *)
(* payment might still settle, or one released by somebody else.              *)
ForwardedOnce ==
    Clean =>
        /\ Cardinality(Payments) <= 1
        /\ Cardinality({w \in Tasks : tips[w] # 0}) <= 1

(* A completed row stands for a base payment that settled, unless the POS's    *)
(* flow without tips completed it before anything was paid.                   *)
CompletedIsPaid ==
    row.status = "completed" /\ "shortcut" \notin marks =>
        \E w \in Tasks : base[w] = "settled"

(* pay-invoice answers 200 "Payment already processed", "Idempotent - already   *)
(* forwarded" (pay-invoice.ts:93), only when a base payment was asked for.     *)
ToldIsForwarded == "told" \in marks => Payments # {}

(* The shares before the last one are percentages of one tip: none is 0, which  *)
(* would be read as an even share, and they add up to at most 100.  The last    *)
(* one does not matter, for its recipient gets what is left.                 *)
SharesFit(s) ==
    /\ \A i \in 1..(Len(s.shares) - 1) : s.shares[i] > 0
    /\ SumFunctionOnSet(s.shares, 1..(Len(s.shares) - 1)) <= 100

(* For shares that fit, the recipients an attempt pays never get more than the  *)
(* tip together, whichever of their payments fail, and unless a claim was       *)
(* released unsafely this is so for all attempts on the payment together.  The  *)
(* condition is not the code's: create-invoice.ts:418-421 stores any shares and *)
(* 100 for each missing one, and three recipients at 100 are sent the tip twice. *)
TipsWithinTip ==
    SharesFit(row.split) =>
        /\ \A w \in Tasks : tips[w] <= row.split.tip
        /\ Clean => SumFunctionOnSet(tips, Tasks) <= row.split.tip

(* Once the row is completed, failed or expired, no late release, retry or     *)
(* delivery makes it claimable again.                                        *)
NeverReopened ==
    [][row.status \in {"completed", "failed", "expired"}
         => row'.status \notin {"pending", "processing"}]_vars

(* A claim does not stay for ever: when its holder died or returned with it,   *)
(* the cleanup job ends it.                                                  *)
ClaimsEnd == row.status = "processing" ~> row.status # "processing"
===============================================================================
