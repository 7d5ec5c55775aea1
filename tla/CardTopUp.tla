------------------------------ MODULE CardTopUp ------------------------------
(***************************************************************************)
(* Topping up a Bolt Card over LNURL-pay: lib/boltcard/lnurlp.ts over the   *)
(* rows of lib/boltcard/store.ts.  A payer obtains an invoice, a pending    *)
(* row remembers which card it is for, and once it is paid any number of    *)
(* processors (deliveries of Blink's webhook, the owner's balance taps) run *)
(* processTopUpPayment on it: verify the receipt, claim the row, move the   *)
(* sats to the USD wallet when the card is a USD card, credit the card.     *)
(* Every await is a step boundary, a processor may die anywhere, and a      *)
(* database or Blink answer may be lost after its effect happened.          *)
(*                                                                          *)
(* Abstracted: amounts (Worth is what the card is credited, the rate        *)
(* included), the environment of the card, what the card spends meanwhile   *)
(* (module CardWithdraw), and the in-memory cache, which the webhook only   *)
(* consults to choose this path.                                            *)
(***************************************************************************)
EXTENDS Naturals, FiniteSets, FiniteSetsExt

CONSTANTS Cards,
          UsdCards,   \* the cards whose wallet is the USD wallet
          Hashes,     \* payment hashes of the top-up invoices
          Workers,    \* concurrent runs of processTopUpPayment
          Worth,      \* [Hashes -> Nat \ {0}]: what the card is credited
          None

ASSUME CardTopUpAssumption ==
    /\ UsdCards \subseteq Cards
    /\ Worth \in [Hashes -> Nat \ {0}]
    /\ None \notin Cards \cup Hashes

VARIABLES status,     \* status[c]: boltcards.status, "deleted" once the row is gone
          balance,    \* balance[c]: what top-ups put on the card
          invoice,    \* invoice[h]: the invoice at Blink and the card it is for
          pending,    \* pending[h]: boltcard_pending_topups
          credited,   \* boltcard_credited_topups
          transfer,   \* transfer[h]: the latest BTC to USD transfer at Blink
          moves,      \* moves[h]: how many transfers moved sats (history)
          work        \* work[w]: a run of processTopUpPayment

cardVars == <<status, balance, credited>>
usdVars == <<transfer, moves>>
vars == <<cardVars, invoice, pending, usdVars, work>>

Statuses == {"PENDING", "ACTIVE", "DISABLED", "WIPED", "deleted"}
InvoiceStates == {"none", "created", "open", "paid", "failed"}
RowStates == {"none", "open", "processed", "deleted"}
Steps == {"idle", "found", "carded", "verified", "ready", "claimed", "lost", "flagging",
          "checked", "transferring", "moved", "crediting", "releasing", "reviewing"}
Holding == {"claimed", "checked", "transferring", "moved", "crediting", "releasing"}

NoRow == [st |-> "none", expired |-> FALSE, review |-> FALSE]
IdleWorker == [pc |-> "idle", hash |-> None, seen |-> "none"]

Invoices == [st : InvoiceStates, card : Cards \cup {None}]
PendingRows == [st : RowStates, expired : BOOLEAN, review : BOOLEAN]
WorkRecords == [pc : Steps, hash : Hashes \cup {None}, seen : Statuses \cup {"none"}]

(* A row that does not exist carries no flags. *)
TypeOK ==
    /\ status \in [Cards -> Statuses]
    /\ balance \in [Cards -> Nat]
    /\ credited \in SUBSET Hashes
    /\ invoice \in [Hashes -> Invoices]
    /\ pending \in [Hashes -> PendingRows]
    /\ \A h \in Hashes : pending[h].st \in {"none", "deleted"} =>
          ~pending[h].expired /\ ~pending[h].review
    /\ transfer \in [Hashes -> {"none", "wire", "moved", "failed"}]
    /\ moves \in [Hashes -> Nat]
    /\ work \in [Workers -> WorkRecords]

Init ==
    /\ status = [c \in Cards |-> "PENDING"]
    /\ balance = [c \in Cards |-> 0]
    /\ credited = {}
    /\ invoice = [h \in Hashes |-> [st |-> "none", card |-> None]]
    /\ pending = [h \in Hashes |-> NoRow]
    /\ transfer = [h \in Hashes |-> "none"]
    /\ moves = [h \in Hashes |-> 0]
    /\ work = [w \in Workers |-> IdleWorker]

CardOf(h) == invoice[h].card
HasRow(h) == pending[h].st \in {"open", "processed"}
IsUsd(h) == CardOf(h) \in UsdCards

-------------------------------------------------------------------------------
(* The payer: handleTopUpCallback creates the invoice at Blink, stores the  *)
(* pending row, and only then hands the invoice out.                        *)

CreateInvoice(h, c) ==
    /\ invoice[h].st = "none"
    /\ status[c] \in {"ACTIVE", "PENDING"}
    /\ invoice' = [invoice EXCEPT ![h] = [st |-> "created", card |-> c]]
    /\ UNCHANGED <<cardVars, pending, usdVars, work>>

(* The row refers to the card row, so a deleted card withholds the invoice. *)
StorePendingTopUp(h) ==
    /\ invoice[h].st = "created"
    /\ status[CardOf(h)] # "deleted"
    /\ pending' = [pending EXCEPT ![h].st = "open"]
    /\ invoice' = [invoice EXCEPT ![h].st = "open"]
    /\ UNCHANGED <<cardVars, usdVars, work>>

(* The hour of the pending row is over; the invoice lives on at Blink.      *)
RowExpires(h) ==
    /\ HasRow(h) /\ ~pending[h].expired
    /\ pending' = [pending EXCEPT ![h].expired = TRUE]
    /\ UNCHANGED <<cardVars, invoice, usdVars, work>>

(* Blink: the invoice is paid, or its only payment failed. *)
InvoiceEnds(h, s) ==
    /\ invoice[h].st = "open"
    /\ s \in {"paid", "failed"}
    /\ invoice' = [invoice EXCEPT ![h].st = s]
    /\ UNCHANGED <<cardVars, pending, usdVars, work>>

(* A balance tap finds the invoice failed and closes its row. *)
CloseFailedInvoice(h) ==
    /\ invoice[h].st = "failed"
    /\ pending[h].st = "open" /\ ~pending[h].expired
    /\ pending' = [pending EXCEPT ![h].st = "processed"]
    /\ UNCHANGED <<cardVars, invoice, usdVars, work>>

-------------------------------------------------------------------------------
(* processTopUpPayment, one action per await. *)

HashOf(w) == work[w].hash
At(w, step) == work[w].pc = step
Goto(w, step) == work' = [work EXCEPT ![w].pc = step]
Return(w) == work' = [work EXCEPT ![w] = IdleWorker]

FindPending(w, h) ==
    /\ At(w, "idle")
    /\ pending[h].st = "open" /\ ~pending[h].expired
    /\ work' = [work EXCEPT ![w] = [pc |-> "found", hash |-> h, seen |-> "none"]]
    /\ UNCHANGED <<cardVars, invoice, pending, usdVars>>

ReadCard(w) ==
    LET s == status[CardOf(HashOf(w))] IN
    /\ At(w, "found")
    /\ IF s = "deleted" THEN Return(w)
       ELSE work' = [work EXCEPT ![w] = [@ EXCEPT !.pc = "carded", !.seen = s]]
    /\ UNCHANGED <<cardVars, invoice, pending, usdVars>>

(* The receipt is PAID and its settlement amount covers the top-up. *)
Received(h) == invoice[h].st = "paid"

VerifyReceipt(w) ==
    /\ At(w, "carded")
    /\ IF Received(HashOf(w)) THEN Goto(w, "verified") ELSE Return(w)
    /\ UNCHANGED <<cardVars, invoice, pending, usdVars>>

(* The first top-up of a card that was PENDING when it was read. *)
ActivateCard(w) ==
    LET c == CardOf(HashOf(w)) IN
    /\ At(w, "verified")
    /\ CASE work[w].seen # "PENDING" -> Goto(w, "ready") /\ UNCHANGED status
         [] work[w].seen = "PENDING" /\ status[c] \in {"PENDING", "DISABLED"} ->
              Goto(w, "ready") /\ status' = [status EXCEPT ![c] = "ACTIVE"]
         [] OTHER -> Return(w) /\ UNCHANGED status
    /\ UNCHANGED <<balance, credited, invoice, pending, usdVars>>

ClaimableUnchecked(h) == pending[h].st \in {"open", "processed"}

(* processed = FALSE; the expiry is not looked at again. *)
Claimable(h) == pending[h].st = "open"

Processed(h) == pending' = [pending EXCEPT ![h].st = "processed"]

MarkTopUpProcessed(w) ==
    /\ At(w, "ready")
    /\ IF Claimable(HashOf(w))
         THEN Processed(HashOf(w)) /\ Goto(w, "claimed")
         ELSE Goto(w, "lost") /\ UNCHANGED pending
    /\ UNCHANGED <<cardVars, invoice, usdVars>>

(* The database error of a claim that may or may not have committed. *)
ClaimOutcomeUnknown(w) ==
    /\ At(w, "ready")
    /\ \/ UNCHANGED pending
       \/ Claimable(HashOf(w)) /\ Processed(HashOf(w))
    /\ Goto(w, "reviewing")
    /\ UNCHANGED <<cardVars, invoice, usdVars>>

(* Another processor holds the claim.  Audit rows go with the card. *)
LookForCredit(w) ==
    LET h == HashOf(w) IN
    /\ At(w, "lost")
    /\ IF h \in credited /\ status[CardOf(h)] # "deleted" THEN Return(w) ELSE Goto(w, "flagging")
    /\ UNCHANGED <<cardVars, invoice, pending, usdVars>>

FlagUpserted(h) == pending' = [pending EXCEPT ![h].review = TRUE]

Flag(h) == IF HasRow(h) THEN pending' = [pending EXCEPT ![h].review = TRUE] ELSE UNCHANGED pending

(* flagUncreditedTopUp of the loser, or setTopUpReviewReason of the holder. *)
FlagForReview(w) ==
    /\ work[w].pc \in {"flagging", "reviewing"}
    /\ Flag(HashOf(w))
    /\ Return(w)
    /\ UNCHANGED <<cardVars, invoice, usdVars>>

IsTopUpCredited(w) ==
    /\ At(w, "claimed")
    /\ \/ HashOf(w) \in credited /\ Return(w)
       \/ HashOf(w) \notin credited /\ Goto(w, IF IsUsd(HashOf(w)) THEN "checked" ELSE "crediting")
       \/ Goto(w, "reviewing")
    /\ UNCHANGED <<cardVars, invoice, pending, usdVars>>

SendTransfer(w) ==
    /\ At(w, "checked")
    /\ transfer' = [transfer EXCEPT ![HashOf(w)] = "wire"]
    /\ Goto(w, "transferring")
    /\ UNCHANGED <<cardVars, invoice, pending, moves>>

(* Blink executes the transfer, before or after its sender stopped waiting. *)
TransferExecutes(h, s) ==
    /\ transfer[h] = "wire"
    /\ s \in {"moved", "failed"}
    /\ transfer' = [transfer EXCEPT ![h] = s]
    /\ moves' = [moves EXCEPT ![h] = @ + (IF s = "moved" THEN 1 ELSE 0)]
    /\ UNCHANGED <<cardVars, invoice, pending, work>>

UnknownMayRetry(h) ==
    IF transfer[h] = "moved" THEN {"moved", "releasing"} ELSE {"releasing"}

(* What the handler makes of the answer: only a rejection or a terminal     *)
(* failure releases the claim; anything unclear keeps it for review.        *)
AfterTransfer(h) ==
    CASE transfer[h] = "moved" -> {"moved", "reviewing"}
      [] transfer[h] = "failed" -> {"releasing", "reviewing"}
      [] OTHER -> {"reviewing"}

TransferAnswered(w) ==
    /\ At(w, "transferring")
    /\ \E step \in AfterTransfer(HashOf(w)) : Goto(w, step)
    /\ UNCHANGED <<cardVars, invoice, pending, usdVars>>

(* The rate is looked up, or the lookup fails after the transfer. *)
GetRate(w) ==
    /\ At(w, "moved")
    /\ Goto(w, "crediting") \/ Goto(w, "reviewing")
    /\ UNCHANGED <<cardVars, invoice, pending, usdVars>>

RecordedApart(h) == credited \cup {x \in {h} : pending[h].review}

(* The credited-hash record is part of the statement that adds the amount.  *)
Recorded(h) == credited \cup {h}

Credit(h) ==
    /\ status[CardOf(h)] = "ACTIVE" /\ h \notin credited
    /\ balance' = [balance EXCEPT ![CardOf(h)] = @ + Worth[h]]
    /\ credited' = Recorded(h)

(* topUpCard adds the amount; its answer may be lost. *)
TopUpCard(w) ==
    /\ At(w, "crediting")
    /\ Credit(HashOf(w))
    /\ Return(w) \/ Goto(w, "reviewing")
    /\ UNCHANGED <<status, invoice, pending, usdVars>>

(* Nothing was written: the card is not active, the hash credited before,   *)
(* or the database failed.  After a USD transfer the claim is always kept.  *)
CreditRefused(w) ==
    LET h == HashOf(w) IN
    /\ At(w, "crediting")
    /\ \/ status[CardOf(h)] # "ACTIVE" /\ Goto(w, IF IsUsd(h) THEN "reviewing" ELSE "releasing")
       \/ status[CardOf(h)] = "ACTIVE" /\ h \in credited
             /\ IF IsUsd(h) THEN Goto(w, "reviewing") ELSE Return(w)
       \/ Goto(w, "reviewing")
    /\ UNCHANGED <<cardVars, invoice, pending, usdVars>>

(* unmarkTopUpProcessed; its own database error is swallowed. *)
Release(w) ==
    LET h == HashOf(w) IN
    /\ At(w, "releasing")
    /\ \/ pending[h].st = "processed"
             /\ pending' = [pending EXCEPT ![h] = [@ EXCEPT !.st = "open", !.review = FALSE]]
       \/ UNCHANGED pending
    /\ Return(w)
    /\ UNCHANGED <<cardVars, invoice, usdVars>>

(* A failed lookup or a lost database result ends the run; so does a crash. *)
Abort(w) ==
    /\ ~At(w, "idle")
    /\ Return(w)
    /\ UNCHANGED <<cardVars, invoice, pending, usdVars>>

-------------------------------------------------------------------------------
(* The card's owner. *)

SetStatus(c, from, to) ==
    /\ status[c] \in from
    /\ status' = [status EXCEPT ![c] = to]
    /\ UNCHANGED <<balance, credited, invoice, pending, usdVars, work>>

OwnerActivates(c) == SetStatus(c, {"PENDING", "DISABLED"}, "ACTIVE")
DisableCard(c) == SetStatus(c, {"ACTIVE"}, "DISABLED")
WipeCard(c) == SetStatus(c, {"PENDING", "ACTIVE", "DISABLED"}, "WIPED")

(* The wiped card's UID is registered again: its row and its pending        *)
(* top-ups are deleted, boltcard_credited_topups is not.                    *)
DeleteWipedCard(c) ==
    /\ status[c] = "WIPED"
    /\ status' = [status EXCEPT ![c] = "deleted"]
    /\ balance' = [balance EXCEPT ![c] = 0]
    /\ pending' = [h \in Hashes |-> IF CardOf(h) = c /\ HasRow(h)
                                      THEN [NoRow EXCEPT !.st = "deleted"] ELSE pending[h]]
    /\ UNCHANGED <<credited, invoice, usdVars, work>>

-------------------------------------------------------------------------------
InvoiceNext == \E h \in Hashes :
    \/ \E c \in Cards : CreateInvoice(h, c)
    \/ StorePendingTopUp(h) \/ RowExpires(h) \/ CloseFailedInvoice(h)
    \/ \E s \in InvoiceStates : InvoiceEnds(h, s)
    \/ \E s \in {"moved", "failed"} : TransferExecutes(h, s)

WorkerStep(w) ==
    \/ \E h \in Hashes : FindPending(w, h)
    \/ ReadCard(w) \/ VerifyReceipt(w) \/ ActivateCard(w)
    \/ MarkTopUpProcessed(w) \/ LookForCredit(w) \/ FlagForReview(w)
    \/ IsTopUpCredited(w) \/ SendTransfer(w) \/ TransferAnswered(w) \/ GetRate(w)
    \/ TopUpCard(w) \/ CreditRefused(w) \/ Release(w)

WorkerNext == \E w \in Workers : WorkerStep(w) \/ ClaimOutcomeUnknown(w) \/ Abort(w)

OwnerNext == \E c \in Cards :
    OwnerActivates(c) \/ DisableCard(c) \/ WipeCard(c) \/ DeleteWipedCard(c)

Next == InvoiceNext \/ WorkerNext \/ OwnerNext

Spec == Init /\ [][Next]_vars

-------------------------------------------------------------------------------
(* Properties. *)

(* The balance is what the credited invoices of the card are worth: no      *)
(* payment is credited twice, none without its record (topUpCard writes     *)
(* card, audit row and credited hash in one statement).                     *)
CreditsAddUp ==
    \A c \in Cards : status[c] # "deleted" =>
        balance[c] = MapThenSumSet(LAMBDA h : Worth[h], {h \in credited : CardOf(h) = c})

(* Nobody is credited for an invoice that was not received (the receipt is  *)
(* verified before the claim, whoever triggers the run).                    *)
CreditNeedsReceipt == \A h \in credited : invoice[h].st = "paid"

(* A row that may be claimed again belongs to a top-up of which nothing     *)
(* happened: not credited, no transfer moved or still on its way            *)
(* (unmarkTopUpProcessed is called only then).                              *)
ClaimableIsUntouched ==
    \A h \in Hashes : pending[h].st = "open" =>
        h \notin credited /\ transfer[h] \in {"none", "failed"}

(* The sats of one top-up are moved to the USD wallet at most once, however *)
(* many webhook deliveries and balance taps process it.                     *)
FundsMoveOnce == \A h \in Hashes : moves[h] <= 1

(* What became of an invoice, for the contract this module implements. *)
Due(h) ==
    IF h \in credited THEN "credited"
    ELSE [none |-> "free", created |-> "issued", open |-> "issued",
          paid |-> "received", failed |-> "failed"][invoice[h].st]

Promise == INSTANCE TopUpLedger WITH
    live <- {c \in Cards : status[c] # "deleted"},
    bal <- balance,
    due <- [h \in Hashes |-> Due(h)],
    card <- [h \in Hashes |-> CardOf(h)],
    inUsd <- moves

(* Every step of payers, processors, Blink, owners and crashes is a step of *)
(* the contract or changes nothing in it: however many deliveries and taps  *)
(* process a receipt, it is moved at most once, credited at most once, and  *)
(* to a USD card never before the sats are in the USD wallet.               *)
ImplementsTopUpLedger == Promise!LedgerSpec

===============================================================================
