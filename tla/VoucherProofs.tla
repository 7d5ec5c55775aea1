----------------------------- MODULE VoucherProofs -----------------------------
(***************************************************************************)
(* Theorems of Voucher, for every number of vouchers, callbacks and eras.   *)
(* A callback redeems its voucher from the claim until a definite failure   *)
(* gives it back: the inductive invariant says that it is alone in that,    *)
(* that the row stays CLAIMED or PAID meanwhile, and when its payment can   *)
(* have been made.  From these the operator's script, which only sees a     *)
(* snapshot of the rows and the ledger, matches no payment of another       *)
(* voucher.                                                                 *)
(***************************************************************************)
EXTENDS Voucher, SumTheorems

USE VoucherAssumption

Live == {"wire", "flight", "settled"}
ClaimSteps == {"claimed", "sending", "marking", "unclaiming"}

(* A claim of r that is not given back or lost, or a payment of r that has  *)
(* settled or still may.                                                    *)
Redeems(r) == call[r].pc \in ClaimSteps \/ payment[r].st \in Live

ClaimEra(r) == voucher[VoucherOf(r)].era

(* What a callback knows at its step of its voucher and of its payment. *)
Knows(r) ==
    /\ call[r].pc # "idle" => VoucherOf(r) \in Vouchers
    /\ call[r].pc \in {"idle", "found", "timed", "claimed"} => payment[r].st = "none"
    /\ At(r, "marking") => payment[r].st = "settled"
    /\ At(r, "unclaiming") => NotSent(r)
    /\ Redeems(r) => voucher[VoucherOf(r)].status \in Redeemed
    /\ At(r, "claimed") => era \in {ClaimEra(r), ClaimEra(r) + 1}
    /\ payment[r].st \in Live => payment[r].era \in {ClaimEra(r), ClaimEra(r) + 1}

CallsInv == \A r \in Callbacks : Knows(r)

OneRedeemer == \A q, r \in Callbacks :
    Redeems(q) /\ Redeems(r) /\ VoucherOf(q) = VoucherOf(r) => q = r

(* A request creates its voucher once. *)
MakingInv == \A v \in Vouchers : making[v].pc # "done" => Is(v, "none")

Settled(v) == \E r \in Callbacks : VoucherOf(r) = v /\ payment[r].st = "settled"

PaidInv == \A v \in Vouchers : Is(v, "PAID") => Settled(v)

(* The row of the snapshot that the payment of r was made for. *)
HasRow(r) == \E c \in Eras :
    <<VoucherOf(r), c>> \in script.rows /\ payment[r].era \in {c, c + 1}

(* A target of the snapshot is a claim whose match window is over, so every *)
(* payment made in it is that of a row of the snapshot; after the match a   *)
(* target has its own settled payment.                                      *)
ScriptInv ==
    /\ script.pc = "read" => \A row \in script.rows :
          row[1] \in script.targets =>
              /\ row[2] + 1 < era
              /\ \A r \in Callbacks :
                    payment[r].st \in Live /\ payment[r].era <= row[2] + 1 => HasRow(r)
    /\ script.pc = "matched" => \A v \in script.targets : Settled(v)

IInv == TypeOK /\ CallsInv /\ OneRedeemer /\ MakingInv /\ PaidInv /\ ScriptInv

-------------------------------------------------------------------------------
(* Type correctness. *)

LEMMA StatusTyped ==
  ASSUME TypeOK, NEW v \in Vouchers, NEW s \in Statuses, SetStatus(v, s)
  PROVE  voucher' \in [Vouchers -> VoucherRows]
BY DEF TypeOK, SetStatus, VoucherRows

(* The effect of a step of callback r on the callbacks. *)
Goes(r, step) ==
    /\ call' \in [Callbacks -> Calls]
    /\ call'[r].pc = step
    /\ call[r].pc # "idle" => call'[r].voucher = call[r].voucher
    /\ \A q \in Callbacks \ {r} : call'[q] = call[q]

LEMMA GotoGoes ==
  ASSUME TypeOK, NEW r \in Callbacks, NEW step \in CallSteps, Goto(r, step)
  PROVE  Goes(r, step)
<1>1. call \in [Callbacks -> Calls]
  BY DEF TypeOK
<1>. QED
  BY <1>1 DEF Goto, Calls, Goes

LockSteps == {"locked", "fetched", "approved"}

(* The effect of a step of the request that creates v on the requests. *)
Makes(v, step) ==
    /\ making' \in [Vouchers -> Makings]
    /\ making'[v].pc = step
    /\ \A u \in Vouchers \ {v} : making'[u] = making[u]

LEMMA MakingMakes ==
  ASSUME TypeOK, NEW v \in Vouchers, NEW step \in CreateSteps, Making(v, step)
  PROVE  Makes(v, step)
<1>1. making \in [Vouchers -> Makings]
  BY DEF TypeOK
<1>. QED
  BY <1>1 DEF Making, Makings, Makes

LEMMA FinishedMakes ==
  ASSUME TypeOK, NEW v \in Vouchers, Finished(v)
  PROVE  Makes(v, "done")
<1>1. making \in [Vouchers -> Makings]
  BY DEF TypeOK
<1>. QED
  BY <1>1 DEF Finished, Makings, Makes, CreateSteps

LEMMA LockTyped ==
  ASSUME TypeOK, NEW v \in Vouchers, NEW step, Makes(v, step),
         \/ lock' = lock /\ (step \in LockSteps <=> lock = v)
         \/ lock = None /\ lock' = v /\ step \in LockSteps
         \/ lock = v /\ lock' = None /\ step \notin LockSteps
  PROVE  /\ making' \in [Vouchers -> Makings]
         /\ lock' \in Vouchers \cup {None}
         /\ \A u \in Vouchers : lock' = u <=> making'[u].pc \in LockSteps
<1>1. /\ lock \in Vouchers \cup {None}
      /\ \A u \in Vouchers : lock = u <=> making[u].pc \in LockSteps
  BY DEF TypeOK, LockSteps
<1>. QED
  BY <1>1 DEF Makes

LEMMA CreateTyped ==
  ASSUME TypeOK, CreateNext
  PROVE  TypeOK'
<1>1. PICK v \in Vouchers :
        \/ StartCreate(v) \/ LockWallet(v) \/ FetchBacking(v) \/ SumLiabilities(v)
        \/ InsertVoucher(v) \/ CreateFails(v)
  BY DEF CreateNext
<1>2. /\ UNCHANGED <<balance, call, payment, script, era, late>>
      /\ voucher' \in [Vouchers -> VoucherRows]
  <2>1. CASE InsertVoucher(v)
    BY <2>1, StatusTyped DEF InsertVoucher, Elsewhere, Statuses
  <2>. QED
    BY <1>1, <2>1 DEF TypeOK, StartCreate, LockWallet, FetchBacking, SumLiabilities,
       CreateFails, Elsewhere
<1>3. /\ making' \in [Vouchers -> Makings]
      /\ lock' \in Vouchers \cup {None}
      /\ \A u \in Vouchers : lock' = u <=> making'[u].pc \in LockSteps
  <2>0. making[v] \in Makings /\ (lock = v <=> making[v].pc \in LockSteps)
    BY DEF TypeOK, LockSteps
  <2>8. making \in [Vouchers -> Makings] /\ balance \in Int
    BY DEF TypeOK
  <2>1. CASE StartCreate(v)
    <3>1. Makes(v, "timed")
      BY <2>8, <2>1 DEF StartCreate, Makes, Makings, CreateSteps
    <3>. QED
      BY <2>0, <2>1, <3>1, LockTyped DEF StartCreate, LockSteps
  <2>2. CASE LockWallet(v)
    BY <2>2, <2>0, MakingMakes, LockTyped DEF LockWallet, WalletFree, CreateSteps, LockSteps
  <2>3. CASE FetchBacking(v)
    <3>1. [making[v] EXCEPT !.pc = "fetched", !.seen = balance] \in Makings
      BY <2>0, <2>8 DEF Makings, CreateSteps
    <3>2. Makes(v, "fetched")
      BY <2>8, <2>3, <3>1 DEF FetchBacking, Makes, Makings
    <3>. QED
      BY <2>0, <2>3, <3>2, LockTyped DEF FetchBacking, LockSteps
  <2>4. CASE SumLiabilities(v)
    BY <2>4, <2>0, MakingMakes, LockTyped DEF SumLiabilities, CreateSteps, LockSteps
  <2>5. CASE InsertVoucher(v)
    BY <2>5, <2>0, FinishedMakes, LockTyped DEF InsertVoucher, CreateSteps, LockSteps
  <2>6. CASE CreateFails(v)
    BY <2>6, <2>0, FinishedMakes, LockTyped DEF CreateFails, CreateSteps, LockSteps
  <2>. QED
    BY <1>1, <2>1, <2>2, <2>3, <2>4, <2>5, <2>6
<1>. QED
  BY <1>2, <1>3 DEF TypeOK, LockSteps

LEMMA OwnerTyped ==
  ASSUME TypeOK, OwnerNext
  PROVE  TypeOK'
<1>1. PICK v \in Vouchers :
        CancelVoucher(v) \/ VoucherExpires(v) \/ UpdateExpired(v) \/ CleanupOld(v)
  BY DEF OwnerNext
<1>2. UNCHANGED <<making, lock, balance, call, payment, script, era, late>>
  BY <1>1 DEF CancelVoucher, VoucherExpires, UpdateExpired, CleanupOld, Elsewhere
<1>3. voucher' \in [Vouchers -> VoucherRows]
  <2>1. CASE VoucherExpires(v)
    <3>1. voucher \in [Vouchers -> VoucherRows]
      BY DEF TypeOK
    <3>. QED
      BY <2>1, <3>1 DEF VoucherExpires, VoucherRows
  <2>. QED
    BY <1>1, <2>1, StatusTyped DEF CancelVoucher, UpdateExpired, CleanupOld, Statuses
<1>. QED
  BY <1>2, <1>3 DEF TypeOK

LEMMA SettleTyped ==
  ASSUME TypeOK, NEW v \in Vouchers, Settle(v)
  PROVE  voucher' \in [Vouchers -> VoucherRows]
BY StatusTyped DEF Settle, TypeOK, Statuses

LEMMA ScriptTyped ==
  ASSUME TypeOK, ScriptNext \/ EraPasses
  PROVE  TypeOK'
<1>. USE DEF TypeOK
<1>1. CASE SnapshotClaims
  <2> DEFINE redeemed == {v \in Vouchers : voucher[v].status \in {"CLAIMED", "PAID"}}
  <2>1. {<<v, voucher[v].era>> : v \in redeemed} \subseteq Vouchers \X Eras
    BY DEF VoucherRows
  <2>. QED
    BY <1>1, <2>1 DEF SnapshotClaims, storeVars
<1>2. CASE ReadLedger
  BY <1>2 DEF ReadLedger, storeVars
<1>3. CASE ScriptEnds
  BY <1>3 DEF ScriptEnds, NoScript, storeVars
<1>4. ASSUME NEW v \in Vouchers, MarkPaidLocked(v)
      PROVE  TypeOK'
  BY <1>4, SettleTyped DEF MarkPaidLocked
<1>5. CASE EraPasses
  BY <1>5 DEF EraPasses, Eras, storeVars
<1>. QED
  BY <1>1, <1>2, <1>3, <1>4, <1>5 DEF ScriptNext

(* Where a callback that is not idle goes by each of its steps. *)
LEMMA CallGoes ==
  ASSUME TypeOK, NEW r \in Callbacks, CallStep(r) \/ Crash(r)
  PROVE  /\ (\E v \in Vouchers : GetVoucher(r, v)) => Goes(r, "found")
         /\ ClaimClock(r) => Goes(r, "timed")
         /\ ClaimVoucher(r) => Goes(r, "claimed") \/ Goes(r, "done")
         /\ SendPayment(r) => Goes(r, "sending")
         /\ PayAnswered(r) => Goes(r, "marking") \/ Goes(r, "unclaiming") \/ Goes(r, "done")
         /\ ClaimRefused(r) \/ MarkVoucherPaid(r) \/ UnclaimVoucher(r) \/ Crash(r)
               => Goes(r, "done")
<1>0. call \in [Callbacks -> Calls] /\ voucher \in [Vouchers -> VoucherRows]
  BY DEF TypeOK
<1>1. ASSUME NEW v \in Vouchers, GetVoucher(r, v)
      PROVE  Goes(r, "found")
  BY <1>0, <1>1 DEF GetVoucher, Goes, Calls, CallSteps, At
<1>2. ASSUME ClaimClock(r)
      PROVE  Goes(r, "timed")
  <2>1. (~voucher[VoucherOf(r)].expired) \in BOOLEAN
    OBVIOUS
  <2>. QED
    BY <1>0, <1>2, <2>1 DEF ClaimClock, Goes, Calls, CallSteps, At
<1>3. ClaimVoucher(r) => Goes(r, "claimed") \/ Goes(r, "done")
  BY GotoGoes DEF ClaimVoucher, CallSteps
<1>4. SendPayment(r) => Goes(r, "sending")
  BY GotoGoes DEF SendPayment, CallSteps
<1>5. PayAnswered(r) => Goes(r, "marking") \/ Goes(r, "unclaiming") \/ Goes(r, "done")
  BY GotoGoes DEF PayAnswered, CallSteps
<1>6. ClaimRefused(r) \/ MarkVoucherPaid(r) \/ UnclaimVoucher(r) \/ Crash(r) => Goes(r, "done")
  BY GotoGoes DEF ClaimRefused, MarkVoucherPaid, UnclaimVoucher, Crash, CallSteps
<1>. QED
  BY <1>1, <1>2, <1>3, <1>4, <1>5, <1>6

LEMMA CallTyped ==
  ASSUME TypeOK, CallsInv, NEW r \in Callbacks, CallStep(r) \/ Crash(r)
  PROVE  TypeOK'
<1>1. call' \in [Callbacks -> Calls]
  BY CallGoes DEF CallStep, Goes
<1>2. UNCHANGED <<making, lock, balance, script, era>>
  BY DEF CallStep, Crash, GetVoucher, ClaimClock, ClaimVoucher, ClaimRefused, SendPayment,
     PayAnswered, MarkVoucherPaid, UnclaimVoucher, storeVars
<1>3. call[r].pc # "idle" => VoucherOf(r) \in Vouchers
  BY DEF CallsInv, Knows
<1>4. voucher' \in [Vouchers -> VoucherRows]
  <2>0. voucher \in [Vouchers -> VoucherRows] /\ era \in Eras
    BY DEF TypeOK
  <2>1. CASE ClaimVoucher(r)
    BY <2>0, <2>1 DEF ClaimVoucher, VoucherRows, Statuses
  <2>2. CASE MarkVoucherPaid(r)
    BY <2>2, <1>3, SettleTyped DEF MarkVoucherPaid, At
  <2>3. CASE UnclaimVoucher(r)
    BY <2>0, <2>3, <1>3, StatusTyped DEF UnclaimVoucher, At, Statuses
  <2>. QED
    BY <2>0, <2>1, <2>2, <2>3 DEF CallStep, Crash, GetVoucher, ClaimClock, ClaimRefused,
       SendPayment, PayAnswered, storeVars
<1>5. payment' \in [Callbacks -> Payments]
  <2>0. payment \in [Callbacks -> Payments] /\ era \in Eras
    BY DEF TypeOK
  <2>. QED
    BY <2>0 DEF CallStep, Crash, GetVoucher, ClaimClock, ClaimVoucher, ClaimRefused, SendPayment,
     PayAnswered, MarkVoucherPaid, UnclaimVoucher, Payments
<1>6. late' \in BOOLEAN
  <2>0. late \in BOOLEAN
    BY DEF TypeOK
  <2>. QED
    BY <2>0 DEF CallStep, Crash, GetVoucher, ClaimClock, ClaimVoucher, ClaimRefused, SendPayment,
     PayAnswered, MarkVoucherPaid, UnclaimVoucher
<1>. QED
  BY <1>1, <1>2, <1>4, <1>5, <1>6 DEF TypeOK

LEMMA BlinkTyped ==
  ASSUME TypeOK, CallsInv, NEW r \in Callbacks, BlinkStep(r)
  PROVE  TypeOK'
<1>1. PICK s \in {"rejected", "flight", "settled", "failed"} : BlinkExecutes(r, s)
  BY DEF BlinkStep
<1>2. payment \in [Callbacks -> Payments] /\ balance \in Nat
  BY DEF TypeOK
<1>3. payment' \in [Callbacks -> Payments]
  BY <1>1, <1>2 DEF BlinkExecutes, Payments
<1>4. Amount[VoucherOf(r)] \in Nat
  <2>1. VoucherOf(r) \in Vouchers
    BY <1>1 DEF CallsInv, Knows, BlinkExecutes
  <2>. QED
    BY <2>1
<1>5. balance' \in Nat
  BY <1>1, <1>2, <1>4 DEF BlinkExecutes
<1>. QED
  BY <1>1, <1>3, <1>5 DEF BlinkExecutes, TypeOK, storeVars

LEMMA StepTyped ==
  ASSUME TypeOK, CallsInv, Next
  PROVE  TypeOK'
BY CreateTyped, OwnerTyped, ScriptTyped, CallTyped, BlinkTyped DEF Next

-------------------------------------------------------------------------------
(* The invariant. *)

(* What a step does to the rows that the callbacks and the script rely on. *)
KeepsRows ==
    \A v \in Vouchers :
        /\ voucher'[v].era = voucher[v].era
        /\ voucher[v].status \in Redeemed => voucher'[v].status \in Redeemed
        /\ voucher'[v].status = "PAID" => Settled(v)

(* A step that leaves the callbacks and their payments alone, and gives no  *)
(* redeemed row another status than PAID, which it may have.                *)
LEMMA RowsStep ==
  ASSUME IInv, TypeOK', MakingInv', ScriptInv', UNCHANGED <<call, payment>>, KeepsRows,
         \A r \in Callbacks : At(r, "claimed") => era' \in {ClaimEra(r), ClaimEra(r) + 1}
  PROVE  IInv'
<1>1. CallsInv'
  <2>. SUFFICES ASSUME NEW r \in Callbacks
                PROVE  Knows(r)'
    BY DEF CallsInv
  <2>1. Knows(r)
    BY DEF IInv, CallsInv
  <2>2. call[r].pc # "idle" => VoucherOf(r) \in Vouchers
    BY <2>1 DEF Knows
  <2>3. payment[r].st \in Live \/ At(r, "claimed") => call[r].pc # "idle"
    BY <2>1 DEF Knows, Live, At
  <2>4. payment[r].st \in Live \/ At(r, "claimed") => ClaimEra(r)' = ClaimEra(r)
    BY <2>2, <2>3 DEF KeepsRows, ClaimEra, VoucherOf
  <2>5. Redeems(r)' => voucher'[VoucherOf(r)].status \in Redeemed
    BY <2>1, <2>2, <2>3 DEF Knows, Redeems, KeepsRows, ClaimSteps, VoucherOf
  <2>6. payment[r].st \in Live => payment[r].era \in {ClaimEra(r)', ClaimEra(r)' + 1}
    BY <2>1, <2>4 DEF Knows
  <2>7. At(r, "claimed") => era' \in {ClaimEra(r)', ClaimEra(r)' + 1}
    BY <2>4
  <2>. QED
    BY <2>1, <2>2, <2>5, <2>6, <2>7 DEF Knows, At, VoucherOf, NotSent
<1>2. OneRedeemer'
  BY DEF IInv, OneRedeemer, Redeems, VoucherOf
<1>3. PaidInv'
  BY DEF KeepsRows, PaidInv, Settled, Is, VoucherOf
<1>. QED
  BY <1>1, <1>2, <1>3 DEF IInv

LEMMA CreateInv ==
  ASSUME IInv, TypeOK', CreateNext
  PROVE  IInv'
<1>1. PICK v \in Vouchers :
        \/ StartCreate(v) \/ LockWallet(v) \/ FetchBacking(v) \/ SumLiabilities(v)
        \/ InsertVoucher(v) \/ CreateFails(v)
  BY DEF CreateNext
<1>2. UNCHANGED <<call, payment, script, era>>
  BY <1>1 DEF StartCreate, LockWallet, FetchBacking, SumLiabilities, InsertVoucher,
     CreateFails, Elsewhere
<1>3. making \in [Vouchers -> Makings] /\ voucher \in [Vouchers -> VoucherRows]
  BY DEF IInv, TypeOK
<1>4. MakingInv'
  BY <1>1, <1>3 DEF IInv, MakingInv, Is, SetStatus, Making, Finished, Makings, VoucherRows,
     StartCreate, LockWallet, FetchBacking, SumLiabilities, InsertVoucher, CreateFails
<1>5. KeepsRows
  <2>1. CASE InsertVoucher(v)
    <3>1. Is(v, "none")
      BY <2>1 DEF InsertVoucher, IInv, MakingInv
    <3>. QED
      BY <2>1, <3>1, <1>3 DEF InsertVoucher, SetStatus, Is, KeepsRows, Redeemed, IInv, PaidInv,
         VoucherRows
  <2>. QED
    BY <1>1, <2>1 DEF StartCreate, LockWallet, FetchBacking, SumLiabilities, CreateFails,
       KeepsRows, IInv, PaidInv, Is
<1>6. ScriptInv'
  BY <1>2 DEF IInv, ScriptInv, HasRow, Settled, VoucherOf
<1>7. \A r \in Callbacks : At(r, "claimed") => era' \in {ClaimEra(r), ClaimEra(r) + 1}
  BY <1>2 DEF IInv, CallsInv, Knows
<1>. QED
  BY <1>2, <1>4, <1>5, <1>6, <1>7, RowsStep

LEMMA OwnerInv ==
  ASSUME IInv, TypeOK', OwnerNext
  PROVE  IInv'
<1>1. PICK v \in Vouchers :
        CancelVoucher(v) \/ VoucherExpires(v) \/ UpdateExpired(v) \/ CleanupOld(v)
  BY DEF OwnerNext
<1>2. UNCHANGED <<making, call, payment, script, era>>
  BY <1>1 DEF CancelVoucher, VoucherExpires, UpdateExpired, CleanupOld, Elsewhere
<1>3. voucher \in [Vouchers -> VoucherRows]
  BY DEF IInv, TypeOK
<1>4. MakingInv'
  BY <1>1, <1>2, <1>3 DEF IInv, MakingInv, Is, SetStatus, VoucherRows,
     CancelVoucher, Cancellable, VoucherExpires, UpdateExpired, CleanupOld
<1>5. KeepsRows
  BY <1>1, <1>3 DEF KeepsRows, IInv, PaidInv, Is, SetStatus, Redeemed, VoucherRows,
     CancelVoucher, Cancellable, VoucherExpires, UpdateExpired, CleanupOld
<1>6. ScriptInv'
  BY <1>2 DEF IInv, ScriptInv, HasRow, Settled, VoucherOf
<1>7. \A r \in Callbacks : At(r, "claimed") => era' \in {ClaimEra(r), ClaimEra(r) + 1}
  BY <1>2 DEF IInv, CallsInv, Knows
<1>. QED
  BY <1>2, <1>4, <1>5, <1>6, <1>7, RowsStep

(* The snapshot holds the row of every payment that has been made. *)
LEMMA SnapshotInv ==
  ASSUME IInv, SnapshotClaims
  PROVE  ScriptInv'
<1> DEFINE redeemed == {v \in Vouchers : voucher[v].status \in {"CLAIMED", "PAID"}}
           rows == {<<v, voucher[v].era>> : v \in redeemed}
<1>1. /\ script'.pc = "read" /\ script'.rows = rows
      /\ script'.targets = {v \in redeemed : Is(v, "CLAIMED") /\ OldEnough(v)}
      /\ UNCHANGED <<call, payment, era>>
  BY DEF SnapshotClaims
<1>. SUFFICES ASSUME NEW row \in rows, row[1] \in script'.targets
              PROVE  /\ row[2] + 1 < era
                     /\ \A r \in Callbacks : payment[r].st \in Live => HasRow(r)'
  BY <1>1 DEF ScriptInv
<1>2. row[2] + 1 < era
  BY <1>1 DEF OldEnough
<1>3. ASSUME NEW r \in Callbacks, payment[r].st \in Live
      PROVE  HasRow(r)'
  <2>1. Knows(r)
    BY DEF IInv, CallsInv
  <2>2. VoucherOf(r) \in redeemed
    BY <1>3, <2>1 DEF Knows, Live, Redeems, Redeemed
  <2>3. ClaimEra(r) \in Eras
    BY <2>2 DEF IInv, TypeOK, ClaimEra, VoucherRows
  <2>4. <<VoucherOf(r), ClaimEra(r)>> \in rows
    BY <2>2 DEF ClaimEra
  <2>5. payment[r].era \in {ClaimEra(r), ClaimEra(r) + 1}
    BY <1>3, <2>1 DEF Knows
  <2>. QED
    BY <1>1, <2>3, <2>4, <2>5 DEF HasRow, VoucherOf
<1>. QED
  BY <1>2, <1>3

(* The one payment that fits a target is that target's own: the payment's   *)
(* row is in the snapshot, and fits it too.                                 *)
LEMMA MatchInv ==
  ASSUME IInv, ReadLedger
  PROVE  ScriptInv'
<1>1. /\ script.pc = "read" /\ script'.pc = "matched"
      /\ script'.targets = {v \in script.targets :
                               \E row \in script.rows : row[1] = v /\ Matched(row)}
      /\ UNCHANGED <<call, payment>>
  BY DEF ReadLedger, IInv, TypeOK
<1>. SUFFICES ASSUME NEW v \in script'.targets
              PROVE  Settled(v)
  BY <1>1 DEF ScriptInv, Settled, VoucherOf
<1>2. PICK row \in script.rows : row[1] = v /\ Matched(row)
  BY <1>1
<1>3. PICK r \in Callbacks : /\ Candidates(row) = {r}
                            /\ {other \in script.rows : r \in Candidates(other)} = {row}
  BY <1>2 DEF Matched
<1>4. Fits(r, row[1], row[2])
  BY <1>3 DEF Candidates
<1>5. row[2] \in Eras
  BY DEF IInv, TypeOK
<1>6. HasRow(r)
  <2>1. payment[r].st \in Live /\ payment[r].era <= row[2] + 1
    BY <1>4, <1>5 DEF Fits, Live, Eras
  <2>2. row[1] \in script.targets
    BY <1>1, <1>2
  <2>. QED
    BY <1>1, <2>1, <2>2 DEF IInv, ScriptInv
<1>7. PICK c \in Eras : <<VoucherOf(r), c>> \in script.rows /\ payment[r].era \in {c, c + 1}
  BY <1>6 DEF HasRow
<1>8. r \in Candidates(<<VoucherOf(r), c>>)
  BY <1>4, <1>7 DEF Candidates, Fits
<1>9. <<VoucherOf(r), c>> = row
  BY <1>3, <1>7, <1>8
<1>. QED
  BY <1>2, <1>4, <1>9 DEF Settled, Fits

LEMMA ScriptStepInv ==
  ASSUME IInv, TypeOK', ScriptNext
  PROVE  IInv'
<1>1. UNCHANGED <<making, call, payment, era>>
  BY DEF ScriptNext, SnapshotClaims, ReadLedger, MarkPaidLocked, ScriptEnds, storeVars
<1>2. voucher \in [Vouchers -> VoucherRows]
  BY DEF IInv, TypeOK
<1>3. \A r \in Callbacks : At(r, "claimed") => era' \in {ClaimEra(r), ClaimEra(r) + 1}
  BY <1>1 DEF IInv, CallsInv, Knows
<1>4. CASE UNCHANGED voucher
  <2>1. KeepsRows
    BY <1>4 DEF KeepsRows, IInv, PaidInv, Is
  <2>2. MakingInv'
    BY <1>1, <1>4 DEF MakingInv, IInv, Is
  <2>3. ScriptInv'
    <3>1. CASE ScriptEnds
      BY <3>1 DEF ScriptEnds, NoScript, ScriptInv
    <3>2. ASSUME NEW v \in Vouchers, MarkPaidLocked(v)
          PROVE  ScriptInv'
      BY <1>1, <3>2 DEF MarkPaidLocked, IInv, ScriptInv, Settled, VoucherOf, TypeOK
    <3>. QED
      BY <3>1, <3>2, SnapshotInv, MatchInv DEF ScriptNext
  <2>. QED
    BY <1>1, <1>3, <2>1, <2>2, <2>3, RowsStep
<1>5. ASSUME NEW v \in Vouchers, MarkPaidLocked(v), Is(v, "CLAIMED"), SetStatus(v, "PAID")
      PROVE  IInv'
  <2>1. Settled(v)
    BY <1>5 DEF MarkPaidLocked, IInv, ScriptInv
  <2>2. KeepsRows
    BY <1>2, <1>5, <2>1 DEF KeepsRows, SetStatus, VoucherRows, IInv, PaidInv, Is, Redeemed
  <2>3. MakingInv'
    BY <1>1, <1>2, <1>5 DEF MakingInv, IInv, Is, SetStatus, VoucherRows
  <2>4. ScriptInv'
    BY <1>1, <1>5 DEF MarkPaidLocked, IInv, ScriptInv, Settled, VoucherOf, TypeOK
  <2>. QED
    BY <1>1, <1>3, <2>2, <2>3, <2>4, RowsStep
<1>. QED
  BY <1>4, <1>5 DEF ScriptNext, SnapshotClaims, ReadLedger, MarkPaidLocked, ScriptEnds,
     storeVars, Settle

LEMMA EraInv ==
  ASSUME IInv, TypeOK', EraPasses
  PROVE  IInv'
<1>1. UNCHANGED <<voucher, making, call, payment, script>> /\ era' = era + 1 /\ era \in Nat
  BY DEF EraPasses, storeVars, IInv, TypeOK, Eras
<1>2. KeepsRows
  BY <1>1 DEF KeepsRows, IInv, PaidInv, Is
<1>3. MakingInv'
  BY <1>1 DEF MakingInv, IInv, Is
<1>4. ScriptInv'
  <2>1. \A row \in script.rows : row[2] \in Nat
    BY DEF IInv, TypeOK, Eras
  <2>. QED
    BY <1>1, <2>1 DEF ScriptInv, IInv, HasRow, Settled, VoucherOf
<1>5. \A r \in Callbacks : At(r, "claimed") => era' \in {ClaimEra(r), ClaimEra(r) + 1}
  BY <1>1 DEF EraPasses, ClaimEra
<1>. QED
  BY <1>1, <1>2, <1>3, <1>4, <1>5, RowsStep

(* A payment is made now or was made before, and a settled one is final. *)
Pays(r) ==
    /\ payment[r].st = "settled" => payment'[r] = payment[r]
    /\ payment'[r].st \in Live =>
          (payment[r].st \in Live /\ payment'[r].era = payment[r].era) \/ payment'[r].era = era

(* A step of callback r, or of Blink on its payment, changes at most the    *)
(* row of its own voucher, and only when no other callback redeems that.    *)
LEMMA OwnStep ==
  ASSUME IInv, TypeOK', NEW r \in Callbacks, UNCHANGED <<making, script, era>>,
         NEW step, Goes(r, step), Pays(r), Knows(r)',
         \A q \in Callbacks \ {r} : payment'[q] = payment[q],
         \A v \in Vouchers : voucher'[v] # voucher[v] =>
             /\ v = VoucherOf(r)' /\ ~Is(v, "none")
             /\ Is(v, "PAID")' => Settled(v)'
             /\ \A q \in Callbacks \ {r} : Redeems(q) => VoucherOf(q) # v,
         Redeems(r)' => \A q \in Callbacks \ {r} : Redeems(q) => VoucherOf(q) # VoucherOf(r)'
  PROVE  IInv'
<1>0. \A q \in Callbacks \ {r} : call'[q] = call[q] /\ payment'[q] = payment[q]
  BY DEF Goes
<1>1. CallsInv'
  <2>. SUFFICES ASSUME NEW q \in Callbacks, q # r
                PROVE  Knows(q)'
    BY DEF CallsInv
  <2>1. Knows(q) /\ call'[q] = call[q] /\ payment'[q] = payment[q]
    BY <1>0 DEF IInv, CallsInv
  <2>2. CASE Redeems(q)
    <3>1. VoucherOf(q) \in Vouchers
      BY <2>1, <2>2 DEF Knows, Redeems, ClaimSteps, Live
    <3>2. voucher'[VoucherOf(q)] = voucher[VoucherOf(q)]
      BY <2>2, <3>1
    <3>. QED
      BY <2>1, <3>1, <3>2 DEF Knows, At, VoucherOf, NotSent, Redeems, ClaimEra
  <2>3. CASE ~Redeems(q)
    BY <2>1, <2>3 DEF Knows, At, VoucherOf, NotSent, Redeems, ClaimSteps
  <2>. QED
    BY <2>2, <2>3
<1>2. OneRedeemer'
  BY <1>0 DEF IInv, OneRedeemer, Redeems, VoucherOf
<1>3. MakingInv'
  BY DEF IInv, MakingInv, Is
<1>4. \A q \in Callbacks : payment[q].st \in Live \/ payment[q].st = "settled" =>
        VoucherOf(q)' = VoucherOf(q)
  <2>1. payment[r].st \in Live \/ payment[r].st = "settled" => call[r].pc # "idle"
    BY DEF IInv, CallsInv, Knows, Live
  <2>. QED
    BY <1>0, <2>1 DEF VoucherOf, Goes
<1>5. \A v \in Vouchers : Settled(v) => Settled(v)'
  BY <1>0, <1>4 DEF Settled, Pays
<1>6. PaidInv'
  BY <1>5 DEF PaidInv, IInv, Is
<1>7. ScriptInv'
  <2>1. CASE script.pc = "read"
    <3>. SUFFICES ASSUME NEW row \in script.rows, row[1] \in script.targets,
                         NEW q \in Callbacks, payment'[q].st \in Live,
                         payment'[q].era <= row[2] + 1
                  PROVE  HasRow(q)'
      BY <2>1 DEF ScriptInv, IInv
    <3>1. row[2] + 1 < era /\ row[2] \in Nat /\ era \in Nat
      BY <2>1 DEF ScriptInv, IInv, TypeOK, Eras
    <3>2. payment[q].st \in Live /\ payment'[q].era = payment[q].era
      BY <1>0, <3>1 DEF Pays
    <3>3. HasRow(q)
      BY <2>1, <3>2 DEF ScriptInv, IInv
    <3>. QED
      BY <1>4, <3>2, <3>3 DEF HasRow
  <2>2. CASE script.pc = "matched"
    BY <1>5, <2>2 DEF ScriptInv, IInv, TypeOK
  <2>. QED
    BY <2>1, <2>2 DEF ScriptInv
<1>. QED
  BY <1>1, <1>2, <1>3, <1>6, <1>7 DEF IInv

(* The steps that write no row, and begin no claim. *)
LEMMA QuietCall ==
  ASSUME IInv, TypeOK', NEW r \in Callbacks, NEW step, Goes(r, step),
         UNCHANGED <<voucher, making, script, era>>, Pays(r), Knows(r)',
         \A q \in Callbacks \ {r} : payment'[q] = payment[q],
         Redeems(r)' => Redeems(r)
  PROVE  IInv'
<1>1. Redeems(r) => call[r].pc # "idle"
  BY DEF IInv, CallsInv, Knows, Redeems, ClaimSteps, Live
<1>2. Redeems(r)' => \A q \in Callbacks \ {r} : Redeems(q) => VoucherOf(q) # VoucherOf(r)'
  BY <1>1 DEF IInv, OneRedeemer, VoucherOf, Goes
<1>. QED
  BY <1>2, OwnStep

LEMMA PaysNothing ==
  ASSUME NEW r \in Callbacks, UNCHANGED payment
  PROVE  Pays(r) /\ \A q \in Callbacks \ {r} : payment'[q] = payment[q]
BY DEF Pays

(* Looking the voucher up, the claim's clock, refusal, payment and answer.  *)
LEMMA TalkInv ==
  ASSUME IInv, TypeOK', NEW r \in Callbacks,
         \/ \E v \in Vouchers : GetVoucher(r, v)
         \/ ClaimClock(r) \/ ClaimRefused(r) \/ SendPayment(r) \/ PayAnswered(r) \/ Crash(r)
  PROVE  IInv'
<1>0. Knows(r) /\ call \in [Callbacks -> Calls] /\ payment \in [Callbacks -> Payments]
  BY DEF IInv, CallsInv, TypeOK
<1>1. UNCHANGED <<voucher, making, script, era>>
  BY DEF GetVoucher, ClaimClock, ClaimRefused, SendPayment, PayAnswered, Crash, storeVars
<1>2. ASSUME NEW v \in Vouchers, GetVoucher(r, v)
      PROVE  IInv'
  <2>1. Goes(r, "found") /\ VoucherOf(r)' \in Vouchers /\ UNCHANGED payment
    BY <1>0, <1>2, CallGoes DEF GetVoucher, VoucherOf, CallStep, IInv
  <2>2. payment[r].st = "none"
    BY <1>0, <1>2 DEF GetVoucher, At, Knows
  <2>3. Knows(r)' /\ ~Redeems(r)'
    BY <2>1, <2>2 DEF Knows, Redeems, Goes, ClaimSteps, Live, At
  <2>. QED
    BY <1>1, <2>1, <2>3, PaysNothing, QuietCall
<1>3. CASE ClaimClock(r)
  <2>1. Goes(r, "timed") /\ At(r, "found") /\ UNCHANGED payment
    BY <1>3, CallGoes DEF ClaimClock, CallStep, IInv
  <2>2. Knows(r)' /\ ~Redeems(r)'
    BY <1>0, <2>1 DEF Knows, Redeems, Goes, ClaimSteps, Live, At, VoucherOf
  <2>. QED
    BY <1>1, <2>1, <2>2, PaysNothing, QuietCall
<1>4. CASE ClaimRefused(r)
  <2>1. Goes(r, "done") /\ At(r, "timed") /\ UNCHANGED payment
    BY <1>4, CallGoes DEF ClaimRefused, CallStep, IInv
  <2>2. Knows(r)' /\ ~Redeems(r)'
    BY <1>0, <2>1 DEF Knows, Redeems, Goes, ClaimSteps, Live, At, VoucherOf
  <2>. QED
    BY <1>1, <2>1, <2>2, PaysNothing, QuietCall
<1>5. CASE SendPayment(r)
  <2>1. Goes(r, "sending") /\ At(r, "claimed")
    BY <1>5, CallGoes DEF SendPayment, CallStep, IInv
  <2>2. payment'[r] = [st |-> "wire", era |-> era] /\ payment[r].st = "none"
    BY <1>0, <1>5, <2>1 DEF SendPayment, Knows, At
  <2>3. Redeems(r)
    BY <2>1 DEF Redeems, At, ClaimSteps
  <2>4. ClaimEra(r)' = ClaimEra(r)
    BY <1>1, <2>1 DEF ClaimEra, VoucherOf, Goes, At
  <2>5. Knows(r)'
    BY <1>0, <1>1, <2>1, <2>2, <2>3, <2>4 DEF Knows, Goes, At, VoucherOf, Live
  <2>6. Pays(r) /\ \A q \in Callbacks \ {r} : payment'[q] = payment[q]
    BY <1>0, <1>5, <2>2 DEF Pays, SendPayment
  <2>. QED
    BY <1>1, <2>1, <2>3, <2>5, <2>6, QuietCall
<1>6. CASE PayAnswered(r)
  <2>1. At(r, "sending") /\ UNCHANGED payment /\ Redeems(r)
    BY <1>6 DEF PayAnswered, Redeems, At, ClaimSteps
  <2>2. ClaimEra(r)' = ClaimEra(r) /\ VoucherOf(r)' = VoucherOf(r)
    BY <1>1, <1>6, CallGoes DEF ClaimEra, VoucherOf, Goes, PayAnswered, CallStep, At, IInv
  <2>3. CASE Goto(r, "marking") /\ payment[r].st = "settled"
    <3>1. Goes(r, "marking")
      BY <2>3, GotoGoes DEF CallSteps, IInv
    <3>2. Knows(r)'
      BY <1>0, <1>1, <2>1, <2>2, <2>3, <3>1 DEF Knows, Goes, At, VoucherOf
    <3>. QED
      BY <1>1, <2>1, <3>1, <3>2, PaysNothing, QuietCall
  <2>4. CASE Goto(r, "unclaiming") /\ NotSent(r)
    <3>1. Goes(r, "unclaiming")
      BY <2>4, GotoGoes DEF CallSteps, IInv
    <3>2. Knows(r)'
      BY <1>0, <1>1, <2>1, <2>2, <2>4, <3>1 DEF Knows, Goes, At, VoucherOf, NotSent
    <3>. QED
      BY <1>1, <2>1, <3>1, <3>2, PaysNothing, QuietCall
  <2>5. CASE Goto(r, "done") /\ payment[r].st = "flight"
    <3>1. Goes(r, "done")
      BY <2>5, GotoGoes DEF CallSteps, IInv
    <3>2. Knows(r)'
      BY <1>0, <1>1, <2>1, <2>2, <2>5, <3>1 DEF Knows, Goes, At, VoucherOf
    <3>. QED
      BY <1>1, <2>1, <3>1, <3>2, PaysNothing, QuietCall
  <2>. QED
    BY <1>6, <2>3, <2>4, <2>5 DEF PayAnswered
<1>7. CASE Crash(r)
  <2>1. Goes(r, "done") /\ call[r].pc # "idle" /\ UNCHANGED payment
    BY <1>7, CallGoes DEF Crash, IInv
  <2>2. ClaimEra(r)' = ClaimEra(r) /\ VoucherOf(r)' = VoucherOf(r)
    BY <1>1, <2>1 DEF ClaimEra, VoucherOf, Goes
  <2>3. Redeems(r)' => Redeems(r)
    BY <2>1 DEF Redeems, Goes, ClaimSteps
  <2>4. Knows(r)'
    BY <1>0, <1>1, <2>1, <2>2, <2>3 DEF Knows, Goes, At, VoucherOf
  <2>. QED
    BY <1>1, <2>1, <2>3, <2>4, PaysNothing, QuietCall
<1>. QED
  BY <1>2, <1>3, <1>4, <1>5, <1>6, <1>7

(* The claim: nobody redeems an ACTIVE voucher. *)
LEMMA ClaimInv ==
  ASSUME IInv, TypeOK', NEW r \in Callbacks, ClaimVoucher(r)
  PROVE  IInv'
<1> DEFINE v == VoucherOf(r)
<1>0. /\ Knows(r) /\ At(r, "timed") /\ v \in Vouchers /\ Is(v, "ACTIVE")
      /\ voucher \in [Vouchers -> VoucherRows] /\ era \in Eras
      /\ UNCHANGED <<making, payment, script, era>>
  BY DEF IInv, CallsInv, Knows, TypeOK, ClaimVoucher, Claimable, At
<1>1. voucher' = [voucher EXCEPT ![v] = [@ EXCEPT !.status = "CLAIMED", !.era = era]]
  BY DEF ClaimVoucher
<1>2. voucher'[v].status = "CLAIMED" /\ voucher'[v].era = era
  BY <1>0, <1>1 DEF VoucherRows
<1>3. \A q \in Callbacks : Redeems(q) => VoucherOf(q) # v
  BY <1>0 DEF IInv, CallsInv, Knows, Is, Redeemed
<1>4. payment[r].st = "none"
  BY <1>0 DEF Knows, At
<1>5. VoucherOf(r)' = v
  BY <1>0, CallGoes DEF ClaimVoucher, Goes, VoucherOf, At, CallStep, IInv
<1>6. Goes(r, "claimed") \/ Goes(r, "done")
  BY CallGoes DEF CallStep, IInv
<1>7. ASSUME NEW step \in {"claimed", "done"}, Goes(r, step)
      PROVE  Knows(r)'
  <2>1. ClaimEra(r)' = era /\ era \in Nat
    BY <1>0, <1>2, <1>5 DEF ClaimEra, Eras
  <2>2. voucher'[VoucherOf(r)'].status \in Redeemed
    BY <1>2, <1>5 DEF Redeemed
  <2>. QED
    BY <1>0, <1>4, <1>5, <1>7, <2>1, <2>2 DEF Knows, Goes, At, VoucherOf, Live
<1>8. \A u \in Vouchers : voucher'[u] # voucher[u] => u = v
  BY <1>0, <1>1
<1>9. \A u \in Vouchers : voucher'[u] # voucher[u] =>
             /\ u = VoucherOf(r)' /\ ~Is(u, "none")
             /\ Is(u, "PAID")' => Settled(u)'
             /\ \A q \in Callbacks \ {r} : Redeems(q) => VoucherOf(q) # u
  BY <1>0, <1>2, <1>3, <1>5, <1>8 DEF Is
<1>10. Pays(r) /\ \A q \in Callbacks \ {r} : payment'[q] = payment[q]
  BY <1>0, PaysNothing
<1>. HIDE DEF v
<1>. QED
  BY <1>0, <1>3, <1>5, <1>6, <1>7, <1>9, <1>10, OwnStep

(* The two results of a redemption: the row of the callback, which is alone *)
(* with it, becomes PAID or ACTIVE again.                                   *)
LEMMA ResultInv ==
  ASSUME IInv, TypeOK', NEW r \in Callbacks, MarkVoucherPaid(r) \/ UnclaimVoucher(r)
  PROVE  IInv'
<1> DEFINE v == VoucherOf(r)
<1>0. /\ Knows(r) /\ call[r].pc \in {"marking", "unclaiming"} /\ v \in Vouchers
      /\ voucher \in [Vouchers -> VoucherRows]
      /\ UNCHANGED <<making, payment, script, era>>
  BY DEF IInv, CallsInv, Knows, TypeOK, MarkVoucherPaid, UnclaimVoucher, At
<1>1. Goes(r, "done") /\ VoucherOf(r)' = v
  BY <1>0, CallGoes DEF CallStep, IInv, Goes, VoucherOf
<1>2. Redeems(r) /\ \A q \in Callbacks \ {r} : Redeems(q) => VoucherOf(q) # v
  BY <1>0 DEF IInv, OneRedeemer, Redeems, ClaimSteps
<1>3. \/ UNCHANGED voucher
      \/ /\ MarkVoucherPaid(r) /\ Is(v, "CLAIMED")
         /\ voucher' = [voucher EXCEPT ![v].status = "PAID"]
      \/ /\ UnclaimVoucher(r) /\ Is(v, "CLAIMED")
         /\ voucher' = [voucher EXCEPT ![v].status = "ACTIVE"]
  BY DEF MarkVoucherPaid, UnclaimVoucher, Settle, SetStatus
<1>4. At(r, "marking") => payment[r].st = "settled" /\ Settled(v)'
  BY <1>0, <1>1 DEF Knows, Settled
<1>5. ClaimEra(r)' = ClaimEra(r)
  BY <1>0, <1>1, <1>3 DEF ClaimEra, VoucherRows
<1>6. payment[r].st \in Live => voucher'[v].status \in Redeemed
  <2>1. UnclaimVoucher(r) => payment[r].st \notin Live
    BY <1>0 DEF Knows, NotSent, UnclaimVoucher, Live
  <2>. QED
    BY <1>0, <1>2, <1>3, <2>1 DEF Knows, Redeemed, VoucherRows
<1>7. Knows(r)'
  BY <1>0, <1>1, <1>5, <1>6 DEF Knows, Goes, At, VoucherOf, Redeems, ClaimSteps
<1>8. \A u \in Vouchers : voucher'[u] # voucher[u] =>
             /\ u = VoucherOf(r)' /\ ~Is(u, "none")
             /\ Is(u, "PAID")' => Settled(u)'
             /\ \A q \in Callbacks \ {r} : Redeems(q) => VoucherOf(q) # u
  BY <1>0, <1>1, <1>2, <1>3, <1>4 DEF Is, MarkVoucherPaid, VoucherRows
<1>9. Pays(r) /\ \A q \in Callbacks \ {r} : payment'[q] = payment[q]
  BY <1>0, PaysNothing
<1>. HIDE DEF v
<1>. QED
  BY <1>0, <1>1, <1>2, <1>7, <1>8, <1>9, OwnStep

LEMMA BlinkInv ==
  ASSUME IInv, TypeOK', NEW r \in Callbacks, BlinkStep(r)
  PROVE  IInv'
<1>1. PICK s \in {"rejected", "flight", "settled", "failed"} : BlinkExecutes(r, s)
  BY DEF BlinkStep
<1>2. /\ payment \in [Callbacks -> Payments] /\ call \in [Callbacks -> Calls]
      /\ UNCHANGED <<voucher, making, call, script, era>> /\ Knows(r)
      /\ payment[r].st \in {"wire", "flight"}
  BY <1>1 DEF IInv, TypeOK, CallsInv, BlinkExecutes, storeVars
<1>3. payment'[r].st = s /\ payment'[r].era = payment[r].era
  BY <1>1, <1>2 DEF BlinkExecutes, Payments
<1>4. Goes(r, call[r].pc)
  BY <1>2 DEF Goes
<1>5. Pays(r) /\ \A q \in Callbacks \ {r} : payment'[q] = payment[q]
  BY <1>1, <1>2, <1>3 DEF Pays, BlinkExecutes, Live
<1>6. Redeems(r)
  BY <1>2 DEF Redeems, Live
<1>7. call[r].pc \notin {"idle", "found", "timed", "claimed", "marking", "unclaiming"}
  BY <1>2 DEF Knows, At, NotSent
<1>8. Knows(r)'
  BY <1>2, <1>3, <1>6, <1>7 DEF Knows, At, VoucherOf, NotSent, ClaimEra, Live
<1>. QED
  BY <1>2, <1>4, <1>5, <1>6, <1>8, QuietCall

(* Every reachable state satisfies the inductive invariant. *)
THEOREM Invariance == Spec => []IInv
<1>1. Init => IInv
  <2>. SUFFICES ASSUME Init
                PROVE  IInv
    OBVIOUS
  <2>1. TypeOK
    <3>1. voucher \in [Vouchers -> VoucherRows]
      BY DEF Init, VoucherRows, Statuses, Eras
    <3>2. making \in [Vouchers -> Makings]
      BY DEF Init, Makings, CreateSteps
    <3>3. \A v \in Vouchers : lock # v
      BY DEF Init
    <3>6. \A v \in Vouchers : making[v].pc = "idle"
      BY DEF Init
    <3>4. era \in Eras
      BY DEF Init, Eras
    <3>8. late \in BOOLEAN
      BY DEF Init
    <3>7. balance \in Nat /\ lock = None
      BY DEF Init
    <3>5. call \in [Callbacks -> Calls] /\ payment \in [Callbacks -> Payments]
      BY DEF Init, Calls, CallSteps, Payments, Eras
    <3>. QED
      BY <3>1, <3>2, <3>3, <3>4, <3>5, <3>6, <3>7, <3>8 DEF Init, TypeOK, NoScript
  <2>2. CallsInv /\ OneRedeemer
    BY DEF Init, CallsInv, OneRedeemer, Knows, Redeems, ClaimSteps, Live, At, NotSent
  <2>3. MakingInv /\ PaidInv /\ ScriptInv
    BY DEF Init, MakingInv, PaidInv, ScriptInv, Is, NoScript
  <2>. QED
    BY <2>1, <2>2, <2>3 DEF IInv
<1>2. IInv /\ [Next]_vars => IInv'
  <2>. SUFFICES ASSUME IInv, [Next]_vars
                PROVE  IInv'
    OBVIOUS
  <2>1. CASE Next
    <3>1. TypeOK'
      BY <2>1, StepTyped DEF IInv
    <3>2. CASE CreateNext \/ OwnerNext \/ ScriptNext \/ EraPasses
      BY <3>1, <3>2, CreateInv, OwnerInv, ScriptStepInv, EraInv
    <3>3. ASSUME NEW r \in Callbacks, CallStep(r) \/ Crash(r) \/ BlinkStep(r)
          PROVE  IInv'
      BY <3>1, <3>3, TalkInv, ClaimInv, ResultInv, BlinkInv DEF CallStep
    <3>. QED
      BY <2>1, <3>2, <3>3 DEF Next
  <2>2. CASE UNCHANGED vars
    <3>1. TypeOK'
      BY <2>2 DEF vars, storeVars, IInv, TypeOK
    <3>2. CallsInv' /\ OneRedeemer'
      BY <2>2 DEF vars, storeVars, IInv, CallsInv, OneRedeemer, Knows, Redeems, ClaimEra,
         VoucherOf, At, NotSent
    <3>3. MakingInv' /\ PaidInv' /\ ScriptInv'
      BY <2>2 DEF vars, storeVars, IInv, MakingInv, PaidInv, ScriptInv, HasRow, Settled,
         VoucherOf, Is
    <3>. QED
      BY <3>1, <3>2, <3>3 DEF IInv
  <2>. QED
    BY <2>1, <2>2
<1>. QED
  BY <1>1, <1>2, PTL DEF Spec

-------------------------------------------------------------------------------
(* The theorems. *)

(* Rows, requests, callbacks, payments and the script stay within their     *)
(* types; the wallet's advisory lock is held exactly by the request that    *)
(* creates a voucher between its lock and its insert or rollback.           *)
THEOREM TypeCorrect == Spec => []TypeOK
<1>1. IInv => TypeOK
  BY DEF IInv
<1>. QED
  BY <1>1, Invariance, PTL

(* The claim comes before the payment, only a definite failure gives it     *)
(* back, and a lost answer keeps it: however many callbacks redeem a        *)
(* voucher, one payment of it at most has settled or still may.             *)
THEOREM PaysOnce == Spec => []PaidOutOnce
<1>1. IInv => PaidOutOnce
  <2>. SUFFICES ASSUME IInv, NEW v \in Vouchers
                PROVE  Cardinality(PaymentsOf(v, Live)) <= 1
    BY DEF PaidOutOnce, Live
  <2>1. \A q, r \in PaymentsOf(v, Live) : q = r
    BY DEF IInv, OneRedeemer, Redeems, PaymentsOf
  <2>2. CASE PaymentsOf(v, Live) = {}
    BY <2>2, FS_EmptySet
  <2>3. CASE PaymentsOf(v, Live) # {}
    <3>1. PICK r : r \in PaymentsOf(v, Live)
      BY <2>3
    <3>2. PaymentsOf(v, Live) = {r}
      BY <2>1, <3>1
    <3>. QED
      BY <3>2, FS_Singleton
  <2>. QED
    BY <2>2, <2>3
<1>. QED
  BY <1>1, Invariance, PTL

(* Cancel, expiry, cleanup and unclaim never give up the row of a payment   *)
(* that settled or still may.                                               *)
THEOREM NoPaymentUnclaimed == Spec => []UnclaimedIsUnpaid
<1>1. IInv => UnclaimedIsUnpaid
  BY DEF IInv, CallsInv, Knows, Redeems, UnclaimedIsUnpaid, PaymentsOf, Live, Redeemed
<1>. QED
  BY <1>1, Invariance, PTL

(* A PAID row stands for a settled payment of that voucher, whether the     *)
(* callback wrote it or the script matched it in the ledger.                *)
THEOREM PaidMeansSettled == Spec => []PaidIsSettled
<1>1. IInv => PaidIsSettled
  BY DEF IInv, PaidInv, Settled, PaidIsSettled, PaymentsOf
<1>. QED
  BY <1>1, Invariance, PTL

-------------------------------------------------------------------------------
(* The backing.  A debit moves an amount from the balance to Drawn, and a   *)
(* revert moves it back: their sum, the worth, changes only when a voucher  *)
(* is PAID, which waits for the wallet's lock.  So a request that fetched   *)
(* the balance under the lock never saw more than the worth is when it sums *)
(* the liabilities up, and when it inserts its voucher.                     *)

Issued == {v \in Vouchers : ~Is(v, "none")}
Expired == {v \in Vouchers : voucher[v].expired}
Drawn == {v \in Vouchers : Is(v, "CLAIMED") /\ Debited(v)}
Worth == balance + Total(Drawn)
Due == Liabilities(Expired)

BackInv ==
    /\ IsFiniteSet(Issued)
    /\ \A v \in Vouchers :
          /\ making[v].past \subseteq Expired
          /\ making[v].pc = "fetched" => making[v].seen <= Worth
          /\ making[v].pc = "approved" /\ ~late => Total(Due) + Amount[v] <= Worth
    /\ ~late => Total(Due) <= Worth

LEMMA TotalIsSum ==
  ASSUME NEW S
  PROVE  Total(S) = SumFunctionOnSet(Amount, S)
BY DEF Total, MapThenSumSet, SumFunctionOnSet, FoldFunctionOnSet, MapThenFoldSet

LEMMA TotalGrows ==
  ASSUME NEW S, IsFiniteSet(S), S \subseteq Vouchers, NEW R, R \subseteq S
  PROVE  Total(R) \in Nat /\ Total(S) \in Nat /\ Total(R) <= Total(S)
<1>1. \A v \in S : Amount[v] \in Nat
  OBVIOUS
<1>. QED
  BY <1>1, SumGrows, TotalIsSum

LEMMA TotalRemove ==
  ASSUME NEW S, IsFiniteSet(S), S \subseteq Vouchers, NEW v \in S
  PROVE  Total(S) = Amount[v] + Total(S \ {v}) /\ Total(S \ {v}) \in Nat
<1>1. \A u \in S : Amount[u] \in Int
  OBVIOUS
<1>2. Total(S) = Amount[v] + Total(S \ {v})
  BY <1>1, SumRemove, TotalIsSum
<1>. QED
  BY <1>2, TotalGrows

LEMMA TotalEmpty == Total({}) = 0
BY SumEmpty, TotalIsSum

LEMMA Finite ==
  ASSUME IsFiniteSet(Issued)
  PROVE  /\ \A past : IsFiniteSet(Liabilities(past))
         /\ IsFiniteSet(Due) /\ IsFiniteSet(Drawn)
<1>1. ASSUME NEW past
      PROVE  IsFiniteSet(Liabilities(past))
  <2>1. Liabilities(past) \subseteq Issued
    BY DEF Liabilities, Issued, Is
  <2>. QED
    BY <2>1, FS_Subset
<1>2. Drawn \subseteq Issued
  BY DEF Drawn, Issued, Is
<1>. QED
  BY <1>1, <1>2, FS_Subset DEF Due

LEMMA WorthType ==
  ASSUME TypeOK, IsFiniteSet(Issued)
  PROVE  Total(Due) \in Nat /\ Total(Drawn) \in Nat /\ Worth \in Nat
<1>1. IsFiniteSet(Due) /\ IsFiniteSet(Drawn)
  BY Finite
<1>2. Due \subseteq Vouchers /\ Drawn \subseteq Vouchers
  BY DEF Due, Drawn, Liabilities
<1>3. Total(Due) \in Nat /\ Total(Drawn) \in Nat
  BY <1>1, <1>2, TotalGrows
<1>. QED
  BY <1>3 DEF Worth, TypeOK

(* What is due and not debited yet is covered by the balance alone.         *)
LEMMA CoveredIsBacked ==
  ASSUME TypeOK, BackInv
  PROVE  Backed
<1>. SUFFICES ASSUME ~late
              PROVE  balance >= Total({v \in Due : ~Debited(v)})
  BY DEF Backed, Due, Expired
<1> DEFINE open == {v \in Due : ~Debited(v)}
<1>1. Total(Due) <= Worth /\ IsFiniteSet(Issued)
  BY DEF BackInv
<1>2. /\ Drawn \subseteq Due /\ open \subseteq Due \ Drawn /\ Due \subseteq Vouchers
      /\ IsFiniteSet(Due) /\ IsFiniteSet(Due \ Drawn)
  <2>1. /\ Drawn \subseteq Due /\ open \subseteq Due \ Drawn /\ Due \subseteq Vouchers
    BY DEF Drawn, Due, Liabilities
  <2>2. IsFiniteSet(Due)
    BY <1>1, Finite
  <2>. QED
    BY <2>1, <2>2, FS_Subset
<1>3. Total(Due) = Total(Drawn) + Total(Due \ Drawn)
  <2>1. \A v \in Due : Amount[v] \in Int
    BY <1>2
  <2>. QED
    BY <1>2, <2>1, SumSplit, TotalIsSum
<1>4. Total(open) \in Nat /\ Total(Due \ Drawn) \in Nat /\ Total(open) <= Total(Due \ Drawn)
  <2>. HIDE DEF open
  <2>. QED
    BY <1>2, TotalGrows
<1>5. Total(Drawn) \in Nat /\ balance \in Nat
  BY <1>1, WorthType DEF TypeOK
<1>. HIDE DEF open
<1>6. balance >= Total(open)
  BY <1>1, <1>3, <1>4, <1>5 DEF Worth
<1>. QED
  BY <1>6 DEF open

(* The steps that move no amount out of the worth. *)
LEMMA SameWorth ==
  ASSUME TypeOK, TypeOK', BackInv, Issued' = Issued, Expired \subseteq Expired', Worth' = Worth,
         \A v \in Vouchers :
             /\ making'[v].past \subseteq Expired'
             /\ making'[v].pc = "fetched" => making'[v].seen <= Worth
             /\ making'[v].pc = "approved" /\ ~late => Total(Due) + Amount[v] <= Worth,
         ~late' => ~late /\ Due' \subseteq Due
  PROVE  BackInv'
<1>1. IsFiniteSet(Issued) /\ IsFiniteSet(Due) /\ Due \subseteq Vouchers
  BY Finite DEF BackInv, Due, Liabilities
<1>2. ~late' => Total(Due') \in Nat /\ Total(Due) \in Nat /\ Total(Due') <= Total(Due)
  BY <1>1, TotalGrows
<1>3. Worth \in Nat
  BY <1>1, WorthType
<1>4. ~late' => Total(Due') <= Worth
  BY <1>2, <1>3 DEF BackInv
<1>5. ASSUME NEW v \in Vouchers, making'[v].pc = "approved", ~late'
      PROVE  Total(Due') + Amount[v] <= Worth
  BY <1>2, <1>3, <1>5
<1>. QED
  BY <1>1, <1>4, <1>5 DEF BackInv

LEMMA InsertBacked ==
  ASSUME IInv, BackInv, NEW v \in Vouchers, InsertVoucher(v)
  PROVE  BackInv'
<1>0. /\ voucher \in [Vouchers -> VoucherRows] /\ making \in [Vouchers -> Makings]
      /\ \A u \in Vouchers : lock = u <=> making[u].pc \in LockSteps
      /\ making[v].pc = "approved" /\ Is(v, "none")
      /\ voucher' = [voucher EXCEPT ![v].status = "ACTIVE"]
      /\ making' = [making EXCEPT ![v] = [pc |-> "done", past |-> {}, seen |-> 0]]
      /\ UNCHANGED <<balance, call, payment, late>>
  BY DEF IInv, TypeOK, MakingInv, InsertVoucher, SetStatus, Finished, Elsewhere, LockSteps
<1>1. /\ Issued' = Issued \cup {v} /\ Expired' = Expired
      /\ Due' \subseteq Due \cup {v} /\ v \notin Due /\ Due \subseteq Vouchers
  BY <1>0 DEF Issued, Expired, Due, Liabilities, Is, VoucherRows
<1>2. Drawn' = Drawn
  BY <1>0 DEF Drawn, Is, VoucherRows, Debited, PaymentsOf, VoucherOf
<1>3. IsFiniteSet(Issued) /\ IsFiniteSet(Issued') /\ IsFiniteSet(Due) /\ IsFiniteSet(Due \cup {v})
  BY <1>1, Finite, FS_AddElement DEF BackInv
<1>4. \A u \in Vouchers : making'[u].pc \notin {"fetched", "approved"}
  BY <1>0 DEF Makings, LockSteps
<1>5. \A u \in Vouchers : making'[u].past \subseteq Expired'
  BY <1>0, <1>1 DEF BackInv, Makings
<1>6. Total(Due \cup {v}) = Amount[v] + Total(Due)
  <2>1. (Due \cup {v}) \ {v} = Due
    BY <1>1
  <2>. QED
    BY <1>1, <1>3, <2>1, TotalRemove
<1>7. Total(Due') <= Total(Due \cup {v}) /\ Total(Due') \in Nat
  BY <1>1, <1>3, TotalGrows
<1>8. Worth' = Worth /\ Worth \in Nat /\ Total(Due) \in Nat
  BY <1>0, <1>2, <1>3, WorthType DEF Worth, IInv
<1>9. ~late => Total(Due') <= Worth'
  BY <1>0, <1>6, <1>7, <1>8 DEF BackInv
<1>. QED
  BY <1>0, <1>3, <1>4, <1>5, <1>9 DEF BackInv

LEMMA CreateBacked ==
  ASSUME IInv, IInv', BackInv, CreateNext
  PROVE  BackInv'
<1>1. PICK v \in Vouchers :
        \/ StartCreate(v) \/ LockWallet(v) \/ FetchBacking(v) \/ SumLiabilities(v)
        \/ InsertVoucher(v) \/ CreateFails(v)
  BY DEF CreateNext
<1>2. CASE InsertVoucher(v)
  BY <1>2, InsertBacked
<1>3. CASE ~InsertVoucher(v)
  <2>0. /\ making \in [Vouchers -> Makings] /\ IsFiniteSet(Issued)
        /\ balance \in Nat /\ \A u \in Vouchers : making[u].seen \in Int
    BY DEF IInv, TypeOK, BackInv, Makings
  <2>1. UNCHANGED <<voucher, balance, call, payment, late>>
    BY <1>1, <1>3 DEF StartCreate, LockWallet, FetchBacking, SumLiabilities, CreateFails, Elsewhere
  <2>2. /\ Issued' = Issued /\ Expired' = Expired /\ Due' = Due /\ Drawn' = Drawn
        /\ Worth' = Worth
    BY <2>1 DEF Issued, Expired, Due, Liabilities, Drawn, Worth, Is, Debited, PaymentsOf, VoucherOf
  <2>3. \A u \in Vouchers \ {v} : making'[u] = making[u]
    BY <1>1, <1>3, <2>0 DEF StartCreate, LockWallet, FetchBacking, SumLiabilities, CreateFails,
       Making, Finished
  <2>8. /\ StartCreate(v) => making'[v].pc = "timed" /\ making'[v].past = Expired
        /\ LockWallet(v) => making'[v].pc = "locked" /\ making'[v].past = making[v].past
        /\ SumLiabilities(v) => making'[v].pc = "approved" /\ making'[v].past = making[v].past
        /\ CreateFails(v) => making'[v].pc = "done" /\ making'[v].past = {}
    BY <2>0 DEF StartCreate, LockWallet, SumLiabilities, CreateFails, Making, Finished, Makings,
       Expired
  <2>9. FetchBacking(v) =>
          /\ making'[v].pc = "fetched" /\ making'[v].past = making[v].past
          /\ making'[v].seen = balance
    BY <2>0 DEF FetchBacking, Makings
  <2>4. making'[v].past \subseteq Expired
    BY <1>1, <1>3, <2>8, <2>9 DEF BackInv
  <2>5. making'[v].pc = "fetched" => making'[v].seen <= Worth
    <3>1. CASE FetchBacking(v)
      BY <2>0, <2>9, <3>1, WorthType DEF Worth, IInv
    <3>. QED
      BY <1>1, <1>3, <2>8, <3>1
  <2>6. making'[v].pc = "approved" /\ ~late => Total(Due) + Amount[v] <= Worth
    <3>1. CASE SumLiabilities(v)
      <4> DEFINE all == Liabilities(making[v].past)
      <4>1. /\ making[v].pc = "fetched" /\ Total(all) + Amount[v] <= making[v].seen
        BY <3>1 DEF SumLiabilities
      <4>2. making[v].seen <= Worth /\ making[v].past \subseteq Expired
        BY <4>1 DEF BackInv
      <4>3. Due \subseteq all /\ all \subseteq Vouchers /\ IsFiniteSet(all)
        BY <2>0, <4>2, Finite DEF Due, Liabilities
      <4>. HIDE DEF all
      <4>4. Total(Due) <= Total(all) /\ Total(all) \in Nat /\ Total(Due) \in Nat
        BY <4>3, TotalGrows
      <4>5. Worth \in Nat /\ Amount[v] \in Nat /\ making[v].seen \in Int
        BY <2>0, WorthType DEF IInv
      <4>. QED
        BY <4>1, <4>2, <4>4, <4>5
    <3>. QED
      BY <1>1, <1>3, <2>8, <2>9, <3>1
  <2>7. \A u \in Vouchers :
             /\ making'[u].past \subseteq Expired'
             /\ making'[u].pc = "fetched" => making'[u].seen <= Worth
             /\ making'[u].pc = "approved" /\ ~late => Total(Due) + Amount[u] <= Worth
    BY <2>2, <2>3, <2>4, <2>5, <2>6 DEF BackInv
  <2>. QED
    BY <2>1, <2>2, <2>7, SameWorth DEF IInv
<1>. QED
  BY <1>2, <1>3

(* The steps that write a row, but create none and pay none. *)
LEMMA RowsBacked ==
  ASSUME IInv, IInv', BackInv, UNCHANGED <<making, balance>>, Issued' = Issued,
         Expired \subseteq Expired', Drawn' = Drawn, ~late' => ~late /\ Due' \subseteq Due
  PROVE  BackInv'
<1>1. Worth' = Worth
  BY DEF Worth
<1>2. \A v \in Vouchers :
             /\ making'[v].past \subseteq Expired'
             /\ making'[v].pc = "fetched" => making'[v].seen <= Worth
             /\ making'[v].pc = "approved" /\ ~late => Total(Due) + Amount[v] <= Worth
  BY DEF BackInv
<1>. QED
  BY <1>1, <1>2, SameWorth DEF IInv

LEMMA OwnerBacked ==
  ASSUME IInv, IInv', BackInv, OwnerNext
  PROVE  BackInv'
<1>1. PICK v \in Vouchers :
        CancelVoucher(v) \/ VoucherExpires(v) \/ UpdateExpired(v) \/ CleanupOld(v)
  BY DEF OwnerNext
<1>2. UNCHANGED <<making, balance, call, payment, late>>
  BY <1>1 DEF CancelVoucher, VoucherExpires, UpdateExpired, CleanupOld, Elsewhere
<1>3. voucher \in [Vouchers -> VoucherRows]
  BY DEF IInv, TypeOK
<1>4. /\ \A u \in Vouchers \ {v} : voucher'[u] = voucher[u]
      /\ voucher[v].expired => voucher'[v].expired
      /\ \/ voucher'[v].status = voucher[v].status
         \/ /\ voucher[v].status \in {"ACTIVE", "CANCELLED", "EXPIRED"}
            /\ voucher'[v].status \in {"CANCELLED", "EXPIRED", "deleted"}
  BY <1>1, <1>3 DEF CancelVoucher, Cancellable, VoucherExpires, UpdateExpired, CleanupOld,
     SetStatus, Is, VoucherRows
<1>5. /\ Issued' = Issued /\ Expired \subseteq Expired'
      /\ Due' \subseteq Due
  BY <1>4 DEF Issued, Expired, Due, Liabilities, Is
<1>6. Drawn' = Drawn
  BY <1>2, <1>4 DEF Drawn, Is, Debited, PaymentsOf, VoucherOf
<1>. QED
  BY <1>2, <1>5, <1>6, RowsBacked

(* A redeemed voucher leaves the liabilities and the debits together, when  *)
(* no request is between its fetch and its insert.                          *)
LEMMA PaidBacked ==
  ASSUME IInv, IInv', BackInv, NEW v \in Vouchers, Is(v, "CLAIMED"), SetStatus(v, "PAID"),
         Debited(v), lock = None, UNCHANGED <<making, balance, late>>,
         \A u \in Vouchers : Debited(u)' <=> Debited(u)
  PROVE  BackInv'
<1>0. /\ voucher \in [Vouchers -> VoucherRows] /\ making \in [Vouchers -> Makings]
      /\ \A u \in Vouchers : making[u].pc \notin {"fetched", "approved"}
  BY DEF IInv, TypeOK
<1>1. /\ Issued' = Issued /\ Expired' = Expired /\ Due' = Due \ {v} /\ Drawn' = Drawn \ {v}
      /\ v \in Due /\ v \in Drawn /\ Due \subseteq Vouchers /\ Drawn \subseteq Vouchers
  BY <1>0 DEF SetStatus, Issued, Expired, Due, Liabilities, Drawn, Is, VoucherRows
<1>2. IsFiniteSet(Issued) /\ IsFiniteSet(Due) /\ IsFiniteSet(Drawn)
  BY Finite DEF BackInv
<1>3. Total(Due) = Amount[v] + Total(Due') /\ Total(Due') \in Nat
  BY <1>1, <1>2, TotalRemove
<1>4. Total(Drawn) = Amount[v] + Total(Drawn') /\ Total(Drawn') \in Nat
  BY <1>1, <1>2, TotalRemove
<1>5. ~late' => Total(Due') <= Worth'
  <2>1. balance \in Nat /\ Amount[v] \in Nat
    BY DEF IInv, TypeOK
  <2>. QED
    BY <1>3, <1>4, <2>1 DEF BackInv, Worth
<1>. QED
  BY <1>0, <1>1, <1>2, <1>5 DEF BackInv

LEMMA DebitsKept ==
  ASSUME IInv, NEW r \in Callbacks, CallStep(r) \/ Crash(r)
  PROVE  \A v \in Vouchers : Debited(v)' <=> Debited(v)
<1>0. Knows(r) /\ payment \in [Callbacks -> Payments]
  BY DEF IInv, CallsInv, TypeOK
<1>1. \E step : Goes(r, step)
  BY CallGoes DEF CallStep, IInv
<1>2. \A q \in Callbacks : payment[q].st \in {"flight", "settled"} \/
                           payment'[q].st \in {"flight", "settled"} => payment'[q] = payment[q]
  <2>1. CASE SendPayment(r)
    BY <1>0, <2>1 DEF SendPayment, Knows, At
  <2>2. CASE ~SendPayment(r)
    <3>1. UNCHANGED payment
      BY <2>2 DEF CallStep, Crash, GetVoucher, ClaimClock, ClaimVoucher, ClaimRefused, PayAnswered,
         MarkVoucherPaid, UnclaimVoucher
    <3>. QED
      BY <3>1
  <2>. QED
    BY <2>1, <2>2
<1>3. \A q \in Callbacks : payment[q].st \in {"flight", "settled"} => VoucherOf(q)' = VoucherOf(q)
  BY <1>0, <1>1 DEF Goes, Knows, VoucherOf
<1>. QED
  BY <1>2, <1>3 DEF Debited, PaymentsOf

LEMMA CallBacked ==
  ASSUME IInv, IInv', BackInv, NEW r \in Callbacks, CallStep(r) \/ Crash(r)
  PROVE  BackInv'
<1> DEFINE v == VoucherOf(r)
<1>0. Knows(r) /\ voucher \in [Vouchers -> VoucherRows]
  BY DEF IInv, CallsInv, TypeOK
<1>1. \A u \in Vouchers : Debited(u)' <=> Debited(u)
  BY DebitsKept
<1>2. UNCHANGED <<making, lock, balance>>
  BY DEF CallStep, Crash, GetVoucher, ClaimClock, ClaimVoucher, ClaimRefused, SendPayment,
     PayAnswered, MarkVoucherPaid, UnclaimVoucher, storeVars
<1>3. CASE UNCHANGED voucher /\ UNCHANGED late
  <2>1. Issued' = Issued /\ Expired' = Expired /\ Due' = Due
    BY <1>3 DEF Issued, Expired, Due, Liabilities, Is
  <2>2. Drawn' = Drawn
    BY <1>1, <1>3 DEF Drawn, Is
  <2>. QED
    BY <1>2, <1>3, <2>1, <2>2, RowsBacked
<1>4. CASE ClaimVoucher(r)
  <2>1. /\ v \in Vouchers /\ Is(v, "ACTIVE") /\ late' = (late \/ voucher[v].expired)
        /\ voucher' = [voucher EXCEPT ![v] = [@ EXCEPT !.status = "CLAIMED", !.era = era]]
    BY <1>0, <1>4 DEF ClaimVoucher, Claimable, Knows, At
  <2>2. /\ \A u \in Vouchers \ {v} : voucher'[u] = voucher[u]
        /\ voucher'[v].status = "CLAIMED" /\ voucher'[v].expired = voucher[v].expired
    BY <1>0, <2>1 DEF VoucherRows
  <2>3. ~Debited(v)
    BY <2>1 DEF Debited, PaymentsOf, IInv, CallsInv, Knows, Redeems, Live, Redeemed, Is
  <2>. HIDE DEF v
  <2>4. Issued' = Issued /\ Expired' = Expired
    BY <2>1, <2>2 DEF Issued, Expired, Is
  <2>5. Drawn' = Drawn
    BY <1>1, <2>1, <2>2, <2>3 DEF Drawn, Is
  <2>6. ~late' => ~late /\ Due' \subseteq Due
    BY <2>1, <2>2 DEF Due, Liabilities, Expired, Is
  <2>. QED
    BY <1>2, <2>4, <2>5, <2>6, RowsBacked
<1>5. CASE UnclaimVoucher(r)
  <2>1. /\ v \in Vouchers /\ NotSent(r) /\ Redeems(r) /\ UNCHANGED late
        /\ \/ UNCHANGED voucher
           \/ /\ Is(v, "CLAIMED") /\ ~voucher[v].expired
              /\ voucher' = [voucher EXCEPT ![v].status = "ACTIVE"]
    BY <1>0, <1>5 DEF UnclaimVoucher, SetStatus, Knows, At, Redeems, ClaimSteps
  <2>2. CASE ~UNCHANGED voucher
    <3>1. /\ \A u \in Vouchers \ {v} : voucher'[u] = voucher[u]
          /\ voucher'[v].status = "ACTIVE" /\ voucher'[v].expired = voucher[v].expired
      BY <1>0, <2>1, <2>2 DEF VoucherRows
    <3>2. ~Debited(v)
      BY <2>1 DEF Debited, PaymentsOf, IInv, OneRedeemer, Redeems, Live, NotSent
    <3>. HIDE DEF v
    <3>3. Issued' = Issued /\ Expired' = Expired
      BY <2>1, <2>2, <3>1 DEF Issued, Expired, Is
    <3>4. Drawn' = Drawn
      BY <1>1, <3>1, <3>2 DEF Drawn, Is
    <3>5. Due' \subseteq Due
      BY <2>1, <2>2, <3>1 DEF Due, Liabilities, Expired, Is
    <3>. QED
      BY <1>2, <2>1, <3>3, <3>4, <3>5, RowsBacked
  <2>. QED
    BY <1>3, <2>1, <2>2
<1>6. CASE MarkVoucherPaid(r)
  <2>1. /\ v \in Vouchers /\ payment[r].st = "settled" /\ UNCHANGED late /\ lock = None
        /\ Settle(v)
    BY <1>0, <1>6 DEF MarkVoucherPaid, WalletFree, Knows, At
  <2>2. Debited(v)
    BY <2>1 DEF Debited, PaymentsOf
  <2>. HIDE DEF v
  <2>. QED
    BY <1>1, <1>2, <1>3, <2>1, <2>2, PaidBacked DEF Settle
<1>. QED
  BY <1>3, <1>4, <1>5, <1>6 DEF CallStep, Crash, GetVoucher, ClaimClock, ClaimRefused,
     SendPayment, PayAnswered, storeVars

LEMMA ScriptBacked ==
  ASSUME IInv, IInv', BackInv, ScriptNext \/ EraPasses
  PROVE  BackInv'
<1>1. UNCHANGED <<making, lock, balance, call, payment, late>>
  BY DEF ScriptNext, SnapshotClaims, ReadLedger, MarkPaidLocked, ScriptEnds, EraPasses, storeVars
<1>2. \A u \in Vouchers : Debited(u)' <=> Debited(u)
  BY <1>1 DEF Debited, PaymentsOf, VoucherOf
<1>3. CASE UNCHANGED voucher
  <2>1. Issued' = Issued /\ Expired' = Expired /\ Due' = Due
    BY <1>3 DEF Issued, Expired, Due, Liabilities, Is
  <2>2. Drawn' = Drawn
    BY <1>2, <1>3 DEF Drawn, Is
  <2>. QED
    BY <1>1, <1>3, <2>1, <2>2, RowsBacked
<1>4. ASSUME NEW v \in Vouchers, MarkPaidLocked(v), Is(v, "CLAIMED"), SetStatus(v, "PAID")
      PROVE  BackInv'
  <2>1. Settled(v) /\ lock = None
    BY <1>4 DEF MarkPaidLocked, WalletFree, IInv, ScriptInv
  <2>2. Debited(v)
    BY <2>1 DEF Settled, Debited, PaymentsOf
  <2>. QED
    BY <1>1, <1>2, <1>4, <2>1, <2>2, PaidBacked
<1>. QED
  BY <1>3, <1>4 DEF ScriptNext, SnapshotClaims, ReadLedger, MarkPaidLocked, ScriptEnds,
     EraPasses, storeVars, Settle

(* Blink moves an amount between the balance and the debits: the one        *)
(* redeemer of a voucher that is CLAIMED makes its one debit.               *)
LEMMA BlinkBacked ==
  ASSUME IInv, IInv', BackInv, NEW r \in Callbacks, BlinkStep(r)
  PROVE  BackInv'
<1>1. PICK s \in {"rejected", "flight", "settled", "failed"} : BlinkExecutes(r, s)
  BY DEF BlinkStep
<1>2. /\ payment \in [Callbacks -> Payments] /\ Knows(r) /\ payment[r].st \in {"wire", "flight"}
      /\ UNCHANGED <<voucher, making, lock, call, late>> /\ Redeems(r)
  BY <1>1 DEF IInv, TypeOK, CallsInv, BlinkExecutes, storeVars, Redeems, Live
<1>12. PICK v \in Vouchers : v = VoucherOf(r)
  BY <1>2 DEF Knows
<1>3. payment'[r].st = s /\ \A q \in Callbacks \ {r} : payment'[q] = payment[q]
  BY <1>1, <1>2 DEF BlinkExecutes, Payments
<1>4. Is(v, "CLAIMED")
  <2>1. voucher[v].status \in Redeemed
    BY <1>2, <1>12 DEF Knows
  <2>2. ~Settled(v)
    BY <1>2, <1>12 DEF Settled, IInv, OneRedeemer, Redeems, Live
  <2>. QED
    BY <1>3, <2>1, <2>2 DEF IInv, PaidInv, Is, Redeemed
<1>5. \A u \in Vouchers \ {v} : Debited(u)' <=> Debited(u)
  BY <1>2, <1>3, <1>12 DEF Debited, PaymentsOf, VoucherOf
<1>6. /\ Debited(v) <=> payment[r].st = "flight"
      /\ Debited(v)' <=> s \in {"flight", "settled"}
  <2>1. \A q \in Callbacks \ {r} : payment[q].st \in Live => VoucherOf(q) # v
    BY <1>2, <1>12 DEF IInv, OneRedeemer, Redeems
  <2>2. \A q \in Callbacks : VoucherOf(q)' = VoucherOf(q)
    BY <1>2 DEF VoucherOf
  <2>3. Debited(v) <=> payment[r].st \in {"flight", "settled"}
    BY <1>12, <2>1 DEF Debited, PaymentsOf, Live
  <2>4. Debited(v)' <=> payment'[r].st \in {"flight", "settled"}
    BY <1>3, <1>12, <2>1, <2>2 DEF Debited, PaymentsOf, Live
  <2>. QED
    BY <1>2, <1>3, <2>3, <2>4
<1>7. /\ Issued' = Issued /\ Expired' = Expired /\ Due' = Due
  BY <1>2 DEF Issued, Expired, Due, Liabilities, Is
<1>8. /\ v \in Drawn <=> payment[r].st = "flight"
      /\ v \in Drawn' <=> s \in {"flight", "settled"}
      /\ Drawn' \ {v} = Drawn \ {v}
  <2>1. \A u \in Vouchers : Is(u, "CLAIMED")' <=> Is(u, "CLAIMED")
    BY <1>2 DEF Is
  <2>2. \A u \in Vouchers \ {v} : u \in Drawn' <=> u \in Drawn
    BY <1>5, <2>1 DEF Drawn
  <2>3. v \in Drawn <=> payment[r].st = "flight"
    BY <1>3, <1>4, <1>6 DEF Drawn
  <2>4. v \in Drawn' <=> s \in {"flight", "settled"}
    BY <1>3, <1>4, <1>6, <2>1 DEF Drawn
  <2>5. Drawn \subseteq Vouchers /\ Drawn' \subseteq Vouchers
    BY DEF Drawn
  <2>. QED
    BY <2>2, <2>3, <2>4, <2>5
<1>9. IsFiniteSet(Drawn) /\ IsFiniteSet(Drawn') /\ IsFiniteSet(Drawn \ {v})
  <2>1. IsFiniteSet(Issued) /\ Drawn' \subseteq Issued' /\ Drawn \subseteq Issued
    BY DEF BackInv, Drawn, Issued, Is
  <2>. QED
    BY <1>7, <2>1, FS_Subset
<1>10. Worth' = Worth
  <2> DEFINE rest == Total(Drawn \ {v})
  <2>1. Total(Drawn) = rest + (IF v \in Drawn THEN Amount[v] ELSE 0)
    <3>1. CASE v \in Drawn
      BY <1>9, <3>1, TotalRemove DEF Drawn
    <3>2. CASE v \notin Drawn
      <4>1. Drawn \ {v} = Drawn
        BY <3>2
      <4>. QED
        BY <1>9, <3>2, <4>1, TotalGrows DEF Drawn
    <3>. QED
      BY <3>1, <3>2
  <2>2. Total(Drawn') = rest + (IF v \in Drawn' THEN Amount[v] ELSE 0)
    <3>0. Drawn' \subseteq Vouchers
      BY DEF Drawn
    <3>1. CASE v \in Drawn'
      BY <1>8, <1>9, <3>0, <3>1, TotalRemove
    <3>2. CASE v \notin Drawn'
      <4>1. Drawn' = Drawn \ {v}
        BY <1>8, <3>2
      <4>. QED
        BY <1>9, <3>0, <3>2, <4>1, TotalGrows
    <3>. QED
      BY <3>1, <3>2
  <2>3. rest \in Nat /\ Amount[v] \in Nat /\ balance \in Nat /\ balance' \in Nat
    BY <1>3, <1>9, TotalGrows DEF Drawn, IInv, TypeOK
  <2>. HIDE DEF rest
  <2>4. balance' + Total(Drawn') = balance + Total(Drawn)
    BY <1>1, <1>8, <1>12, <2>1, <2>2, <2>3 DEF BlinkExecutes
  <2>. QED
    BY <2>4 DEF Worth
<1>11. \A u \in Vouchers :
             /\ making'[u].past \subseteq Expired'
             /\ making'[u].pc = "fetched" => making'[u].seen <= Worth
             /\ making'[u].pc = "approved" /\ ~late => Total(Due) + Amount[u] <= Worth
  BY <1>2, <1>7 DEF BackInv
<1>. QED
  BY <1>2, <1>7, <1>10, <1>11, SameWorth DEF IInv

(* Whatever vouchers are issued and redeemed, and whenever a claim, a       *)
(* payment, an expiry or a creation interleaves, the balance covers what    *)
(* the wallet's vouchers still draw on it, unless a claim landed late.      *)
THEOREM BalanceBacksVouchers == Spec => []Backed
<1>1. Init => BackInv
  <2>. SUFFICES ASSUME Init
                PROVE  BackInv
    OBVIOUS
  <2>1. Issued = {} /\ Due = {} /\ Drawn = {}
    BY DEF Init, Issued, Due, Liabilities, Drawn, Is
  <2>2. Worth \in Nat /\ Total(Due) = 0
    BY <2>1, TotalEmpty DEF Init, Worth
  <2>3. \A v \in Vouchers : making[v].past = {} /\ making[v].pc = "idle"
    BY DEF Init
  <2>. QED
    BY <2>1, <2>2, <2>3, FS_EmptySet DEF BackInv
<1>2. IInv /\ IInv' /\ BackInv /\ [Next]_vars => BackInv'
  <2>. SUFFICES ASSUME IInv, IInv', BackInv, [Next]_vars
                PROVE  BackInv'
    OBVIOUS
  <2>1. CASE Next
    BY <2>1, CreateBacked, OwnerBacked, ScriptBacked, CallBacked, BlinkBacked DEF Next
  <2>2. CASE UNCHANGED vars
    BY <2>2 DEF vars, storeVars, BackInv, Issued, Expired, Due, Liabilities, Drawn, Worth, Is,
       Debited, PaymentsOf, VoucherOf
  <2>. QED
    BY <2>1, <2>2
<1>3. IInv /\ BackInv => Backed
  BY CoveredIsBacked DEF IInv
<1>. QED
  BY <1>1, <1>2, <1>3, Invariance, PTL DEF Spec

-------------------------------------------------------------------------------
(* Voucher implements VoucherLedger.                                         *)

Debits == {"flight", "settled"}

(* A row that is not redeemed has no debit, and a redemption that is under   *)
(* way has the only one.                                                     *)
LEMMA StageKnown ==
  ASSUME IInv, NEW v \in Vouchers
  PROVE  /\ voucher[v].status \notin Redeemed => \A s \in Debits : ~HasPayment(v, s)
         /\ Is(v, "PAID") => HasPayment(v, "settled")
         /\ \A r \in Callbacks : Redeems(r) /\ VoucherOf(r) = v =>
               \A s \in Debits : HasPayment(v, s) <=> payment[r].st = s
         /\ voucher[v].status \in Statuses
<1>1. \A r \in Callbacks : payment[r].st \in Debits => Redeems(r)
  BY DEF Debits, Redeems, Live
<1>2. voucher[v].status \notin Redeemed => \A s \in Debits : ~HasPayment(v, s)
  BY <1>1 DEF IInv, CallsInv, Knows, HasPayment
<1>3. Is(v, "PAID") => HasPayment(v, "settled")
  BY DEF IInv, PaidInv, Settled, HasPayment
<1>4. ASSUME NEW r \in Callbacks, Redeems(r), VoucherOf(r) = v, NEW s \in Debits
      PROVE  HasPayment(v, s) <=> payment[r].st = s
  BY <1>1, <1>4 DEF IInv, OneRedeemer, HasPayment
<1>5. voucher[v].status \in Statuses
  BY DEF IInv, TypeOK, VoucherRows
<1>. QED
  BY <1>2, <1>3, <1>4, <1>5

(* The debits of all payments, and the vouchers they are of, stay. *)
DebitsStay ==
    \A r \in Callbacks : \A s \in Debits :
        /\ payment'[r].st = s <=> payment[r].st = s
        /\ payment[r].st = s => call'[r].voucher = call[r].voucher

(* The debits of a voucher stay with it while callbacks and rows move on. *)
LEMMA DebitsMatch ==
  ASSUME NEW v \in Vouchers, NEW s \in Debits, DebitsStay
  PROVE  (\E r \in Callbacks : payment'[r].st = s /\ call'[r].voucher = v) <=>
         (\E r \in Callbacks : payment[r].st = s /\ call[r].voucher = v)
<1>1. ASSUME NEW r \in Callbacks
      PROVE  payment'[r].st = s /\ call'[r].voucher = v <=> payment[r].st = s /\ call[r].voucher = v
  <2>1. payment'[r].st = s <=> payment[r].st = s
    BY DEF DebitsStay
  <2>2. payment[r].st = s => call'[r].voucher = call[r].voucher
    BY DEF DebitsStay
  <2>. QED
    BY <2>1, <2>2
<1>. QED
  BY <1>1

(* A voucher whose status and debits stay is the same to the contract. *)
LEMMA StageKept ==
  ASSUME NEW v \in Vouchers, voucher'[v].status = voucher[v].status, DebitsStay
  PROVE  Stage(v)' = Stage(v)
<1>1. /\ HasPayment(v, "settled")' <=> HasPayment(v, "settled")
      /\ HasPayment(v, "flight")' <=> HasPayment(v, "flight")
  BY DebitsMatch DEF Debits, HasPayment, VoucherOf
<1>. QED
  BY <1>1 DEF Stage

(* A step of one voucher alone. *)
LEMMA StagePasses ==
  ASSUME NEW v \in Vouchers, NEW from, NEW to, Stage(v) = from, Stage(v)' = to, from # to,
         \A u \in Vouchers \ {v} : Stage(u)' = Stage(u)
  PROVE  /\ Promise!Passes(v, from, to)
         /\ [u \in Vouchers |-> Stage(u)]'[v] # [u \in Vouchers |-> Stage(u)][v]
<1>1. [u \in Vouchers |-> Stage(u)]'[v] = to /\ [u \in Vouchers |-> Stage(u)][v] = from
  OBVIOUS
<1>2. [u \in Vouchers |-> Stage(u)]' = [[u \in Vouchers |-> Stage(u)] EXCEPT ![v] = to]
  <2>1. \A u \in Vouchers : Stage(u)' = IF u = v THEN to ELSE Stage(u)
    OBVIOUS
  <2>. QED
    BY <2>1
<1>. QED
  BY <1>1, <1>2 DEF Promise!Passes

(* A step the contract does not see. *)
LEMMA NotInContract ==
  ASSUME balance' = balance, \A v \in Vouchers : Stage(v)' = Stage(v)
  PROVE  UNCHANGED Promise!ledgerVars
BY DEF Promise!ledgerVars

(* What a voucher without a debit is to the contract. *)
LEMMA UndebitedIs ==
  /\ Undebited["none"] = "none" /\ Undebited["ACTIVE"] = "open" /\ Undebited["CLAIMED"] = "held"
  /\ Undebited["CANCELLED"] = "closed" /\ Undebited["EXPIRED"] = "closed"
  /\ Undebited["deleted"] = "closed"
BY DEF Undebited

(* A row that changes its status while its debits stay. *)
LEMMA RowMoves ==
  ASSUME IInv, NEW v \in Vouchers, NEW s \in Statuses,
         \A u \in Vouchers \ {v} : voucher'[u].status = voucher[u].status,
         voucher'[v].status = s, balance' = balance,
         DebitsStay,
         \/ Is(v, "none") /\ s = "ACTIVE"
         \/ Is(v, "ACTIVE") /\ s \in {"CLAIMED", "CANCELLED", "EXPIRED"}
         \/ Is(v, "CLAIMED") /\ s = "ACTIVE" /\ \A d \in Debits : ~HasPayment(v, d)
         \/ Is(v, "CLAIMED") /\ s = "PAID" /\ HasPayment(v, "settled")
         \/ Is(v, "CANCELLED") /\ s = "deleted"
         \/ Is(v, "EXPIRED") /\ s = "deleted"
         \/ Is(v, s)
  PROVE  [Promise!LedgerNext]_(Promise!ledgerVars)
<1>1. \A u \in Vouchers \ {v} : Stage(u)' = Stage(u)
  BY StageKept
<1>2. CASE \A d \in Debits : ~HasPayment(v, d)
  <2>1. /\ ~HasPayment(v, "settled") /\ ~HasPayment(v, "flight")
        /\ ~HasPayment(v, "settled")' /\ ~HasPayment(v, "flight")'
    BY <1>2, DebitsMatch DEF Debits, HasPayment, VoucherOf
  <2>2. Stage(v) = Undebited[voucher[v].status] /\ Stage(v)' = Undebited[s]
    BY <2>1 DEF Stage
  <2>3. ASSUME Is(v, "none"), s = "ACTIVE"
        PROVE  Promise!LedgerNext
    <3>1. Stage(v) = "none" /\ Stage(v)' = "open"
      BY <2>2, <2>3, UndebitedIs DEF Is
    <3>. QED
      BY <1>1, <3>1, StagePasses DEF Promise!LedgerNext, Promise!Step, Promise!Issue
  <2>4. ASSUME Is(v, "ACTIVE"), s \in {"CLAIMED", "CANCELLED", "EXPIRED"}
        PROVE  Promise!LedgerNext
    <3>1. Stage(v) = "open"
      BY <2>2, <2>4, UndebitedIs DEF Is
    <3>2. CASE s = "CLAIMED"
      <4>1. Stage(v)' = "held"
        BY <2>2, <3>2, UndebitedIs
      <4>. QED
        BY <1>1, <3>1, <4>1, StagePasses DEF Promise!LedgerNext, Promise!Step, Promise!Hold
    <3>3. CASE s \in {"CANCELLED", "EXPIRED"}
      <4>1. Stage(v)' = "closed"
        BY <2>2, <3>3, UndebitedIs
      <4>. QED
        BY <1>1, <3>1, <4>1, StagePasses DEF Promise!LedgerNext, Promise!Step, Promise!Close
    <3>. QED
      BY <2>4, <3>2, <3>3
  <2>5. ASSUME Is(v, "CLAIMED"), s = "ACTIVE"
        PROVE  Promise!LedgerNext
    <3>1. Stage(v) = "held" /\ Stage(v)' = "open"
      BY <2>2, <2>5, UndebitedIs DEF Is
    <3>. QED
      BY <1>1, <3>1, StagePasses DEF Promise!LedgerNext, Promise!Step, Promise!Release
  <2>6. ASSUME (voucher[v].status \in {"CANCELLED", "EXPIRED"} /\ s = "deleted") \/ Is(v, s)
        PROVE  UNCHANGED Promise!ledgerVars
    <3>1. Stage(v)' = Stage(v)
      <4>1. CASE Is(v, s)
        BY <2>2, <4>1 DEF Is
      <4>2. CASE voucher[v].status \in {"CANCELLED", "EXPIRED"} /\ s = "deleted"
        BY <2>2, <4>2, UndebitedIs
      <4>. QED
        BY <2>6, <4>1, <4>2
    <3>. QED
      BY <1>1, <3>1, NotInContract
  <2>. QED
    BY <2>1, <2>3, <2>4, <2>5, <2>6 DEF Is
<1>3. CASE ~\A d \in Debits : ~HasPayment(v, d)
  <2>1. voucher[v].status \in Redeemed
    BY <1>3, StageKnown
  <2>2. Is(v, s) \/ (Is(v, "CLAIMED") /\ s = "PAID")
    BY <1>3, <2>1 DEF Redeemed, Is
  <2>3. Stage(v)' = Stage(v)
    <3>1. /\ HasPayment(v, "settled")' <=> HasPayment(v, "settled")
          /\ HasPayment(v, "flight")' <=> HasPayment(v, "flight")
          /\ HasPayment(v, "settled") \/ HasPayment(v, "flight")
      BY <1>3, DebitsMatch DEF Debits, HasPayment, VoucherOf
    <3>2. s \in Redeemed
      BY <2>1, <2>2 DEF Redeemed, Is
    <3>. QED
      BY <2>1, <3>1, <3>2 DEF Stage
  <2>. QED
    BY <1>1, <2>3, NotInContract
<1>. QED
  BY <1>2, <1>3

(* The steps that write one row and no payment. *)
LEMMA CreateImplements ==
  ASSUME IInv, CreateNext
  PROVE  [Promise!LedgerNext]_(Promise!ledgerVars)
<1>1. PICK v \in Vouchers :
        \/ StartCreate(v) \/ LockWallet(v) \/ FetchBacking(v) \/ SumLiabilities(v)
        \/ InsertVoucher(v) \/ CreateFails(v)
  BY DEF CreateNext
<1>2. UNCHANGED <<balance, call, payment>>
  BY <1>1 DEF StartCreate, LockWallet, FetchBacking, SumLiabilities, InsertVoucher,
     CreateFails, Elsewhere
<1>3. DebitsStay
  BY <1>2 DEF DebitsStay
<1>4. CASE InsertVoucher(v)
  <2>1. Is(v, "none") /\ voucher \in [Vouchers -> VoucherRows]
    BY <1>4 DEF InsertVoucher, IInv, MakingInv, TypeOK
  <2>2. /\ voucher'[v].status = "ACTIVE"
        /\ \A u \in Vouchers \ {v} : voucher'[u].status = voucher[u].status
    BY <1>4, <2>1 DEF InsertVoucher, SetStatus, VoucherRows
  <2>. QED
    BY <1>2, <1>3, <2>1, <2>2, RowMoves DEF Statuses
<1>5. CASE ~InsertVoucher(v)
  <2>1. voucher' = voucher
    BY <1>1, <1>5 DEF StartCreate, LockWallet, FetchBacking, SumLiabilities, CreateFails
  <2>. QED
    BY <1>2, <1>3, <2>1, StageKept, NotInContract
<1>. QED
  BY <1>4, <1>5

LEMMA OwnerImplements ==
  ASSUME IInv, OwnerNext
  PROVE  [Promise!LedgerNext]_(Promise!ledgerVars)
<1>1. PICK v \in Vouchers :
        CancelVoucher(v) \/ VoucherExpires(v) \/ UpdateExpired(v) \/ CleanupOld(v)
  BY DEF OwnerNext
<1>2. UNCHANGED <<balance, call, payment>> /\ voucher \in [Vouchers -> VoucherRows]
  BY <1>1 DEF CancelVoucher, VoucherExpires, UpdateExpired, CleanupOld, Elsewhere, IInv, TypeOK
<1>3. DebitsStay
  BY <1>2 DEF DebitsStay
<1>4. \A u \in Vouchers \ {v} : voucher'[u].status = voucher[u].status
  BY <1>1, <1>2 DEF CancelVoucher, VoucherExpires, UpdateExpired, CleanupOld, SetStatus
<1>5. CASE CancelVoucher(v)
  <2>1. Is(v, "ACTIVE") /\ voucher'[v].status = "CANCELLED"
    BY <1>2, <1>5 DEF CancelVoucher, Cancellable, SetStatus, VoucherRows
  <2>. QED
    BY <1>2, <1>3, <1>4, <2>1, RowMoves DEF Statuses
<1>6. CASE UpdateExpired(v)
  <2>1. Is(v, "ACTIVE") /\ voucher'[v].status = "EXPIRED"
    BY <1>2, <1>6 DEF UpdateExpired, SetStatus, VoucherRows
  <2>. QED
    BY <1>2, <1>3, <1>4, <2>1, RowMoves DEF Statuses
<1>7. CASE CleanupOld(v)
  <2>1. Is(v, "CANCELLED") \/ Is(v, "EXPIRED")
    BY <1>7 DEF CleanupOld, Is
  <2>2. voucher'[v].status = "deleted"
    BY <1>2, <1>7 DEF CleanupOld, SetStatus, VoucherRows
  <2>. QED
    BY <1>2, <1>3, <1>4, <2>1, <2>2, RowMoves DEF Statuses
<1>8. CASE VoucherExpires(v)
  <2>1. voucher'[v].status = voucher[v].status
    BY <1>2, <1>8 DEF VoucherExpires, VoucherRows
  <2>. QED
    BY <1>2, <1>3, <1>4, <2>1, StageKept, NotInContract
<1>. QED
  BY <1>1, <1>5, <1>6, <1>7, <1>8

(* The script writes PAID over a claim whose payment settled. *)
LEMMA ScriptImplements ==
  ASSUME IInv, ScriptNext
  PROVE  [Promise!LedgerNext]_(Promise!ledgerVars)
<1>1. UNCHANGED <<balance, call, payment>> /\ voucher \in [Vouchers -> VoucherRows]
  BY DEF ScriptNext, SnapshotClaims, ReadLedger, ScriptEnds, MarkPaidLocked, IInv, TypeOK
<1>2. DebitsStay
  BY <1>1 DEF DebitsStay
<1>3. ASSUME NEW v \in Vouchers, MarkPaidLocked(v), Is(v, "CLAIMED")
      PROVE  [Promise!LedgerNext]_(Promise!ledgerVars)
  <2>1. HasPayment(v, "settled")
    BY <1>3 DEF MarkPaidLocked, IInv, ScriptInv, Settled, HasPayment
  <2>2. /\ voucher'[v].status = "PAID"
        /\ \A u \in Vouchers \ {v} : voucher'[u].status = voucher[u].status
    BY <1>1, <1>3 DEF MarkPaidLocked, Settle, SetStatus, VoucherRows
  <2>. QED
    BY <1>1, <1>2, <1>3, <2>1, <2>2, RowMoves DEF Statuses
<1>4. CASE voucher' = voucher
  BY <1>1, <1>2, <1>4, StageKept, NotInContract
<1>5. ASSUME NEW v \in Vouchers, MarkPaidLocked(v), ~Is(v, "CLAIMED")
      PROVE  [Promise!LedgerNext]_(Promise!ledgerVars)
  BY <1>4, <1>5 DEF MarkPaidLocked, Settle
<1>6. CASE SnapshotClaims \/ ReadLedger \/ ScriptEnds
  BY <1>4, <1>6 DEF SnapshotClaims, ReadLedger, ScriptEnds, storeVars
<1>. QED
  BY <1>3, <1>5, <1>6 DEF ScriptNext

(* A callback claims, marks or gives back one row, and sends.  What it knows *)
(* of its payment says whether the row has a debit.                          *)
LEMMA CallImplements ==
  ASSUME IInv, NEW r \in Callbacks, CallStep(r) \/ Crash(r)
  PROVE  [Promise!LedgerNext]_(Promise!ledgerVars)
<1> DEFINE v == VoucherOf(r)
<1>0. /\ voucher \in [Vouchers -> VoucherRows] /\ call \in [Callbacks -> Calls]
      /\ payment \in [Callbacks -> Payments]
      /\ Knows(r)
  BY DEF IInv, TypeOK, CallsInv
<1>1. balance' = balance
  BY DEF CallStep, GetVoucher, ClaimClock, ClaimVoucher, ClaimRefused, SendPayment, PayAnswered,
     MarkVoucherPaid, UnclaimVoucher, Crash
<1>2. DebitsStay
  <2>1. CASE \E u \in Vouchers : GetVoucher(r, u)
    <3>1. /\ payment' = payment /\ payment[r].st = "none"
          /\ \A q \in Callbacks \ {r} : call'[q] = call[q]
      BY <1>0, <2>1 DEF GetVoucher, Knows, At
    <3>. QED
      BY <3>1 DEF Debits, DebitsStay
  <2>2. CASE SendPayment(r)
    <3>1. payment[r].st = "none" /\ payment'[r].st = "wire"
      BY <1>0, <2>2 DEF SendPayment, Knows, At, Payments
    <3>2. \A q \in Callbacks :
             (q # r => payment'[q] = payment[q]) /\ call'[q].voucher = call[q].voucher
      BY <1>0, <2>2 DEF SendPayment, Goto, Calls
    <3>. QED
      BY <3>1, <3>2 DEF Debits, DebitsStay
  <2>3. CASE UNCHANGED payment /\ \E p \in CallSteps : Goto(r, p)
    <3>1. \A q \in Callbacks : call'[q].voucher = call[q].voucher
      BY <1>0, <2>3 DEF Goto, Calls
    <3>. QED
      BY <2>3, <3>1 DEF DebitsStay
  <2>4. CASE ClaimClock(r)
    <3>1. \A q \in Callbacks : call'[q].voucher = call[q].voucher
      BY <1>0, <2>4 DEF ClaimClock, Calls
    <3>. QED
      BY <2>4, <3>1 DEF DebitsStay, ClaimClock
  <2>5. CASE ClaimVoucher(r)
    BY <2>3, <2>5 DEF ClaimVoucher, CallSteps
  <2>6. CASE ClaimRefused(r) \/ PayAnswered(r) \/ MarkVoucherPaid(r) \/ UnclaimVoucher(r) \/ Crash(r)
    BY <2>3, <2>6 DEF ClaimRefused, PayAnswered, MarkVoucherPaid, UnclaimVoucher, Crash, CallSteps
  <2>. QED
    BY <2>1, <2>2, <2>4, <2>5, <2>6 DEF CallStep
<1>3. \/ voucher' = voucher \/ ClaimVoucher(r) \/ MarkVoucherPaid(r) \/ UnclaimVoucher(r)
  BY DEF CallStep, GetVoucher, ClaimClock, ClaimRefused, SendPayment, PayAnswered, Crash, storeVars
<1>4. CASE voucher' = voucher
  BY <1>1, <1>2, <1>4, StageKept, NotInContract
<1>5. CASE ClaimVoucher(r)
  <2>1. v \in Vouchers /\ Is(v, "ACTIVE")
    BY <1>0, <1>5 DEF ClaimVoucher, Claimable, Knows, At
  <2>2. /\ voucher'[v].status = "CLAIMED"
        /\ \A u \in Vouchers \ {v} : voucher'[u].status = voucher[u].status
    BY <1>0, <1>5, <2>1 DEF ClaimVoucher, VoucherRows
  <2>. QED
    BY <1>1, <1>2, <2>1, <2>2, RowMoves DEF Statuses
<1>6. CASE MarkVoucherPaid(r) /\ Is(v, "CLAIMED")
  <2>1. v \in Vouchers /\ HasPayment(v, "settled")
    BY <1>0, <1>6 DEF MarkVoucherPaid, Knows, At, HasPayment
  <2>2. /\ voucher'[v].status = "PAID"
        /\ \A u \in Vouchers \ {v} : voucher'[u].status = voucher[u].status
    BY <1>0, <1>6, <2>1 DEF MarkVoucherPaid, Settle, SetStatus, VoucherRows
  <2>. QED
    BY <1>1, <1>2, <1>6, <2>1, <2>2, RowMoves DEF Statuses
<1>7. CASE UnclaimVoucher(r) /\ Is(v, "CLAIMED") /\ ~voucher[v].expired
  <2>1. v \in Vouchers /\ Redeems(r) /\ payment[r].st \notin Debits
    BY <1>0, <1>7 DEF UnclaimVoucher, Knows, At, Redeems, ClaimSteps, NotSent, Debits
  <2>2. \A d \in Debits : ~HasPayment(v, d)
    BY <2>1, StageKnown
  <2>3. /\ voucher'[v].status = "ACTIVE"
        /\ \A u \in Vouchers \ {v} : voucher'[u].status = voucher[u].status
    BY <1>0, <1>7, <2>1 DEF UnclaimVoucher, SetStatus, VoucherRows
  <2>. QED
    BY <1>1, <1>2, <1>7, <2>1, <2>2, <2>3, RowMoves DEF Statuses
<1>8. CASE MarkVoucherPaid(r) /\ ~Is(v, "CLAIMED")
  BY <1>4, <1>8 DEF MarkVoucherPaid, Settle
<1>9. CASE UnclaimVoucher(r) /\ ~(Is(v, "CLAIMED") /\ ~voucher[v].expired)
  BY <1>4, <1>9 DEF UnclaimVoucher
<1>. QED
  BY <1>3, <1>4, <1>5, <1>6, <1>7, <1>8, <1>9

(* Blink draws, settles and reverts the payment of the one redemption. *)
LEMMA BlinkImplements ==
  ASSUME IInv, NEW r \in Callbacks, NEW s, BlinkExecutes(r, s)
  PROVE  [Promise!LedgerNext]_(Promise!ledgerVars)
<1>0. /\ payment \in [Callbacks -> Payments] /\ balance \in Nat
      /\ Amount \in [Vouchers -> Nat \ {0}]
      /\ UNCHANGED <<voucher, call>>
  BY VoucherAssumption DEF IInv, TypeOK, BlinkExecutes, storeVars
<1>1. payment[r].st \in {"wire", "flight"} /\ payment'[r].st = s
      /\ \A q \in Callbacks \ {r} : payment'[q] = payment[q]
  BY <1>0 DEF BlinkExecutes, Payments
<1>a. Redeems(r) /\ VoucherOf(r) \in Vouchers
  BY <1>1 DEF Redeems, Live, IInv, CallsInv, Knows
<1>2. PICK v \in Vouchers : v = VoucherOf(r) /\ Redeems(r)
  BY <1>a
<1>3. /\ voucher[v].status \in Redeemed
      /\ \A q \in Callbacks \ {r} : VoucherOf(q) = v => payment[q].st \notin Debits
  BY <1>2 DEF IInv, CallsInv, Knows, OneRedeemer, Redeems, Live, Debits
<1>4. /\ HasPayment(v, "settled") <=> payment[r].st = "settled"
      /\ HasPayment(v, "flight") <=> payment[r].st = "flight"
      /\ HasPayment(v, "settled")' <=> s = "settled"
      /\ HasPayment(v, "flight")' <=> s = "flight"
  <2>1. ASSUME NEW d \in Debits
        PROVE  (HasPayment(v, d) <=> payment[r].st = d) /\ (HasPayment(v, d)' <=> s = d)
    <3>1. call' = call /\ call[r].voucher = v
      BY <1>0, <1>2 DEF VoucherOf
    <3>2. \A q \in Callbacks \ {r} : call[q].voucher = v => payment[q].st # d /\ payment'[q].st # d
      BY <1>1, <1>2, <1>3, <2>1 DEF VoucherOf
    <3>3. HasPayment(v, d) <=> payment[r].st = d
      BY <3>1, <3>2 DEF HasPayment, VoucherOf
    <3>4. HasPayment(v, d)' <=> payment'[r].st = d
      BY <3>1, <3>2 DEF HasPayment, VoucherOf
    <3>. QED
      BY <1>1, <3>3, <3>4
  <2>. QED
    BY <2>1 DEF Debits
<1>5. Is(v, "CLAIMED")
  <2>1. ~Is(v, "PAID")
    BY <1>1, <1>2, <1>4, StageKnown
  <2>. QED
    BY <1>3, <2>1 DEF Redeemed, Is
<1>6. \A u \in Vouchers \ {v} : Stage(u)' = Stage(u)
  <2>. SUFFICES ASSUME NEW u \in Vouchers \ {v}
                PROVE  Stage(u)' = Stage(u)
    OBVIOUS
  <2>1. ASSUME NEW d \in Debits
        PROVE  HasPayment(u, d)' <=> HasPayment(u, d)
    <3>1. call' = call /\ call[r].voucher # u
      BY <1>0, <1>2 DEF VoucherOf
    <3>2. \A q \in Callbacks : call[q].voucher = u => payment'[q] = payment[q]
      BY <1>1, <3>1
    <3>3. ASSUME HasPayment(u, d)
          PROVE  HasPayment(u, d)'
      BY <3>1, <3>2, <3>3 DEF HasPayment, VoucherOf
    <3>4. ASSUME HasPayment(u, d)'
          PROVE  HasPayment(u, d)
      BY <3>1, <3>2, <3>4 DEF HasPayment, VoucherOf
    <3>. QED
      BY <3>3, <3>4
  <2>. QED
    BY <1>0, <2>1 DEF Stage, Debits
<1>7. /\ payment[r].st = "wire" => Stage(v) = "held"
      /\ payment[r].st = "flight" => Stage(v) = "drawn"
      /\ s = "flight" => Stage(v)' = "drawn"
      /\ s = "settled" => Stage(v)' = "spent"
      /\ s \in {"rejected", "failed"} => Stage(v)' = "held"
  <2>1. voucher[v].status = "CLAIMED" /\ voucher'[v].status = "CLAIMED"
    BY <1>0, <1>5 DEF Is
  <2>2. /\ HasPayment(v, "settled") => Stage(v) = "spent"
        /\ HasPayment(v, "flight") /\ ~HasPayment(v, "settled") => Stage(v) = "drawn"
        /\ ~HasPayment(v, "flight") /\ ~HasPayment(v, "settled") => Stage(v) = "held"
    BY <2>1, UndebitedIs DEF Stage, Redeemed
  <2>3. /\ HasPayment(v, "settled")' => Stage(v)' = "spent"
        /\ HasPayment(v, "flight")' /\ ~HasPayment(v, "settled")' => Stage(v)' = "drawn"
        /\ ~HasPayment(v, "flight")' /\ ~HasPayment(v, "settled")' => Stage(v)' = "held"
    BY <2>1, UndebitedIs DEF Stage, Redeemed
  <2>. QED
    BY <1>1, <1>4, <2>2, <2>3
<1>8. CASE payment[r].st = "wire" /\ s = "rejected"
  <2>1. balance' = balance /\ Stage(v)' = Stage(v)
    BY <1>7, <1>8 DEF BlinkExecutes
  <2>. QED
    BY <1>6, <2>1, NotInContract
<1>9. CASE payment[r].st = "wire" /\ s = "flight"
  <2>1. balance >= Amount[v] /\ balance' = balance - Amount[v]
    BY <1>2, <1>9 DEF BlinkExecutes
  <2>2. /\ Promise!Passes(v, "held", "drawn")
        /\ [u \in Vouchers |-> Stage(u)]'[v] # [u \in Vouchers |-> Stage(u)][v]
    BY <1>2, <1>6, <1>7, <1>9, StagePasses
  <2>3. Amount[v] <= balance
    BY <1>0, <1>2, <2>1
  <2>. QED
    BY <1>2, <2>1, <2>2, <2>3 DEF Promise!LedgerNext, Promise!Step, Promise!Draw
<1>10. CASE payment[r].st = "flight" /\ s = "settled"
  <2>1. balance' = balance
    BY <1>10 DEF BlinkExecutes
  <2>2. /\ Promise!Passes(v, "drawn", "spent")
        /\ [u \in Vouchers |-> Stage(u)]'[v] # [u \in Vouchers |-> Stage(u)][v]
    BY <1>2, <1>6, <1>7, <1>10, StagePasses
  <2>. QED
    BY <1>2, <2>1, <2>2 DEF Promise!LedgerNext, Promise!Step, Promise!Spend
<1>11. CASE payment[r].st = "flight" /\ s = "failed"
  <2>1. balance' = balance + Amount[v]
    BY <1>2, <1>11 DEF BlinkExecutes
  <2>2. /\ Promise!Passes(v, "drawn", "held")
        /\ [u \in Vouchers |-> Stage(u)]'[v] # [u \in Vouchers |-> Stage(u)][v]
    BY <1>2, <1>6, <1>7, <1>11, StagePasses
  <2>. QED
    BY <1>2, <2>1, <2>2 DEF Promise!LedgerNext, Promise!Step, Promise!PutBack
<1>. QED
  BY <1>8, <1>9, <1>10, <1>11 DEF BlinkExecutes

(* Vouchers implement their contract: its initial states are initial there, *)
(* and each step is a step there or changes nothing.                        *)
THEOREM Refinement == Spec => ImplementsVoucherLedger
<1>1. Init => Promise!LedgerInit
  <2>. SUFFICES ASSUME Init
                PROVE  Promise!LedgerInit
    OBVIOUS
  <2>1. \A v \in Vouchers, d \in Debits : ~HasPayment(v, d)
    BY DEF Init, HasPayment, Debits
  <2>2. ASSUME NEW v \in Vouchers
        PROVE  Stage(v) = "none"
    <3>1. voucher[v].status = "none" /\ ~HasPayment(v, "settled") /\ ~HasPayment(v, "flight")
      BY <2>1 DEF Init, Debits
    <3>. QED
      BY <3>1, UndebitedIs DEF Stage
  <2>. QED
    BY <2>2 DEF Init, Promise!LedgerInit
<1>2. IInv /\ [Next]_vars => [Promise!LedgerNext]_(Promise!ledgerVars)
  <2>. SUFFICES ASSUME IInv, [Next]_vars
                PROVE  [Promise!LedgerNext]_(Promise!ledgerVars)
    OBVIOUS
  <2>1. CASE EraPasses \/ UNCHANGED vars
    <3>1. UNCHANGED <<balance, voucher, call, payment>>
      BY <2>1 DEF EraPasses, vars, storeVars
    <3>2. DebitsStay
      BY <3>1 DEF DebitsStay
    <3>. QED
      BY <3>1, <3>2, StageKept, NotInContract
  <2>2. ASSUME NEW r \in Callbacks, BlinkStep(r)
        PROVE  [Promise!LedgerNext]_(Promise!ledgerVars)
    BY <2>2, BlinkImplements DEF BlinkStep
  <2>. QED
    BY <2>1, <2>2, CreateImplements, OwnerImplements, ScriptImplements, CallImplements DEF Next
<1>. QED
  BY <1>1, <1>2, Invariance, PTL DEF Spec, ImplementsVoucherLedger, Promise!LedgerSpec

================================================================================
