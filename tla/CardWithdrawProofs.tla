-------------------------- MODULE CardWithdrawProofs --------------------------
(***************************************************************************)
(* Theorems of CardWithdraw, for every number of cards, taps, callbacks,    *)
(* passes and invoices.  IInv is inductive: one lemma per conjunct below.   *)
(* The rows are the heart of it: apart from the claim, every step obeys     *)
(* RowsAdvance, from which the invariants about rows, money and Blink       *)
(* follow.  A section maps every step to a step of CardLedger.              *)
(*                                                                         *)
(* Theorems of ReconcileScheduler, the passes that reconcile those rows,    *)
(* from SchedulerIInv, close the module.                                    *)
(***************************************************************************)
EXTENDS CardWithdraw, ReconcileScheduler, SumTheorems

USE CardWithdrawAssumption

(* Type correctness of the tap's steps. *)
LEMMA TapTyped ==
  ASSUME TypeOK, TapNext
  PROVE  TypeOK'
<1>1. ASSUME NEW k \in Taps, NEW c \in Cards, NEW n \in 1..MaxCounter,
             NEW m \in Offers, TapRead(k, c, n, m)
      PROVE  TypeOK'
  <2>1. n \in 0..MaxCounter /\ m \in Nat
    OBVIOUS
  <2>2. [st |-> "read", card |-> c, ctr |-> n, max |-> m] \in TapRecords
    BY <2>1 DEF TapRecords, TapStates
  <2>. QED
    BY <1>1, <2>2 DEF TypeOK, TapRead, cardVars, rowVars
<1>2. ASSUME NEW k \in Taps, StartWithdrawSession(k)
      PROVE  TypeOK'
  <2>1. tap' \in [Taps -> TapRecords]
    BY <1>2 DEF TypeOK, StartWithdrawSession, TapRecords, TapStates
  <2>2. counter' \in [Cards -> 0..MaxCounter]
    BY <1>2 DEF TypeOK, StartWithdrawSession, TapRecords
  <2>. QED
    BY <1>2, <2>1, <2>2 DEF TypeOK, StartWithdrawSession, rowVars
<1>3. ASSUME NEW k \in Taps, SessionExpires(k)
      PROVE  TypeOK'
  <2>1. tap' \in [Taps -> TapRecords]
    BY <1>3 DEF TypeOK, SessionExpires, TapRecords, TapStates
  <2>. QED
    BY <1>3, <2>1 DEF TypeOK, SessionExpires, cardVars, rowVars
<1>. QED
  BY <1>1, <1>2, <1>3 DEF TapNext

(* A request moved to another step is still a request. *)
LEMMA GotoTyped ==
  ASSUME req \in [Requests -> RequestRecords], NEW q \in Requests,
         NEW next \in BeforeConsume \cup BeforeClaim \cup Deducted,
         Goto(q, next)
  PROVE  req' \in [Requests -> RequestRecords]
BY DEF Goto, RequestRecords
(* Goto writes the request's pc and nothing else. *)
LEMMA GotoEffect ==
  ASSUME req \in [Requests -> RequestRecords], NEW q \in Requests, NEW next, Goto(q, next)
  PROVE  /\ \A p \in Requests : req'[p].tap = req[p].tap
         /\ \A p \in Requests : req'[p].hash = req[p].hash
         /\ \A p \in Requests : p # q => req'[p].pc = req[p].pc
         /\ req'[q].pc = next
<1>1. req' = [req EXCEPT ![q].pc = next]
  BY DEF Goto
<1>2. \A p \in Requests : req'[p].tap = req[p].tap
  BY <1>1 DEF RequestRecords
<1>3. \A p \in Requests : req'[p].hash = req[p].hash
  BY <1>1 DEF RequestRecords
<1>. QED
  BY <1>1, <1>2, <1>3 DEF RequestRecords

(* An open row names a card. *)
LEMMA OpenRowTyped ==
  ASSUME TypeOK, NEW h \in Hashes, Unresolved(h)
  PROVE  row[h] \in ClaimRows
BY DEF TypeOK, Unresolved, Rows, NoRow

(* A restore keeps rows and balances in their types. *)
LEMMA RestoreTyped ==
  ASSUME TypeOK, NEW h \in Hashes, Unresolved(h), Restore(h)
  PROVE  /\ row' \in [Hashes -> Rows]
         /\ balance' \in [Cards -> Nat]
         /\ restored' \in SUBSET Hashes
<1>1. row[h] \in ClaimRows
  BY OpenRowTyped
<1>2. [row[h] EXCEPT !.outcome = "FAILED"] \in Rows
  BY <1>1 DEF Rows, ClaimRows, Outcomes
<1>. QED
  BY <1>1, <1>2 DEF TypeOK, Restore, ClaimRows

(* Type correctness of the callback's steps. *)
LEMMA CallbackTyped ==
  ASSUME TypeOK, SessionsInv, RequestsInv, CallbackNext
  PROVE  TypeOK'
<1>. USE DEF rowVars, cardVars
<1>1. ASSUME NEW q \in Requests, NEW k \in Taps, NEW h \in Hashes, PeekSession(q, k, h)
      PROVE  TypeOK'
  <2>1. [pc |-> "peeked", tap |-> k, hash |-> h] \in RequestRecords
    BY DEF RequestRecords, BeforeConsume
  <2>. QED
    BY <1>1, <2>1 DEF TypeOK, PeekSession
<1>2. ASSUME NEW q \in Requests, ConsumeWithdrawSession(q)
      PROVE  TypeOK'
  <2>1. tap' \in [Taps -> TapRecords]
    BY <1>2 DEF TypeOK, ConsumeWithdrawSession, TapRecords, TapStates
  <2>2. req' \in [Requests -> RequestRecords]
    BY <1>2, GotoTyped DEF TypeOK, ConsumeWithdrawSession, BeforeConsume, BeforeClaim
  <2>. QED
    BY <1>2, <2>1, <2>2 DEF TypeOK, ConsumeWithdrawSession
<1>3. ASSUME NEW q \in Requests, ReadCard(q)
      PROVE  TypeOK'
  <2>1. req' \in [Requests -> RequestRecords]
    BY <1>3, GotoTyped DEF TypeOK, ReadCard, BeforeClaim
  <2>. QED
    BY <1>3, <2>1 DEF TypeOK, ReadCard
<1>4. ASSUME NEW q \in Requests, ClaimAndDeductWithdrawal(q)
      PROVE  TypeOK'
  <2>. DEFINE c == CardOf(q)
              h == req[q].hash
  <2>1. c \in Cards /\ h \in Hashes
    BY <1>4 DEF ClaimAndDeductWithdrawal, RequestsInv, SessionsInv, CardOf
  <2>2. req' \in [Requests -> RequestRecords]
    BY <1>4, GotoTyped DEF TypeOK, ClaimAndDeductWithdrawal, Deducted
  <2>3. balance' \in [Cards -> Nat]
    <3>1. balance[c] - Amount[h] \in Nat
      BY <1>4, <2>1 DEF TypeOK, ClaimAndDeductWithdrawal, Deductible
    <3>. QED
      BY <1>4, <2>1, <3>1 DEF TypeOK, ClaimAndDeductWithdrawal
  <2>4. row' \in [Hashes -> Rows]
    <3>1. [card |-> c, kind |-> "CLAIMED", outcome |-> "OPEN", aged |-> FALSE] \in Rows
      BY <2>1 DEF Rows, ClaimRows, Kinds, Outcomes
    <3>. QED
      BY <1>4, <3>1 DEF TypeOK, ClaimAndDeductWithdrawal
  <2>5. consumed' \in SUBSET Hashes
    BY <1>4, <2>1 DEF TypeOK, ClaimAndDeductWithdrawal
  <2>. QED
    BY <1>4, <2>2, <2>3, <2>4, <2>5 DEF TypeOK, ClaimAndDeductWithdrawal
<1>5. ASSUME NEW q \in Requests, ClaimRefused(q)
      PROVE  TypeOK'
  <2>1. req' \in [Requests -> RequestRecords]
    BY <1>5, GotoTyped DEF TypeOK, ClaimRefused, BeforeClaim
  <2>. QED
    BY <1>5, <2>1 DEF TypeOK, ClaimRefused
<1>6. ASSUME NEW q \in Requests, BeginWithdrawalSend(q)
      PROVE  TypeOK'
  <2>1. req' \in [Requests -> RequestRecords]
    BY <1>6, GotoTyped DEF TypeOK, BeginWithdrawalSend, Deducted
  <2>2. row' \in [Hashes -> Rows]
    BY <1>6 DEF TypeOK, BeginWithdrawalSend, StillClaimed, Unresolved, Rows, ClaimRows,
                NoRow, Kinds
  <2>. QED
    BY <1>6, <2>1, <2>2 DEF TypeOK, BeginWithdrawalSend
<1>7. ASSUME NEW q \in Requests, WalletLookupFails(q) \/ PayLnInvoice(q) \/ PayAnswered(q)
      PROVE  TypeOK'
  <2>1. req' \in [Requests -> RequestRecords]
    BY <1>7, GotoTyped DEF TypeOK, WalletLookupFails, PayLnInvoice, PayAnswered, Verdict,
                           Deducted
  <2>2. blink' \in [Hashes -> BlinkStates]
    BY <1>7 DEF TypeOK, WalletLookupFails, PayLnInvoice, PayAnswered, BlinkStates
  <2>. QED
    BY <1>7, <2>1, <2>2 DEF TypeOK, WalletLookupFails, PayLnInvoice, PayAnswered
<1>8. ASSUME NEW q \in Requests, RestoreRejected(q)
      PROVE  TypeOK'
  <2>. DEFINE h == req[q].hash
  <2>1. h \in Hashes
    BY <1>8 DEF RestoreRejected, RequestsInv
  <2>2. req' \in [Requests -> RequestRecords]
    BY <1>8, GotoTyped DEF TypeOK, RestoreRejected, Deducted
  <2>3. CASE Unresolved(h)
    BY <1>8, <2>1, <2>2, <2>3, RestoreTyped DEF TypeOK, RestoreRejected
  <2>4. CASE ~Unresolved(h)
    BY <1>8, <2>2, <2>4 DEF TypeOK, RestoreRejected
  <2>. QED
    BY <2>3, <2>4
<1>9. ASSUME NEW q \in Requests, FinalizeWithdrawal(q)
      PROVE  TypeOK'
  <2>1. req' \in [Requests -> RequestRecords]
    BY <1>9, GotoTyped DEF TypeOK, FinalizeWithdrawal, Deducted
  <2>2. FinalKind(req[q].pc) \in Kinds
    BY DEF FinalKind, Kinds
  <2>3. row' \in [Hashes -> Rows]
    <3>1. CASE Unresolved(req[q].hash)
      <4>1. req[q].hash \in Hashes
        BY <1>9 DEF FinalizeWithdrawal, RequestsInv
      <4>2. row[req[q].hash] \in ClaimRows
        BY <3>1, <4>1, OpenRowTyped
      <4>. QED
        BY <1>9, <2>2, <3>1, <4>2 DEF TypeOK, FinalizeWithdrawal, Rows, ClaimRows, Outcomes
    <3>2. CASE ~Unresolved(req[q].hash)
      BY <1>9, <3>2 DEF TypeOK, FinalizeWithdrawal
    <3>. QED
      BY <3>1, <3>2
  <2>. QED
    BY <1>9, <2>1, <2>3 DEF TypeOK, FinalizeWithdrawal
<1>10. ASSUME NEW q \in Requests, Crash(q)
       PROVE  TypeOK'
  <2>1. req' \in [Requests -> RequestRecords]
    BY <1>10, GotoTyped DEF TypeOK, Crash, BeforeConsume, BeforeClaim, Deducted
  <2>. QED
    BY <1>10, <2>1 DEF TypeOK, Crash
<1>. QED
  BY <1>1, <1>2, <1>3, <1>4, <1>5, <1>6, <1>7, <1>8, <1>9, <1>10 DEF CallbackNext

(* Type correctness of the reconciliation's steps. *)
LEMMA ReconcileTyped ==
  ASSUME TypeOK, PassesInv, ReconcileNext
  PROVE  TypeOK'
<1>. USE DEF rowVars, cardVars
<1>1. ASSUME NEW r \in Passes, NEW h \in Hashes, PickRow(r, h)
      PROVE  TypeOK'
  <2>1. row[h].kind \in Kinds
    BY <1>1 DEF TypeOK, PickRow, Selected, Unresolved, Rows, ClaimRows, NoRow
  <2>2. pass' \in [Passes -> PassRecords]
    BY <1>1, <2>1 DEF TypeOK, PickRow, PassRecords
  <2>. QED
    BY <1>1, <2>2 DEF TypeOK, PickRow
<1>2. ASSUME NEW r \in Passes,
             \/ PassReadsCard(r) \/ PassReadFails(r)
             \/ LookUpPayment(r) \/ PassGivesUp(r)
      PROVE  TypeOK'
  <2>1. pass' \in [Passes -> PassRecords]
    <3>0. /\ pass \in [Passes -> PassRecords]
          /\ \A p \in PassRecords, a \in Answers :
               [p EXCEPT !.pc = "answered", !.seen = a] \in PassRecords
      BY DEF TypeOK, PassRecords
    <3>1. CASE PassReadsCard(r)
      <4>1. PICK pc \in {"gone", "live"} : pass' = [pass EXCEPT ![r].pc = pc]
        BY <3>1 DEF PassReadsCard
      <4>2. pass' = [pass EXCEPT ![r] = [pass[r] EXCEPT !.pc = pc]]
        BY <4>1
      <4>3. [pass[r] EXCEPT !.pc = pc] \in PassRecords
        <5>1. pass[r] \in PassRecords
          BY <3>0
        <5>. QED
          BY <5>1 DEF PassRecords
      <4>. QED
        BY <3>0, <4>2, <4>3
    <3>2. CASE PassReadFails(r)
      <4>1. pass' = [pass EXCEPT ![r] = [pass[r] EXCEPT !.pc = "gone"]]
        BY <3>2 DEF PassReadFails
      <4>2. [pass[r] EXCEPT !.pc = "gone"] \in PassRecords
        <5>1. pass[r] \in PassRecords
          BY <3>0
        <5>. QED
          BY <5>1 DEF PassRecords
      <4>. QED
        BY <3>0, <4>1, <4>2
    <3>3. CASE LookUpPayment(r)
      <4>1. PICK a \in Answers :
              pass' = [pass EXCEPT ![r] = [pass[r] EXCEPT !.pc = "answered", !.seen = a]]
        BY <3>3 DEF LookUpPayment, LookupAnswer, Answers
      <4>. QED
        BY <3>0, <4>1
    <3>4. CASE PassGivesUp(r)
      BY <3>4 DEF TypeOK, PassGivesUp, PassRecords, IdlePass
    <3>. QED
      BY <1>2, <3>1, <3>2, <3>3, <3>4
  <2>. QED
    BY <1>2, <2>1 DEF TypeOK, PassReadsCard, PassReadFails, LookUpPayment, PassGivesUp
<1>3. ASSUME NEW r \in Passes, CloseRow(r)
      PROVE  TypeOK'
  <2>1. pass' \in [Passes -> PassRecords]
    BY <1>3 DEF TypeOK, CloseRow, PassRecords, IdlePass
  <2>2. row' \in [Hashes -> Rows]
    <3>1. CASE Unresolved(pass[r].hash)
      <4>1. row[pass[r].hash] \in ClaimRows
        BY <1>3, <3>1, OpenRowTyped DEF CloseRow, PassesInv
      <4>. QED
        BY <1>3, <3>1, <4>1 DEF TypeOK, CloseRow, Rows, ClaimRows, Outcomes
    <3>2. CASE ~Unresolved(pass[r].hash)
      BY <1>3, <3>2 DEF TypeOK, CloseRow
    <3>. QED
      BY <3>1, <3>2
  <2>. QED
    BY <1>3, <2>1, <2>2 DEF TypeOK, CloseRow
<1>4. ASSUME NEW r \in Passes, PassWrites(r)
      PROVE  TypeOK'
  <2>. DEFINE h == pass[r].hash
  <2>1. h \in Hashes
    BY <1>4 DEF PassWrites, PassesInv
  <2>2. pass' \in [Passes -> PassRecords]
    BY <1>4 DEF TypeOK, PassWrites, PassRecords, IdlePass
  <2>3. CASE Unresolved(h) /\ Restore(h)
    BY <1>4, <2>1, <2>2, <2>3, RestoreTyped DEF TypeOK, PassWrites
  <2>4. CASE ~(Unresolved(h) /\ Restore(h))
    <3>1. row' \in [Hashes -> Rows] /\ UNCHANGED <<balance, restored>>
      BY <1>4, <2>4 DEF TypeOK, PassWrites, Abandoned, Unresolved, Rows, ClaimRows, NoRow,
                        Outcomes
    <3>. QED
      BY <1>4, <2>2, <3>1 DEF TypeOK, PassWrites
  <2>. QED
    BY <2>3, <2>4
<1>. QED
  BY <1>1, <1>2, <1>3, <1>4 DEF ReconcileNext, ReconcileStep

(* Type correctness is preserved by every step: TypeOK with what the other  *)
(* parts of the invariant say of the keys a handler carries.                *)
LEMMA TypeStep ==
  ASSUME TypeOK, SessionsInv, RequestsInv, PassesInv, [Next]_vars
  PROVE  TypeOK'
<1>. USE DEF rowVars, cardVars
<1>1. CASE BlinkNext
  BY <1>1 DEF BlinkNext, BlinkExecutes, TypeOK, BlinkStates
<1>2. ASSUME NEW c \in Cards, DisableCard(c) \/ EnableCard(c) \/ WipeCard(c)
      PROVE  TypeOK'
  BY <1>2 DEF DisableCard, EnableCard, WipeCard, SetStatus, TypeOK, CardStatuses
<1>3. ASSUME NEW c \in Cards, DeleteWipedCard(c)
      PROVE  TypeOK'
  <2>1. tap' \in [Taps -> TapRecords]
    BY <1>3 DEF TypeOK, DeleteWipedCard, TapRecords, TapStates
  <2>2. row' \in [Hashes -> Rows]
    BY <1>3 DEF TypeOK, DeleteWipedCard, Rows
  <2>3. balance' \in [Cards -> Nat] /\ status' \in [Cards -> CardStatuses]
    BY <1>3 DEF TypeOK, DeleteWipedCard, CardStatuses
  <2>. QED
    BY <1>3, <2>1, <2>2, <2>3 DEF TypeOK, DeleteWipedCard
<1>4. ASSUME NEW c \in Cards, TopUpCard(c)
      PROVE  TypeOK'
  BY <1>4 DEF TopUpCard, TypeOK
<1>7. ASSUME NEW c \in Cards, NEW n \in 1..MaxCounter, AdvanceCounter(c, n)
      PROVE  TypeOK'
  BY <1>7 DEF AdvanceCounter, TypeOK
<1>5. ASSUME NEW h \in Hashes, GracePasses(h)
      PROVE  TypeOK'
  <2>1. row' \in [Hashes -> Rows]
    <3>1. row[h] \in ClaimRows
      BY <1>5, OpenRowTyped DEF GracePasses
    <3>. QED
      BY <1>5, <3>1 DEF TypeOK, GracePasses, Rows, ClaimRows
  <2>. QED
    BY <1>5, <2>1 DEF TypeOK, GracePasses
<1>6. CASE UNCHANGED vars
  BY <1>6 DEF vars, TypeOK
<1>. QED
  BY <1>1, <1>2, <1>3, <1>4, <1>5, <1>6, <1>7, TapTyped, CallbackTyped,
     ReconcileTyped
     DEF Next, OwnerNext

-------------------------------------------------------------------------------
(* Which steps write which variables. *)

(* Who writes sessions and counters. *)
LEMMA SessionWriters ==
  ASSUME [Next]_vars
  PROVE  \/ tap' = tap /\ counter' = counter
         \/ TapNext
         \/ \E q \in Requests : ConsumeWithdrawSession(q)
         \/ \E c \in Cards : DeleteWipedCard(c)
         \/ \E c \in Cards, n \in 1..MaxCounter : AdvanceCounter(c, n)
<1>1. CASE UNCHANGED vars
  BY <1>1 DEF vars, cardVars
<1>2. CASE CallbackNext
  BY <1>2 DEF CallbackNext, cardVars, PeekSession, ReadCard, ClaimAndDeductWithdrawal,
     ClaimRefused, BeginWithdrawalSend, WalletLookupFails, PayLnInvoice, PayAnswered,
     RestoreRejected, FinalizeWithdrawal, Crash
<1>3. CASE ReconcileNext
  BY <1>3 DEF ReconcileNext, ReconcileStep, cardVars, PickRow, PassReadsCard, PassReadFails,
     CloseRow, LookUpPayment, PassGivesUp, PassWrites
<1>4. CASE BlinkNext \/ OwnerNext \/ \E h \in Hashes : GracePasses(h)
  BY <1>4 DEF BlinkNext, OwnerNext, GracePasses, cardVars, BlinkExecutes, SetStatus, DisableCard,
     EnableCard, WipeCard, TopUpCard
<1>. QED
  BY <1>1, <1>2, <1>3, <1>4 DEF Next

(* Only a callback moves requests or consumes a hash. *)
LEMMA RequestWriters ==
  ASSUME [Next]_vars
  PROVE  (req' = req /\ consumed' = consumed) \/ CallbackNext
BY DEF vars, cardVars, rowVars, Next, TapNext, TapRead, StartWithdrawSession, SessionExpires,
   ReconcileNext, ReconcileStep, PickRow, PassReadsCard, PassReadFails,
   CloseRow, LookUpPayment, PassGivesUp, PassWrites, BlinkNext, OwnerNext, GracePasses,
   BlinkExecutes, SetStatus, DisableCard, EnableCard, WipeCard, DeleteWipedCard, TopUpCard,
     AdvanceCounter

(* Only the pay step and Blink itself move a payment. *)
LEMMA BlinkWriters ==
  ASSUME [Next]_vars
  PROVE  \/ blink' = blink
         \/ \E q \in Requests : PayLnInvoice(q)
         \/ BlinkNext
<1>1. CASE CallbackNext
  BY <1>1 DEF CallbackNext, PeekSession, ConsumeWithdrawSession, ReadCard,
     ClaimAndDeductWithdrawal, ClaimRefused, BeginWithdrawalSend, WalletLookupFails, PayAnswered,
     RestoreRejected, FinalizeWithdrawal, Crash
<1>. QED
  BY <1>1 DEF vars, Next, TapNext, TapRead, StartWithdrawSession, SessionExpires,
     ReconcileNext, ReconcileStep, PickRow, PassReadsCard, PassReadFails,
     CloseRow, LookUpPayment, PassGivesUp, PassWrites, OwnerNext, GracePasses,
     SetStatus, DisableCard, EnableCard, WipeCard, DeleteWipedCard, TopUpCard,
     AdvanceCounter

(* Who writes withdrawal rows. *)
LEMMA RowWriters ==
  ASSUME [Next]_vars
  PROVE  \/ row' = row /\ restored' = restored
         \/ \E q \in Requests : \/ ClaimAndDeductWithdrawal(q) \/ BeginWithdrawalSend(q)
                                \/ RestoreRejected(q) \/ FinalizeWithdrawal(q)
         \/ \E r \in Passes : CloseRow(r) \/ PassWrites(r)
         \/ \E c \in Cards : DeleteWipedCard(c)
         \/ \E h \in Hashes : GracePasses(h)
<1>1. CASE CallbackNext
  BY <1>1 DEF CallbackNext, rowVars, PeekSession, ConsumeWithdrawSession, ReadCard, ClaimRefused,
     WalletLookupFails, PayLnInvoice, PayAnswered, Crash
<1>. QED
  BY <1>1 DEF vars, rowVars, Next, TapNext, TapRead, StartWithdrawSession, SessionExpires,
     ReconcileNext, ReconcileStep, PickRow, PassReadsCard, PassReadFails,
     LookUpPayment, PassGivesUp, BlinkNext, BlinkExecutes, OwnerNext,
     SetStatus, DisableCard, EnableCard, WipeCard, TopUpCard, AdvanceCounter

(* Only reconciliation moves passes. *)
LEMMA PassWriters ==
  ASSUME [Next]_vars
  PROVE  pass' = pass \/ ReconcileNext
<1>1. CASE CallbackNext
  BY <1>1 DEF CallbackNext, PeekSession, ConsumeWithdrawSession, ReadCard,
     ClaimAndDeductWithdrawal, ClaimRefused, BeginWithdrawalSend, WalletLookupFails, PayLnInvoice,
     PayAnswered, RestoreRejected, FinalizeWithdrawal, Crash
<1>. QED
  BY <1>1 DEF vars, Next, TapNext, TapRead, StartWithdrawSession, SessionExpires,
     BlinkNext, BlinkExecutes, OwnerNext, GracePasses,
     SetStatus, DisableCard, EnableCard, WipeCard, DeleteWipedCard, TopUpCard,
     AdvanceCounter

-------------------------------------------------------------------------------
(* Sessions: a session is opened only by raising its card's counter to its  *)
(* own, so two sessions of a card never have the same counter.              *)

(* Sessions keep their own counters. *)
LEMMA SessionsStep ==
  ASSUME TypeOK, SessionsInv, RequestsInv, [Next]_vars
  PROVE  SessionsInv'
<1>1. ASSUME NEW k \in Taps, NEW c \in Cards, NEW n \in 1..MaxCounter,
             NEW m \in Offers, TapRead(k, c, n, m)
      PROVE  SessionsInv'
  BY <1>1 DEF TypeOK, SessionsInv, Opened, TapRead, cardVars, TapRecords
<1>2. ASSUME NEW k \in Taps, StartWithdrawSession(k)
      PROVE  SessionsInv'
  <2>1. /\ \A l \in Taps : tap'[l].card = tap[l].card
        /\ \A l \in Taps : tap'[l].ctr = tap[l].ctr
        /\ \A l \in Taps : l # k => tap'[l].st = tap[l].st
    BY <1>2 DEF TypeOK, StartWithdrawSession, TapRecords
  <2>2. /\ tap[k].st = "read" /\ tap'[k].st # "none" /\ tap[k].card \in Cards
        /\ \A l \in Taps : tap[l].ctr \in Nat
    BY <1>2 DEF TypeOK, SessionsInv, StartWithdrawSession, TapRecords
  <2>3. \A l \in Taps : tap'[l].st # "none" => tap'[l].card \in Cards
    BY <2>1, <2>2 DEF SessionsInv
  <2>4. CASE SessionAllowed(k)
    <3>1. /\ counter[tap[k].card] < tap[k].ctr
          /\ counter' = [counter EXCEPT ![tap[k].card] = tap[k].ctr]
      BY <1>2, <2>4 DEF StartWithdrawSession, SessionAllowed
    <3>2. \A l \in Taps : Opened(l)' => tap'[l].ctr <= counter'[tap'[l].card]
      BY <2>1, <2>2, <3>1 DEF TypeOK, SessionsInv, Opened
    <3>3. \A l \in Taps : l # k /\ Opened(l) /\ tap[l].card = tap[k].card =>
            tap[l].ctr < tap[k].ctr
      BY <2>2, <3>1 DEF TypeOK, SessionsInv
    <3>. QED
      BY <2>1, <2>2, <2>3, <3>2, <3>3 DEF SessionsInv, Opened
  <2>5. CASE ~SessionAllowed(k)
    <3>1. counter' = counter /\ ~Opened(k)'
      BY <1>2, <2>5 DEF TypeOK, StartWithdrawSession, Opened, TapRecords
    <3>. QED
      BY <2>1, <2>3, <3>1 DEF SessionsInv, Opened
  <2>. QED
    BY <2>4, <2>5
<1>3. ASSUME NEW k \in Taps, SessionExpires(k)
      PROVE  SessionsInv'
  BY <1>3 DEF TypeOK, SessionsInv, Opened, SessionExpires, cardVars, TapRecords
<1>4. ASSUME NEW q \in Requests, ConsumeWithdrawSession(q)
      PROVE  SessionsInv'
  <2>1. /\ counter' = counter
        /\ \A l \in Taps : tap'[l].card = tap[l].card
        /\ \A l \in Taps : tap'[l].ctr = tap[l].ctr
        /\ \A l \in Taps : tap'[l].st # "none" => tap[l].st # "none"
        /\ \A l \in Taps : Opened(l)' => Opened(l)
    <3>1. CASE tap' = tap
      BY <1>4, <3>1 DEF Opened, ConsumeWithdrawSession, cardVars
    <3>2. CASE tap[req[q].tap].st = "open" /\ tap' = [tap EXCEPT ![req[q].tap].st = "used"]
      BY <1>4, <3>2 DEF TypeOK, Opened, ConsumeWithdrawSession, cardVars, TapRecords
    <3>. QED
      BY <1>4, <3>1, <3>2 DEF ConsumeWithdrawSession
  <2>. QED
    BY <2>1 DEF SessionsInv
<1>5. ASSUME NEW c \in Cards, DeleteWipedCard(c)
      PROVE  SessionsInv'
  BY <1>5 DEF TypeOK, SessionsInv, Opened, DeleteWipedCard, TapRecords
<1>6. ASSUME NEW c \in Cards, NEW n \in 1..MaxCounter, AdvanceCounter(c, n)
      PROVE  SessionsInv'
  <2>1. /\ tap' = tap
        /\ \A d \in Cards : counter[d] <= counter'[d]
        /\ \A d \in Cards : counter[d] \in Nat /\ counter'[d] \in Nat
        /\ \A l \in Taps : tap[l].ctr \in Nat
    BY <1>6 DEF TypeOK, AdvanceCounter, TapRecords
  <2>2. \A l \in Taps : Opened(l) => tap[l].card \in Cards
    BY DEF SessionsInv, Opened
  <2>. QED
    BY <2>1, <2>2 DEF SessionsInv, Opened
<1>7. CASE tap' = tap /\ counter' = counter
  BY <1>7 DEF SessionsInv, Opened
<1>. QED
  BY <1>1, <1>2, <1>3, <1>4, <1>5, <1>6, <1>7, SessionWriters DEF TapNext

(* A consumed session belongs to one request, a deduction to a consumed hash. *)
LEMMA RequestsStep ==
  ASSUME TypeOK, RequestsInv, [Next]_vars
  PROVE  RequestsInv'
<1>. USE DEF BeforeConsume, BeforeClaim, Deducted
<1>1. CASE TapNext
  <2>1. req' = req /\ consumed' = consumed
    BY <1>1 DEF TapNext, TapRead, StartWithdrawSession, SessionExpires, rowVars
  <2>2. /\ \A k \in Taps : tap[k].st # "none" => tap'[k].st # "none"
        /\ \A k \in Taps : tap[k].st = "used" => tap'[k].st = "used"
    BY <1>1 DEF TypeOK, TapNext, TapRead, StartWithdrawSession, SessionExpires, TapRecords
  <2>. QED
    BY <2>1, <2>2 DEF RequestsInv
<1>2. ASSUME NEW c \in Cards, DeleteWipedCard(c)
      PROVE  RequestsInv'
  BY <1>2 DEF TypeOK, RequestsInv, DeleteWipedCard, TapRecords, RequestRecords
<1>3. ASSUME NEW q \in Requests, NEW k \in Taps, NEW h \in Hashes, PeekSession(q, k, h)
      PROVE  RequestsInv'
  BY <1>3 DEF TypeOK, RequestsInv, PeekSession, rowVars, RequestRecords
<1>4. ASSUME NEW q \in Requests, ConsumeWithdrawSession(q)
      PROVE  RequestsInv'
  <2>. DEFINE k == req[q].tap
  <2>1. /\ k \in Taps /\ req[q].pc = "peeked" /\ consumed' = consumed
        /\ \A p \in Requests : req'[p].tap = req[p].tap
        /\ \A p \in Requests : req'[p].hash = req[p].hash
        /\ \A p \in Requests : p # q => req'[p].pc = req[p].pc
    <3>1. k \in Taps /\ req[q].pc = "peeked" /\ consumed' = consumed
      BY <1>4 DEF RequestsInv, ConsumeWithdrawSession, rowVars
    <3>2. \E next : Goto(q, next)
      BY <1>4 DEF ConsumeWithdrawSession
    <3>. QED
      BY <3>1, <3>2, GotoEffect DEF TypeOK
  <2>2. CASE tap[k].st = "open"
    <3>1. /\ req'[q].pc = "consumed" /\ tap'[k].st = "used"
          /\ \A l \in Taps : l # k => tap'[l].st = tap[l].st
      BY <1>4, <2>1, <2>2 DEF TypeOK, ConsumeWithdrawSession, Goto, TapRecords, RequestRecords
    <3>2. \A p \in Requests : p # q /\ req[p].pc \notin BeforeConsume => req[p].tap # k
      BY <2>2 DEF RequestsInv
    <3>. QED
      BY <2>1, <3>1, <3>2 DEF RequestsInv
  <2>3. CASE tap[k].st # "open"
    <3>1. req'[q].pc = "refused" /\ tap' = tap
      BY <1>4, <2>3 DEF TypeOK, ConsumeWithdrawSession, Goto, RequestRecords
    <3>. QED
      BY <2>1, <3>1 DEF RequestsInv
  <2>. QED
    BY <2>2, <2>3
<1>5. ASSUME NEW q \in Requests, ClaimAndDeductWithdrawal(q)
      PROVE  RequestsInv'
  BY <1>5 DEF TypeOK, RequestsInv, ClaimAndDeductWithdrawal, Goto, RequestRecords
<1>6. ASSUME NEW q \in Requests,
             \/ ReadCard(q) \/ ClaimRefused(q) \/ BeginWithdrawalSend(q)
             \/ WalletLookupFails(q) \/ PayLnInvoice(q) \/ PayAnswered(q)
             \/ RestoreRejected(q) \/ FinalizeWithdrawal(q) \/ Crash(q)
      PROVE  RequestsInv'
  <2>1. tap' = tap /\ consumed' = consumed
    BY <1>6 DEF ReadCard, ClaimRefused, BeginWithdrawalSend, WalletLookupFails, PayLnInvoice,
       PayAnswered, RestoreRejected, FinalizeWithdrawal, Crash, rowVars
  <2>2. /\ \A p \in Requests : req'[p].tap = req[p].tap
        /\ \A p \in Requests : req'[p].hash = req[p].hash
        /\ \A p \in Requests : p # q => req'[p].pc = req[p].pc
        /\ req[q].pc # "idle"
        /\ req'[q].pc \notin BeforeConsume => req[q].pc \notin BeforeConsume
        /\ req'[q].pc \in Deducted => req[q].pc \in Deducted
    <3>1. \E next : Goto(q, next)
      BY <1>6 DEF ReadCard, ClaimRefused, BeginWithdrawalSend, WalletLookupFails, PayLnInvoice,
         PayAnswered, RestoreRejected, FinalizeWithdrawal, Crash
    <3>2. \A next : Goto(q, next) => req'[q].pc = next
      BY GotoEffect DEF TypeOK
    <3>3. /\ req[q].pc # "idle"
          /\ req'[q].pc \notin BeforeConsume => req[q].pc \notin BeforeConsume
          /\ req'[q].pc \in Deducted => req[q].pc \in Deducted
      <4>1. CASE Crash(q)
        BY <3>2, <4>1 DEF Crash, Finished, TypeOK, RequestRecords
      <4>2. CASE PayAnswered(q)
        BY <3>2, <4>2 DEF PayAnswered, Verdict
      <4>3. CASE ReadCard(q) \/ ClaimRefused(q) \/ BeginWithdrawalSend(q)
        BY <3>2, <4>3 DEF ReadCard, ClaimRefused, BeginWithdrawalSend
      <4>4. CASE \/ WalletLookupFails(q) \/ PayLnInvoice(q)
                 \/ RestoreRejected(q) \/ FinalizeWithdrawal(q)
        BY <3>2, <4>4 DEF WalletLookupFails, PayLnInvoice, RestoreRejected, FinalizeWithdrawal
      <4>. QED
        BY <1>6, <4>1, <4>2, <4>3, <4>4
    <3>. QED
      BY <3>1, <3>3, GotoEffect DEF TypeOK
  <2>. QED
    BY <2>1, <2>2 DEF RequestsInv
<1>7. CASE UNCHANGED <<tap, req, consumed>>
  BY <1>7 DEF RequestsInv
<1>8. CASE CallbackNext
  BY <1>3, <1>4, <1>5, <1>6, <1>8 DEF CallbackNext
<1>9. ASSUME NEW c \in Cards, NEW n \in 1..MaxCounter, AdvanceCounter(c, n)
      PROVE  UNCHANGED <<tap, req, consumed>>
  BY <1>9 DEF AdvanceCounter, rowVars
<1>. QED
  BY <1>1, <1>2, <1>7, <1>8, <1>9, SessionWriters, RequestWriters DEF CallbackNext

-------------------------------------------------------------------------------
(* The rows and what Blink did with their payments. *)

(* The claim is the only way to a deduction, and needs a fresh hash. *)
LEMMA HashDebitsOnceStep ==
  ASSUME TypeOK, RequestsInv, HashDebitsOnce, [Next]_vars
  PROVE  HashDebitsOnce'
<1>1. ASSUME NEW q \in Requests, ClaimAndDeductWithdrawal(q)
      PROVE  HashDebitsOnce'
  <2>1. /\ req[q].hash \notin consumed
        /\ \A p \in Requests : req'[p].hash = req[p].hash
        /\ \A p \in Requests : p # q => req'[p].pc = req[p].pc
    BY <1>1, GotoEffect DEF TypeOK, ClaimAndDeductWithdrawal, HashFree
  <2>. QED
    BY <2>1 DEF HashDebitsOnce, RequestsInv
<1>2. CASE /\ \A p \in Requests : req'[p].pc \in Deducted => req[p].pc \in Deducted
           /\ \A p \in Requests : req'[p].pc \in Deducted => req'[p].hash = req[p].hash
  BY <1>2 DEF HashDebitsOnce
<1>3. CASE UNCHANGED req
  BY <1>3 DEF HashDebitsOnce
<1>4. ASSUME NEW q \in Requests, NEW k \in Taps, NEW h \in Hashes, PeekSession(q, k, h)
      PROVE  HashDebitsOnce'
  <2>1. /\ req'[q].pc = "peeked"
        /\ \A p \in Requests : p # q => req'[p] = req[p]
    BY <1>4 DEF TypeOK, PeekSession
  <2>. QED
    BY <1>2, <2>1 DEF Deducted
<1>5. ASSUME NEW q \in Requests, NEW next, Goto(q, next), next \in Deducted => req[q].pc \in Deducted
      PROVE  HashDebitsOnce'
  BY <1>2, <1>5, GotoEffect DEF TypeOK
<1>6. CASE CallbackNext
  <2>. USE DEF Deducted, BeforeClaim, BeforeConsume
  <2>1. ASSUME NEW q \in Requests, ConsumeWithdrawSession(q) \/ ReadCard(q) \/ ClaimRefused(q)
        PROVE  HashDebitsOnce'
    BY <1>5, <2>1 DEF ConsumeWithdrawSession, ReadCard, ClaimRefused
  <2>2. ASSUME NEW q \in Requests,
               \/ BeginWithdrawalSend(q) \/ WalletLookupFails(q) \/ PayLnInvoice(q)
               \/ RestoreRejected(q) \/ FinalizeWithdrawal(q)
        PROVE  HashDebitsOnce'
    BY <1>5, <2>2 DEF BeginWithdrawalSend, WalletLookupFails, PayLnInvoice, RestoreRejected,
                      FinalizeWithdrawal
  <2>3. ASSUME NEW q \in Requests, PayAnswered(q)
        PROVE  HashDebitsOnce'
    BY <1>5, <2>3 DEF PayAnswered
  <2>4. ASSUME NEW q \in Requests, Crash(q)
        PROVE  HashDebitsOnce'
    <3>1. CASE req[q].pc \in Deducted
      BY <1>5, <2>4, <3>1 DEF Crash
    <3>2. CASE req[q].pc \in BeforeConsume \cup BeforeClaim
      BY <1>5, <2>4, <3>2 DEF Crash
    <3>. QED
      BY <3>1, <3>2 DEF TypeOK, RequestRecords
  <2>. QED
    BY <1>1, <1>4, <1>6, <2>1, <2>2, <2>3, <2>4 DEF CallbackNext
<1>. QED
  BY <1>3, <1>6, RequestWriters

(* What a step other than the claim may do to the rows. *)
NoRowAppears == \A h \in Hashes : row[h] = NoRow => row'[h] = NoRow

NoRowGoesBackToClaimed ==
    \A h \in Hashes : row'[h].kind = "CLAIMED" => row[h].kind = "CLAIMED"

ResolvedRowsStay ==
    \A h \in Hashes : row[h].outcome \in {"SUCCESS", "FAILED"} =>
        row'[h] = NoRow \/ (row'[h].outcome = row[h].outcome /\ row'[h].kind = row[h].kind)

SuccessIsSettled ==
    \A h \in Hashes : row'[h].outcome = "SUCCESS" =>
        row[h].outcome = "SUCCESS" \/ blink[h] = "settled"

RestoredWasOpen ==
    \A h \in restored' \ restored :
        /\ h \in Hashes /\ row[h].outcome = "OPEN" /\ row'[h].outcome = "FAILED"
        /\ blink[h] \in {"none", "rejected", "failed"}

RowsAdvance ==
    /\ NoRowAppears
    /\ NoRowGoesBackToClaimed
    /\ ResolvedRowsStay
    /\ SuccessIsSettled
    /\ restored \subseteq restored'
    /\ RestoredWasOpen

(* A step that leaves the rows alone obeys RowsAdvance. *)
LEMMA RowsIdle ==
  ASSUME row' = row, restored' = restored
  PROVE  RowsAdvance
BY DEF RowsAdvance, NoRowAppears, NoRowGoesBackToClaimed, ResolvedRowsStay, SuccessIsSettled,
       RestoredWasOpen

(* One open row is rewritten. *)
LEMMA OpenRowRewritten ==
  ASSUME TypeOK, NEW h \in Hashes, Unresolved(h),
         \A g \in Hashes : g # h => row'[g] = row[g],
         row'[h].kind = "CLAIMED" => row[h].kind = "CLAIMED",
         row'[h].outcome = "SUCCESS" => blink[h] = "settled",
         \/ restored' = restored
         \/ /\ restored' = restored \cup {h} /\ row'[h].outcome = "FAILED"
            /\ blink[h] \in {"none", "rejected", "failed"}
  PROVE  RowsAdvance
<1>1. row[h] # NoRow /\ row[h].outcome = "OPEN"
  BY DEF Unresolved, NoRow
<1>2. NoRowAppears
  BY <1>1 DEF NoRowAppears
<1>3. NoRowGoesBackToClaimed
  BY DEF NoRowGoesBackToClaimed
<1>4. ResolvedRowsStay
  BY <1>1 DEF ResolvedRowsStay
<1>5. SuccessIsSettled
  BY DEF SuccessIsSettled
<1>6. RestoredWasOpen /\ restored \subseteq restored'
  BY <1>1 DEF RestoredWasOpen
<1>. QED
  BY <1>2, <1>3, <1>4, <1>5, <1>6 DEF RowsAdvance

(* The restore of an open row whose payment did not go out. *)
LEMMA RestoreAdvances ==
  ASSUME TypeOK, NEW h \in Hashes, Unresolved(h), Restore(h),
         blink[h] \in {"none", "rejected", "failed"}
  PROVE  RowsAdvance
<1>1. row[h] \in ClaimRows
  BY OpenRowTyped
<1>2. /\ row'[h].kind = row[h].kind
      /\ row'[h].outcome = "FAILED"
  BY <1>1 DEF TypeOK, Restore, ClaimRows
<1>3. /\ \A g \in Hashes : g # h => row'[g] = row[g]
      /\ restored' = restored \cup {h}
  BY DEF TypeOK, Restore
<1>. QED
  BY <1>2, <1>3, OpenRowRewritten

(* Every step but the claim obeys RowsAdvance. *)
LEMMA RowsAdvanceStep ==
  ASSUME TypeOK, RequestsInv, RowsInv, SendingInv, PassesInv, [Next]_vars,
         \A q \in Requests : ~ClaimAndDeductWithdrawal(q)
  PROVE  RowsAdvance
<1>1. ASSUME NEW q \in Requests, BeginWithdrawalSend(q)
      PROVE  RowsAdvance
  <2>. DEFINE h == req[q].hash
  <2>1. CASE StillClaimed(h)
    <3>1. h \in Hashes /\ Unresolved(h) /\ restored' = restored
      BY <1>1, <2>1 DEF BeginWithdrawalSend, RequestsInv, StillClaimed
    <3>2. row[h] \in ClaimRows
      BY <3>1, OpenRowTyped
    <3>3. row' = [row EXCEPT ![h].kind = "UNKNOWN"]
      BY <1>1, <2>1 DEF BeginWithdrawalSend
    <3>4. row'[h].kind = "UNKNOWN" /\ row'[h].outcome = "OPEN"
      BY <3>1, <3>2, <3>3 DEF TypeOK, ClaimRows, Unresolved
    <3>5. \A g \in Hashes : g # h => row'[g] = row[g]
      BY <3>3 DEF TypeOK
    <3>. QED
      BY <3>1, <3>4, <3>5, OpenRowRewritten
  <2>2. CASE ~StillClaimed(h)
    BY <1>1, <2>2, RowsIdle DEF BeginWithdrawalSend
  <2>. QED
    BY <2>1, <2>2
<1>2. ASSUME NEW q \in Requests, RestoreRejected(q)
      PROVE  RowsAdvance
  <2>. DEFINE h == req[q].hash
  <2>1. h \in Hashes /\ blink[h] \in {"none", "rejected", "failed"}
    BY <1>2 DEF RestoreRejected, RequestsInv, SendingInv
  <2>2. CASE Unresolved(h)
    BY <1>2, <2>1, <2>2, RestoreAdvances DEF RestoreRejected
  <2>3. CASE ~Unresolved(h)
    BY <1>2, <2>3, RowsIdle DEF RestoreRejected
  <2>. QED
    BY <2>2, <2>3
<1>3. ASSUME NEW q \in Requests, FinalizeWithdrawal(q)
      PROVE  RowsAdvance
  <2>. DEFINE h == req[q].hash
              newKind == FinalKind(req[q].pc)
  <2>1. h \in Hashes /\ newKind # "CLAIMED" /\ (newKind = "SUCCESS" => blink[h] = "settled")
    BY <1>3 DEF FinalizeWithdrawal, RequestsInv, SendingInv, FinalKind
  <2>2. CASE Unresolved(h)
    <3>1. row[h] \in ClaimRows
      BY <2>1, <2>2, OpenRowTyped
    <3>2. row' = [row EXCEPT ![h].kind = newKind,
                    ![h].outcome = IF newKind = "SUCCESS" THEN "SUCCESS" ELSE "OPEN"]
      BY <1>3, <2>2 DEF FinalizeWithdrawal
    <3>3. /\ row'[h].kind = newKind
          /\ row'[h].outcome = IF newKind = "SUCCESS" THEN "SUCCESS" ELSE "OPEN"
      BY <2>1, <3>1, <3>2 DEF TypeOK, ClaimRows
    <3>4. (\A g \in Hashes : g # h => row'[g] = row[g]) /\ restored' = restored
      BY <1>3, <3>2 DEF TypeOK, FinalizeWithdrawal
    <3>. QED
      BY <2>1, <2>2, <3>3, <3>4, OpenRowRewritten
  <2>3. CASE ~Unresolved(h)
    BY <1>3, <2>3, RowsIdle DEF FinalizeWithdrawal
  <2>. QED
    BY <2>2, <2>3
<1>4. ASSUME NEW r \in Passes, CloseRow(r)
      PROVE  RowsAdvance
  <2>. DEFINE h == pass[r].hash
  <2>1. CASE Unresolved(h)
    <3>1. h \in Hashes
      BY <1>4 DEF CloseRow, PassesInv
    <3>2. row[h] \in ClaimRows
      BY <2>1, <3>1, OpenRowTyped
    <3>3. row' = [row EXCEPT ![h].outcome = "FAILED"]
      BY <1>4, <2>1 DEF CloseRow
    <3>4. row'[h].kind = row[h].kind /\ row'[h].outcome = "FAILED"
      BY <3>1, <3>2, <3>3 DEF TypeOK, ClaimRows
    <3>5. (\A g \in Hashes : g # h => row'[g] = row[g]) /\ restored' = restored
      BY <1>4, <3>3 DEF TypeOK, CloseRow
    <3>. QED
      BY <2>1, <3>1, <3>4, <3>5, OpenRowRewritten
  <2>2. CASE ~Unresolved(h)
    BY <1>4, <2>2, RowsIdle DEF CloseRow
  <2>. QED
    BY <2>1, <2>2
<1>5. ASSUME NEW r \in Passes, PassWrites(r)
      PROVE  RowsAdvance
  <2>. DEFINE h == pass[r].hash
              giveBack == \/ pass[r].seen = "EXPIRED" /\ Unresolved(h)
                          \/ pass[r].seen = "UNSEEN" /\ pass[r].kind = "CLAIMED" /\ Abandoned(h)
              paid == pass[r].seen = "PAID" /\ Unresolved(h)
  <2>1. h \in Hashes
    BY <1>5 DEF PassWrites, PassesInv
  <2>2. CASE giveBack
    <3>1. Unresolved(h) /\ Restore(h)
      BY <1>5, <2>2 DEF PassWrites, Abandoned
    <3>2. blink[h] \in {"none", "rejected", "failed"}
      BY <2>1, <2>2 DEF PassesInv, RowsInv, Abandoned
    <3>. QED
      BY <2>1, <3>1, <3>2, RestoreAdvances
  <2>3. CASE ~giveBack /\ paid
    <3>1. row[h] \in ClaimRows
      BY <2>1, <2>3, OpenRowTyped
    <3>2. row' = [row EXCEPT ![h].outcome = "SUCCESS"] /\ restored' = restored
      BY <1>5, <2>3 DEF PassWrites
    <3>3. row'[h].kind = row[h].kind /\ row'[h].outcome = "SUCCESS"
      BY <2>1, <3>1, <3>2 DEF TypeOK, ClaimRows
    <3>4. \A g \in Hashes : g # h => row'[g] = row[g]
      BY <3>2 DEF TypeOK
    <3>5. blink[h] = "settled"
      BY <2>3 DEF PassesInv
    <3>. QED
      BY <2>1, <2>3, <3>2, <3>3, <3>4, <3>5, OpenRowRewritten
  <2>4. CASE ~giveBack /\ ~paid
    BY <1>5, <2>4, RowsIdle DEF PassWrites
  <2>. QED
    BY <2>2, <2>3, <2>4
<1>6. ASSUME NEW c \in Cards, DeleteWipedCard(c)
      PROVE  RowsAdvance
  <2>1. \A h \in Hashes : row'[h] = NoRow \/ row'[h] = row[h]
    BY <1>6 DEF DeleteWipedCard
  <2>2. restored' = restored
    BY <1>6 DEF DeleteWipedCard
  <2>3. NoRow.kind # "CLAIMED" /\ NoRow.outcome # "SUCCESS"
    BY DEF NoRow
  <2>. QED
    BY <2>1, <2>2, <2>3 DEF RowsAdvance, NoRowAppears, NoRowGoesBackToClaimed, ResolvedRowsStay,
                            SuccessIsSettled, RestoredWasOpen
<1>7. ASSUME NEW h \in Hashes, GracePasses(h)
      PROVE  RowsAdvance
  <2>1. row[h] \in ClaimRows /\ Unresolved(h)
    BY <1>7, OpenRowTyped DEF GracePasses
  <2>2. row' = [row EXCEPT ![h].aged = TRUE] /\ restored' = restored
    BY <1>7 DEF GracePasses
  <2>3. row'[h].kind = row[h].kind /\ row'[h].outcome = "OPEN"
    BY <2>1, <2>2 DEF TypeOK, ClaimRows, Unresolved
  <2>4. \A g \in Hashes : g # h => row'[g] = row[g]
    BY <2>2 DEF TypeOK
  <2>. QED
    BY <2>1, <2>2, <2>3, <2>4, OpenRowRewritten
<1>. QED
  BY <1>1, <1>2, <1>3, <1>4, <1>5, <1>6, <1>7, RowsIdle, RowWriters

(* What the claim does: a row appears for a hash nobody has claimed.  *)
LEMMA ClaimEffect ==
  ASSUME TypeOK, RequestsInv, RowsInv, NEW q \in Requests, ClaimAndDeductWithdrawal(q)
  PROVE  /\ req[q].hash \in Hashes /\ req[q].hash \notin consumed
         /\ blink[req[q].hash] = "none" /\ req[q].hash \notin restored
         /\ consumed' = consumed \cup {req[q].hash}
         /\ blink' = blink /\ restored' = restored /\ pass' = pass
         /\ row'[req[q].hash].outcome = "OPEN"
         /\ \A g \in Hashes : g # req[q].hash => row'[g] = row[g]
<1>1. /\ req[q].hash \in Hashes /\ req[q].hash \notin consumed
      /\ blink[req[q].hash] = "none" /\ req[q].hash \notin restored
  BY DEF TypeOK, RequestsInv, RowsInv, ClaimAndDeductWithdrawal, HashFree
<1>. QED
  BY <1>1 DEF TypeOK, ClaimAndDeductWithdrawal

(* How blink moves. *)
LEMMA BlinkMoves ==
  ASSUME TypeOK, RequestsInv, SendingInv, [Next]_vars
  PROVE  /\ \A h \in Hashes : blink'[h] # "none" =>
               blink[h] # "none" \/ \E q \in Requests : PayLnInvoice(q) /\ h = req[q].hash
         /\ \A h \in Hashes : blink[h] \in {"rejected", "settled", "failed"} => blink'[h] = blink[h]
         /\ \A h \in Hashes : blink[h] = "none" => blink'[h] \in {"none", "wire"}
<1>1. ASSUME NEW q \in Requests, PayLnInvoice(q)
      PROVE  /\ blink[req[q].hash] = "none"
             /\ blink' = [blink EXCEPT ![req[q].hash] = "wire"]
  BY <1>1 DEF SendingInv, PayLnInvoice
<1>2. CASE \E q \in Requests : PayLnInvoice(q)
  BY <1>1, <1>2 DEF TypeOK
<1>3. CASE BlinkNext
  BY <1>3 DEF TypeOK, BlinkNext, BlinkExecutes
<1>4. CASE blink' = blink
  BY <1>4
<1>. QED
  BY <1>2, <1>3, <1>4, BlinkWriters

(* Rows, consumed hashes, restores and payments agree after any step. *)
LEMMA RowsStep ==
  ASSUME TypeOK, RequestsInv, RowsInv, SendingInv, PassesInv, [Next]_vars
  PROVE  RowsInv'
<1>1. ASSUME NEW q \in Requests, ClaimAndDeductWithdrawal(q)
      PROVE  RowsInv'
  <2>. DEFINE c == req[q].hash
  <2>1. /\ c \in Hashes /\ c \notin consumed /\ consumed' = consumed \cup {c}
        /\ blink[c] = "none" /\ blink' = blink
        /\ c \notin restored /\ restored' = restored
        /\ \A g \in Hashes : g # c => row'[g] = row[g]
    BY <1>1, ClaimEffect
  <2>2. \A h \in Hashes : row'[h] # NoRow => h \in consumed'
    BY <2>1 DEF RowsInv
  <2>3. \A h \in Hashes : row'[h].kind = "CLAIMED" => blink'[h] = "none"
    BY <2>1 DEF RowsInv
  <2>4. \A h \in Hashes : blink'[h] # "none" => h \in consumed'
    BY <2>1 DEF RowsInv
  <2>5. \A h \in restored' : row'[h] = NoRow \/ row'[h].outcome = "FAILED"
    BY <2>1 DEF RowsInv, TypeOK
  <2>. QED
    BY <2>1, <2>2, <2>3, <2>4, <2>5 DEF RowsInv
<1>2. CASE \A q \in Requests : ~ClaimAndDeductWithdrawal(q)
  <2>1. RowsAdvance
    BY <1>2, RowsAdvanceStep
  <2>2. consumed' = consumed
    <3>1. CASE CallbackNext
      BY <1>2, <3>1 DEF CallbackNext, rowVars, PeekSession, ConsumeWithdrawSession, ReadCard,
         ClaimRefused, BeginWithdrawalSend, WalletLookupFails, PayLnInvoice, PayAnswered,
         RestoreRejected, FinalizeWithdrawal, Crash
    <3>. QED
      BY <3>1, RequestWriters
  <2>3. \A h \in Hashes : row'[h] # NoRow => h \in consumed'
    BY <2>1, <2>2 DEF RowsAdvance, NoRowAppears, RowsInv
  <2>4. \A h \in Hashes : blink'[h] # "none" => h \in consumed'
    BY <2>2, BlinkMoves DEF RowsInv, RequestsInv, PayLnInvoice, Deducted
  <2>5. \A h \in Hashes : row'[h].kind = "CLAIMED" => blink'[h] = "none"
    <3>1. \A h \in Hashes : row'[h].kind = "CLAIMED" => row[h].kind = "CLAIMED"
      BY <2>1 DEF RowsAdvance, NoRowGoesBackToClaimed
    <3>2. \A q \in Requests : PayLnInvoice(q) => row[req[q].hash].kind # "CLAIMED"
      BY DEF SendingInv, Sending, PayLnInvoice
    <3>. QED
      BY <3>1, <3>2, BlinkMoves DEF RowsInv
  <2>6. restored' \subseteq consumed'
    <3>1. \A h \in restored' \ restored : h \in Hashes /\ row[h] # NoRow
      BY <2>1 DEF RowsAdvance, RestoredWasOpen, NoRow
    <3>. QED
      BY <2>2, <3>1 DEF RowsInv
  <2>7. \A h \in restored' : row'[h] = NoRow \/ row'[h].outcome = "FAILED"
    <3>1. ASSUME NEW h \in restored
          PROVE  row'[h] = NoRow \/ row'[h].outcome = "FAILED"
      BY <2>1, <3>1 DEF RowsAdvance, NoRowAppears, ResolvedRowsStay, RowsInv, TypeOK
    <3>2. ASSUME NEW h \in restored' \ restored
          PROVE  row'[h].outcome = "FAILED"
      BY <2>1, <3>2 DEF RowsAdvance, RestoredWasOpen
    <3>. QED
      BY <3>1, <3>2
  <2>. QED
    BY <2>3, <2>4, <2>5, <2>6, <2>7 DEF RowsInv
<1>. QED
  BY <1>1, <1>2

(* A row becomes SUCCESS only when its payment has settled. *)
LEMMA SuccessMeansSettledStep ==
  ASSUME TypeOK, RequestsInv, RowsInv, SendingInv, PassesInv, SuccessMeansSettled, [Next]_vars
  PROVE  SuccessMeansSettled'
<1>1. ASSUME NEW q \in Requests, ClaimAndDeductWithdrawal(q)
      PROVE  SuccessMeansSettled'
  BY <1>1, ClaimEffect DEF SuccessMeansSettled
<1>2. CASE \A q \in Requests : ~ClaimAndDeductWithdrawal(q)
  BY <1>2, RowsAdvanceStep, BlinkMoves DEF SuccessMeansSettled, RowsAdvance, SuccessIsSettled
<1>. QED
  BY <1>1, <1>2

(* The step that could pay what was given back is PayLnInvoice: its request *)
(* is at "begun", where SendingInv says the hash is not restored.           *)
LEMMA NeverPaidAndRestoredStep ==
  ASSUME TypeOK, RequestsInv, RowsInv, SendingInv, PassesInv, NeverPaidAndRestored, [Next]_vars
  PROVE  NeverPaidAndRestored'
<1>1. ASSUME NEW q \in Requests, ClaimAndDeductWithdrawal(q)
      PROVE  NeverPaidAndRestored'
  BY <1>1, ClaimEffect DEF NeverPaidAndRestored
<1>2. CASE \A q \in Requests : ~ClaimAndDeductWithdrawal(q)
  <2>1. RowsAdvance
    BY <1>2, RowsAdvanceStep
  <2>2. ASSUME NEW h \in restored
        PROVE  blink'[h] \in {"none", "rejected", "failed"}
    <3>1. h \in Hashes /\ blink[h] \in {"none", "rejected", "failed"}
      BY <2>2 DEF TypeOK, NeverPaidAndRestored
    <3>2. \A q \in Requests : PayLnInvoice(q) => h # req[q].hash
      BY <2>2 DEF SendingInv, PayLnInvoice
    <3>. QED
      BY <3>1, <3>2, BlinkMoves
  <2>3. ASSUME NEW h \in restored' \ restored
        PROVE  blink'[h] \in {"none", "rejected", "failed"}
    <3>1. h \in Hashes /\ blink[h] \in {"none", "rejected", "failed"}
      BY <2>1, <2>3 DEF RowsAdvance, RestoredWasOpen
    <3>2. \A q \in Requests : ~PayLnInvoice(q)
      BY <2>3 DEF PayLnInvoice, rowVars
    <3>. QED
      BY <3>1, <3>2, BlinkMoves
  <2>. QED
    BY <2>2, <2>3 DEF NeverPaidAndRestored
<1>. QED
  BY <1>1, <1>2

(* How a request gets to the steps around the payment. *)
Begins(p) == BeginWithdrawalSend(p) /\ StillClaimed(req[p].hash)

SendingMove(p) ==
    LET h == req[p].hash IN
    /\ req'[p].pc \in Deducted => req'[p].hash = h /\ req[p].pc \in Deducted
    /\ req'[p].pc \in Sending => req[p].pc \in Sending \/ Begins(p)
    /\ req'[p].pc = "claimed" => req[p].pc = "claimed"
    /\ req'[p].pc = "begun" => req[p].pc = "begun" \/ Begins(p)
    /\ req'[p].pc = "rejected" =>
          req[p].pc \in {"begun", "rejected"} \/ blink[h] \in {"rejected", "failed"}
    /\ req'[p].pc = "success" => req[p].pc = "success" \/ blink[h] = "settled"
    /\ PayLnInvoice(p) => req'[p].pc = "paying"

(* Every step but the claim moves the requests as SendingMove says. *)
LEMMA SendingMoves ==
  ASSUME TypeOK, [Next]_vars, \A q \in Requests : ~ClaimAndDeductWithdrawal(q)
  PROVE  \A p \in Requests : SendingMove(p)
<1>. USE DEF Deducted, Sending, BeforeConsume, BeforeClaim
<1>1. CASE req' = req
  <2>1. ASSUME NEW p \in Requests, PayLnInvoice(p)
        PROVE  FALSE
    BY <1>1, <2>1, GotoEffect DEF TypeOK, PayLnInvoice
  <2>. QED
    BY <1>1, <2>1 DEF SendingMove
<1>2. ASSUME NEW q \in Requests, NEW k \in Taps, NEW h \in Hashes, PeekSession(q, k, h)
      PROVE  \A p \in Requests : SendingMove(p)
  <2>1. /\ req'[q].pc = "peeked" /\ blink' = blink
        /\ \A p \in Requests : p # q => req'[p] = req[p]
    BY <1>2 DEF TypeOK, PeekSession
  <2>2. ASSUME NEW p \in Requests, PayLnInvoice(p)
        PROVE  req'[p].pc = "paying"
    BY <2>2, GotoEffect DEF TypeOK, PayLnInvoice
  <2>. QED
    BY <2>1, <2>2 DEF SendingMove
<1>3. ASSUME NEW q \in Requests, NEW next, Goto(q, next),
             next \in Deducted => req[q].pc \in Deducted,
             next \in Sending => req[q].pc \in Sending \/ Begins(q),
             next # "claimed",
             next = "begun" => Begins(q),
             next = "rejected" =>
                req[q].pc = "begun" \/ blink[req[q].hash] \in {"rejected", "failed"},
             next = "success" => blink[req[q].hash] = "settled"
      PROVE  \A p \in Requests : SendingMove(p)
  <2>1. /\ req'[q].pc = next
        /\ \A p \in Requests : req'[p].hash = req[p].hash
        /\ \A p \in Requests : p # q => req'[p].pc = req[p].pc
    BY <1>3, GotoEffect DEF TypeOK
  <2>2. ASSUME NEW p \in Requests, PayLnInvoice(p)
        PROVE  req'[p].pc = "paying"
    BY <2>2, GotoEffect DEF TypeOK, PayLnInvoice
  <2>. QED
    BY <1>3, <2>1, <2>2 DEF SendingMove
<1>4. ASSUME NEW q \in Requests, ConsumeWithdrawSession(q) \/ ReadCard(q) \/ ClaimRefused(q)
      PROVE  \A p \in Requests : SendingMove(p)
  BY <1>3, <1>4 DEF ConsumeWithdrawSession, ReadCard, ClaimRefused
<1>5. ASSUME NEW q \in Requests, BeginWithdrawalSend(q)
      PROVE  \A p \in Requests : SendingMove(p)
  BY <1>3, <1>5 DEF BeginWithdrawalSend, Begins
<1>6. ASSUME NEW q \in Requests, WalletLookupFails(q) \/ PayLnInvoice(q)
      PROVE  \A p \in Requests : SendingMove(p)
  BY <1>3, <1>6 DEF WalletLookupFails, PayLnInvoice
<1>7. ASSUME NEW q \in Requests, RestoreRejected(q) \/ FinalizeWithdrawal(q)
      PROVE  \A p \in Requests : SendingMove(p)
  BY <1>3, <1>7 DEF RestoreRejected, FinalizeWithdrawal
<1>8. ASSUME NEW q \in Requests, PayAnswered(q)
      PROVE  \A p \in Requests : SendingMove(p)
  <2>1. req[q].pc = "paying"
    BY <1>8 DEF PayAnswered
  <2>2. CASE Goto(q, "unknown")
    BY <1>3, <2>1, <2>2
  <2>3. CASE Goto(q, Verdict(req[q].hash))
    BY <1>3, <2>1, <2>3 DEF Verdict
  <2>. QED
    BY <1>8, <2>2, <2>3 DEF PayAnswered
<1>9. ASSUME NEW q \in Requests, Crash(q)
      PROVE  \A p \in Requests : SendingMove(p)
  <2>1. CASE req[q].pc \in BeforeConsume
    BY <1>3, <1>9, <2>1 DEF Crash
  <2>2. CASE req[q].pc \in BeforeClaim
    BY <1>3, <1>9, <2>2 DEF Crash
  <2>3. CASE req[q].pc \in Deducted
    BY <1>3, <1>9, <2>3 DEF Crash
  <2>. QED
    BY <2>1, <2>2, <2>3 DEF TypeOK, RequestRecords
<1>10. CASE CallbackNext
  BY <1>2, <1>4, <1>5, <1>6, <1>7, <1>8, <1>9, <1>10 DEF CallbackNext
<1>. QED
  BY <1>1, <1>10, RequestWriters

(* Nobody gives back what a request is about to send: a pass needs the row   *)
(* CLAIMED or the payment failed, and another request has another hash.     *)
LEMMA NoRestoreOnceBegun ==
  ASSUME TypeOK, RequestsInv, RowsInv, SendingInv, PassesInv, HashDebitsOnce, [Next]_vars,
         NEW p \in Requests, req[p].pc = "begun"
  PROVE  req[p].hash \notin restored'
<1>1. /\ req[p].hash \in Hashes /\ req[p].hash \notin restored
      /\ row[req[p].hash].kind # "CLAIMED" /\ blink[req[p].hash] = "none"
  BY DEF RequestsInv, SendingInv, Sending
<1>2. ASSUME NEW q \in Requests, RestoreRejected(q)
      PROVE  req[p].hash \notin restored'
  <2>1. req[q].pc \in Deducted /\ req[p].pc \in Deducted /\ p # q
    BY <1>2 DEF RestoreRejected, Deducted
  <2>2. req[p].hash # req[q].hash
    BY <2>1 DEF HashDebitsOnce
  <2>. QED
    BY <1>1, <1>2, <2>2 DEF RestoreRejected, Restore
<1>3. ASSUME NEW r \in Passes, PassWrites(r)
      PROVE  req[p].hash \notin restored'
  BY <1>1, <1>3 DEF PassesInv, PassWrites, Restore, Abandoned
<1>4. ASSUME NEW q \in Requests, \/ ClaimAndDeductWithdrawal(q) \/ BeginWithdrawalSend(q)
                                \/ FinalizeWithdrawal(q)
      PROVE  req[p].hash \notin restored'
  BY <1>1, <1>4 DEF ClaimAndDeductWithdrawal, BeginWithdrawalSend, FinalizeWithdrawal
<1>5. ASSUME NEW r \in Passes, CloseRow(r)
      PROVE  req[p].hash \notin restored'
  BY <1>1, <1>5 DEF CloseRow
<1>6. CASE (\E c \in Cards : DeleteWipedCard(c)) \/ \E h \in Hashes : GracePasses(h)
  BY <1>1, <1>6 DEF DeleteWipedCard, GracePasses
<1>. QED
  BY <1>1, <1>2, <1>3, <1>4, <1>5, <1>6, RowWriters

(* The handler's step and the state of its payment agree. *)
LEMMA SendingStep ==
  ASSUME TypeOK, RequestsInv, RowsInv, SendingInv, PassesInv, HashDebitsOnce, [Next]_vars
  PROVE  SendingInv'
<1>1. ASSUME NEW q \in Requests, ClaimAndDeductWithdrawal(q)
      PROVE  SendingInv'
  <2>. DEFINE c == req[q].hash
  <2>1. /\ c \in Hashes /\ c \notin consumed /\ blink[c] = "none"
        /\ blink' = blink /\ restored' = restored
        /\ \A g \in Hashes : g # c => row'[g] = row[g]
    BY <1>1, ClaimEffect
  <2>2. /\ req'[q].pc = "claimed" /\ req'[q].hash = c
        /\ \A p \in Requests : req'[p].hash = req[p].hash
        /\ \A p \in Requests : p # q => req'[p].pc = req[p].pc
    BY <1>1, GotoEffect DEF TypeOK, ClaimAndDeductWithdrawal
  <2>3. \A p \in Requests : p # q /\ req[p].pc \in Deducted =>
          req[p].hash \in Hashes /\ req[p].hash # c
    BY <2>1 DEF RequestsInv, Deducted
  <2>. QED
    BY <2>1, <2>2, <2>3 DEF SendingInv, Sending, Deducted
<1>2. CASE \A q \in Requests : ~ClaimAndDeductWithdrawal(q)
  <2>. SUFFICES ASSUME NEW p \in Requests, req'[p].pc \in Deducted
                PROVE  LET h == req[p].hash IN
                       /\ req'[p].hash = h
                       /\ req'[p].pc \in Sending => row'[h].kind # "CLAIMED"
                       /\ req'[p].pc \in {"claimed", "begun"} => blink'[h] = "none"
                       /\ req'[p].pc = "begun" => h \notin restored'
                       /\ req'[p].pc = "rejected" => blink'[h] \in {"none", "rejected", "failed"}
                       /\ req'[p].pc = "success" => blink'[h] = "settled"
    BY DEF SendingInv, Sending, Deducted
  <2>. DEFINE h == req[p].hash
  <2>1. SendingMove(p) /\ req'[p].hash = h /\ req[p].pc \in Deducted /\ h \in Hashes
    BY <1>2, SendingMoves DEF SendingMove, RequestsInv, Deducted
  <2>2. \A q \in Requests : PayLnInvoice(q) /\ req[q].hash = h => q = p
    BY <2>1 DEF HashDebitsOnce, PayLnInvoice, Deducted
  <2>3. PayLnInvoice(p) => req'[p].pc = "paying"
    BY <2>1 DEF SendingMove
  <2>4. req'[p].pc \in Sending => row'[h].kind # "CLAIMED"
    <3>1. CASE req[p].pc \in Sending
      BY <1>2, <2>1, <3>1, RowsAdvanceStep DEF RowsAdvance, NoRowGoesBackToClaimed, SendingInv
    <3>2. CASE Begins(p)
      <4>1. row[h] \in ClaimRows /\ row' = [row EXCEPT ![h].kind = "UNKNOWN"]
        BY <2>1, <3>2, OpenRowTyped DEF Begins, BeginWithdrawalSend, StillClaimed
      <4>. QED
        BY <2>1, <4>1 DEF TypeOK, ClaimRows
    <3>. QED
      BY <2>1, <3>1, <3>2 DEF SendingMove
  <2>5. req'[p].pc \in {"claimed", "begun"} => blink'[h] = "none"
    <3>1. ASSUME req'[p].pc \in {"claimed", "begun"}
          PROVE  blink[h] = "none"
      BY <2>1, <3>1 DEF SendingMove, SendingInv, Begins, BeginWithdrawalSend
    <3>. QED
      BY <2>1, <2>2, <2>3, <3>1, BlinkMoves
  <2>6. req'[p].pc = "begun" => h \notin restored'
    <3>1. CASE req[p].pc = "begun"
      BY <3>1, NoRestoreOnceBegun
    <3>2. CASE Begins(p)
      BY <2>1, <3>2 DEF Begins, BeginWithdrawalSend, StillClaimed, Unresolved, RowsInv, NoRow
    <3>. QED
      BY <2>1, <3>1, <3>2 DEF SendingMove
  <2>7. req'[p].pc = "rejected" => blink'[h] \in {"none", "rejected", "failed"}
    <3>1. ASSUME req'[p].pc = "rejected"
          PROVE  blink[h] \in {"none", "rejected", "failed"}
      BY <2>1, <3>1 DEF SendingMove, SendingInv
    <3>. QED
      BY <2>1, <2>2, <2>3, <3>1, BlinkMoves
  <2>8. req'[p].pc = "success" => blink'[h] = "settled"
    <3>1. ASSUME req'[p].pc = "success"
          PROVE  blink[h] = "settled"
      BY <2>1, <3>1 DEF SendingMove, SendingInv
    <3>. QED
      BY <2>1, <3>1, BlinkMoves
  <2>. QED
    BY <2>1, <2>4, <2>5, <2>6, <2>7, <2>8
<1>. QED
  BY <1>1, <1>2

(* What a pass has read of a decided payment stays true. *)
LEMMA PassesStep ==
  ASSUME TypeOK, RequestsInv, SendingInv, PassesInv, [Next]_vars
  PROVE  PassesInv'
<1>1. CASE pass' = pass
  BY <1>1, BlinkMoves DEF PassesInv, TypeOK, PassRecords
<1>2. ASSUME NEW r \in Passes, NEW h \in Hashes, PickRow(r, h)
      PROVE  PassesInv'
  BY <1>2 DEF TypeOK, PassesInv, PickRow
<1>3. ASSUME NEW r \in Passes, LookUpPayment(r)
      PROVE  PassesInv'
  BY <1>3 DEF TypeOK, PassesInv, LookUpPayment, LookupAnswer, PassRecords
<1>4. ASSUME NEW r \in Passes, \/ PassReadsCard(r) \/ PassReadFails(r) \/ CloseRow(r)
                               \/ PassGivesUp(r) \/ PassWrites(r)
      PROVE  PassesInv'
  BY <1>4 DEF TypeOK, PassesInv, PassReadsCard, PassReadFails, CloseRow, PassGivesUp, PassWrites,
     PassRecords, IdlePass
<1>. QED
  BY <1>1, <1>2, <1>3, <1>4, PassWriters DEF ReconcileNext, ReconcileStep

-------------------------------------------------------------------------------
(* The theorems. *)

(* The initial state satisfies the inductive invariant. *)
LEMMA Initially ==
  ASSUME Init
  PROVE  IInv
<1>1. TypeOK
  BY DEF Init, TypeOK, CardStatuses, TapRecords, TapStates, NoTap, Rows, RequestRecords,
         IdleRequest, BeforeConsume, PassRecords, IdlePass, BlinkStates
<1>2. SessionsInv /\ RequestsInv /\ PassesInv
  BY DEF Init, SessionsInv, Opened, NoTap, RequestsInv, IdleRequest, BeforeConsume, Deducted,
         PassesInv, IdlePass
<1>3. RowsInv /\ SuccessMeansSettled /\ NeverPaidAndRestored
  BY DEF Init, RowsInv, NoRow, SuccessMeansSettled, NeverPaidAndRestored
<1>4. SendingInv /\ HashDebitsOnce
  BY DEF Init, SendingInv, Sending, HashDebitsOnce, Deducted, IdleRequest
<1>. QED
  BY <1>1, <1>2, <1>3, <1>4 DEF IInv

(* Every step preserves the inductive invariant. *)
LEMMA Inductive ==
  ASSUME IInv, [Next]_vars
  PROVE  IInv'
BY TypeStep, SessionsStep, RequestsStep, RowsStep, SendingStep, PassesStep, HashDebitsOnceStep,
   NeverPaidAndRestoredStep, SuccessMeansSettledStep DEF IInv

(* What handlers, rows, sessions and Blink know of one another holds in     *)
(* every reachable state, for any number of cards, taps, callbacks and      *)
(* reconciliation passes.                                                   *)
THEOREM Invariance == Spec => []IInv
<1>1. Init => IInv
  BY Initially
<1>2. IInv /\ [Next]_vars => IInv'
  BY Inductive
<1>. QED
  BY <1>1, <1>2, PTL DEF Spec

(* Every stored value stays in its column's range; in particular a balance  *)
(* is never negative (the conditional UPDATE of claimAndDeductWithdrawal).  *)
THEOREM TypeCorrect == Spec => []TypeOK
<1>1. IInv => TypeOK
  BY DEF IInv
<1>. QED
  BY <1>1, Invariance, PTL

(* A payment that is out, or may still go out, is never given back: the     *)
(* fence of beginWithdrawalSend against the CLAIMED compare-and-set of the  *)
(* reconciliation.                                                          *)
THEOREM PaidIsNeverRestored == Spec => []NeverPaidAndRestored
<1>1. IInv => NeverPaidAndRestored
  BY DEF IInv
<1>. QED
  BY <1>1, Invariance, PTL

(* An invoice debits at most once, on any card, also after a wipe.          *)
THEOREM EachHashDebitsOnce == Spec => []HashDebitsOnce
<1>1. IInv => HashDebitsOnce
  BY DEF IInv
<1>. QED
  BY <1>1, Invariance, PTL

(* A row resolved as SUCCESS stands for a settled payment.                  *)
THEOREM SuccessIsTrue == Spec => []SuccessMeansSettled
<1>1. IInv => SuccessMeansSettled
  BY DEF IInv
<1>. QED
  BY <1>1, Invariance, PTL

(* One tap, one spend: from SessionsInv, where an open session's counter is *)
(* its own, and RequestsInv, where a consumed session has one request.      *)
THEOREM TapsAreNotReplayed == Spec => []EverySpendHasItsOwnTap
<1>1. IInv => EverySpendHasItsOwnTap
  <2>. SUFFICES ASSUME IInv, NEW p \in Requests, NEW q \in Requests, p # q,
                       req[p].pc \notin BeforeConsume, req[q].pc \notin BeforeConsume
                PROVE  /\ req[p].tap # req[q].tap
                       /\ CardOf(p) = CardOf(q) => tap[req[p].tap].ctr # tap[req[q].tap].ctr
    BY DEF EverySpendHasItsOwnTap
  <2>1. /\ req[p].tap \in Taps /\ Opened(req[p].tap)
        /\ req[q].tap \in Taps /\ Opened(req[q].tap)
        /\ req[p].tap # req[q].tap
    BY DEF IInv, RequestsInv, Opened, BeforeConsume
  <2>. QED
    BY <2>1 DEF IInv, SessionsInv, CardOf
<1>. QED
  BY <1>1, Invariance, PTL

(* No step reopens or changes a resolved row.                               *)
THEOREM ResolutionsAreFinal == Spec => ResolutionIsFinal
<1>1. ASSUME IInv, [Next]_vars
      PROVE  [ResolvedRowsStay]_vars
  <2>1. ASSUME NEW q \in Requests, ClaimAndDeductWithdrawal(q)
        PROVE  ResolvedRowsStay
    <3>1. row[req[q].hash] = NoRow
      BY <1>1, <2>1, ClaimEffect DEF IInv, RowsInv
    <3>. QED
      BY <1>1, <2>1, <3>1, ClaimEffect DEF IInv, ResolvedRowsStay, NoRow
  <2>2. CASE \A q \in Requests : ~ClaimAndDeductWithdrawal(q)
    BY <1>1, <2>2, RowsAdvanceStep DEF IInv, RowsAdvance
  <2>. QED
    BY <2>1, <2>2
<1>. QED
  BY <1>1, Invariance, PTL DEF Spec, ResolutionIsFinal, ResolvedRowsStay

-------------------------------------------------------------------------------
(* CardWithdraw implements CardLedger. *)

(* The state of an invoice in the contract. *)
Invoice(h) == IF h \in restored /\ blink[h] = "settled" THEN "paid and returned"
              ELSE IF h \in restored THEN "returned"
              ELSE IF blink[h] = "settled" THEN "paid"
              ELSE IF h \in consumed THEN "held" ELSE "free"

(* A step that keeps balances, invoices and holders stutters in the contract. *)
LEMMA LedgerStutters ==
  ASSUME balance' = balance,
         \A h \in Hashes : Invoice(h)' = Invoice(h),
         \A h \in Hashes : row'[h].card = row[h].card,
         topUps' = topUps
  PROVE  UNCHANGED Promise!ledgerVars
BY DEF Promise!ledgerVars, Invoice

(* A restore is a Return to the card the row names. *)
LEMMA RestoreReturns ==
  ASSUME IInv, NEW h \in Hashes, Unresolved(h), Restore(h),
         UNCHANGED <<blink, consumed, topUps>>, blink[h] # "settled"
  PROVE  \E c \in Cards : Promise!Return(c, h)
<1>1. /\ row[h] \in ClaimRows /\ row[h].card \in Cards
      /\ h \in consumed /\ h \notin restored
  BY OpenRowTyped DEF IInv, RowsInv, Unresolved, ClaimRows, NoRow
<1>2. Invoice(h) = "held" /\ Invoice(h)' = "returned"
  BY <1>1 DEF Invoice, Restore
<1>3. \A g \in Hashes : g # h => Invoice(g)' = Invoice(g)
  BY DEF Invoice, Restore
<1>4. \A g \in Hashes : row'[g].card = row[g].card
  BY <1>1 DEF IInv, TypeOK, Restore, ClaimRows
<1>5. balance' = [balance EXCEPT ![row[h].card] = @ + Amount[h]]
  BY DEF Restore
<1>. QED
  BY <1>1, <1>2, <1>3, <1>4, <1>5 DEF Promise!Return, Invoice

(* Rewriting a row never changes the card it names. *)
LEMMA CardsOfRowsKept ==
  ASSUME IInv, NEW h \in Hashes, row[h] \in ClaimRows,
         \/ \E k \in Kinds : row' = [row EXCEPT ![h].kind = k]
         \/ \E o \in Outcomes : row' = [row EXCEPT ![h].outcome = o]
         \/ \E k \in Kinds, o \in Outcomes : row' = [row EXCEPT ![h].kind = k, ![h].outcome = o]
         \/ row' = [row EXCEPT ![h].aged = TRUE]
  PROVE  \A g \in Hashes : row'[g].card = row[g].card
<1>1. \A g \in Hashes : g # h => row'[g].card = row[g].card
  BY DEF IInv, TypeOK
<1>2. row'[h].card = row[h].card
  <2>1. ASSUME NEW k \in Kinds, row' = [row EXCEPT ![h].kind = k]
        PROVE  row'[h].card = row[h].card
    BY <2>1 DEF IInv, TypeOK, ClaimRows
  <2>2. ASSUME NEW o \in Outcomes, row' = [row EXCEPT ![h].outcome = o]
        PROVE  row'[h].card = row[h].card
    BY <2>2 DEF IInv, TypeOK, ClaimRows
  <2>3. ASSUME NEW k \in Kinds, NEW o \in Outcomes,
               row' = [row EXCEPT ![h].kind = k, ![h].outcome = o]
        PROVE  row'[h].card = row[h].card
    BY <2>3 DEF IInv, TypeOK, ClaimRows
  <2>4. CASE row' = [row EXCEPT ![h].aged = TRUE]
    BY <2>4 DEF IInv, TypeOK, ClaimRows
  <2>. QED
    BY <2>1, <2>2, <2>3, <2>4
<1>. QED
  BY <1>1, <1>2

(* The callback's steps against the contract. *)
LEMMA CallbackImplements ==
  ASSUME IInv, CallbackNext
  PROVE  [Promise!LedgerNext]_(Promise!ledgerVars)
<1>1. ASSUME NEW q \in Requests, ClaimAndDeductWithdrawal(q)
      PROVE  Promise!LedgerNext
  <2>1. CardOf(q) \in Cards /\ req[q].hash \in Hashes
    BY <1>1 DEF IInv, RequestsInv, SessionsInv, CardOf, ClaimAndDeductWithdrawal
  <2>2. PICK c \in Cards, h \in Hashes : c = CardOf(q) /\ h = req[q].hash
    BY <2>1
  <2>3. /\ h \notin consumed /\ h \notin restored /\ blink[h] = "none"
        /\ blink' = blink /\ restored' = restored /\ consumed' = consumed \cup {h}
        /\ topUps' = topUps
    BY <1>1, <2>2, ClaimEffect DEF IInv, ClaimAndDeductWithdrawal
  <2>4. /\ Amount[h] <= balance[c]
        /\ balance' = [balance EXCEPT ![c] = @ - Amount[h]]
        /\ row' = [row EXCEPT ![h] = [card |-> c, kind |-> "CLAIMED",
                                      outcome |-> "OPEN", aged |-> FALSE]]
    BY <1>1, <2>2 DEF ClaimAndDeductWithdrawal, Deductible
  <2>5. Invoice(h) = "free" /\ Invoice(h)' = "held"
    BY <2>3 DEF Invoice
  <2>6. \A g \in Hashes : g # h => Invoice(g)' = Invoice(g)
    BY <2>3 DEF Invoice
  <2>7. row'[h].card = c /\ \A g \in Hashes : g # h => row'[g].card = row[g].card
    BY <2>4 DEF IInv, TypeOK
  <2>8. Promise!Hold(c, h)
    BY <2>3, <2>4, <2>5, <2>6, <2>7 DEF Promise!Hold, Invoice
  <2>. QED
    BY <2>8 DEF Promise!LedgerNext
<1>2. ASSUME NEW q \in Requests, RestoreRejected(q)
      PROVE  [Promise!LedgerNext]_(Promise!ledgerVars)
  <2>1. /\ req[q].hash \in Hashes /\ blink[req[q].hash] # "settled"
        /\ UNCHANGED <<blink, consumed, topUps>>
    BY <1>2 DEF IInv, RequestsInv, SendingInv, RestoreRejected
  <2>2. CASE Unresolved(req[q].hash)
    BY <1>2, <2>1, <2>2, RestoreReturns DEF RestoreRejected, Promise!LedgerNext
  <2>3. CASE ~Unresolved(req[q].hash)
    BY <1>2, <2>3, LedgerStutters DEF RestoreRejected, Invoice
  <2>. QED
    BY <2>2, <2>3
<1>3. ASSUME NEW q \in Requests, BeginWithdrawalSend(q)
      PROVE  UNCHANGED Promise!ledgerVars
  <2>1. UNCHANGED <<balance, topUps>> /\ \A h \in Hashes : Invoice(h)' = Invoice(h)
    BY <1>3 DEF BeginWithdrawalSend, cardVars, Invoice
  <2>2. CASE StillClaimed(req[q].hash)
    <3>1. req[q].hash \in Hashes /\ row[req[q].hash] \in ClaimRows
      BY <1>3, <2>2, OpenRowTyped DEF IInv, RequestsInv, BeginWithdrawalSend, StillClaimed
    <3>. QED
      BY <1>3, <2>1, <2>2, <3>1, CardsOfRowsKept, LedgerStutters DEF BeginWithdrawalSend, Kinds
  <2>3. CASE ~StillClaimed(req[q].hash)
    BY <1>3, <2>1, <2>3, LedgerStutters DEF BeginWithdrawalSend
  <2>. QED
    BY <2>2, <2>3
<1>4. ASSUME NEW q \in Requests, FinalizeWithdrawal(q)
      PROVE  UNCHANGED Promise!ledgerVars
  <2>1. UNCHANGED <<balance, topUps>> /\ \A h \in Hashes : Invoice(h)' = Invoice(h)
    BY <1>4 DEF FinalizeWithdrawal, cardVars, Invoice
  <2>2. CASE Unresolved(req[q].hash)
    <3>1. req[q].hash \in Hashes /\ row[req[q].hash] \in ClaimRows
      BY <1>4, <2>2, OpenRowTyped DEF IInv, RequestsInv, FinalizeWithdrawal
    <3>2. \E k \in Kinds, o \in Outcomes :
            row' = [row EXCEPT ![req[q].hash].kind = k, ![req[q].hash].outcome = o]
      BY <1>4, <2>2 DEF FinalizeWithdrawal, FinalKind, Kinds, Outcomes
    <3>. QED
      BY <2>1, <3>1, <3>2, CardsOfRowsKept, LedgerStutters
  <2>3. CASE ~Unresolved(req[q].hash)
    BY <1>4, <2>1, <2>3, LedgerStutters DEF FinalizeWithdrawal
  <2>. QED
    BY <2>2, <2>3
<1>5. ASSUME NEW q \in Requests, PayLnInvoice(q)
      PROVE  UNCHANGED Promise!ledgerVars
  <2>1. blink' = [blink EXCEPT ![req[q].hash] = "wire"] /\ blink[req[q].hash] = "none"
    BY <1>5 DEF IInv, SendingInv, PayLnInvoice
  <2>. QED
    BY <1>5, <2>1, LedgerStutters DEF PayLnInvoice, cardVars, rowVars, Invoice, IInv, TypeOK
<1>6. ASSUME NEW q \in Requests,
             \/ \E k \in Taps, h \in Hashes : PeekSession(q, k, h)
             \/ ConsumeWithdrawSession(q) \/ ReadCard(q) \/ ClaimRefused(q)
             \/ WalletLookupFails(q) \/ PayAnswered(q) \/ Crash(q)
      PROVE  UNCHANGED Promise!ledgerVars
  <2>1. UNCHANGED <<balance, row, restored, consumed, blink, topUps>>
    BY <1>6 DEF PeekSession, ConsumeWithdrawSession, ReadCard, ClaimRefused, WalletLookupFails,
                PayAnswered, Crash, cardVars, rowVars
  <2>. QED
    BY <2>1, LedgerStutters DEF Invoice
<1>. QED
  BY <1>1, <1>2, <1>3, <1>4, <1>5, <1>6 DEF CallbackNext

(* The reconciliation's steps against the contract. *)
LEMMA ReconcileImplements ==
  ASSUME IInv, ReconcileNext
  PROVE  [Promise!LedgerNext]_(Promise!ledgerVars)
<1>1. ASSUME NEW r \in Passes, CloseRow(r)
      PROVE  UNCHANGED Promise!ledgerVars
  <2>1. UNCHANGED <<balance, topUps>> /\ \A h \in Hashes : Invoice(h)' = Invoice(h)
    BY <1>1 DEF CloseRow, cardVars, Invoice
  <2>2. CASE Unresolved(pass[r].hash)
    <3>1. pass[r].hash \in Hashes /\ row[pass[r].hash] \in ClaimRows
      BY <1>1, <2>2, OpenRowTyped DEF IInv, PassesInv, CloseRow
    <3>. QED
      BY <1>1, <2>1, <2>2, <3>1, CardsOfRowsKept, LedgerStutters DEF CloseRow, Outcomes
  <2>3. CASE ~Unresolved(pass[r].hash)
    BY <1>1, <2>1, <2>3, LedgerStutters DEF CloseRow
  <2>. QED
    BY <2>2, <2>3
<1>2. ASSUME NEW r \in Passes, PassWrites(r)
      PROVE  [Promise!LedgerNext]_(Promise!ledgerVars)
  <2>. DEFINE h == pass[r].hash
              giveBack == \/ pass[r].seen = "EXPIRED" /\ Unresolved(h)
                          \/ pass[r].seen = "UNSEEN" /\ pass[r].kind = "CLAIMED" /\ Abandoned(h)
              paid == pass[r].seen = "PAID" /\ Unresolved(h)
  <2>1. h \in Hashes /\ UNCHANGED <<blink, consumed, topUps>>
    BY <1>2 DEF IInv, PassesInv, PassWrites
  <2>2. CASE giveBack
    <3>1. Unresolved(h) /\ Restore(h)
      BY <1>2, <2>2 DEF PassWrites, Abandoned
    <3>2. blink[h] # "settled"
      BY <2>1, <2>2 DEF IInv, PassesInv, RowsInv, Abandoned
    <3>. QED
      BY <2>1, <3>1, <3>2, RestoreReturns DEF Promise!LedgerNext
  <2>3. CASE ~giveBack
    <3>1. UNCHANGED <<balance, topUps>> /\ \A g \in Hashes : Invoice(g)' = Invoice(g)
      BY <1>2, <2>3 DEF PassWrites, Invoice
    <3>2. CASE paid
      <4>1. row[h] \in ClaimRows /\ row' = [row EXCEPT ![h].outcome = "SUCCESS"]
        BY <1>2, <2>1, <2>3, <3>2, OpenRowTyped DEF IInv, PassWrites
      <4>. QED
        BY <2>1, <3>1, <4>1, CardsOfRowsKept, LedgerStutters DEF Outcomes
    <3>3. CASE ~paid
      BY <1>2, <2>3, <3>1, <3>3, LedgerStutters DEF PassWrites
    <3>. QED
      BY <3>2, <3>3
  <2>. QED
    BY <2>2, <2>3
<1>3. ASSUME NEW r \in Passes,
             \/ \E h \in Hashes : PickRow(r, h)
             \/ PassReadsCard(r) \/ PassReadFails(r) \/ LookUpPayment(r) \/ PassGivesUp(r)
      PROVE  UNCHANGED Promise!ledgerVars
  <2>1. UNCHANGED <<balance, row, restored, consumed, blink, topUps>>
    BY <1>3 DEF PickRow, PassReadsCard, PassReadFails, LookUpPayment, PassGivesUp, cardVars, rowVars
  <2>. QED
    BY <2>1, LedgerStutters DEF Invoice
<1>. QED
  BY <1>1, <1>2, <1>3 DEF ReconcileNext, ReconcileStep

(* A settlement is a Settle; Blink's other steps change nothing. *)
LEMMA BlinkImplements ==
  ASSUME IInv, BlinkNext
  PROVE  [Promise!LedgerNext]_(Promise!ledgerVars)
<1>. SUFFICES ASSUME NEW h \in Hashes, NEW s \in BlinkStates, BlinkExecutes(h, s)
              PROVE  [Promise!LedgerNext]_(Promise!ledgerVars)
  BY DEF BlinkNext
<1>1. /\ blink[h] \in {"wire", "inflight"} /\ h \in consumed /\ h \notin restored
      /\ blink' = [blink EXCEPT ![h] = s]
      /\ UNCHANGED <<balance, row, consumed, restored, topUps>>
  BY DEF BlinkExecutes, cardVars, rowVars, IInv, RowsInv, NeverPaidAndRestored
<1>2. \A g \in Hashes : g # h => Invoice(g)' = Invoice(g)
  BY <1>1 DEF Invoice, IInv, TypeOK
<1>3. CASE s = "settled"
  <2>1. Invoice(h) = "held" /\ Invoice(h)' = "paid"
    BY <1>1, <1>3 DEF Invoice, IInv, TypeOK
  <2>2. Promise!Settle(h)
    BY <1>1, <1>2, <2>1 DEF Promise!Settle, Invoice
  <2>. QED
    BY <2>2 DEF Promise!LedgerNext
<1>4. CASE s # "settled"
  <2>1. Invoice(h)' = Invoice(h)
    BY <1>1, <1>4 DEF Invoice, IInv, TypeOK
  <2>. QED
    BY <1>1, <1>2, <2>1, LedgerStutters
<1>. QED
  BY <1>3, <1>4

(* Deleting a wiped card is a Retire, a top-up a Credit. *)
LEMMA OwnerImplements ==
  ASSUME IInv, OwnerNext
  PROVE  [Promise!LedgerNext]_(Promise!ledgerVars)
<1>1. ASSUME NEW c \in Cards, DisableCard(c) \/ EnableCard(c) \/ WipeCard(c)
      PROVE  UNCHANGED Promise!ledgerVars
  <2>1. UNCHANGED <<balance, row, restored, consumed, blink, topUps>>
    BY <1>1 DEF DisableCard, EnableCard, WipeCard, SetStatus, rowVars
  <2>. QED
    BY <2>1, LedgerStutters DEF Invoice
<1>2. ASSUME NEW c \in Cards, DeleteWipedCard(c)
      PROVE  Promise!Retire(c)
  <2>1. \A h \in Hashes : Invoice(h)' = Invoice(h)
    BY <1>2 DEF DeleteWipedCard, Invoice
  <2>2. \A h \in Hashes : row'[h].card = IF row[h].card = c THEN None ELSE row[h].card
    BY <1>2 DEF DeleteWipedCard, NoRow
  <2>3. balance' = [balance EXCEPT ![c] = 0] /\ topUps' = topUps
    BY <1>2 DEF DeleteWipedCard
  <2>. QED
    BY <2>1, <2>2, <2>3 DEF Promise!Retire, Invoice
<1>3. ASSUME NEW c \in Cards, TopUpCard(c)
      PROVE  Promise!Credit(c)
  <2>1. balance' = [balance EXCEPT ![c] = @ + TopUp]
    BY <1>3 DEF TopUpCard, IInv, TypeOK
  <2>2. topUps' = [topUps EXCEPT ![c] = @ + 1] /\ UNCHANGED <<row, restored, consumed, blink>>
    BY <1>3 DEF TopUpCard, rowVars
  <2>. QED
    BY <2>1, <2>2 DEF Promise!Credit, IInv, TypeOK
<1>4. ASSUME NEW c \in Cards, NEW n \in 1..MaxCounter, AdvanceCounter(c, n)
      PROVE  UNCHANGED Promise!ledgerVars
  <2>1. UNCHANGED <<balance, row, restored, consumed, blink, topUps>>
    BY <1>4 DEF AdvanceCounter, rowVars
  <2>. QED
    BY <2>1, LedgerStutters DEF Invoice
<1>. QED
  BY <1>1, <1>2, <1>3, <1>4 DEF OwnerNext, Promise!LedgerNext

(* Every step of every handler, pass, crash, wipe and payment is a step of  *)
(* the contract or leaves it alone, whatever the number of actors.          *)
THEOREM Refinement == Spec => ImplementsCardLedger
<1>1. Init => Promise!LedgerInit
  BY DEF Init, Promise!LedgerInit, NoRow
<1>2. ASSUME IInv, [Next]_vars
      PROVE  [Promise!LedgerNext]_(Promise!ledgerVars)
  <2>1. CASE TapNext \/ \E h \in Hashes : GracePasses(h)
    <3>1. UNCHANGED <<balance, topUps>> /\ \A h \in Hashes : Invoice(h)' = Invoice(h)
      BY <2>1 DEF TapNext, TapRead, StartWithdrawSession, SessionExpires, GracePasses, cardVars,
                  rowVars, Invoice
    <3>2. CASE TapNext
      BY <3>1, <3>2, LedgerStutters DEF TapNext, TapRead, StartWithdrawSession, SessionExpires,
                                        rowVars
    <3>3. ASSUME NEW h \in Hashes, GracePasses(h)
          PROVE  UNCHANGED Promise!ledgerVars
      BY <1>2, <3>1, <3>3, OpenRowTyped, CardsOfRowsKept, LedgerStutters DEF GracePasses, IInv
    <3>. QED
      BY <2>1, <3>2, <3>3
  <2>2. CASE UNCHANGED vars
    BY <2>2, LedgerStutters DEF vars, cardVars, rowVars, Invoice
  <2>. QED
    BY <1>2, <2>1, <2>2, CallbackImplements, ReconcileImplements, BlinkImplements, OwnerImplements
       DEF Next
<1>. QED
  BY <1>1, <1>2, Invariance, PTL DEF Spec, ImplementsCardLedger, Promise!LedgerSpec

-------------------------------------------------------------------------------
(* Theorems of ReconcileScheduler, for every number of withdrawals and slots *)
(* and every batch.  First what its queues do, with no duplicates: which     *)
(* elements stand before an element.  Then one lemma per step, and last the  *)
(* invariance.  Nothing here is about the constants of CardWithdraw.         *)

HIDE CardWithdrawAssumption

(* The rows that stand before h in a longer queue. *)
LEMMA BeforeMember ==
  ASSUME NEW T, NEW q \in Seq(T), NEW x, NEW y
  PROVE  y \in Before(q, x) <=>
           \E i, j \in 1..Len(q) : i < j /\ q[i] = y /\ q[j] = x
BY DEF Before

(* Behind the last element of a queue, a new element has the whole queue *)
(* before it.                                                            *)
LEMMA AppendBefore ==
  ASSUME NEW T, NEW q \in Seq(T), NEW e \in T
  PROVE  /\ Range(Append(q, e)) = Range(q) \cup {e}
         /\ \A x : Before(Append(q, e), x)
                     = Before(q, x) \cup (IF x = e THEN Range(q) ELSE {})
<1> DEFINE p == Append(q, e)
<1>1. /\ p \in Seq(T) /\ Len(p) = Len(q) + 1 /\ p[Len(q) + 1] = e
      /\ \A i \in 1..Len(q) : p[i] = q[i]
      /\ Len(q) \in Nat
  OBVIOUS
<1>. HIDE DEF p
<1>2. Range(p) = Range(q) \cup {e}
  BY <1>1 DEF Range
<1>3. ASSUME NEW x, NEW y
      PROVE  y \in Before(p, x) <=>
               y \in Before(q, x) \cup (IF x = e THEN Range(q) ELSE {})
  <2>1. y \in Before(p, x) <=> \E i, j \in 1..Len(p) : i < j /\ p[i] = y /\ p[j] = x
    BY <1>1, BeforeMember
  <2>2. y \in Before(q, x) <=> \E i, j \in 1..Len(q) : i < j /\ q[i] = y /\ q[j] = x
    BY BeforeMember
  <2>3. y \in Range(q) <=> \E i \in 1..Len(q) : q[i] = y
    BY DEF Range
  <2>. QED
    BY <1>1, <2>1, <2>2, <2>3
<1>. QED
  BY <1>2, <1>3 DEF p

(* Of two queues one behind the other, all of the first stands before all of *)
(* the second.                                                               *)
LEMMA ConcatBefore ==
  ASSUME NEW T, NEW p \in Seq(T), NEW q \in Seq(T)
  PROVE  /\ Range(p \o q) = Range(p) \cup Range(q)
         /\ \A x : Before(p \o q, x)
              = Before(p, x) \cup Before(q, x) \cup (IF x \in Range(q) THEN Range(p) ELSE {})
<1> DEFINE r == p \o q
<1>1. /\ r \in Seq(T) /\ Len(r) = Len(p) + Len(q) /\ DOMAIN r = 1..Len(r)
      /\ \A i \in 1..Len(p) : r[i] = p[i]
      /\ \A i \in 1..Len(q) : r[Len(p) + i] = q[i]
      /\ Len(p) \in Nat /\ Len(q) \in Nat
  OBVIOUS
<1>2. \A i \in 1..Len(r) : i \in 1..Len(p) \/ \E j \in 1..Len(q) : i = Len(p) + j
  <2>. TAKE i \in 1..Len(r)
  <2>1. i \in 1..Len(p) \/ i - Len(p) \in 1..Len(q)
    BY <1>1
  <2>. QED
    BY <1>1, <2>1
<1>. HIDE DEF r
<1>3. Range(r) = Range(p) \cup Range(q)
  <2>1. ASSUME NEW i \in 1..Len(r)
        PROVE  r[i] \in Range(p) \cup Range(q)
    <3>1. CASE i \in 1..Len(p)
      BY <1>1, <3>1 DEF Range
    <3>2. CASE \E j \in 1..Len(q) : i = Len(p) + j
      BY <1>1, <3>2 DEF Range
    <3>. QED
      BY <1>2, <3>1, <3>2
  <2>2. ASSUME NEW i \in 1..Len(p)
        PROVE  p[i] \in Range(r)
    <3>1. i \in 1..Len(r) /\ r[i] = p[i]
      BY <1>1
    <3>. QED
      BY <1>1, <3>1 DEF Range
  <2>3. ASSUME NEW i \in 1..Len(q)
        PROVE  q[i] \in Range(r)
    <3>1. Len(p) + i \in 1..Len(r) /\ r[Len(p) + i] = q[i]
      BY <1>1
    <3>. QED
      BY <1>1, <3>1 DEF Range
  <2>4. Range(r) = {r[i] : i \in 1..Len(r)}
    BY <1>1 DEF Range
  <2>5. Range(p) = {p[i] : i \in 1..Len(p)} /\ Range(q) = {q[i] : i \in 1..Len(q)}
    BY DEF Range
  <2>6. Range(r) \subseteq Range(p) \cup Range(q)
    BY <2>1, <2>4
  <2>7. Range(p) \subseteq Range(r) /\ Range(q) \subseteq Range(r)
    BY <2>2, <2>3, <2>5
  <2>. QED
    BY <2>6, <2>7
<1>4. ASSUME NEW x, NEW y
      PROVE  y \in Before(r, x) <=>
               y \in Before(p, x) \cup Before(q, x) \cup (IF x \in Range(q) THEN Range(p) ELSE {})
  <2>1. y \in Before(r, x) <=> \E i, j \in 1..Len(r) : i < j /\ r[i] = y /\ r[j] = x
    <3>1. r \in Seq(T)
      BY <1>1
    <3>. QED
      BY <3>1, BeforeMember
  <2>2. y \in Before(q, x) <=> \E i, j \in 1..Len(q) : i < j /\ q[i] = y /\ q[j] = x
    BY BeforeMember
  <2>3. y \in Before(p, x) <=> \E i, j \in 1..Len(p) : i < j /\ p[i] = y /\ p[j] = x
    BY BeforeMember
  <2>4. /\ y \in Range(p) <=> \E i \in 1..Len(p) : p[i] = y
        /\ x \in Range(q) <=> \E i \in 1..Len(q) : q[i] = x
    BY DEF Range
  <2>5. ASSUME NEW i \in 1..Len(r), NEW j \in 1..Len(r), i < j, r[i] = y, r[j] = x
        PROVE  y \in Before(p, x) \cup Before(q, x) \cup (IF x \in Range(q) THEN Range(p) ELSE {})
    <3>1. CASE j \in 1..Len(p)
      <4>1. i \in 1..Len(p)
        BY <1>1, <2>5, <3>1
      <4>. QED
        BY <1>1, <2>3, <2>5, <3>1, <4>1
    <3>2. ASSUME NEW n \in 1..Len(q), j = Len(p) + n
          PROVE  y \in Before(p, x) \cup Before(q, x)
                        \cup (IF x \in Range(q) THEN Range(p) ELSE {})
      <4>1. q[n] = x
        BY <1>1, <2>5, <3>2
      <4>2. CASE i \in 1..Len(p)
        BY <1>1, <2>4, <2>5, <4>1, <4>2
      <4>3. ASSUME NEW m \in 1..Len(q), i = Len(p) + m
            PROVE  y \in Before(q, x)
        <5>1. q[m] = y /\ m < n
          BY <1>1, <2>5, <3>2, <4>3
        <5>. QED
          BY <2>2, <4>1, <5>1
      <4>. QED
        BY <1>2, <4>2, <4>3
    <3>. QED
      BY <1>2, <3>1, <3>2
  <2>6. ASSUME y \in Before(p, x)
        PROVE  y \in Before(r, x)
    <3>1. PICK i, j \in 1..Len(p) : i < j /\ p[i] = y /\ p[j] = x
      BY <2>3, <2>6
    <3>2. i \in 1..Len(r) /\ j \in 1..Len(r)
      BY <1>1
    <3>. QED
      BY <1>1, <2>1, <3>1, <3>2
  <2>7. ASSUME y \in Before(q, x)
        PROVE  y \in Before(r, x)
    <3>1. PICK i, j \in 1..Len(q) : i < j /\ q[i] = y /\ q[j] = x
      BY <2>2, <2>7
    <3>2. /\ Len(p) + i \in 1..Len(r) /\ Len(p) + j \in 1..Len(r) /\ Len(p) + i < Len(p) + j
          /\ r[Len(p) + i] = y /\ r[Len(p) + j] = x
      BY <1>1, <3>1
    <3>. QED
      BY <2>1, <3>2
  <2>8. ASSUME x \in Range(q), y \in Range(p)
        PROVE  y \in Before(r, x)
    <3>1. PICK i \in 1..Len(p), j \in 1..Len(q) : p[i] = y /\ q[j] = x
      BY <2>4, <2>8
    <3>2. /\ i \in 1..Len(r) /\ Len(p) + j \in 1..Len(r) /\ i < Len(p) + j
          /\ r[i] = y /\ r[Len(p) + j] = x
      BY <1>1, <3>1
    <3>. QED
      BY <2>1, <3>2
  <2>. QED
    BY <2>1, <2>5, <2>6, <2>7, <2>8
<1>. QED
  BY <1>3, <1>4 DEF r

(* A queue has no duplicates if no element stands before itself. *)
LEMMA InjectiveBefore ==
  ASSUME NEW T, NEW q \in Seq(T)
  PROVE  IsInjective(q) <=> \A x \in Range(q) : x \notin Before(q, x)
<1>1. ASSUME IsInjective(q), NEW x \in Range(q), x \in Before(q, x)
      PROVE  FALSE
  <2>1. PICK i, j \in 1..Len(q) : i < j /\ q[i] = x /\ q[j] = x
    BY <1>1, BeforeMember
  <2>. QED
    BY <1>1, <2>1 DEF IsInjective
<1>2. ASSUME \A x \in Range(q) : x \notin Before(q, x),
             NEW i \in 1..Len(q), NEW j \in 1..Len(q), q[i] = q[j], i # j
      PROVE  FALSE
  <2>1. i < j \/ j < i
    BY <1>2
  <2>2. q[i] \in Before(q, q[i])
    BY <1>2, <2>1, BeforeMember
  <2>3. q[i] \in Range(q)
    BY DEF Range
  <2>. QED
    BY <1>2, <2>2, <2>3
<1>. QED
  BY <1>1, <1>2 DEF IsInjective

(* The recursion of Keep is well defined. *)
KeepStep(q, S, k, n) ==
    IF n = 0 THEN <<>> ELSE IF q[n] \in S THEN Append(k[n - 1], q[n]) ELSE k[n - 1]

(* The recursive function in Keep satisfies its own equation. *)
LEMMA KeepIsDefined ==
  ASSUME NEW T, NEW q \in Seq(T), NEW S
  PROVE  \E k : /\ k = [n \in 0..Len(q) |-> KeepStep(q, S, k, n)]
                /\ Keep(q, S) = k[Len(q)]
<1> DEFINE G == {m \in Nat : \E k : k = [n \in 0..m |-> KeepStep(q, S, k, n)]}
<1>1. 0 \in G
  <2> DEFINE k == [n \in 0..0 |-> <<>>]
  <2>1. k = [n \in 0..0 |-> KeepStep(q, S, k, n)]
    BY DEF KeepStep
  <2>. HIDE DEF k
  <2>. QED
    BY <2>1
<1>2. ASSUME NEW m \in Nat, m \in G
      PROVE  m + 1 \in G
  <2>1. PICK g : g = [n \in 0..m |-> KeepStep(q, S, g, n)]
    BY <1>2
  <2> DEFINE h == [n \in 0..(m + 1) |-> KeepStep(q, S, g, n)]
  <2>2. \A n \in 0..(m + 1) : n # 0 => n - 1 \in 0..m /\ n - 1 \in 0..(m + 1)
    OBVIOUS
  <2>3. \A n \in 0..(m + 1) : n # 0 => h[n - 1] = g[n - 1]
    BY <2>1, <2>2
  <2>4. \A n \in 0..(m + 1) : KeepStep(q, S, g, n) = KeepStep(q, S, h, n)
    BY <2>3 DEF KeepStep
  <2>5. h = [n \in 0..(m + 1) |-> KeepStep(q, S, h, n)]
    BY <2>4
  <2>. HIDE DEF h
  <2>. QED
    BY <2>5
<1>3. Len(q) \in G
  <2>. HIDE DEF G
  <2>. QED
    BY <1>1, <1>2, NumbersBySuccession
<1> DEFINE Kept(k) == k = [n \in 0..Len(q) |-> KeepStep(q, S, k, n)]
<1>4. \E k : Kept(k)
  BY <1>3
<1>5. Keep(q, S) = (CHOOSE k : Kept(k))[Len(q)]
  BY DEF Keep, KeepStep
<1>6. Kept(CHOOSE k : Kept(k))
  <2>. HIDE DEF Kept
  <2>. QED
    BY <1>4
<1>. QED
  BY <1>5, <1>6

(* What Keep returns: the members of S, standing before one another as they *)
(* did. *)
LEMMA KeepFacts ==
  ASSUME NEW T, NEW q \in Seq(T), NEW S
  PROVE  /\ Keep(q, S) \in Seq(T)
         /\ Range(Keep(q, S)) = Range(q) \cap S
         /\ \A x : Before(Keep(q, S), x) = IF x \in S THEN Before(q, x) \cap S ELSE {}
<1>1. PICK k : /\ k = [n \in 0..Len(q) |-> KeepStep(q, S, k, n)]
               /\ Keep(q, S) = k[Len(q)]
  BY KeepIsDefined
<1> DEFINE First(n) == {q[i] : i \in 1..n}
           Pairs(n, x) == {q[i] : i \in {a \in 1..n : \E b \in 1..n : a < b /\ q[b] = x}}
           Good(n) == /\ k[n] \in Seq(T)
                      /\ Range(k[n]) = First(n) \cap S
                      /\ \A x : Before(k[n], x) = IF x \in S THEN Pairs(n, x) \cap S ELSE {}
           G == {n \in Nat : n <= Len(q) => Good(n)}
<1>2. 0 \in G
  <2>1. k[0] = <<>>
    BY <1>1 DEF KeepStep
  <2>2. <<>> \in Seq(T) /\ Range(<<>>) = {} /\ \A x : Before(<<>>, x) = {}
    BY DEF Range, Before
  <2>3. First(0) = {} /\ \A x : Pairs(0, x) = {}
    OBVIOUS
  <2>. HIDE DEF First, Pairs
  <2>. QED
    BY <2>1, <2>2, <2>3
<1>3. ASSUME NEW n \in Nat, n \in G
      PROVE  n + 1 \in G
  <2>. SUFFICES ASSUME n + 1 <= Len(q)
                PROVE  Good(n + 1)
    <3>. HIDE DEF Good
    <3>. QED
      OBVIOUS
  <2>1. Good(n)
    <3>. HIDE DEF Good
    <3>. QED
      BY <1>3
  <2> DEFINE e == q[n + 1]
  <2>2. n + 1 \in 0..Len(q) /\ n + 1 # 0 /\ (n + 1) - 1 = n /\ e \in T
    BY <1>3
  <2>3. k[n + 1] = IF e \in S THEN Append(k[n], e) ELSE k[n]
    BY <1>1, <2>2 DEF KeepStep
  <2>4. 1..(n + 1) = (1..n) \cup {n + 1}
    OBVIOUS
  <2>5. First(n + 1) = First(n) \cup {e}
    BY <2>4
  <2>6. ASSUME NEW x
        PROVE  Pairs(n + 1, x) = Pairs(n, x) \cup (IF x = e THEN First(n) ELSE {})
    <3>1. \A a \in 1..n : a < n + 1 /\ a # n + 1
      OBVIOUS
    <3>2. \A b \in 1..n : ~(n + 1 < b)
      OBVIOUS
    <3>3. ~(n + 1 < n + 1)
      OBVIOUS
    <3>4. ASSUME NEW a \in 1..(n + 1)
          PROVE  (\E b \in 1..(n + 1) : a < b /\ q[b] = x)
                   <=> a \in 1..n /\ ((\E b \in 1..n : a < b /\ q[b] = x) \/ x = e)
      BY <2>4, <3>1, <3>2, <3>3
    <3> DEFINE A == {a \in 1..(n + 1) : \E b \in 1..(n + 1) : a < b /\ q[b] = x}
               B == {a \in 1..n : \E b \in 1..n : a < b /\ q[b] = x}
    <3>5. A = B \cup (IF x = e THEN 1..n ELSE {})
      BY <2>4, <3>4
    <3>6. Pairs(n + 1, x) = {q[i] : i \in A} /\ Pairs(n, x) = {q[i] : i \in B}
      OBVIOUS
    <3>. HIDE DEF A, B
    <3>. QED
      BY <3>5, <3>6
  <2>. HIDE DEF First, Pairs
  <2>7. CASE e \in S
    <3>1. /\ k[n + 1] = Append(k[n], e) /\ k[n] \in Seq(T)
          /\ Range(Append(k[n], e)) = Range(k[n]) \cup {e}
          /\ \A x : Before(Append(k[n], e), x)
                      = Before(k[n], x) \cup (IF x = e THEN Range(k[n]) ELSE {})
      BY <2>1, <2>2, <2>3, <2>7, AppendBefore
    <3>2. Append(k[n], e) \in Seq(T)
      BY <2>2, <3>1
    <3>. HIDE DEF e
    <3>3. Range(k[n + 1]) = First(n + 1) \cap S
      BY <2>1, <2>5, <2>7, <3>1
    <3>4. ASSUME NEW x
          PROVE  Before(k[n + 1], x) = IF x \in S THEN Pairs(n + 1, x) \cap S ELSE {}
      <4>1. Before(k[n + 1], x) = Before(k[n], x) \cup (IF x = e THEN Range(k[n]) ELSE {})
        BY <3>1
      <4>2. Before(k[n], x) = IF x \in S THEN Pairs(n, x) \cap S ELSE {}
        BY <2>1
      <4>3. Range(k[n]) = First(n) \cap S
        BY <2>1
      <4>4. Pairs(n + 1, x) = Pairs(n, x) \cup (IF x = e THEN First(n) ELSE {})
        BY <2>6
      <4>. QED
        BY <2>7, <4>1, <4>2, <4>3, <4>4
    <3>. QED
      BY <3>1, <3>2, <3>3, <3>4
  <2>8. CASE e \notin S
    <3>1. k[n + 1] = k[n]
      BY <2>3, <2>8
    <3>. HIDE DEF e
    <3>2. First(n + 1) \cap S = First(n) \cap S
      BY <2>5, <2>8
    <3>3. ASSUME NEW x
          PROVE  (IF x \in S THEN Pairs(n + 1, x) \cap S ELSE {})
                   = (IF x \in S THEN Pairs(n, x) \cap S ELSE {})
      BY <2>6, <2>8
    <3>. QED
      BY <2>1, <3>1, <3>2, <3>3
  <2>. QED
    BY <2>7, <2>8
<1>4. Good(Len(q))
  <2>1. Nat \subseteq G
    <3>. HIDE DEF G
    <3>. QED
      BY <1>2, <1>3, NumbersBySuccession
  <2>2. Len(q) \in G /\ Len(q) <= Len(q)
    <3>. HIDE DEF G
    <3>. QED
      BY <2>1
  <2>. HIDE DEF Good
  <2>. QED
    BY <2>2
<1>5. First(Len(q)) = Range(q) /\ \A x : Pairs(Len(q), x) = Before(q, x)
  BY DEF Range, Before
<1>. HIDE DEF First, Pairs
<1>. QED
  BY <1>1, <1>4, <1>5

(* A queue has at most as many members as places, and as many if it has no  *)
(* duplicates. *)
LEMMA RangeCount ==
  ASSUME NEW T, NEW q \in Seq(T)
  PROVE  /\ IsFiniteSet(Range(q))
         /\ Cardinality(Range(q)) \in Nat
         /\ Cardinality(Range(q)) <= Len(q)
         /\ IsInjective(q) => Cardinality(Range(q)) = Len(q)
<1>1. IsFiniteSet(1..Len(q)) /\ Cardinality(1..Len(q)) = Len(q)
  <2>1. Len(q) \in Nat
    OBVIOUS
  <2>. QED
    BY <2>1, FS_Interval
<1>2. q \in Surjection(1..Len(q), Range(q))
  BY DEF Surjection, Range
<1>3. /\ IsFiniteSet(Range(q)) /\ Cardinality(Range(q)) <= Cardinality(1..Len(q))
      /\ Cardinality(Range(q)) = Cardinality(1..Len(q)) <=> q \in Injection(1..Len(q), Range(q))
  BY <1>1, <1>2, FS_Surjection
<1>4. IsInjective(q) => q \in Injection(1..Len(q), Range(q))
  BY <1>2 DEF Injection, Surjection, IsInjective
<1>. QED
  BY <1>1, <1>3, <1>4, FS_CardinalityType

(* What is taken from the front of the queue stands before all that is left. *)
LEMMA FrontBefore ==
  ASSUME NEW T, NEW q \in Seq(T), IsInjective(q), NEW b \in Nat, NEW x \in Range(q),
         NEW r, r = SubSeq(q, 1, IF Len(q) < b THEN Len(q) ELSE b), x \notin Range(r)
  PROVE  Range(r) \subseteq Before(q, x) /\ Cardinality(Range(r)) = b
<1>1. PICK j \in 1..Len(q) : q[j] = x
  BY DEF Range
<1>2. Len(q) \in Nat
  OBVIOUS
<1>3. ~(Len(q) < b)
  <2>. SUFFICES ASSUME Len(q) < b
                PROVE  FALSE
    OBVIOUS
  <2>1. r = SubSeq(q, 1, Len(q)) /\ DOMAIN r = 1..Len(q) /\ r[j] = q[j]
    BY <1>1, <1>2
  <2>. QED
    BY <1>1, <2>1 DEF Range
<1>4. /\ r \in Seq(T) /\ Len(r) = b /\ DOMAIN r = 1..b
      /\ \A i \in 1..b : r[i] = q[i] /\ i \in 1..Len(q)
  BY <1>2, <1>3
<1>5. b < j
  <2>. SUFFICES ASSUME j \in 1..b
                PROVE  FALSE
    BY <1>1
  <2>. QED
    BY <1>1, <1>4 DEF Range
<1>6. Range(r) \subseteq Before(q, x)
  <2>. SUFFICES ASSUME NEW i \in 1..b
                PROVE  r[i] \in Before(q, x)
    BY <1>4 DEF Range
  <2>1. i \in 1..Len(q) /\ i < j /\ r[i] = q[i]
    BY <1>1, <1>4, <1>5
  <2>. QED
    BY <1>1, <2>1, BeforeMember
<1>7. IsInjective(r)
  BY <1>4 DEF IsInjective
<1>. QED
  BY <1>4, <1>6, <1>7, RangeCount

(* Taking a subset away takes its cardinality away. *)
LEMMA CountWithout ==
  ASSUME NEW A, IsFiniteSet(A), NEW R \in SUBSET A
  PROVE  Cardinality(A \ R) = Cardinality(A) - Cardinality(R)
<1>1. IsFiniteSet(R) /\ IsFiniteSet(A \ R)
  BY FS_Subset
<1>2. (A \ R) \cup R = A /\ (A \ R) \cap R = {}
  OBVIOUS
<1>3. Cardinality(A) = Cardinality(A \ R) + Cardinality(R) - Cardinality({})
  BY <1>1, <1>2, FS_Union
<1>. QED
  BY <1>1, <1>3, FS_CardinalityType, FS_EmptySet

-------------------------------------------------------------------------------
(* The three ways the selection order changes. *)

QueuesOK ==
    /\ fresh \in Seq(Withdrawals) /\ checked \in Seq(Withdrawals)
    /\ IsInjective(Order)

(* The selection order has no row twice, no row stands before itself, and the *)
(* never-checked rows stand before the checked ones.                          *)
LEMMA OrderFacts ==
  ASSUME QueuesOK
  PROVE  /\ Order \in Seq(Withdrawals)
         /\ Open = Range(fresh) \cup Range(checked)
         /\ \A x : Ahead(x) = Before(fresh, x) \cup Before(checked, x)
                                \cup (IF x \in Range(checked) THEN Range(fresh) ELSE {})
         /\ \A x : Ahead(x) \subseteq Open
         /\ \A x \in Open : x \notin Ahead(x)
         /\ Open \subseteq Withdrawals
         /\ IsFiniteSet(Open) /\ Cardinality(Open) = Len(Order)
<1>1. /\ Order \in Seq(Withdrawals)
      /\ Open = Range(fresh) \cup Range(checked)
      /\ \A x : Ahead(x) = Before(fresh, x) \cup Before(checked, x)
                                \cup (IF x \in Range(checked) THEN Range(fresh) ELSE {})
  BY ConcatBefore DEF QueuesOK, Order, Open, Ahead
<1>2. /\ \A x : Ahead(x) \subseteq Open
      /\ Open \subseteq Withdrawals
  BY <1>1 DEF Ahead, Before, Open, Range
<1>3. \A x \in Open : x \notin Ahead(x)
  BY <1>1, InjectiveBefore DEF QueuesOK, Ahead, Open
<1>4. IsFiniteSet(Open) /\ Cardinality(Open) = Len(Order)
  BY <1>1, RangeCount DEF QueuesOK, Open
<1>. QED
  BY <1>1, <1>2, <1>3, <1>4

(* An order is free of duplicates if what stands before a row is not that row. *)
LEMMA OrderInjective ==
  ASSUME NEW f \in Seq(Withdrawals), NEW c \in Seq(Withdrawals),
         \A x \in Range(f) : x \notin Before(f, x),
         \A x \in Range(c) : x \notin Before(c, x),
         \A x \in Range(f) : x \notin Range(c)
  PROVE  IsInjective(f \o c)
<1>1. f \o c \in Seq(Withdrawals)
  OBVIOUS
<1>2. \A x : Before(f, x) # {} => x \in Range(f)
  BY DEF Before, Range
<1>3. \A x : Before(c, x) # {} => x \in Range(c)
  BY DEF Before, Range
<1>4. \A x \in Range(f \o c) : x \notin Before(f \o c, x)
  BY <1>2, <1>3, ConcatBefore
<1>. QED
  BY <1>1, <1>4, InjectiveBefore

(* No row is in both queues, and none stands before itself in either. *)
LEMMA QueueParts ==
  ASSUME QueuesOK
  PROVE  /\ \A x \in Range(fresh) : x \notin Before(fresh, x) /\ x \notin Range(checked)
         /\ \A x \in Range(checked) : x \notin Before(checked, x)
<1>1. \A x \in Open : x \notin Ahead(x)
  BY OrderFacts
<1>. QED
  BY <1>1, OrderFacts

(* The open rows and the rows before each, from the queues after a step. *)
LEMMA NextOrder ==
  ASSUME fresh' \in Seq(Withdrawals), checked' \in Seq(Withdrawals)
  PROVE  /\ Open' = Range(fresh') \cup Range(checked')
         /\ \A x : Ahead(x)' = Before(fresh', x) \cup Before(checked', x)
                                 \cup (IF x \in Range(checked') THEN Range(fresh') ELSE {})
BY ConcatBefore DEF Open, Ahead, Order

(* A row that is claimed joins behind rows never checked: no row loses its *)
(* place to more than this one.                                            *)
LEMMA AppendFresh ==
  ASSUME QueuesOK, NEW h \in Withdrawals, h \notin Open,
         fresh' = Append(fresh, h), checked' = checked
  PROVE  /\ QueuesOK'
         /\ Open' = Open \cup {h}
         /\ \A x \in Open : Ahead(x)' \subseteq Ahead(x) \cup {h}
         /\ Ahead(h)' \subseteq Open
<1>1. /\ fresh \in Seq(Withdrawals) /\ checked \in Seq(Withdrawals)
      /\ fresh' \in Seq(Withdrawals) /\ checked' \in Seq(Withdrawals)
  BY DEF QueuesOK
<1>2. /\ Range(fresh') = Range(fresh) \cup {h}
      /\ \A x : Before(fresh', x) = Before(fresh, x) \cup (IF x = h THEN Range(fresh) ELSE {})
  BY <1>1, AppendBefore
<1>3. h \notin Range(fresh) /\ h \notin Range(checked)
  BY OrderFacts
<1>4. \A x : Before(fresh, x) \subseteq Range(fresh) /\ Before(checked, x) \subseteq Range(checked)
  BY DEF Before, Range
<1>5. IsInjective(fresh' \o checked')
  <2>1. \A x \in Range(fresh') : x \notin Before(fresh', x)
    BY <1>2, <1>3, <1>4, QueueParts
  <2>2. \A x \in Range(checked') : x \notin Before(checked', x)
    BY QueueParts
  <2>3. \A x \in Range(fresh') : x \notin Range(checked')
    BY <1>2, <1>3, QueueParts
  <2>4. fresh' \in Seq(Withdrawals) /\ checked' \in Seq(Withdrawals)
    BY <1>1
  <2>. QED
    BY <2>1, <2>2, <2>3, <2>4, OrderInjective
<1>6. QueuesOK'
  BY <1>1, <1>5 DEF QueuesOK, Order
<1>7. /\ Open' = Range(fresh') \cup Range(checked')
      /\ \A x : Ahead(x)' = Before(fresh', x) \cup Before(checked', x)
                              \cup (IF x \in Range(checked') THEN Range(fresh') ELSE {})
  <2>1. fresh' \in Seq(Withdrawals) /\ checked' \in Seq(Withdrawals)
    BY <1>1
  <2>. QED
    BY <2>1, NextOrder
<1>. QED
  BY <1>2, <1>3, <1>4, <1>6, <1>7, OrderFacts

(* A row that is resolved leaves: nothing else moves back. *)
LEMMA TakeOut ==
  ASSUME QueuesOK, NEW h,
         fresh' = Without(fresh, h), checked' = Without(checked, h)
  PROVE  /\ QueuesOK'
         /\ Open' = Open \ {h}
         /\ \A x \in Open' : Ahead(x)' \subseteq Ahead(x)
<1>1. /\ fresh \in Seq(Withdrawals) /\ checked \in Seq(Withdrawals)
      /\ Range(fresh) \subseteq Withdrawals /\ Range(checked) \subseteq Withdrawals
  BY DEF QueuesOK, Range
<1>2. /\ fresh' \in Seq(Withdrawals)
      /\ Range(fresh') = Range(fresh) \ {h}
      /\ \A x : Before(fresh', x) \subseteq Before(fresh, x)
  BY <1>1, KeepFacts DEF Without
<1>3. /\ checked' \in Seq(Withdrawals)
      /\ Range(checked') = Range(checked) \ {h}
      /\ \A x : Before(checked', x) \subseteq Before(checked, x)
  BY <1>1, KeepFacts DEF Without
<1>5. IsInjective(fresh' \o checked')
  BY <1>2, <1>3, QueueParts, OrderInjective
<1>6. QueuesOK'
  BY <1>2, <1>3, <1>5 DEF QueuesOK, Order
<1>7. /\ Open' = Range(fresh') \cup Range(checked')
      /\ \A x : Ahead(x)' = Before(fresh', x) \cup Before(checked', x)
                              \cup (IF x \in Range(checked') THEN Range(fresh') ELSE {})
  BY <1>2, <1>3, NextOrder
<1>. QED
  BY <1>2, <1>3, <1>6, <1>7, OrderFacts

(* A row that is stamped goes behind all others: it is before no other row *)
(* any more.                                                               *)
LEMMA MoveToBack ==
  ASSUME QueuesOK, NEW h \in Open, Rotate(h)
  PROVE  /\ QueuesOK'
         /\ Open' = Open
         /\ \A x \in Open : x # h => Ahead(x)' \subseteq Ahead(x) \ {h}
         /\ Ahead(h)' \subseteq Open \ {h}
<1> DEFINE c == Without(checked, h)
<1>1. /\ fresh \in Seq(Withdrawals) /\ checked \in Seq(Withdrawals) /\ h \in Withdrawals
      /\ Range(fresh) \subseteq Withdrawals /\ Range(checked) \subseteq Withdrawals
  BY OrderFacts DEF QueuesOK, Range
<1>2. /\ fresh' \in Seq(Withdrawals)
      /\ Range(fresh') = Range(fresh) \ {h}
      /\ \A x : Before(fresh', x) \subseteq Before(fresh, x) \ {h}
      /\ Before(fresh', h) = {}
  <2>1. fresh' = Keep(fresh, Withdrawals \ {h})
    BY DEF Without, Rotate
  <2>. QED
    BY <1>1, <2>1, KeepFacts
<1>3. /\ c \in Seq(Withdrawals)
      /\ Range(c) = Range(checked) \ {h}
      /\ \A x : Before(c, x) \subseteq Before(checked, x) \ {h}
      /\ Before(c, h) = {}
  BY <1>1, KeepFacts DEF Without
<1>4. checked' = Append(c, h)
  BY DEF Rotate
<1>. HIDE DEF c
<1>5. /\ checked' \in Seq(Withdrawals)
      /\ Range(checked') = Range(c) \cup {h}
      /\ \A x : Before(checked', x) = Before(c, x) \cup (IF x = h THEN Range(c) ELSE {})
  BY <1>1, <1>3, <1>4, AppendBefore
<1>6. IsInjective(fresh' \o checked')
  BY <1>2, <1>3, <1>5, QueueParts, OrderInjective
<1>7. QueuesOK'
  BY <1>2, <1>5, <1>6 DEF QueuesOK, Order
<1>8. /\ Open' = Range(fresh') \cup Range(checked')
      /\ \A x : Ahead(x)' = Before(fresh', x) \cup Before(checked', x)
                              \cup (IF x \in Range(checked') THEN Range(fresh') ELSE {})
  BY <1>2, <1>5, NextOrder
<1>9. Open' = Open
  BY <1>2, <1>3, <1>5, <1>8, OrderFacts
<1>10. ASSUME NEW x \in Open, x # h
       PROVE  Ahead(x)' \subseteq Ahead(x) \ {h}
  BY <1>2, <1>3, <1>5, <1>8, <1>10, OrderFacts
<1>11. Ahead(h)' \subseteq Open \ {h}
  BY <1>2, <1>3, <1>5, <1>8, OrderFacts
<1>. QED
  BY <1>7, <1>9, <1>10, <1>11

-------------------------------------------------------------------------------
(* One lemma per step.                                                       *)

(* A subset of a finite set is no larger. *)
LEMMA CountSmaller ==
  ASSUME NEW A, IsFiniteSet(A), NEW B \in SUBSET A
  PROVE  /\ Cardinality(B) \in Nat /\ Cardinality(A) \in Nat
         /\ Cardinality(B) <= Cardinality(A)
BY FS_Subset, FS_CardinalityType

(* A subset of a finite set and one more element has at most one element *)
(* more.                                                                 *)
LEMMA CountOneMore ==
  ASSUME NEW A, IsFiniteSet(A), NEW e, NEW B \in SUBSET (A \cup {e})
  PROVE  /\ Cardinality(B) \in Nat /\ Cardinality(A) \in Nat
         /\ Cardinality(B) <= Cardinality(A) + 1
<1>1. IsFiniteSet(A \cup {e}) /\ Cardinality(A \cup {e}) <= Cardinality(A) + 1
  <2>1. Cardinality(A) \in Nat
    BY FS_CardinalityType
  <2>. QED
    BY <2>1, FS_AddElement
<1>. QED
  BY <1>1, CountSmaller

(* The rows before a row, and any part of them, are finitely many. *)
LEMMA AheadFinite ==
  ASSUME QueuesOK
  PROVE  \A x, R : IsFiniteSet(Ahead(x)) /\ IsFiniteSet(Ahead(x) \ R)
<1>1. \A x, R : Ahead(x) \in SUBSET Open /\ Ahead(x) \ R \in SUBSET Open
  BY OrderFacts
<1>2. IsFiniteSet(Open)
  BY OrderFacts
<1>. QED
  BY <1>1, <1>2, FS_Subset

(* The room that p passes use up is a natural number, and each pass uses *)
(* Batch of it.                                                          *)
LEMMA RoomUsed ==
  ASSUME NEW p \in Nat
  PROVE  /\ p * Batch \in Nat
         /\ (p + 1) * Batch = p * Batch + Batch
         /\ 0 * Batch = 0
         /\ Batch \in Nat /\ Batch > 0
BY ReconcileAssumption

(* What the type invariant says of the queues and of the waiting rows. *)
LEMMA WaitTyped ==
  ASSUME BacklogTypeOK
  PROVE  /\ QueuesOK
         /\ \A h \in Withdrawals : wait[h].passes \in Nat /\ wait[h].room \in Nat
         /\ Open \subseteq claimed /\ claimed \subseteq Withdrawals
         /\ \A s \in Slots : run[s].missed \subseteq Withdrawals
BY DEF BacklogTypeOK, QueuesOK, Order, Open, Runs

(* A claim gives every open row room for the row that came, and starts the *)
(* new one behind the rows that are open.                                  *)
LEMMA ClaimKeeps ==
  ASSUME SchedulerIInv, NEW h \in Withdrawals, Claim(h)
  PROVE  SchedulerIInv'
<1> USE DEF SchedulerIInv
<1>1. /\ QueuesOK
      /\ \A g \in Withdrawals : wait[g].passes \in Nat /\ wait[g].room \in Nat
      /\ Open \subseteq claimed /\ claimed \subseteq Withdrawals /\ h \notin claimed
  BY WaitTyped DEF Claim
<1>2. /\ QueuesOK'
      /\ Open' = Open \cup {h}
      /\ \A x \in Open : Ahead(x)' \subseteq Ahead(x) \cup {h}
      /\ Ahead(h)' \subseteq Open
  BY <1>1, AppendFresh DEF Claim
<1>3. Len(Order) \in Nat /\ Cardinality(Open) = Len(Order) /\ IsFiniteSet(Open)
  BY <1>1, OrderFacts
<1>4. /\ wait' \in [Withdrawals -> [passes : Nat, room : Nat]]
      /\ wait'[h].passes = 0 /\ wait'[h].room = Len(Order) + 1
      /\ \A g \in Open : wait'[g].passes = wait[g].passes /\ wait'[g].room = wait[g].room + 1
  <2>1. \A g \in Withdrawals : wait[g] \in [passes : Nat, room : Nat]
    BY DEF BacklogTypeOK
  <2>2. Waiting(Len(Order) + 1) \in [passes : Nat, room : Nat]
    BY <1>3 DEF Waiting
  <2>3. \A g \in Withdrawals :
          /\ Later(wait[g]) \in [passes : Nat, room : Nat]
          /\ Later(wait[g]).passes = wait[g].passes
          /\ Later(wait[g]).room = wait[g].room + 1
    BY <2>1 DEF Later
  <2>4. \A g \in Withdrawals :
          wait'[g] = IF g = h THEN Waiting(Len(Order) + 1)
                     ELSE IF g \in Open THEN Later(wait[g]) ELSE wait[g]
    BY DEF Claim
  <2>5. DOMAIN wait' = Withdrawals /\ wait' = [g \in Withdrawals |-> wait'[g]]
    BY DEF Claim
  <2>6. \A g \in Withdrawals : wait'[g] \in [passes : Nat, room : Nat]
    BY <2>1, <2>2, <2>3, <2>4
  <2>7. wait' \in [Withdrawals -> [passes : Nat, room : Nat]]
    BY <2>5, <2>6
  <2>8. wait'[h].passes = 0 /\ wait'[h].room = Len(Order) + 1
    BY <2>4 DEF Waiting
  <2>9. ASSUME NEW g \in Open
        PROVE  wait'[g].passes = wait[g].passes /\ wait'[g].room = wait[g].room + 1
    <3>1. g \in Withdrawals /\ g # h
      BY <1>1
    <3>2. wait'[g] = Later(wait[g])
      BY <2>4, <3>1
    <3>. QED
      BY <2>3, <3>1, <3>2
  <2>. QED
    BY <2>7, <2>8, <2>9
<1>5. BacklogTypeOK'
  <2>1. claimed' = claimed \cup {h} /\ run' = run /\ lock' = lock
    BY DEF Claim
  <2>2. Range(fresh' \o checked') \subseteq claimed' /\ claimed' \subseteq Withdrawals
    BY <1>1, <1>2, <2>1 DEF Open, Order
  <2>. QED
    BY <1>2, <1>4, <2>1, <2>2 DEF BacklogTypeOK, QueuesOK, Order
<1>6. RunsInv'
  BY DEF RunsInv, Claim, Free
<1>7. ASSUME NEW g \in Open'
      PROVE  Cardinality(Ahead(g)') + wait'[g].passes * Batch < wait'[g].room
  <2>1. CASE g = h
    <3>1. Cardinality(Ahead(h)') \in Nat /\ Cardinality(Ahead(h)') <= Len(Order)
      BY <1>2, <1>3, CountSmaller
    <3>2. wait'[g].passes * Batch = 0 /\ wait'[g].room = Len(Order) + 1
      BY <1>4, <2>1, RoomUsed
    <3>. QED
      BY <1>3, <2>1, <3>1, <3>2
  <2>2. CASE g \in Open
    <3>1. /\ Cardinality(Ahead(g)') \in Nat /\ Cardinality(Ahead(g)) \in Nat
          /\ Cardinality(Ahead(g)') <= Cardinality(Ahead(g)) + 1
      BY <1>1, <1>2, <2>2, AheadFinite, CountOneMore
    <3>2. Cardinality(Ahead(g)) + wait[g].passes * Batch < wait[g].room
      BY <2>2 DEF QueueInv
    <3>3. wait[g].passes \in Nat /\ wait[g].room \in Nat /\ wait[g].passes * Batch \in Nat
      BY <1>1, <2>2, RoomUsed
    <3>4. wait'[g].passes * Batch = wait[g].passes * Batch /\ wait'[g].room = wait[g].room + 1
      BY <1>4, <2>2
    <3> DEFINE used == wait[g].passes * Batch
    <3>. HIDE DEF used
    <3>5. Cardinality(Ahead(g)') + used < wait[g].room + 1
      BY <3>1, <3>2, <3>3 DEF used
    <3>. QED
      BY <3>4, <3>5 DEF used
  <2>. QED
    BY <1>2, <2>1, <2>2
<1>8. ASSUME NEW s \in Slots, NEW g \in run'[s].missed \cap Open'
      PROVE  Cardinality(Ahead(g)' \ Range(run'[s].todo)) + (wait'[g].passes + 1) * Batch
               < wait'[g].room
  <2>1. run' = run
    BY DEF Claim
  <2>2. g \in Open /\ g \in run[s].missed
    BY <1>1, <1>2, <2>1 DEF RunsInv
  <2> DEFINE R == Range(run[s].todo)
  <2>3. Ahead(g)' \ R \in SUBSET ((Ahead(g) \ R) \cup {h})
    BY <1>2, <2>2
  <2>4. /\ Cardinality(Ahead(g)' \ R) \in Nat /\ Cardinality(Ahead(g) \ R) \in Nat
        /\ Cardinality(Ahead(g)' \ R) <= Cardinality(Ahead(g) \ R) + 1
    <3>1. IsFiniteSet(Ahead(g) \ R)
      BY <1>1, AheadFinite
    <3>. QED
      BY <2>3, <3>1, CountOneMore
  <2>5. Cardinality(Ahead(g) \ R) + (wait[g].passes + 1) * Batch < wait[g].room
    BY <2>2 DEF ProgressInv
  <2>6. wait[g].passes \in Nat /\ wait[g].room \in Nat /\ (wait[g].passes + 1) * Batch \in Nat
    <3>1. wait[g].passes \in Nat /\ wait[g].room \in Nat
      BY <1>1, <2>2
    <3>2. wait[g].passes + 1 \in Nat
      BY <3>1
    <3>. QED
      BY <3>1, <3>2, RoomUsed
  <2>. HIDE DEF R
  <2>7. Cardinality(Ahead(g)' \ R) + (wait[g].passes + 1) * Batch < wait[g].room + 1
    BY <2>4, <2>5, <2>6
  <2>. QED
    BY <1>4, <2>1, <2>2, <2>7 DEF R
<1>. QED
  BY <1>5, <1>6, <1>7, <1>8 DEF QueueInv, ProgressInv

(* A row with no more before it, and the same room, keeps its bound; and so *)
(* while a pass goes on. *)
LEMMA QueueKept ==
  ASSUME SchedulerIInv, NEW x \in Open, Ahead(x)' \subseteq Ahead(x), wait'[x] = wait[x]
  PROVE  Cardinality(Ahead(x)') + wait'[x].passes * Batch < wait'[x].room
<1>1. /\ QueuesOK
      /\ wait[x].passes \in Nat /\ wait[x].room \in Nat
  BY WaitTyped DEF SchedulerIInv
<1>2. /\ Cardinality(Ahead(x)') \in Nat /\ Cardinality(Ahead(x)) \in Nat
      /\ Cardinality(Ahead(x)') <= Cardinality(Ahead(x))
  BY <1>1, AheadFinite, CountSmaller
<1>3. Cardinality(Ahead(x)) + wait[x].passes * Batch < wait[x].room
  BY DEF SchedulerIInv, QueueInv
<1>4. wait[x].passes * Batch \in Nat
  BY <1>1, RoomUsed
<1> DEFINE used == wait[x].passes * Batch
<1>. HIDE DEF used
<1>5. Cardinality(Ahead(x)') + used < wait[x].room
  BY <1>1, <1>2, <1>3, <1>4 DEF used
<1>. QED
  BY <1>5 DEF used

(* A row that a pass missed and that did not move keeps its room, if no row *)
(* came before it that the pass will not reach.                             *)
LEMMA ProgressKept ==
  ASSUME SchedulerIInv, NEW s \in Slots, NEW x \in run[s].missed \cap Open,
         NEW B, B \subseteq Ahead(x) \ Range(run[s].todo), wait'[x] = wait[x]
  PROVE  Cardinality(B) + (wait'[x].passes + 1) * Batch < wait'[x].room
<1> DEFINE A == Ahead(x) \ Range(run[s].todo)
<1>1. /\ QueuesOK
      /\ wait[x].passes \in Nat /\ wait[x].room \in Nat
  BY WaitTyped DEF SchedulerIInv
<1>2. Cardinality(B) \in Nat /\ Cardinality(A) \in Nat /\ Cardinality(B) <= Cardinality(A)
  <2>1. IsFiniteSet(A) /\ B \in SUBSET A
    BY <1>1, AheadFinite
  <2>. HIDE DEF A
  <2>. QED
    BY <2>1, CountSmaller
<1>3. Cardinality(A) + (wait[x].passes + 1) * Batch < wait[x].room
  BY DEF SchedulerIInv, ProgressInv
<1>4. (wait[x].passes + 1) * Batch \in Nat
  <2>1. wait[x].passes + 1 \in Nat
    BY <1>1
  <2>. QED
    BY <2>1, RoomUsed
<1> DEFINE used == (wait[x].passes + 1) * Batch
<1>. HIDE DEF used, A
<1>5. Cardinality(B) + used < wait[x].room
  BY <1>1, <1>2, <1>3, <1>4 DEF used
<1>. QED
  BY <1>5 DEF used

(* A step after which fewer rows are open, in the same order, and no pass   *)
(* misses more than it did. *)
MissesNoMore(s) ==
    \/ run'[s] \in {NoRun, run[s]}
    \/ /\ run'[s].kind # "none"
       /\ \/ run'[s].missed = {}
          \/ /\ run'[s].missed = run[s].missed /\ run'[s].todo = run[s].todo
             /\ run'[s].kind = run[s].kind /\ run'[s].late = run[s].late

(* A step that brings no row forward behind another and lets no pass miss *)
(* more keeps the invariant.                                              *)
LEMMA StepKeeps ==
  ASSUME SchedulerIInv, BacklogTypeOK',
         Open' \subseteq Open, claimed' = claimed,
         \A x \in Open' : Ahead(x)' \subseteq Ahead(x) /\ wait'[x] = wait[x],
         \A s \in Slots : MissesNoMore(s)
  PROVE  SchedulerIInv'
<1>1. RunsInv'
  <2>. SUFFICES ASSUME NEW s \in Slots
                PROVE  /\ Free(s)' => run'[s] = NoRun
                       /\ run'[s].missed \subseteq claimed'
                       /\ run'[s].missed # {} => run'[s].kind = "scheduled" /\ ~run'[s].late
    BY DEF RunsInv
  <2>1. CASE run'[s] = NoRun
    BY <2>1 DEF NoRun
  <2>2. CASE run'[s] = run[s]
    BY <2>2 DEF SchedulerIInv, RunsInv, Free
  <2>3. CASE run'[s].kind # "none" /\ run'[s].missed = {}
    BY <2>3 DEF Free
  <2>4. CASE /\ run'[s].kind # "none"
             /\ run'[s].missed = run[s].missed
             /\ run'[s].kind = run[s].kind /\ run'[s].late = run[s].late
    BY <2>4 DEF SchedulerIInv, RunsInv, Free
  <2>. QED
    BY <2>1, <2>2, <2>3, <2>4 DEF MissesNoMore
<1>2. ASSUME NEW x \in Open'
      PROVE  Cardinality(Ahead(x)') + wait'[x].passes * Batch < wait'[x].room
  BY QueueKept
<1>3. ASSUME NEW s \in Slots, NEW x \in run'[s].missed \cap Open'
      PROVE  Cardinality(Ahead(x)' \ Range(run'[s].todo)) + (wait'[x].passes + 1) * Batch
               < wait'[x].room
  <2>1. run'[s].missed = run[s].missed /\ run'[s].todo = run[s].todo
    BY DEF MissesNoMore, NoRun
  <2>2. /\ x \in run[s].missed \cap Open /\ wait'[x] = wait[x]
        /\ Ahead(x)' \ Range(run'[s].todo) \subseteq Ahead(x) \ Range(run[s].todo)
    BY <2>1
  <2>. QED
    BY <2>2, ProgressKept
<1>. QED
  BY <1>1, <1>2, <1>3 DEF SchedulerIInv, QueueInv, ProgressInv

(* The selection order follows the two queues. *)
LEMMA Unchanged ==
  ASSUME fresh' = fresh, checked' = checked
  PROVE  Order' = Order /\ Open' = Open /\ \A x : Ahead(x)' = Ahead(x)
BY DEF Order, Open, Ahead

(* A resolved row leaves the backlog and moves no other back. *)
LEMMA UnqueueEffect ==
  ASSUME BacklogTypeOK, NEW h \in Withdrawals, Unqueue(h)
  PROVE  /\ QueuesOK'
         /\ Open' = Open \ {h}
         /\ \A x \in Open' : Ahead(x)' \subseteq Ahead(x) /\ wait'[x] = wait[x]
         /\ wait' \in [Withdrawals -> [passes : Nat, room : Nat]]
<1>1. QueuesOK /\ Open \subseteq Withdrawals
  BY WaitTyped
<1>2. /\ QueuesOK'
      /\ Open' = Open \ {h}
      /\ \A x \in Open' : Ahead(x)' \subseteq Ahead(x)
  BY <1>1, TakeOut DEF Unqueue
<1>3. wait' = [wait EXCEPT ![h] = Waiting(0)] /\ Waiting(0) \in [passes : Nat, room : Nat]
  BY DEF Unqueue, Waiting
<1>4. /\ wait' \in [Withdrawals -> [passes : Nat, room : Nat]]
      /\ \A x \in Withdrawals : x # h => wait'[x] = wait[x]
  BY <1>3 DEF BacklogTypeOK
<1>. QED
  BY <1>1, <1>2, <1>4

(* Resolving a row, by its callback or with its card, keeps the invariant. *)
LEMMA ResolvedElsewhereKeeps ==
  ASSUME SchedulerIInv, NEW h \in Withdrawals, ResolvedElsewhere(h)
  PROVE  SchedulerIInv'
<1>1. /\ claimed' = claimed /\ run' = run /\ lock' = lock
      /\ Unqueue(h) /\ \A s \in Slots : MissesNoMore(s)
  BY DEF ResolvedElsewhere, MissesNoMore
<1>2. BacklogTypeOK
  BY DEF SchedulerIInv
<1>3. /\ QueuesOK'
      /\ Open' = Open \ {h}
      /\ \A x \in Open' : Ahead(x)' \subseteq Ahead(x) /\ wait'[x] = wait[x]
      /\ wait' \in [Withdrawals -> [passes : Nat, room : Nat]]
  BY <1>1, <1>2, UnqueueEffect
<1>4. BacklogTypeOK'
  <2>1. Range(fresh' \o checked') \subseteq claimed'
    BY <1>1, <1>2, <1>3, WaitTyped DEF Open, Order
  <2>. QED
    BY <1>1, <1>2, <1>3, <2>1 DEF BacklogTypeOK, QueuesOK, Order
<1>. QED
  BY <1>1, <1>3, <1>4, StepKeeps

(* A step that leaves the queues alone. *)
LEMMA QuietStepKeeps ==
  ASSUME SchedulerIInv, UNCHANGED <<fresh, checked, claimed, wait>>,
         run' \in [Slots -> Runs],
         \A s \in Slots : lock' = s <=> run'[s].kind \in {"locked", "scheduled"} /\ ~run'[s].late,
         \A s \in Slots : MissesNoMore(s)
  PROVE  SchedulerIInv'
<1>1. BacklogTypeOK'
  BY DEF SchedulerIInv, BacklogTypeOK
<1>2. Open' = Open /\ \A x : Ahead(x)' = Ahead(x)
  BY Unchanged
<1>. QED
  BY <1>1, <1>2, StepKeeps

(* What the invariant says of the passes and the lock. *)
LEMMA RunTyped ==
  ASSUME SchedulerIInv
  PROVE  /\ run \in [Slots -> Runs]
         /\ NoRun \in Runs
         /\ \A s \in Slots : /\ run[s] \in Runs
                             /\ lock = s <=> run[s].kind \in {"locked", "scheduled"} /\ ~run[s].late
                             /\ run[s].kind = "none" => run[s] = NoRun
                             /\ run[s].missed # {} => run[s].kind = "scheduled" /\ ~run[s].late
         /\ Nothing \notin Slots
BY ReconcileAssumption DEF SchedulerIInv, BacklogTypeOK, RunsInv, NoRun, Runs, Free

(* A tick takes the lock with a clean slot. *)
LEMMA TickKeeps ==
  ASSUME SchedulerIInv, NEW s \in Slots, Tick(s)
  PROVE  SchedulerIInv'
<1> DEFINE r == [run[s] EXCEPT !.kind = "locked"]
<1>1. run' = [run EXCEPT ![s] = r] /\ lock = Nothing /\ lock' = s
  BY DEF Tick, LockFree
<1>2. run[s] = NoRun
  BY RunTyped DEF Tick, Free
<1>3. r \in Runs /\ r.kind = "locked" /\ r.late = FALSE /\ r.missed = {}
  <2>1. run[s] \in Runs /\ run[s].late = FALSE /\ run[s].missed = {}
    BY <1>2, RunTyped DEF NoRun
  <2>. QED
    BY <2>1 DEF Runs
<1>. HIDE DEF r
<1>4. run' \in [Slots -> Runs] /\ run'[s] = r
  BY <1>1, <1>3, RunTyped
<1>5. \A t \in Slots : t # s => run'[t] = run[t]
  BY <1>1, RunTyped
<1>6. ASSUME NEW t \in Slots
      PROVE  /\ lock' = t <=> run'[t].kind \in {"locked", "scheduled"} /\ ~run'[t].late
             /\ MissesNoMore(t)
  BY <1>1, <1>3, <1>4, <1>5, RunTyped DEF MissesNoMore
<1>. QED
  BY <1>4, <1>6, QuietStepKeeps DEF Tick

(* A balance tap starts a pass that misses nothing it counts for. *)
LEMMA OwnerTapKeeps ==
  ASSUME SchedulerIInv, NEW s \in Slots, NEW c, OwnerTap(s, c)
  PROVE  SchedulerIInv'
<1> DEFINE todo == Keep(Order, {h \in Open : Card[h] = c})
           r == [NoRun EXCEPT !.kind = "owner", !.todo = todo]
<1>1. run' = [run EXCEPT ![s] = r] /\ lock' = lock
  BY RunTyped DEF OwnerTap, Free
<1>2. todo \in Seq(Withdrawals)
  BY WaitTyped, OrderFacts, KeepFacts DEF SchedulerIInv
<1>. HIDE DEF todo
<1>3. r \in Runs /\ r.kind = "owner" /\ r.missed = {}
  BY <1>2 DEF NoRun, Runs
<1>. HIDE DEF r
<1>4. run' \in [Slots -> Runs] /\ run'[s] = r
  BY <1>1, <1>3, RunTyped
<1>5. \A t \in Slots : t # s => run'[t] = run[t]
  BY <1>1, RunTyped
<1>6. lock # s
  BY RunTyped DEF OwnerTap, Free
<1>7. ASSUME NEW t \in Slots
      PROVE  /\ lock' = t <=> run'[t].kind \in {"locked", "scheduled"} /\ ~run'[t].late
             /\ MissesNoMore(t)
  BY <1>1, <1>3, <1>4, <1>5, <1>6, RunTyped DEF MissesNoMore
<1>. QED
  BY <1>4, <1>7, QuietStepKeeps DEF OwnerTap

(* A deadline frees the lock and forgets what the pass missed. *)
LEMMA DeadlineKeeps ==
  ASSUME SchedulerIInv, NEW s \in Slots, Deadline(s)
  PROVE  SchedulerIInv'
<1> DEFINE r == [run[s] EXCEPT !.late = TRUE, !.todo = <<>>, !.missed = {}]
<1>1. run' = [run EXCEPT ![s] = r] /\ Release(s)
  BY DEF Deadline
<1>2. <<>> \in Seq(Withdrawals) /\ {} \in SUBSET Withdrawals
  OBVIOUS
<1>3. /\ r \in Runs /\ r.kind = run[s].kind /\ r.late = TRUE /\ r.missed = {}
      /\ r.kind # "none"
  BY <1>2, RunTyped DEF Runs, Deadline
<1>. HIDE DEF r
<1>4. run' \in [Slots -> Runs] /\ run'[s] = r
  BY <1>1, <1>3, RunTyped
<1>5. \A t \in Slots : t # s => run'[t] = run[t]
  BY <1>1, RunTyped
<1>6. lock = s /\ lock' = Nothing
  BY <1>1, RunTyped DEF Deadline, Release
<1>7. ASSUME NEW t \in Slots
      PROVE  /\ lock' = t <=> run'[t].kind \in {"locked", "scheduled"} /\ ~run'[t].late
             /\ MissesNoMore(t)
  BY <1>3, <1>4, <1>5, <1>6, RunTyped DEF MissesNoMore
<1>. QED
  BY <1>4, <1>7, QuietStepKeeps DEF Deadline

(* The slot is free again, and the lock if it was held. *)
LEMMA SlotFreed ==
  ASSUME SchedulerIInv, NEW s \in Slots, run' = [run EXCEPT ![s] = NoRun], Release(s)
  PROVE  /\ run' \in [Slots -> Runs]
         /\ \A t \in Slots :
              /\ lock' = t <=> run'[t].kind \in {"locked", "scheduled"} /\ ~run'[t].late
              /\ run'[t] = (IF t = s THEN NoRun ELSE run[t])
<1>1. run' \in [Slots -> Runs] /\ run'[s] = NoRun /\ \A t \in Slots : t # s => run'[t] = run[t]
  BY RunTyped
<1>2. lock' = IF lock = s THEN Nothing ELSE lock
  BY DEF Release
<1>. QED
  BY <1>1, <1>2, RunTyped DEF NoRun

(* A pass that dies frees its slot, and the lock if it held it. *)
LEMMA DiesKeeps ==
  ASSUME SchedulerIInv, NEW s \in Slots, Dies(s)
  PROVE  SchedulerIInv'
<1>1. /\ run' \in [Slots -> Runs]
      /\ \A t \in Slots :
              /\ lock' = t <=> run'[t].kind \in {"locked", "scheduled"} /\ ~run'[t].late
              /\ run'[t] = (IF t = s THEN NoRun ELSE run[t])
  BY SlotFreed DEF Dies
<1>2. \A t \in Slots : MissesNoMore(t)
  BY <1>1 DEF MissesNoMore
<1>. QED
  BY <1>1, <1>2, QuietStepKeeps DEF Dies

(* The row a pass is at is resolved or left where the stamp put it. *)
LEMMA RowDoneKeeps ==
  ASSUME SchedulerIInv, NEW s \in Slots, RowDone(s)
  PROVE  SchedulerIInv'
<1>1. /\ run' = [run EXCEPT ![s].at = Nothing] /\ lock' = lock /\ claimed' = claimed
      /\ run[s].at # Nothing
  BY DEF RowDone
<1>2. run[s].kind # "none"
  BY <1>1, RunTyped DEF NoRun
<1>3. run' \in [Slots -> Runs]
  BY <1>1, RunTyped DEF Runs
<1>4. \A t \in Slots : /\ run'[t].kind = run[t].kind /\ run'[t].late = run[t].late
                       /\ run'[t].missed = run[t].missed /\ run'[t].todo = run[t].todo
                       /\ t # s => run'[t] = run[t]
  BY <1>1, RunTyped DEF Runs
<1>5. ASSUME NEW t \in Slots
      PROVE  /\ lock' = t <=> run'[t].kind \in {"locked", "scheduled"} /\ ~run'[t].late
             /\ MissesNoMore(t)
  BY <1>1, <1>2, <1>4, RunTyped DEF MissesNoMore
<1>6. CASE UNCHANGED <<fresh, checked, wait>>
  BY <1>1, <1>3, <1>5, <1>6, QuietStepKeeps
<1>7. CASE Unqueue(run[s].at)
  <2>1. run[s].at \in Withdrawals
    BY <1>1, RunTyped DEF Runs
  <2>2. /\ QueuesOK'
        /\ Open' = Open \ {run[s].at}
        /\ \A x \in Open' : Ahead(x)' \subseteq Ahead(x) /\ wait'[x] = wait[x]
        /\ wait' \in [Withdrawals -> [passes : Nat, room : Nat]]
    BY <1>7, <2>1, UnqueueEffect DEF SchedulerIInv
  <2>3. Range(fresh' \o checked') \subseteq claimed' /\ claimed' \subseteq Withdrawals
    BY <1>1, <2>2, WaitTyped DEF Open, Order, SchedulerIInv
  <2>4. BacklogTypeOK'
    BY <1>3, <1>5, <2>2, <2>3 DEF BacklogTypeOK, QueuesOK, Order
  <2>. QED
    BY <1>1, <1>5, <2>2, <2>4, StepKeeps
<1>. QED
  BY <1>6, <1>7 DEF RowDone

(* What a tick selects is the first Batch rows: the rows a missed row is *)
(* behind.                                                               *)
LEMMA SelectBatchKeeps ==
  ASSUME SchedulerIInv, NEW s \in Slots, SelectBatch(s)
  PROVE  SchedulerIInv'
<1> DEFINE rows == SubSeq(Order, 1, IF Len(Order) < Batch THEN Len(Order) ELSE Batch)
           r == IF run[s].late THEN [run[s] EXCEPT !.kind = "scheduled"]
                ELSE [run[s] EXCEPT !.kind = "scheduled", !.todo = rows,
                                    !.missed = Open \ Range(rows)]
<1>1. /\ run' = [run EXCEPT ![s] = r] /\ run[s].kind = "locked"
      /\ UNCHANGED <<fresh, checked, claimed, lock, wait>>
  BY DEF SelectBatch
<1>2. /\ QueuesOK /\ Order \in Seq(Withdrawals) /\ Open \subseteq Withdrawals
      /\ Open \subseteq claimed
  BY WaitTyped, OrderFacts DEF SchedulerIInv
<1>3. rows \in Seq(Withdrawals)
  BY <1>2, ReconcileAssumption
<1>. HIDE DEF rows
<1>4. /\ r \in Runs /\ r.kind = "scheduled" /\ r.late = run[s].late
      /\ ~run[s].late => r.todo = rows /\ r.missed = Open \ Range(rows)
      /\ run[s].late => r.missed = {}
  BY <1>1, <1>2, <1>3, RunTyped DEF Runs
<1>. HIDE DEF r
<1>5. run' \in [Slots -> Runs] /\ run'[s] = r
  BY <1>1, <1>4, RunTyped
<1>6. \A t \in Slots : t # s => run'[t] = run[t]
  BY <1>1, RunTyped
<1>7. \A t \in Slots : lock' = t <=> run'[t].kind \in {"locked", "scheduled"} /\ ~run'[t].late
  BY <1>1, <1>4, <1>5, <1>6, RunTyped
<1>8. CASE run[s].late
  <2>1. \A t \in Slots : MissesNoMore(t)
    BY <1>4, <1>5, <1>6, <1>8 DEF MissesNoMore
  <2>. QED
    BY <1>1, <1>5, <1>7, <2>1, QuietStepKeeps
<1>9. CASE ~run[s].late
  <2>1. Open' = Open /\ \A x : Ahead(x)' = Ahead(x)
    BY <1>1, Unchanged
  <2>2. BacklogTypeOK'
    BY <1>1, <1>5, <1>7 DEF SchedulerIInv, BacklogTypeOK
  <2>3. RunsInv'
    <3>. SUFFICES ASSUME NEW t \in Slots
                  PROVE  /\ Free(t)' => run'[t] = NoRun
                         /\ run'[t].missed \subseteq claimed'
                         /\ run'[t].missed # {} => run'[t].kind = "scheduled" /\ ~run'[t].late
      BY DEF RunsInv
    <3>1. CASE t = s
      BY <1>1, <1>2, <1>4, <1>5, <1>9, <3>1 DEF Free
    <3>2. CASE t # s
      BY <1>1, <1>6, <3>2 DEF SchedulerIInv, RunsInv, Free
    <3>. QED
      BY <3>1, <3>2
  <2>4. QueueInv'
    BY <1>1, <2>1 DEF SchedulerIInv, QueueInv
  <2>5. ASSUME NEW t \in Slots, NEW x \in run'[t].missed \cap Open'
        PROVE  Cardinality(Ahead(x)' \ Range(run'[t].todo)) + (wait'[x].passes + 1) * Batch
                 < wait'[x].room
    <3>1. CASE t # s
      BY <1>1, <1>6, <2>1, <2>5, <3>1 DEF SchedulerIInv, ProgressInv
    <3>2. CASE t = s
      <4>1. x \in Open /\ x \notin Range(rows)
        BY <1>4, <1>5, <1>9, <2>1, <2>5, <3>2
      <4>2. Range(rows) \subseteq Ahead(x) /\ Cardinality(Range(rows)) = Batch
        <5>1. IsInjective(Order) /\ Batch \in Nat /\ x \in Range(Order)
          BY <1>2, <4>1, ReconcileAssumption DEF QueuesOK, Open
        <5>. QED
          BY <1>2, <4>1, <5>1, FrontBefore DEF Ahead, rows
      <4>3. Cardinality(Ahead(x) \ Range(rows)) = Cardinality(Ahead(x)) - Batch
        BY <1>2, <4>2, AheadFinite, CountWithout
      <4>4. /\ Cardinality(Ahead(x)) + wait[x].passes * Batch < wait[x].room
            /\ wait[x].passes \in Nat /\ wait[x].room \in Nat
            /\ Cardinality(Ahead(x)) \in Nat
        BY <1>2, <4>1, WaitTyped, AheadFinite, FS_CardinalityType DEF SchedulerIInv, QueueInv
      <4>5. /\ (wait[x].passes + 1) * Batch = wait[x].passes * Batch + Batch
            /\ wait[x].passes * Batch \in Nat /\ Batch \in Nat
        BY <4>4, RoomUsed
      <4> DEFINE used == wait[x].passes * Batch
                 more == (wait[x].passes + 1) * Batch
      <4>. HIDE DEF used, more
      <4>6. Cardinality(Ahead(x) \ Range(rows)) + more < wait[x].room
        BY <4>3, <4>4, <4>5 DEF used, more
      <4>7. Ahead(x)' = Ahead(x) /\ run'[t].todo = rows /\ wait' = wait
        BY <1>1, <1>4, <1>5, <1>9, <2>1, <3>2
      <4>. QED
        BY <4>6, <4>7 DEF more
    <3>. QED
      BY <3>1, <3>2
  <2>. QED
    BY <2>2, <2>3, <2>4, <2>5 DEF SchedulerIInv, ProgressInv
<1>. QED
  BY <1>8, <1>9

(* A pass that ends has examined all it selected: each row it missed has *)
(* Batch rows less to wait for.                                          *)
LEMMA PassEndsKeeps ==
  ASSUME SchedulerIInv, NEW s \in Slots, PassEnds(s)
  PROVE  SchedulerIInv'
<1>1. /\ run' = [run EXCEPT ![s] = NoRun] /\ Release(s) /\ run[s].todo = <<>>
      /\ UNCHANGED <<fresh, checked, claimed>>
  BY DEF PassEnds
<1>2. /\ run' \in [Slots -> Runs]
      /\ \A t \in Slots :
           /\ lock' = t <=> run'[t].kind \in {"locked", "scheduled"} /\ ~run'[t].late
           /\ run'[t] = (IF t = s THEN NoRun ELSE run[t])
  BY <1>1, SlotFreed
<1>3. Open' = Open /\ \A x : Ahead(x)' = Ahead(x)
  BY <1>1, Unchanged
<1>4. /\ QueuesOK /\ Open \subseteq Withdrawals
      /\ \A x \in Withdrawals : wait[x] \in [passes : Nat, room : Nat]
      /\ \A x \in Withdrawals : wait[x].passes \in Nat /\ wait[x].room \in Nat
  BY WaitTyped DEF SchedulerIInv, BacklogTypeOK
<1>5. \A x \in Withdrawals :
        wait'[x] = IF x \in run[s].missed \cap Open
                     THEN [wait[x] EXCEPT !.passes = @ + 1] ELSE wait[x]
  BY DEF PassEnds
<1>6. wait' \in [Withdrawals -> [passes : Nat, room : Nat]]
  <2>1. \A x \in Withdrawals : wait'[x] \in [passes : Nat, room : Nat]
    <3>1. \A x \in Withdrawals : [wait[x] EXCEPT !.passes = @ + 1] \in [passes : Nat, room : Nat]
      BY <1>4
    <3>. QED
      BY <1>4, <1>5, <3>1
  <2>2. wait' = [x \in Withdrawals |-> wait'[x]]
    BY DEF PassEnds
  <2>. QED
    BY <2>1, <2>2
<1>7. \A x \in run[s].missed \cap Open :
        wait'[x].passes = wait[x].passes + 1 /\ wait'[x].room = wait[x].room
  BY <1>4, <1>5
<1>8. BacklogTypeOK'
  BY <1>1, <1>2, <1>6 DEF SchedulerIInv, BacklogTypeOK
<1>9. RunsInv'
  <2>. SUFFICES ASSUME NEW t \in Slots
                PROVE  /\ Free(t)' => run'[t] = NoRun
                       /\ run'[t].missed \subseteq claimed'
                       /\ run'[t].missed # {} => run'[t].kind = "scheduled" /\ ~run'[t].late
    BY DEF RunsInv
  <2>1. CASE t = s
    BY <1>2, <2>1 DEF NoRun
  <2>2. CASE t # s
    BY <1>1, <1>2, <2>2 DEF SchedulerIInv, RunsInv, Free
  <2>. QED
    BY <2>1, <2>2
<1>10. ASSUME NEW x \in Open'
       PROVE  Cardinality(Ahead(x)') + wait'[x].passes * Batch < wait'[x].room
  <2>1. CASE x \notin run[s].missed
    <3>1. wait'[x] = wait[x] /\ x \in Open /\ Ahead(x)' \subseteq Ahead(x)
      BY <1>3, <1>4, <1>5, <1>10, <2>1
    <3>. QED
      BY <3>1, QueueKept
  <2>2. CASE x \in run[s].missed
    <3>1. Cardinality(Ahead(x) \ Range(run[s].todo)) + (wait[x].passes + 1) * Batch
            < wait[x].room
      BY <1>3, <1>10, <2>2 DEF SchedulerIInv, ProgressInv
    <3>2. Range(run[s].todo) = {}
      BY <1>1 DEF Range
    <3>3. Ahead(x) \ Range(run[s].todo) = Ahead(x)'
      BY <1>3, <3>2
    <3>4. wait'[x].passes = wait[x].passes + 1 /\ wait'[x].room = wait[x].room
      BY <1>3, <1>7, <1>10, <2>2
    <3>. QED
      BY <3>1, <3>3, <3>4
  <2>. QED
    BY <2>1, <2>2
<1>11. ASSUME NEW t \in Slots, NEW x \in run'[t].missed \cap Open'
       PROVE  Cardinality(Ahead(x)' \ Range(run'[t].todo)) + (wait'[x].passes + 1) * Batch
                < wait'[x].room
  <2>1. t # s /\ run'[t] = run[t]
    BY <1>2, <1>11 DEF NoRun
  <2>2. lock = t
    BY <1>11, <2>1, RunTyped
  <2>3. run[s].missed = {}
    BY <2>1, <2>2, RunTyped
  <2>4. x \in run[t].missed \cap Open
    BY <1>3, <1>11, <2>1
  <2>5. wait'[x] = wait[x]
    BY <1>4, <1>5, <2>3, <2>4
  <2>6. Ahead(x)' \ Range(run'[t].todo) \subseteq Ahead(x) \ Range(run[t].todo)
    BY <1>3, <2>1
  <2>. QED
    BY <2>4, <2>5, <2>6, ProgressKept
<1>. QED
  BY <1>8, <1>9, <1>10, <1>11 DEF SchedulerIInv, QueueInv, ProgressInv

(* A pass that begins a row stamps it behind all others and has one row less *)
(* to examine.                                                               *)
LEMMA BeginRowKeeps ==
  ASSUME SchedulerIInv, NEW s \in Slots, BeginRow(s)
  PROVE  SchedulerIInv'
<1>0. PICK h : h = Head(run[s].todo)
  OBVIOUS
<1> DEFINE rs == [run[s] EXCEPT !.at = h, !.todo = Tail(@), !.missed = @ \ {h}]
           ro(t) == [run[t] EXCEPT !.missed = @ \ {h}]
<1>1. /\ Between(s) /\ run[s].todo # <<>> /\ Rotate(h)
      /\ run' = [t \in Slots |-> IF t = s THEN rs ELSE ro(t)]
      /\ wait' = [wait EXCEPT ![h] = IF h \in Open THEN Waiting(Len(Order)) ELSE @]
      /\ claimed' = claimed /\ lock' = lock
  BY <1>0 DEF BeginRow
<1>2. /\ QueuesOK /\ Open \subseteq Withdrawals /\ Open \subseteq claimed
      /\ claimed \subseteq Withdrawals
      /\ wait \in [Withdrawals -> [passes : Nat, room : Nat]]
      /\ IsFiniteSet(Open) /\ Cardinality(Open) = Len(Order) /\ Len(Order) \in Nat
  BY WaitTyped, OrderFacts DEF SchedulerIInv, BacklogTypeOK
<1>3. run[s].todo \in Seq(Withdrawals)
  BY RunTyped DEF Runs
<1>4. /\ h \in Withdrawals /\ Tail(run[s].todo) \in Seq(Withdrawals)
      /\ Range(run[s].todo) = {h} \cup Range(Tail(run[s].todo))
  <2> DEFINE q == run[s].todo
  <2>1. q \in Seq(Withdrawals) /\ q # <<>>
    BY <1>1, <1>3
  <2>. HIDE DEF q
  <2>2. /\ Head(q) \in Withdrawals /\ Tail(q) \in Seq(Withdrawals)
        /\ Len(q) \in Nat /\ Len(Tail(q)) = Len(q) - 1 /\ Head(q) = q[1] /\ 1 \in 1..Len(q)
        /\ \A i \in 1..Len(Tail(q)) : Tail(q)[i] = q[i + 1] /\ i + 1 \in 1..Len(q)
    BY <2>1
  <2>3. \A i \in 1..Len(q) : i = 1 \/ (i - 1 \in 1..Len(Tail(q)) /\ Tail(q)[i - 1] = q[i])
    BY <2>1, <2>2
  <2>4. \A y : y \in Range(q) <=> \E i \in 1..Len(q) : q[i] = y
    BY <2>1 DEF Range
  <2> DEFINE tl == Tail(q)
  <2>5. \A y : y \in Range(tl) <=> \E i \in 1..Len(tl) : tl[i] = y
    <3>1. tl \in Seq(Withdrawals)
      BY <2>2
    <3>. HIDE DEF tl
    <3>. QED
      BY <3>1 DEF Range
  <2>6. ASSUME NEW y
        PROVE  y \in Range(q) <=> y = Head(q) \/ y \in Range(tl)
    BY <2>2, <2>3, <2>4, <2>5
  <2>7. Range(q) = {Head(q)} \cup Range(Tail(q))
    BY <2>6
  <2>. QED
    BY <1>0, <2>2, <2>7 DEF q
<1>5. /\ rs \in Runs /\ rs.kind = run[s].kind /\ rs.late = run[s].late
      /\ rs.todo = Tail(run[s].todo) /\ rs.missed = run[s].missed \ {h}
      /\ rs.kind # "none"
  BY <1>1, <1>4, RunTyped DEF Runs, Between
<1>6. \A t \in Slots :
        /\ ro(t) \in Runs /\ ro(t).kind = run[t].kind /\ ro(t).late = run[t].late
        /\ ro(t).todo = run[t].todo /\ ro(t).missed = run[t].missed \ {h}
        /\ run[t] = NoRun => ro(t) = NoRun
  BY RunTyped DEF Runs, NoRun
<1>. HIDE DEF rs, ro
<1>7. /\ run' \in [Slots -> Runs]
      /\ run'[s] = rs /\ \A t \in Slots : t # s => run'[t] = ro(t)
  BY <1>1, <1>5, <1>6
<1>8. \A t \in Slots : /\ run'[t].kind = run[t].kind /\ run'[t].late = run[t].late
                       /\ run'[t].missed = run[t].missed \ {h}
                       /\ Range(run[t].todo) \subseteq {h} \cup Range(run'[t].todo)
                       /\ run[t] = NoRun => run'[t] = NoRun
  <2>. TAKE t \in Slots
  <2>1. CASE t = s
    <3>1. run[s] # NoRun
      BY <1>1 DEF Between, NoRun
    <3>. QED
      BY <1>4, <1>5, <1>7, <2>1, <3>1
  <2>2. CASE t # s
    BY <1>6, <1>7, <2>2
  <2>. QED
    BY <2>1, <2>2
<1>9. /\ QueuesOK'
      /\ Open' = Open
      /\ \A x \in Open : x # h => Ahead(x)' \subseteq Ahead(x) \ {h}
      /\ h \in Open => Ahead(h)' \subseteq Open \ {h}
  <2>1. CASE h \in Open
    <3>1. Rotate(h)
      BY <1>1
    <3>. QED
      BY <1>2, <2>1, <3>1, MoveToBack
  <2>2. CASE h \notin Open
    <3>1. UNCHANGED <<fresh, checked>>
      BY <1>1, <2>2 DEF Rotate
    <3>2. Open' = Open /\ Order' = Order /\ \A x : Ahead(x)' = Ahead(x)
      BY <3>1, Unchanged
    <3>3. QueuesOK'
      BY <1>2, <3>1, <3>2 DEF QueuesOK
    <3>4. \A x : h \notin Ahead(x)
      BY <1>2, <2>2, OrderFacts
    <3>. QED
      BY <2>2, <3>2, <3>3, <3>4
  <2>. QED
    BY <2>1, <2>2
<1>10. Waiting(Len(Order)) \in [passes : Nat, room : Nat]
  BY <1>2 DEF Waiting
<1>11. /\ wait' \in [Withdrawals -> [passes : Nat, room : Nat]]
       /\ \A x \in Withdrawals : x # h => wait'[x] = wait[x]
       /\ h \in Open => wait'[h].passes = 0 /\ wait'[h].room = Len(Order)
  BY <1>1, <1>2, <1>4, <1>10 DEF Waiting
<1>12. BacklogTypeOK'
  <2>1. \A t \in Slots : lock' = t <=> run'[t].kind \in {"locked", "scheduled"} /\ ~run'[t].late
    BY <1>1, <1>8, RunTyped
  <2>2. Range(fresh' \o checked') \subseteq claimed' /\ claimed' \subseteq Withdrawals
    BY <1>1, <1>2, <1>9 DEF Open, Order
  <2>. QED
    BY <1>7, <1>9, <1>11, <2>1, <2>2 DEF BacklogTypeOK, QueuesOK, Order
<1>13. RunsInv'
  BY <1>1, <1>8 DEF SchedulerIInv, RunsInv, Free
<1>14. ASSUME NEW x \in Open'
       PROVE  Cardinality(Ahead(x)') + wait'[x].passes * Batch < wait'[x].room
  <2>1. CASE x # h
    <3>1. x \in Open /\ Ahead(x)' \subseteq Ahead(x) /\ wait'[x] = wait[x]
      BY <1>2, <1>9, <1>11, <1>14, <2>1
    <3>. QED
      BY <3>1, QueueKept
  <2>2. CASE x = h
    <3>1. h \in Open
      BY <1>9, <1>14, <2>2
    <3>2. IsFiniteSet(Open \ {h}) /\ Cardinality(Open \ {h}) = Len(Order) - 1
      BY <1>2, <3>1, FS_RemoveElement
    <3>3. Cardinality(Ahead(h)') \in Nat /\ Cardinality(Ahead(h)') <= Len(Order) - 1
      BY <1>9, <3>1, <3>2, CountSmaller
    <3>4. wait'[x].passes * Batch = 0 /\ wait'[x].room = Len(Order)
      BY <1>11, <2>2, <3>1, RoomUsed
    <3> DEFINE used == wait'[x].passes * Batch
    <3>. HIDE DEF used
    <3>5. Cardinality(Ahead(h)') + used < wait'[x].room
      BY <1>2, <3>3, <3>4 DEF used
    <3>. QED
      BY <2>2, <3>5 DEF used
  <2>. QED
    BY <2>1, <2>2
<1>15. ASSUME NEW t \in Slots, NEW x \in run'[t].missed \cap Open'
       PROVE  Cardinality(Ahead(x)' \ Range(run'[t].todo)) + (wait'[x].passes + 1) * Batch
                < wait'[x].room
  <2>1. x # h /\ x \in run[t].missed \cap Open /\ wait'[x] = wait[x]
    BY <1>2, <1>8, <1>9, <1>11, <1>15
  <2>2. Ahead(x)' \ Range(run'[t].todo) \subseteq Ahead(x) \ Range(run[t].todo)
    BY <1>8, <1>9, <2>1
  <2>. QED
    BY <2>1, <2>2, ProgressKept
<1>. QED
  BY <1>12, <1>13, <1>14, <1>15 DEF SchedulerIInv, QueueInv, ProgressInv

-------------------------------------------------------------------------------
(* The inductive invariant: the rows before an open row, and the passes that *)
(* missed it, fit into the room it was given when it was last examined.      *)
THEOREM SchedulerInvariance == SchedulerSpec => []SchedulerIInv
<1>1. SchedulerInit => SchedulerIInv
  <2>. SUFFICES ASSUME SchedulerInit
                PROVE  SchedulerIInv
    OBVIOUS
  <2>1. Order = <<>> /\ Open = {}
    BY DEF SchedulerInit, Order, Open, Range
  <2>2. \A s \in Slots : run[s] = NoRun /\ lock # s
    BY ReconcileAssumption DEF SchedulerInit
  <2>3. NoRun \in Runs
    BY DEF NoRun, Runs
  <2>4. run \in [Slots -> Runs]
    BY <2>3 DEF SchedulerInit
  <2>5. BacklogTypeOK
    <3>1. <<>> \in Seq(Withdrawals) /\ IsInjective(<<>>) /\ <<>> \o <<>> = <<>>
      BY DEF IsInjective
    <3>2. fresh = <<>> /\ checked = <<>>
      BY DEF SchedulerInit
    <3>3. wait \in [Withdrawals -> [passes : Nat, room : Nat]]
      BY DEF SchedulerInit
    <3>4. claimed = {} /\ Range(fresh \o checked) = {}
      BY <2>1 DEF SchedulerInit, Open, Order
    <3>. QED
      BY <2>2, <2>4, <3>1, <3>2, <3>3, <3>4 DEF BacklogTypeOK, NoRun
  <2>6. RunsInv
    <3>1. \A s \in Slots : run[s].missed = {}
      BY <2>2 DEF NoRun
    <3>. QED
      BY <2>2, <3>1 DEF RunsInv
  <2>7. QueueInv /\ ProgressInv
    BY <2>1 DEF QueueInv, ProgressInv
  <2>. QED
    BY <2>5, <2>6, <2>7 DEF SchedulerIInv
<1>2. ASSUME SchedulerIInv, [SchedulerNext]_schedulerVars
      PROVE  SchedulerIInv'
  <2>1. CASE UNCHANGED schedulerVars
    <3>1. UNCHANGED <<fresh, checked, claimed, wait>> /\ run' = run /\ lock' = lock
      BY <2>1 DEF schedulerVars
    <3>2. \A s \in Slots : MissesNoMore(s)
      BY <3>1 DEF MissesNoMore
    <3>3. /\ run' \in [Slots -> Runs]
          /\ \A s \in Slots :
               lock' = s <=> run'[s].kind \in {"locked", "scheduled"} /\ ~run'[s].late
      BY <1>2, <3>1, RunTyped
    <3>. QED
      BY <1>2, <3>1, <3>2, <3>3, QuietStepKeeps
  <2>. QED
    BY <1>2, <2>1, ClaimKeeps, ResolvedElsewhereKeeps, TickKeeps, SelectBatchKeeps,
       BeginRowKeeps, RowDoneKeeps, PassEndsKeeps, DeadlineKeeps, DiesKeeps, OwnerTapKeeps
       DEF SchedulerNext, PassStep
<1>. QED
  BY <1>1, <1>2, PTL DEF SchedulerSpec

(* The queues hold no row twice, and the lock is held by the tick that took *)
(* it and by no other, for any backlog, slots and batch.                    *)
THEOREM BacklogTypeCorrect == SchedulerSpec => []BacklogTypeOK
BY SchedulerInvariance, PTL DEF SchedulerIInv

(* Every completed scheduled pass that missed a row has examined Batch rows *)
(* that stood before it, so a row is missed by no more passes than its      *)
(* backlog has batches, whatever deadlines, taps and crashes come between.  *)
THEOREM NoPassIsWasted == SchedulerSpec => []CoveredByPasses
<1>1. SchedulerIInv => CoveredByPasses
  <2>. SUFFICES ASSUME SchedulerIInv, NEW h \in Open
                PROVE  wait[h].passes * Batch < wait[h].room
    BY DEF CoveredByPasses
  <2>1. /\ Cardinality(Ahead(h)) \in Nat
        /\ wait[h].passes \in Nat /\ wait[h].room \in Nat
    BY WaitTyped, AheadFinite, CountSmaller DEF SchedulerIInv
  <2>2. Cardinality(Ahead(h)) + wait[h].passes * Batch < wait[h].room
    BY DEF SchedulerIInv, QueueInv
  <2>3. wait[h].passes * Batch \in Nat
    BY <2>1, RoomUsed
  <2>. QED
    BY <2>1, <2>2, <2>3
<1>. QED
  BY <1>1, SchedulerInvariance, PTL
===============================================================================
