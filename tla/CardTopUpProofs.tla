--------------------------- MODULE CardTopUpProofs ---------------------------
(***************************************************************************)
(* Theorems of CardTopUp, for every number of cards, invoices and           *)
(* concurrent processors.  The claim is a lock on the pending row: the      *)
(* inductive invariant says that the processors in Holding are each alone   *)
(* with their row, that nobody can claim it meanwhile, and what each step   *)
(* of the holder knows of the credit and of the transfer.                   *)
(***************************************************************************)
EXTENDS CardTopUp, SumTheorems

USE CardTopUpAssumption

Untouched(h) == h \notin credited /\ transfer[h] \in {"none", "failed"}

(* What the holder of a claim on h knows at a step of it. *)
HolderKnows(h, step) ==
    /\ pending[h].st \in {"processed", "deleted"}
    /\ h \notin credited
    /\ step \in {"claimed", "checked", "releasing"} => Untouched(h)
    /\ step \in {"checked", "transferring", "moved"} => IsUsd(h)
    /\ step = "moved" => transfer[h] = "moved"
    /\ step = "crediting" => IF IsUsd(h) THEN transfer[h] = "moved" ELSE Untouched(h)

(* What a processor knows at its step. *)
Knows(w) == work[w].pc # "idle" =>
    /\ HashOf(w) \in Hashes
    /\ pending[HashOf(w)].st # "none"
    /\ work[w].pc \notin {"found", "carded"} => invoice[HashOf(w)].st = "paid"
    /\ work[w].pc \in Holding => HolderKnows(HashOf(w), work[w].pc)

RowFits(h) ==
    /\ invoice[h].st # "none" => CardOf(h) \in Cards
    /\ pending[h].st # "none" => invoice[h].st \in {"open", "paid", "failed"}
    /\ h \in credited => invoice[h].st = "paid"
    /\ pending[h].st \in {"none", "open"} => Untouched(h)
    /\ moves[h] = IF transfer[h] = "moved" THEN 1 ELSE 0

WorkersInv == \A w \in Workers : Knows(w)
RowsInv == \A h \in Hashes : RowFits(h)
OneHolder == \A v, w \in Workers :
    work[v].pc \in Holding /\ work[w].pc \in Holding /\ HashOf(v) = HashOf(w) => v = w

IInv == TypeOK /\ WorkersInv /\ RowsInv /\ OneHolder

-------------------------------------------------------------------------------
(* The effect of a step of processor w on the processors. *)

Moves(w, step) ==
    /\ work' \in [Workers -> WorkRecords]
    /\ work'[w].pc = step
    /\ step \notin {"idle", "found"} => work'[w].hash = work[w].hash
    /\ \A v \in Workers \ {w} : work'[v] = work[v]

LEMMA GotoMoves ==
  ASSUME TypeOK, NEW w \in Workers, NEW step \in Steps, Goto(w, step)
  PROVE  Moves(w, step)
<1>1. work \in [Workers -> WorkRecords]
  BY DEF TypeOK, WorkRecords
<1>2. work' = [work EXCEPT ![w] = [work[w] EXCEPT !.pc = step]]
  BY DEF Goto
<1>3. [work[w] EXCEPT !.pc = step] \in WorkRecords
  BY <1>1 DEF WorkRecords
<1>4. /\ [work[w] EXCEPT !.pc = step].pc = step
      /\ [work[w] EXCEPT !.pc = step].hash = work[w].hash
  BY <1>1 DEF WorkRecords
<1>. QED
  BY <1>1, <1>2, <1>3, <1>4 DEF Moves

LEMMA ReturnMoves ==
  ASSUME TypeOK, NEW w \in Workers, Return(w)
  PROVE  Moves(w, "idle")
BY DEF TypeOK, Return, Moves, WorkRecords, IdleWorker, Steps

(* A step that moves a processor and leaves rows, credits and transfers     *)
(* alone keeps the invariant if the processor knows what its new step needs *)
(* and does not become a holder.                                            *)
LEMMA QuietStep ==
  ASSUME IInv, TypeOK', NEW w \in Workers, NEW step, Moves(w, step), Knows(w)',
         UNCHANGED <<credited, invoice, pending, transfer, moves>>,
         step \in Holding => work[w].pc \in Holding
  PROVE  IInv'
<1>1. WorkersInv'
  <2>. SUFFICES ASSUME NEW v \in Workers, v # w
                PROVE  Knows(v)'
    BY DEF WorkersInv
  <2>1. work'[v] = work[v]
    BY DEF Moves
  <2>2. Knows(v)
    BY DEF IInv, WorkersInv
  <2>. QED
    BY <2>1, <2>2 DEF Knows, HolderKnows, HashOf, Untouched, IsUsd, CardOf
<1>2. RowsInv'
  BY DEF IInv, RowsInv, RowFits, Untouched, CardOf
<1>3. OneHolder'
  <2>1. \A v \in Workers : work'[v].pc \in Holding =>
           work[v].pc \in Holding /\ work'[v].hash = work[v].hash
    BY DEF Moves, Holding
  <2>. QED
    BY <2>1 DEF IInv, OneHolder, HashOf
<1>. QED
  BY <1>1, <1>2, <1>3 DEF IInv

(* A step of processor w on its own row, card and transfer: the other       *)
(* holders work on other rows, so what they know stays.                     *)
LEMMA OwnStep ==
  ASSUME IInv, TypeOK', NEW w \in Workers, NEW step, Moves(w, step), Knows(w)',
         NEW h \in Hashes, h = HashOf(w), UNCHANGED invoice,
         RowFits(h)', pending'[h].st # "none",
         \A g \in Hashes \ {h} :
             /\ pending'[g] = pending[g]
             /\ g \in credited' <=> g \in credited
             /\ transfer'[g] = transfer[g] /\ moves'[g] = moves[g],
         \A v \in Workers \ {w} : ~(work[v].pc \in Holding /\ HashOf(v) = h)
  PROVE  IInv'
<1>1. WorkersInv'
  <2>. SUFFICES ASSUME NEW v \in Workers, v # w
                PROVE  Knows(v)'
    BY DEF WorkersInv
  <2>1. work'[v] = work[v]
    BY DEF Moves
  <2>2. Knows(v)
    BY DEF IInv, WorkersInv
  <2>3. CASE HashOf(v) = h
    BY <2>1, <2>2, <2>3 DEF Knows, HashOf
  <2>4. CASE HashOf(v) # h
    BY <2>1, <2>2, <2>4 DEF Knows, HolderKnows, HashOf, Untouched, IsUsd, CardOf
  <2>. QED
    BY <2>3, <2>4
<1>2. RowsInv'
  <2>. SUFFICES ASSUME NEW g \in Hashes, g # h
                PROVE  RowFits(g)'
    BY DEF RowsInv
  <2>1. RowFits(g)
    BY DEF IInv, RowsInv
  <2>. QED
    BY <2>1 DEF RowFits, Untouched, CardOf
<1>3. OneHolder'
  <2>1. \A v \in Workers \ {w} : work'[v] = work[v]
    BY DEF Moves
  <2>2. work'[w].pc \in Holding => work'[w].hash = h
    BY DEF Moves, Holding, HashOf
  <2>. QED
    BY <2>1, <2>2 DEF IInv, OneHolder, HashOf, Moves
<1>. QED
  BY <1>1, <1>2, <1>3 DEF IInv


-------------------------------------------------------------------------------
(* Type correctness. *)

LEMMA MovesTyped ==
  ASSUME TypeOK, NEW w \in Workers, NEW step, Moves(w, step),
         UNCHANGED <<cardVars, invoice, pending, usdVars>>
  PROVE  TypeOK'
BY DEF TypeOK, Moves, WorkRecords, cardVars, usdVars

(* The pending row of h becomes r. *)
PutRow(h, r) ==
    /\ pending' = [pending EXCEPT ![h] = r]
    /\ r \in PendingRows
    /\ r.st \in {"none", "deleted"} => ~r.expired /\ ~r.review

LEMMA RowTyped ==
  ASSUME TypeOK, work' \in [Workers -> WorkRecords], NEW h \in Hashes, NEW r, PutRow(h, r),
         UNCHANGED <<cardVars, invoice, usdVars>>
  PROVE  TypeOK'
<1>1. pending' \in [Hashes -> PendingRows]
  BY DEF TypeOK, PutRow
<1>2. \A g \in Hashes : pending'[g].st \in {"none", "deleted"} =>
        ~pending'[g].expired /\ ~pending'[g].review
  BY DEF TypeOK, PutRow
<1>. QED
  BY <1>1, <1>2 DEF TypeOK, cardVars, usdVars

(* Rows change by one field: to processed, to expired, flagged, released.   *)
LEMMA FieldRow ==
  ASSUME TypeOK, NEW h \in Hashes
  PROVE  /\ Processed(h) => PutRow(h, [pending[h] EXCEPT !.st = "processed"])
         /\ Flag(h) => PutRow(h, [pending[h] EXCEPT !.review = TRUE]) \/ UNCHANGED pending
<1>1. pending \in [Hashes -> PendingRows] /\ pending[h] \in PendingRows
  BY DEF TypeOK
<1>2. [pending[h] EXCEPT !.st = "processed"] \in PendingRows
  BY <1>1 DEF PendingRows, RowStates
<1>3. [pending[h] EXCEPT !.review = TRUE] \in PendingRows
  BY <1>1 DEF PendingRows
<1>4. [pending[h] EXCEPT !.st = "processed"].st = "processed"
  BY <1>1 DEF PendingRows
<1>5. [pending[h] EXCEPT !.review = TRUE].st = pending[h].st
  BY <1>1 DEF PendingRows
<1>. QED
  BY <1>1, <1>2, <1>3, <1>4, <1>5 DEF Processed, Flag, HasRow, PutRow

LEMMA InvoiceTyped ==
  ASSUME TypeOK, InvoiceNext
  PROVE  TypeOK'
<1>. USE DEF TypeOK, cardVars, usdVars
<1>1. ASSUME NEW h \in Hashes, NEW c \in Cards, CreateInvoice(h, c)
      PROVE  TypeOK'
  <2>1. invoice' \in [Hashes -> Invoices]
    BY <1>1 DEF CreateInvoice, Invoices, InvoiceStates
  <2>. QED
    BY <1>1, <2>1 DEF CreateInvoice
<1>2. ASSUME NEW h \in Hashes, StorePendingTopUp(h)
      PROVE  TypeOK'
  <2>1. [invoice[h] EXCEPT !.st = "open"] \in Invoices
    BY DEF Invoices, InvoiceStates
  <2>2. [pending[h] EXCEPT !.st = "open"] \in PendingRows
    BY DEF PendingRows, RowStates
  <2>3. [pending[h] EXCEPT !.st = "open"].st = "open"
    BY DEF PendingRows
  <2>4. invoice' \in [Hashes -> Invoices]
    BY <1>2, <2>1 DEF StorePendingTopUp
  <2>5. pending' \in [Hashes -> PendingRows]
    BY <1>2, <2>2 DEF StorePendingTopUp
  <2>6. \A g \in Hashes : pending'[g].st \in {"none", "deleted"} =>
          ~pending'[g].expired /\ ~pending'[g].review
    BY <1>2, <2>2, <2>3 DEF StorePendingTopUp
  <2>. QED
    BY <1>2, <2>4, <2>5, <2>6 DEF StorePendingTopUp
<1>3. ASSUME NEW h \in Hashes, RowExpires(h)
      PROVE  TypeOK'
  <2>0. pending[h] \in PendingRows
    OBVIOUS
  <2>1. [pending[h] EXCEPT !.expired = TRUE] \in PendingRows
    BY <2>0 DEF PendingRows
  <2>2. [pending[h] EXCEPT !.expired = TRUE].st = pending[h].st
    BY DEF PendingRows
  <2>. QED
    BY <1>3, <2>1, <2>2 DEF RowExpires, HasRow
<1>4. ASSUME NEW h \in Hashes, NEW s \in InvoiceStates, InvoiceEnds(h, s)
      PROVE  TypeOK'
  <2>1. [invoice[h] EXCEPT !.st = s] \in Invoices
    BY DEF Invoices
  <2>. QED
    BY <1>4, <2>1 DEF InvoiceEnds
<1>5. ASSUME NEW h \in Hashes, CloseFailedInvoice(h)
      PROVE  TypeOK'
  <2>1. [pending[h] EXCEPT !.st = "processed"] \in PendingRows
    BY DEF PendingRows, RowStates
  <2>2. [pending[h] EXCEPT !.st = "processed"].st = "processed"
    BY DEF PendingRows
  <2>. QED
    BY <1>5, <2>1, <2>2 DEF CloseFailedInvoice
<1>6. ASSUME NEW h \in Hashes, NEW s \in {"moved", "failed"}, TransferExecutes(h, s)
      PROVE  TypeOK'
  BY <1>6 DEF TransferExecutes
<1>. QED
  BY <1>1, <1>2, <1>3, <1>4, <1>5, <1>6 DEF InvoiceNext

LEMMA OwnerTyped ==
  ASSUME TypeOK, OwnerNext
  PROVE  TypeOK'
<1>. USE DEF TypeOK, cardVars, usdVars
<1>1. ASSUME NEW c \in Cards, NEW from, NEW to \in Statuses, SetStatus(c, from, to)
      PROVE  TypeOK'
  BY <1>1 DEF SetStatus
<1>2. ASSUME NEW c \in Cards, DeleteWipedCard(c)
      PROVE  TypeOK'
  <2>1. pending' \in [Hashes -> PendingRows]
    BY <1>2 DEF DeleteWipedCard, NoRow, PendingRows, RowStates
  <2>2. \A g \in Hashes : pending'[g].st \in {"none", "deleted"} =>
          ~pending'[g].expired /\ ~pending'[g].review
    BY <1>2 DEF DeleteWipedCard, NoRow
  <2>. QED
    BY <1>2, <2>1, <2>2 DEF DeleteWipedCard, Statuses
<1>. QED
  BY <1>1, <1>2 DEF OwnerNext, OwnerActivates, DisableCard, WipeCard, Statuses


-------------------------------------------------------------------------------
(* The invariant is inductive: the payer, Blink and the owner. *)

(* Only flags, expiry, card statuses or balances change. *)
LEMMA SameRows ==
  ASSUME IInv, TypeOK', \A h \in Hashes : pending'[h].st = pending[h].st,
         UNCHANGED <<invoice, credited, transfer, moves, work>>
  PROVE  IInv'
<1>1. WorkersInv'
  BY DEF IInv, WorkersInv, Knows, HolderKnows, HashOf, Untouched, IsUsd, CardOf
<1>2. RowsInv'
  BY DEF IInv, RowsInv, RowFits, Untouched, CardOf
<1>. QED
  BY <1>1, <1>2 DEF IInv, OneHolder, HashOf

LEMMA InvoicePreserves ==
  ASSUME IInv, InvoiceNext
  PROVE  IInv'
<1>. USE DEF cardVars, usdVars
<1>0. TypeOK'
  BY InvoiceTyped DEF IInv
<1>1. ASSUME NEW h \in Hashes, NEW c \in Cards, CreateInvoice(h, c)
      PROVE  IInv'
  <2>1. /\ \A g \in Hashes \ {h} : invoice'[g] = invoice[g]
        /\ invoice'[h].st = "created" /\ invoice'[h].card = c
    BY <1>1 DEF IInv, TypeOK, CreateInvoice
  <2>2. invoice[h].st = "none" /\ pending[h].st = "none"
    BY <1>1 DEF IInv, RowsInv, RowFits, CreateInvoice
  <2>3. UNCHANGED <<pending, credited, transfer, moves, work>>
    BY <1>1 DEF CreateInvoice
  <2>4. WorkersInv'
    BY <2>1, <2>2, <2>3 DEF IInv, WorkersInv, Knows, HolderKnows, HashOf, Untouched, IsUsd, CardOf
  <2>5. RowsInv'
    <3>. SUFFICES ASSUME NEW g \in Hashes PROVE RowFits(g)'
      BY DEF RowsInv
    <3>1. RowFits(g)
      BY DEF IInv, RowsInv
    <3>2. CASE g = h
      BY <2>1, <2>2, <2>3, <3>1, <3>2 DEF RowFits, Untouched, CardOf
    <3>3. CASE g # h
      BY <2>1, <2>3, <3>1, <3>3 DEF RowFits, Untouched, CardOf
    <3>. QED
      BY <3>2, <3>3
  <2>. QED
    BY <1>0, <2>3, <2>4, <2>5 DEF IInv, OneHolder, HashOf
<1>2. ASSUME NEW h \in Hashes, StorePendingTopUp(h)
      PROVE  IInv'
  <2>1. /\ \A g \in Hashes \ {h} : invoice'[g] = invoice[g] /\ pending'[g] = pending[g]
        /\ invoice'[h].st = "open" /\ invoice'[h].card = invoice[h].card
        /\ pending'[h].st = "open"
    BY <1>2 DEF IInv, TypeOK, StorePendingTopUp, Invoices, PendingRows
  <2>2. UNCHANGED <<credited, transfer, moves, work>>
    BY <1>2 DEF StorePendingTopUp
  <2>3. invoice[h].st = "created" /\ pending[h].st = "none"
    BY <1>2 DEF IInv, RowsInv, RowFits, StorePendingTopUp
  <2>4. WorkersInv'
    BY <2>1, <2>2, <2>3 DEF IInv, WorkersInv, Knows, HolderKnows, HashOf, Untouched, IsUsd, CardOf
  <2>5. RowsInv'
    <3>. SUFFICES ASSUME NEW g \in Hashes PROVE RowFits(g)'
      BY DEF RowsInv
    <3>1. RowFits(g)
      BY DEF IInv, RowsInv
    <3>2. CASE g = h
      BY <2>1, <2>2, <2>3, <3>1, <3>2 DEF RowFits, Untouched, CardOf
    <3>3. CASE g # h
      BY <2>1, <2>2, <3>1, <3>3 DEF RowFits, Untouched, CardOf
    <3>. QED
      BY <3>2, <3>3
  <2>. QED
    BY <1>0, <2>2, <2>4, <2>5 DEF IInv, OneHolder, HashOf
<1>3. ASSUME NEW h \in Hashes, RowExpires(h)
      PROVE  IInv'
  <2>1. \A g \in Hashes : pending'[g].st = pending[g].st
    BY <1>3 DEF IInv, TypeOK, RowExpires, PendingRows
  <2>2. UNCHANGED <<invoice, credited, transfer, moves, work>>
    BY <1>3 DEF RowExpires
  <2>. QED
    BY <1>0, <2>1, <2>2, SameRows
<1>4. ASSUME NEW h \in Hashes, NEW s \in InvoiceStates, InvoiceEnds(h, s)
      PROVE  IInv'
  <2>1. /\ \A g \in Hashes \ {h} : invoice'[g] = invoice[g]
        /\ invoice'[h].st = s /\ invoice'[h].card = invoice[h].card
    BY <1>4 DEF IInv, TypeOK, InvoiceEnds, Invoices
  <2>2. invoice[h].st = "open" /\ s \in {"paid", "failed"}
    BY <1>4 DEF InvoiceEnds
  <2>3. UNCHANGED <<pending, credited, transfer, moves, work>>
    BY <1>4 DEF InvoiceEnds
  <2>4. WorkersInv'
    BY <2>1, <2>2, <2>3 DEF IInv, WorkersInv, Knows, HolderKnows, HashOf, Untouched, IsUsd, CardOf
  <2>5. RowsInv'
    BY <2>1, <2>2, <2>3 DEF IInv, RowsInv, RowFits, Untouched, CardOf
  <2>. QED
    BY <1>0, <2>3, <2>4, <2>5 DEF IInv, OneHolder, HashOf
<1>5. ASSUME NEW h \in Hashes, CloseFailedInvoice(h)
      PROVE  IInv'
  <2>1. /\ \A g \in Hashes \ {h} : pending'[g] = pending[g]
        /\ pending[h].st = "open" /\ pending'[h].st = "processed"
    BY <1>5 DEF IInv, TypeOK, CloseFailedInvoice, PendingRows
  <2>2. UNCHANGED <<invoice, credited, transfer, moves, work>>
    BY <1>5 DEF CloseFailedInvoice
  <2>3. WorkersInv'
    BY <2>1, <2>2 DEF IInv, WorkersInv, Knows, HolderKnows, HashOf, Untouched, IsUsd, CardOf
  <2>4. RowsInv'
    BY <2>1, <2>2 DEF IInv, RowsInv, RowFits, Untouched, CardOf
  <2>. QED
    BY <1>0, <2>2, <2>3, <2>4 DEF IInv, OneHolder, HashOf
<1>6. ASSUME NEW h \in Hashes, NEW s \in {"moved", "failed"}, TransferExecutes(h, s)
      PROVE  IInv'
  <2>1. /\ \A g \in Hashes \ {h} : transfer'[g] = transfer[g] /\ moves'[g] = moves[g]
        /\ transfer[h] = "wire" /\ transfer'[h] = s
        /\ moves'[h] = moves[h] + (IF s = "moved" THEN 1 ELSE 0)
    BY <1>6 DEF IInv, TypeOK, TransferExecutes
  <2>2. UNCHANGED <<invoice, pending, credited, work>>
    BY <1>6 DEF TransferExecutes
  <2>3. WorkersInv'
    BY <2>1, <2>2 DEF IInv, WorkersInv, Knows, HolderKnows, HashOf, Untouched, IsUsd, CardOf
  <2>4. RowsInv'
    BY <2>1, <2>2 DEF IInv, RowsInv, RowFits, Untouched, CardOf
  <2>. QED
    BY <1>0, <2>2, <2>3, <2>4 DEF IInv, OneHolder, HashOf
<1>. QED
  BY <1>1, <1>2, <1>3, <1>4, <1>5, <1>6 DEF InvoiceNext

LEMMA OwnerPreserves ==
  ASSUME IInv, OwnerNext
  PROVE  IInv'
<1>. USE DEF cardVars, usdVars
<1>0. TypeOK'
  BY OwnerTyped DEF IInv
<1>1. ASSUME NEW c \in Cards, NEW from, NEW to, SetStatus(c, from, to)
      PROVE  IInv'
  BY <1>0, <1>1, SameRows DEF SetStatus
<1>2. ASSUME NEW c \in Cards, DeleteWipedCard(c)
      PROVE  IInv'
  <2>1. \A h \in Hashes :
           \/ pending'[h].st = pending[h].st
           \/ pending[h].st \in {"open", "processed"} /\ pending'[h].st = "deleted"
    BY <1>2 DEF DeleteWipedCard, NoRow, HasRow
  <2>2. UNCHANGED <<invoice, credited, transfer, moves, work>>
    BY <1>2 DEF DeleteWipedCard
  <2>3. WorkersInv'
    BY <2>1, <2>2 DEF IInv, WorkersInv, Knows, HolderKnows, HashOf, Untouched, IsUsd, CardOf
  <2>4. RowsInv'
    BY <2>1, <2>2 DEF IInv, RowsInv, RowFits, Untouched, CardOf
  <2>. QED
    BY <1>0, <2>2, <2>3, <2>4 DEF IInv, OneHolder, HashOf
<1>. QED
  BY <1>1, <1>2 DEF OwnerNext, OwnerActivates, DisableCard, WipeCard


-------------------------------------------------------------------------------
(* The invariant is inductive: processTopUpPayment. *)

LEMMA QuietGoto ==
  ASSUME IInv, NEW w \in Workers, NEW step \in Steps \ {"idle", "found"}, Goto(w, step),
         work[w].pc # "idle",
         UNCHANGED <<cardVars, invoice, pending, usdVars>>,
         step \notin {"found", "carded"} => invoice[HashOf(w)].st = "paid",
         step \in Holding => work[w].pc \in Holding /\ HolderKnows(HashOf(w), step)
  PROVE  IInv'
<1>1. Moves(w, step)
  BY GotoMoves DEF IInv
<1>2. TypeOK'
  BY <1>1, MovesTyped DEF IInv
<1>3. Knows(w) /\ work'[w].pc = step /\ work'[w].hash = work[w].hash
  BY <1>1 DEF IInv, WorkersInv, Moves
<1>4. Knows(w)'
  BY <1>3 DEF Knows, HolderKnows, HashOf, Untouched, IsUsd, CardOf, cardVars, usdVars
<1>. QED
  BY <1>1, <1>2, <1>4, QuietStep DEF cardVars, usdVars

LEMMA QuietReturn ==
  ASSUME IInv, NEW w \in Workers, Return(w), UNCHANGED <<cardVars, invoice, pending, usdVars>>
  PROVE  IInv'
<1>1. Moves(w, "idle")
  BY ReturnMoves DEF IInv
<1>2. TypeOK'
  BY <1>1, MovesTyped DEF IInv
<1>3. Knows(w)'
  BY <1>1 DEF Knows, Moves
<1>. QED
  BY <1>1, <1>2, <1>3, QuietStep DEF cardVars, usdVars, Holding

(* The steps that read, answer or give up. *)
LEMMA QuietPreserves ==
  ASSUME IInv, NEW w \in Workers,
         \/ VerifyReceipt(w) \/ LookForCredit(w) \/ IsTopUpCredited(w)
         \/ TransferAnswered(w) \/ GetRate(w) \/ CreditRefused(w) \/ Abort(w)
  PROVE  IInv'
<1>. DEFINE h == HashOf(w)
<1>0. Knows(w)
  BY DEF IInv, WorkersInv
<1>1. CASE VerifyReceipt(w)
  <2>1. CASE Received(h)
    BY <1>1, <2>1, QuietGoto DEF VerifyReceipt, At, Received, Steps, Holding
  <2>2. CASE ~Received(h)
    BY <1>1, <2>2, QuietReturn DEF VerifyReceipt
  <2>. QED
    BY <2>1, <2>2
<1>2. CASE LookForCredit(w)
  <2>1. CASE Return(w)
    BY <1>2, <2>1, QuietReturn DEF LookForCredit
  <2>2. CASE Goto(w, "flagging")
    BY <1>0, <1>2, <2>2, QuietGoto DEF LookForCredit, At, Steps, Holding, Knows
  <2>. QED
    BY <1>2, <2>1, <2>2 DEF LookForCredit
<1>3. CASE IsTopUpCredited(w)
  <2>1. CASE Return(w)
    BY <1>3, <2>1, QuietReturn DEF IsTopUpCredited
  <2>2. CASE Goto(w, "reviewing")
    BY <1>0, <1>3, <2>2, QuietGoto DEF IsTopUpCredited, At, Steps, Holding, Knows
  <2>3. CASE IsUsd(h) /\ Goto(w, "checked")
    BY <1>0, <1>3, <2>3, QuietGoto DEF IsTopUpCredited, At, Steps, Holding, Knows, HolderKnows
  <2>4. CASE ~IsUsd(h) /\ Goto(w, "crediting")
    BY <1>0, <1>3, <2>4, QuietGoto DEF IsTopUpCredited, At, Steps, Holding, Knows, HolderKnows
  <2>. QED
    BY <1>3, <2>1, <2>2, <2>3, <2>4 DEF IsTopUpCredited
<1>4. CASE TransferAnswered(w)
  <2>1. CASE Goto(w, "reviewing")
    BY <1>0, <1>4, <2>1, QuietGoto DEF TransferAnswered, At, Steps, Holding, Knows
  <2>2. CASE transfer[h] = "moved" /\ Goto(w, "moved")
    BY <1>0, <1>4, <2>2, QuietGoto DEF TransferAnswered, At, Steps, Holding, Knows, HolderKnows
  <2>3. CASE transfer[h] = "failed" /\ Goto(w, "releasing")
    BY <1>0, <1>4, <2>3, QuietGoto
       DEF TransferAnswered, At, Steps, Holding, Knows, HolderKnows, Untouched
  <2>4. PICK step \in AfterTransfer(h) : Goto(w, step)
    BY <1>4 DEF TransferAnswered
  <2>5. \/ step = "reviewing"
        \/ transfer[h] = "moved" /\ step = "moved"
        \/ transfer[h] = "failed" /\ step = "releasing"
    BY <2>4 DEF AfterTransfer
  <2>. QED
    BY <2>1, <2>2, <2>3, <2>4, <2>5
<1>5. CASE GetRate(w)
  <2>1. CASE Goto(w, "reviewing")
    BY <1>0, <1>5, <2>1, QuietGoto DEF GetRate, At, Steps, Holding, Knows
  <2>2. CASE Goto(w, "crediting")
    BY <1>0, <1>5, <2>2, QuietGoto DEF GetRate, At, Steps, Holding, Knows, HolderKnows
  <2>. QED
    BY <1>5, <2>1, <2>2 DEF GetRate
<1>6. CASE CreditRefused(w)
  <2>1. CASE Goto(w, "reviewing")
    BY <1>0, <1>6, <2>1, QuietGoto DEF CreditRefused, At, Steps, Holding, Knows
  <2>2. CASE ~IsUsd(h) /\ Goto(w, "releasing")
    BY <1>0, <1>6, <2>2, QuietGoto DEF CreditRefused, At, Steps, Holding, Knows, HolderKnows
  <2>3. CASE Return(w)
    BY <1>6, <2>3, QuietReturn DEF CreditRefused
  <2>. QED
    BY <1>6, <2>1, <2>2, <2>3 DEF CreditRefused
<1>7. CASE Abort(w)
  BY <1>7, QuietReturn DEF Abort
<1>. QED
  BY <1>1, <1>2, <1>3, <1>4, <1>5, <1>6, <1>7


(* The steps that write the pending row, the transfer, the card or the      *)
(* credit, or start the run.                                                *)
LEMMA WritingPreserves ==
  ASSUME IInv, NEW w \in Workers,
         \/ \E h \in Hashes : FindPending(w, h)
         \/ ReadCard(w) \/ ActivateCard(w) \/ MarkTopUpProcessed(w) \/ ClaimOutcomeUnknown(w)
         \/ FlagForReview(w) \/ SendTransfer(w) \/ TopUpCard(w) \/ Release(w)
  PROVE  IInv'
<1>. SUFFICES ASSUME NEW h, h = HashOf(w) PROVE IInv'
  OBVIOUS
<1>. USE DEF cardVars, usdVars
<1>0. TypeOK /\ Knows(w)
  BY DEF IInv, WorkersInv
<1>1. ASSUME NEW g \in Hashes, FindPending(w, g)
      PROVE  IInv'
  <2>1. [pc |-> "found", hash |-> g, seen |-> "none"] \in WorkRecords
    BY DEF WorkRecords, Steps
  <2>2. Moves(w, "found") /\ work'[w].hash = g
    BY <1>0, <1>1, <2>1 DEF FindPending, Moves, TypeOK
  <2>3. TypeOK'
    BY <1>0, <1>1, <2>2, MovesTyped DEF FindPending
  <2>4. Knows(w)'
    BY <1>1, <2>2 DEF FindPending, Moves, Knows, HashOf, Holding
  <2>. QED
    BY <1>1, <2>2, <2>3, <2>4, QuietStep DEF FindPending, Holding
<1>2. CASE ReadCard(w)
  <2>1. CASE Return(w)
    BY <1>2, <2>1, QuietReturn DEF ReadCard
  <2>2. CASE ~Return(w)
    <3>. DEFINE c == status[CardOf(h)]
    <3>0. work[w] \in WorkRecords
      BY <1>0 DEF TypeOK
    <3>1. invoice[h].card \in Cards
      BY <1>0, <1>2 DEF IInv, RowsInv, RowFits, Knows, ReadCard, At, CardOf
    <3>2. c \in Statuses
      BY <1>0, <3>1 DEF TypeOK, CardOf
    <3>3. work' = [work EXCEPT ![w] = [work[w] EXCEPT !.pc = "carded", !.seen = c]]
      BY <1>2, <2>2 DEF ReadCard
    <3>4. /\ [work[w] EXCEPT !.pc = "carded", !.seen = c] \in WorkRecords
          /\ [work[w] EXCEPT !.pc = "carded", !.seen = c].pc = "carded"
          /\ [work[w] EXCEPT !.pc = "carded", !.seen = c].hash = work[w].hash
      BY <3>0, <3>2 DEF WorkRecords, Steps
    <3>5. Moves(w, "carded")
      BY <1>0, <3>3, <3>4 DEF Moves, TypeOK
    <3>6. TypeOK'
      BY <1>0, <1>2, <3>5, MovesTyped DEF ReadCard
    <3>7. Knows(w)'
      BY <1>0, <1>2, <3>5 DEF ReadCard, Moves, Knows, HashOf, Holding, At
    <3>. QED
      BY <1>2, <3>5, <3>6, <3>7, QuietStep DEF ReadCard, Holding
  <2>. QED
    BY <2>1, <2>2
<1>3. CASE ActivateCard(w)
  <2>1. CASE Return(w) /\ UNCHANGED status
    BY <1>3, <2>1, QuietReturn DEF ActivateCard
  <2>2. CASE Goto(w, "ready") /\ UNCHANGED status
    BY <1>0, <1>3, <2>2, QuietGoto DEF ActivateCard, At, Steps, Holding, Knows
  <2>3. CASE Goto(w, "ready") /\ status' = [status EXCEPT ![CardOf(h)] = "ACTIVE"]
    <3>1. Moves(w, "ready")
      BY <1>0, <2>3, GotoMoves DEF Steps
    <3>2. TypeOK'
      BY <1>0, <1>3, <2>3, <3>1 DEF ActivateCard, TypeOK, Moves, Statuses
    <3>3. Knows(w)'
      BY <1>0, <1>3, <3>1 DEF ActivateCard, At, Moves, Knows, HashOf, Holding
    <3>. QED
      BY <1>3, <3>1, <3>2, <3>3, QuietStep DEF ActivateCard, Holding
  <2>. QED
    BY <1>3, <2>1, <2>2, <2>3 DEF ActivateCard
<1>4. ASSUME NEW step \in {"claimed", "reviewing"}, Goto(w, step), At(w, "ready"),
             Claimable(h), Processed(h), UNCHANGED <<cardVars, invoice, usdVars>>
      PROVE  IInv'
  <2>1. Moves(w, step)
    BY <1>0, <1>4, GotoMoves DEF Steps
  <2>2. h \in Hashes /\ pending[h].st = "open" /\ invoice[h].st = "paid"
    BY <1>0, <1>4 DEF Knows, At, Claimable
  <2>3. PutRow(h, [pending[h] EXCEPT !.st = "processed"])
    BY <1>0, <1>4, <2>2, FieldRow
  <2>4. TypeOK'
    BY <1>0, <1>4, <2>1, <2>2, <2>3, RowTyped DEF Moves
  <2>5. /\ pending'[h].st = "processed"
        /\ \A g \in Hashes \ {h} : pending'[g] = pending[g]
    BY <1>0, <1>4, <2>2 DEF Processed, TypeOK, PendingRows
  <2>6. Untouched(h) /\ RowFits(h)
    BY <2>2 DEF IInv, RowsInv, RowFits
  <2>7. \A v \in Workers : ~(work[v].pc \in Holding /\ HashOf(v) = h)
    BY <2>2 DEF IInv, WorkersInv, Knows, HolderKnows, Holding
  <2>8. RowFits(h)'
    BY <1>4, <2>2, <2>5, <2>6 DEF RowFits, Untouched, CardOf
  <2>9. Knows(w)'
    BY <1>4, <2>1, <2>2, <2>5, <2>6
       DEF Moves, Knows, HolderKnows, HashOf, Untouched, IsUsd, CardOf
  <2>. QED
    BY <1>4, <2>1, <2>2, <2>4, <2>5, <2>7, <2>8, <2>9, OwnStep
<1>5. CASE MarkTopUpProcessed(w)
  <2>1. CASE Claimable(h)
    BY <1>4, <1>5, <2>1 DEF MarkTopUpProcessed
  <2>2. CASE ~Claimable(h)
    BY <1>0, <1>5, <2>2, QuietGoto DEF MarkTopUpProcessed, At, Steps, Holding, Knows
  <2>. QED
    BY <2>1, <2>2
<1>6. CASE ClaimOutcomeUnknown(w)
  <2>1. CASE UNCHANGED pending
    BY <1>0, <1>6, <2>1, QuietGoto DEF ClaimOutcomeUnknown, At, Steps, Holding, Knows
  <2>2. CASE Claimable(h) /\ Processed(h)
    BY <1>4, <1>6, <2>2 DEF ClaimOutcomeUnknown
  <2>. QED
    BY <1>6, <2>1, <2>2 DEF ClaimOutcomeUnknown
<1>7. CASE FlagForReview(w)
  <2>1. h \in Hashes
    BY <1>0, <1>7 DEF FlagForReview, Knows
  <2>2. CASE UNCHANGED pending
    BY <1>7, <2>2, QuietReturn DEF FlagForReview
  <2>3. CASE PutRow(h, [pending[h] EXCEPT !.review = TRUE])
    <3>1. Moves(w, "idle")
      BY <1>0, <1>7, ReturnMoves DEF FlagForReview
    <3>2. TypeOK'
      BY <1>0, <1>7, <2>1, <2>3, <3>1, RowTyped DEF FlagForReview, Moves
    <3>3. \A g \in Hashes : pending'[g].st = pending[g].st
      BY <1>0, <2>1, <2>3 DEF PutRow, TypeOK, PendingRows
    <3>4. WorkersInv'
      BY <1>7, <3>1, <3>3 DEF FlagForReview, Moves, IInv, WorkersInv, Knows, HolderKnows,
                              HashOf, Untouched, IsUsd, CardOf
    <3>5. RowsInv'
      BY <1>7, <3>3 DEF FlagForReview, IInv, RowsInv, RowFits, Untouched, CardOf
    <3>6. OneHolder'
      BY <3>1 DEF IInv, OneHolder, HashOf, Moves, Holding
    <3>. QED
      BY <3>2, <3>4, <3>5, <3>6 DEF IInv
  <2>. QED
    BY <1>0, <1>7, <2>1, <2>2, <2>3, FieldRow DEF FlagForReview
<1>8. CASE SendTransfer(w)
  <2>1. Moves(w, "transferring")
    BY <1>0, <1>8, GotoMoves DEF SendTransfer, Steps
  <2>2. h \in Hashes /\ RowFits(h) /\ work[w].pc = "checked" /\ HolderKnows(h, "checked")
        /\ invoice[h].st = "paid"
    BY <1>0, <1>8 DEF IInv, RowsInv, Knows, SendTransfer, At, Holding
  <2>3. /\ transfer'[h] = "wire" /\ \A g \in Hashes \ {h} : transfer'[g] = transfer[g]
        /\ transfer' \in [Hashes -> {"none", "wire", "moved", "failed"}]
    BY <1>0, <1>8, <2>2 DEF SendTransfer, TypeOK
  <2>4. TypeOK'
    BY <1>0, <1>8, <2>1, <2>3 DEF SendTransfer, TypeOK, Moves
  <2>5. \A v \in Workers \ {w} : ~(work[v].pc \in Holding /\ HashOf(v) = h)
    BY <2>2 DEF IInv, OneHolder, Holding
  <2>6. RowFits(h)'
    BY <1>8, <2>2, <2>3 DEF SendTransfer, RowFits, HolderKnows, Untouched, CardOf
  <2>7. Knows(w)'
    BY <1>8, <2>1, <2>2, <2>3
       DEF SendTransfer, Moves, Knows, HolderKnows, HashOf, Untouched, IsUsd, CardOf
  <2>8. pending'[h].st # "none"
    BY <1>8, <2>2 DEF SendTransfer, HolderKnows
  <2>. QED
    BY <1>8, <2>1, <2>2, <2>3, <2>4, <2>5, <2>6, <2>7, <2>8, OwnStep DEF SendTransfer
<1>9. CASE TopUpCard(w)
  <2>1. PICK step \in {"idle", "reviewing"} : Moves(w, step)
    BY <1>0, <1>9, GotoMoves, ReturnMoves DEF TopUpCard, Steps
  <2>2. h \in Hashes /\ RowFits(h) /\ HolderKnows(h, "crediting") /\ invoice[h].st = "paid"
        /\ work[w].pc = "crediting"
    BY <1>0, <1>9 DEF IInv, RowsInv, Knows, TopUpCard, At, Holding
  <2>3. credited' = credited \cup {h}
    BY <1>9 DEF TopUpCard, Credit, Recorded
  <2>4. TypeOK'
    <3>1. CardOf(h) \in Cards
      BY <2>2 DEF RowFits
    <3>2. balance' \in [Cards -> Nat]
      BY <1>0, <1>9, <2>2, <3>1 DEF TopUpCard, Credit, TypeOK
    <3>. QED
      BY <1>0, <1>9, <2>1, <2>2, <2>3, <3>2 DEF TopUpCard, TypeOK, Moves
  <2>5. \A v \in Workers \ {w} : ~(work[v].pc \in Holding /\ HashOf(v) = h)
    BY <2>2 DEF IInv, OneHolder, Holding
  <2>6. RowFits(h)'
    BY <1>9, <2>2, <2>3 DEF TopUpCard, RowFits, HolderKnows, Untouched, CardOf
  <2>7. Knows(w)'
    BY <1>0, <1>9, <2>1, <2>2 DEF TopUpCard, Moves, Knows, HolderKnows, HashOf, Holding
  <2>8. pending'[h].st # "none"
    BY <1>9, <2>2 DEF TopUpCard, HolderKnows
  <2>. QED
    BY <1>9, <2>1, <2>2, <2>3, <2>4, <2>5, <2>6, <2>7, <2>8, OwnStep DEF TopUpCard
<1>10. CASE Release(w)
  <2>1. CASE UNCHANGED pending
    BY <1>10, <2>1, QuietReturn DEF Release
  <2>2. CASE pending' = [pending EXCEPT ![h] = [@ EXCEPT !.st = "open", !.review = FALSE]]
    <3>1. Moves(w, "idle")
      BY <1>0, <1>10, ReturnMoves DEF Release
    <3>2. h \in Hashes /\ RowFits(h) /\ Untouched(h) /\ invoice[h].st = "paid"
          /\ work[w].pc = "releasing"
      BY <1>0, <1>10 DEF IInv, RowsInv, Knows, HolderKnows, Release, At, Holding
    <3>3. /\ [pending[h] EXCEPT !.st = "open", !.review = FALSE] \in PendingRows
          /\ [pending[h] EXCEPT !.st = "open", !.review = FALSE].st = "open"
      BY <1>0, <3>2 DEF TypeOK, PendingRows, RowStates
    <3>4. TypeOK'
      <4>1. PutRow(h, [pending[h] EXCEPT !.st = "open", !.review = FALSE])
        BY <2>2, <3>3 DEF PutRow
      <4>. QED
        BY <1>0, <1>10, <3>1, <3>2, <4>1, RowTyped DEF Release, Moves
    <3>5. /\ pending'[h].st = "open" /\ \A g \in Hashes \ {h} : pending'[g] = pending[g]
      BY <1>0, <2>2, <3>2, <3>3 DEF TypeOK
    <3>6. \A v \in Workers \ {w} : ~(work[v].pc \in Holding /\ HashOf(v) = h)
      BY <3>2 DEF IInv, OneHolder, Holding
    <3>7. RowFits(h)'
      BY <1>10, <3>2, <3>5 DEF Release, RowFits, Untouched, CardOf
    <3>8. Knows(w)'
      BY <3>1 DEF Knows, Moves
    <3>. QED
      BY <1>10, <3>1, <3>2, <3>4, <3>5, <3>6, <3>7, <3>8, OwnStep DEF Release
  <2>. QED
    BY <1>10, <2>1, <2>2 DEF Release
<1>. QED
  BY <1>1, <1>2, <1>3, <1>5, <1>6, <1>7, <1>8, <1>9, <1>10

-------------------------------------------------------------------------------
(* Theorems. *)

(* IInv is an invariant: in every reachable state a claim on a top-up has   *)
(* at most one live holder, and the holder's step agrees with the transfer  *)
(* and the credit of its invoice.                                           *)
THEOREM Invariance == Spec => []IInv
<1>1. Init => IInv
  <2>. SUFFICES ASSUME Init PROVE IInv
    OBVIOUS
  <2>1. TypeOK
    BY DEF Init, TypeOK, Statuses, Invoices, InvoiceStates, PendingRows, RowStates, NoRow,
           WorkRecords, Steps, IdleWorker
  <2>. QED
    BY <2>1 DEF IInv, Init, WorkersInv, RowsInv, OneHolder, Knows, RowFits, Untouched,
                Holding, IdleWorker, NoRow
<1>2. IInv /\ [Next]_vars => IInv'
  <2>. SUFFICES ASSUME IInv, [Next]_vars PROVE IInv'
    OBVIOUS
  <2>1. CASE InvoiceNext
    BY <2>1, InvoicePreserves
  <2>2. CASE WorkerNext
    BY <2>2, QuietPreserves, WritingPreserves DEF WorkerNext, WorkerStep
  <2>3. CASE OwnerNext
    BY <2>3, OwnerPreserves
  <2>4. CASE UNCHANGED vars
    <3>1. TypeOK'
      BY <2>4 DEF IInv, TypeOK, vars, cardVars, usdVars
    <3>. QED
      BY <2>4, <3>1, SameRows DEF vars, cardVars, usdVars
  <2>. QED
    BY <2>1, <2>2, <2>3, <2>4 DEF Next
<1>. QED
  BY <1>1, <1>2, PTL DEF Spec

(* Every variable keeps its type. *)
THEOREM TypeCorrect == Spec => []TypeOK
<1>1. IInv => TypeOK
  BY DEF IInv
<1>. QED
  BY <1>1, Invariance, PTL

(* A top-up is credited only for an invoice Blink reported as received. *)
THEOREM NoCreditWithoutReceipt == Spec => []CreditNeedsReceipt
<1>1. IInv => CreditNeedsReceipt
  BY DEF IInv, RowsInv, RowFits, CreditNeedsReceipt, TypeOK
<1>. QED
  BY <1>1, Invariance, PTL

(* A row that can be claimed again was neither credited nor transferred. *)
THEOREM ReleasedIsUntouched == Spec => []ClaimableIsUntouched
<1>1. IInv => ClaimableIsUntouched
  BY DEF IInv, RowsInv, RowFits, Untouched, ClaimableIsUntouched
<1>. QED
  BY <1>1, Invariance, PTL

(* The sats of one top-up move to the USD wallet at most once. *)
THEOREM TransferredOnce == Spec => []FundsMoveOnce
<1>1. IInv => FundsMoveOnce
  BY DEF IInv, RowsInv, RowFits, FundsMoveOnce
<1>. QED
  BY <1>1, Invariance, PTL

-------------------------------------------------------------------------------
(* The balances.  A card is credited in the statement that records the      *)
(* hash, an invoice never changes its card, and a deleted card never comes  *)
(* back: so the sum over the recorded hashes of a card grows by what its    *)
(* balance grows by.                                                        *)

CreditsOf(c) == {h \in credited : CardOf(h) = c}
Credits(c) == SumFunctionOnSet(Worth, CreditsOf(c))
SumInv ==
    /\ IsFiniteSet(credited)
    /\ \A c \in Cards : status[c] # "deleted" => balance[c] = Credits(c)

LEMMA CreditsAreTheSum == SumInv => CreditsAddUp
BY DEF SumInv, CreditsAddUp, Credits, CreditsOf,
       MapThenSumSet, SumFunctionOnSet, FoldFunctionOnSet, MapThenFoldSet

(* A step that credits nothing and keeps the cards of credited invoices.    *)
LEMMA SameCredits ==
  ASSUME SumInv, UNCHANGED credited,
         \A h \in credited : CardOf(h)' = CardOf(h),
         \A c \in Cards : status'[c] # "deleted" =>
            status[c] # "deleted" /\ balance'[c] = balance[c]
  PROVE  SumInv'
<1>1. \A c : CreditsOf(c)' = CreditsOf(c)
  BY DEF CreditsOf
<1>. QED
  BY <1>1 DEF SumInv, Credits

LEMMA CreditAddsUp ==
  ASSUME IInv, SumInv, NEW h \in Hashes, CardOf(h) \in Cards, Credit(h),
         UNCHANGED <<status, invoice>>
  PROVE  SumInv'
<1>1. /\ status[CardOf(h)] = "ACTIVE" /\ h \notin credited
      /\ balance' = [balance EXCEPT ![CardOf(h)] = @ + Worth[h]]
      /\ credited' = credited \cup {h}
  BY DEF Credit, Recorded
<1>2. balance \in [Cards -> Nat] /\ credited \subseteq Hashes
  BY DEF IInv, TypeOK
<1>3. IsFiniteSet(credited')
  BY <1>1, FS_AddElement DEF SumInv
<1>4. ASSUME NEW c \in Cards, status'[c] # "deleted"
      PROVE  balance'[c] = Credits(c)'
  <2>1. balance[c] = Credits(c)
    BY <1>4 DEF SumInv
  <2>2. CASE c # CardOf(h)
    <3>1. CreditsOf(c)' = CreditsOf(c)
      BY <1>1, <2>2 DEF CreditsOf, CardOf
    <3>. QED
      BY <1>1, <1>2, <2>1, <2>2, <3>1 DEF Credits
  <2>3. CASE c = CardOf(h)
    <3>1. CreditsOf(c)' = CreditsOf(c) \cup {h}
      BY <1>1, <2>3 DEF CreditsOf, CardOf
    <3>2. IsFiniteSet(CreditsOf(c)) /\ h \notin CreditsOf(c)
      <4>1. CreditsOf(c) \subseteq credited
        BY DEF CreditsOf
      <4>. QED
        BY <1>1, <4>1, FS_Subset DEF SumInv
    <3>3. \A x \in CreditsOf(c) \cup {h} : Worth[x] \in Int
      BY <1>2 DEF CreditsOf
    <3>4. SumFunctionOnSet(Worth, CreditsOf(c) \cup {h}) = Worth[h] + Credits(c)
      BY <3>2, <3>3, SumAdd DEF Credits
    <3>5. balance'[c] = balance[c] + Worth[h]
      BY <1>1, <1>2, <2>3
    <3>6. balance[c] \in Int /\ Worth[h] \in Int
      BY <1>2, <3>3
    <3>. QED
      BY <2>1, <3>1, <3>4, <3>5, <3>6 DEF Credits
  <2>. QED
    BY <2>2, <2>3
<1>. QED
  BY <1>3, <1>4 DEF SumInv

LEMMA SumPreserves ==
  ASSUME IInv, SumInv, [Next]_vars
  PROVE  SumInv'
<1>. USE DEF cardVars, usdVars
<1>0. /\ status \in [Cards -> Statuses] /\ balance \in [Cards -> Nat]
      /\ credited \subseteq Hashes /\ invoice \in [Hashes -> Invoices]
      /\ \A h \in credited : invoice[h].st = "paid"
  BY DEF IInv, TypeOK, RowsInv, RowFits
<1>1. CASE InvoiceNext
  <2>1. ASSUME NEW h \in Hashes, NEW c \in Cards, CreateInvoice(h, c)
        PROVE  SumInv'
    <3>1. \A g \in credited : CardOf(g)' = CardOf(g)
      BY <1>0, <2>1 DEF CreateInvoice, CardOf
    <3>. QED
      BY <2>1, <3>1, SameCredits DEF CreateInvoice
  <2>2. ASSUME NEW h \in Hashes, StorePendingTopUp(h)
        PROVE  SumInv'
    <3>1. \A g \in credited : CardOf(g)' = CardOf(g)
      BY <1>0, <2>2 DEF StorePendingTopUp, CardOf
    <3>. QED
      BY <2>2, <3>1, SameCredits DEF StorePendingTopUp
  <2>3. ASSUME NEW h \in Hashes, RowExpires(h) \/ CloseFailedInvoice(h)
        PROVE  SumInv'
    BY <2>3, SameCredits DEF RowExpires, CloseFailedInvoice, CardOf
  <2>4. ASSUME NEW h \in Hashes, NEW s \in InvoiceStates, InvoiceEnds(h, s)
        PROVE  SumInv'
    <3>1. \A g \in credited : CardOf(g)' = CardOf(g)
      BY <1>0, <2>4 DEF InvoiceEnds, CardOf, Invoices
    <3>. QED
      BY <2>4, <3>1, SameCredits DEF InvoiceEnds
  <2>5. ASSUME NEW h \in Hashes, NEW s \in {"moved", "failed"}, TransferExecutes(h, s)
        PROVE  SumInv'
    BY <2>5, SameCredits DEF TransferExecutes, CardOf
  <2>. QED
    BY <1>1, <2>1, <2>2, <2>3, <2>4, <2>5 DEF InvoiceNext
<1>2. CASE WorkerNext
  <2>1. PICK w \in Workers : WorkerStep(w) \/ ClaimOutcomeUnknown(w) \/ Abort(w)
    BY <1>2 DEF WorkerNext
  <2>2. CASE TopUpCard(w)
    <3>1. HashOf(w) \in Hashes /\ invoice[HashOf(w)].st = "paid"
      BY <2>2 DEF TopUpCard, At, IInv, WorkersInv, Knows, Holding
    <3>2. CardOf(HashOf(w)) \in Cards
      BY <3>1 DEF IInv, RowsInv, RowFits
    <3>. QED
      BY <2>2, <3>1, <3>2, CreditAddsUp DEF TopUpCard
  <2>3. CASE ActivateCard(w)
    <3>1. UNCHANGED <<balance, credited, invoice>>
      BY <2>3 DEF ActivateCard
    <3>2. \A c \in Cards : status'[c] # "deleted" => status[c] # "deleted"
      BY <1>0, <2>3 DEF ActivateCard
    <3>. QED
      BY <3>1, <3>2, SameCredits DEF CardOf
  <2>4. CASE ~TopUpCard(w) /\ ~ActivateCard(w)
    <3>1. UNCHANGED <<cardVars, invoice>>
      BY <2>1, <2>4 DEF WorkerStep, FindPending, ReadCard, VerifyReceipt, MarkTopUpProcessed,
         LookForCredit, FlagForReview, IsTopUpCredited, SendTransfer, TransferAnswered, GetRate,
         CreditRefused, Release, ClaimOutcomeUnknown, Abort
    <3>. QED
      BY <3>1, SameCredits DEF CardOf
  <2>. QED
    BY <2>2, <2>3, <2>4
<1>3. CASE OwnerNext
  <2>1. UNCHANGED <<credited, invoice>>
    BY <1>3 DEF OwnerNext, OwnerActivates, DisableCard, WipeCard, SetStatus, DeleteWipedCard
  <2>2. \A c \in Cards : status'[c] # "deleted" =>
           status[c] # "deleted" /\ balance'[c] = balance[c]
    BY <1>0, <1>3
       DEF OwnerNext, OwnerActivates, DisableCard, WipeCard, SetStatus, DeleteWipedCard
  <2>. QED
    BY <2>1, <2>2, SameCredits DEF CardOf
<1>4. CASE UNCHANGED vars
  BY <1>4, SameCredits DEF vars, CardOf
<1>. QED
  BY <1>1, <1>2, <1>3, <1>4 DEF Next

(* The balance of a card is what its recorded top-ups are worth, whatever   *)
(* processors, deliveries and lost answers came between.                    *)
THEOREM CreditsAreExact == Spec => []CreditsAddUp
<1>1. Init => SumInv
  <2>. SUFFICES ASSUME Init
                PROVE  SumInv
    OBVIOUS
  <2>1. \A c \in Cards : CreditsOf(c) = {}
    BY DEF Init, CreditsOf
  <2>2. \A c \in Cards : Credits(c) = 0
    BY <2>1, SumEmpty DEF Credits
  <2>. QED
    BY <2>2, FS_EmptySet DEF Init, SumInv
<1>2. IInv /\ SumInv /\ [Next]_vars => SumInv'
  BY SumPreserves
<1>. QED
  BY <1>1, <1>2, Invariance, CreditsAreTheSum, PTL DEF Spec

-------------------------------------------------------------------------------
(* CardTopUp implements TopUpLedger.  What the claim's invariant does not   *)
(* say yet: a transfer is of a received USD top-up, and a USD top-up is     *)
(* credited only after its transfer.                                        *)

MovedInv == \A h \in Hashes :
    /\ transfer[h] # "none" => invoice[h].st = "paid" /\ IsUsd(h)
    /\ h \in credited /\ IsUsd(h) => transfer[h] = "moved"

(* A step that neither sends a transfer nor credits keeps what is known of  *)
(* them, if no invoice that was paid changes.                               *)
LEMMA SameMoves ==
  ASSUME MovedInv, UNCHANGED <<transfer, credited>>,
         \A h \in Hashes : transfer[h] # "none" \/ h \in credited => invoice'[h] = invoice[h]
  PROVE  MovedInv'
BY DEF MovedInv, IsUsd, CardOf

(* Every step keeps transfers and credits in their order. *)
LEMMA MovesPreserve ==
  ASSUME IInv, MovedInv, [Next]_vars
  PROVE  MovedInv'
<1>. USE DEF cardVars, usdVars
<1>0. /\ credited \subseteq Hashes /\ invoice \in [Hashes -> Invoices]
      /\ transfer \in [Hashes -> {"none", "wire", "moved", "failed"}]
      /\ \A h \in credited : invoice[h].st = "paid"
  BY DEF IInv, TypeOK, RowsInv, RowFits
<1>1. CASE InvoiceNext
  <2>1. ASSUME NEW h \in Hashes, NEW s, TransferExecutes(h, s)
        PROVE  MovedInv'
    BY <1>0, <2>1 DEF TransferExecutes, MovedInv, IsUsd, CardOf
  <2>2. ASSUME NEW h \in Hashes,
               \/ \E c \in Cards : CreateInvoice(h, c)
               \/ StorePendingTopUp(h) \/ RowExpires(h) \/ CloseFailedInvoice(h)
               \/ \E s \in InvoiceStates : InvoiceEnds(h, s)
        PROVE  MovedInv'
    <3>1. UNCHANGED <<transfer, credited>>
      BY <2>2 DEF CreateInvoice, StorePendingTopUp, RowExpires, CloseFailedInvoice, InvoiceEnds
    <3>2. \A g \in Hashes : transfer[g] # "none" \/ g \in credited => invoice'[g] = invoice[g]
      <4>1. \A g \in Hashes : transfer[g] # "none" \/ g \in credited => invoice[g].st = "paid"
        BY <1>0 DEF MovedInv
      <4>2. \A g \in Hashes : invoice[g].st = "paid" => invoice'[g] = invoice[g]
        BY <1>0, <2>2
           DEF CreateInvoice, StorePendingTopUp, RowExpires, CloseFailedInvoice, InvoiceEnds
      <4>. QED
        BY <4>1, <4>2
    <3>. QED
      BY <3>1, <3>2, SameMoves
  <2>. QED
    BY <1>1, <2>1, <2>2 DEF InvoiceNext
<1>2. CASE WorkerNext
  <2>1. PICK w \in Workers : WorkerStep(w) \/ ClaimOutcomeUnknown(w) \/ Abort(w)
    BY <1>2 DEF WorkerNext
  <2>2. CASE SendTransfer(w)
    <3>1. /\ HashOf(w) \in Hashes /\ invoice[HashOf(w)].st = "paid"
          /\ HashOf(w) \notin credited /\ IsUsd(HashOf(w))
      BY <2>2 DEF SendTransfer, At, IInv, WorkersInv, Knows, HolderKnows, Holding
    <3>. QED
      BY <1>0, <2>2, <3>1 DEF SendTransfer, MovedInv, IsUsd, CardOf
  <2>3. CASE TopUpCard(w)
    <3>1. /\ HashOf(w) \in Hashes
          /\ IsUsd(HashOf(w)) => transfer[HashOf(w)] = "moved"
      BY <2>3 DEF TopUpCard, At, IInv, WorkersInv, Knows, HolderKnows, Holding
    <3>. QED
      BY <1>0, <2>3, <3>1 DEF TopUpCard, Credit, Recorded, MovedInv, IsUsd, CardOf
  <2>4. CASE ~SendTransfer(w) /\ ~TopUpCard(w)
    <3>1. UNCHANGED <<transfer, credited, invoice>>
      BY <2>1, <2>4 DEF WorkerStep, FindPending, ReadCard, VerifyReceipt, ActivateCard,
         MarkTopUpProcessed, LookForCredit, FlagForReview, IsTopUpCredited, TransferAnswered,
         GetRate, CreditRefused, Release, ClaimOutcomeUnknown, Abort
    <3>. QED
      BY <3>1, SameMoves
  <2>. QED
    BY <2>2, <2>3, <2>4
<1>3. CASE OwnerNext \/ UNCHANGED vars
  <2>1. UNCHANGED <<transfer, credited, invoice>>
    BY <1>3 DEF OwnerNext, OwnerActivates, DisableCard, WipeCard, SetStatus, DeleteWipedCard, vars
  <2>. QED
    BY <2>1, SameMoves
<1>. QED
  BY <1>1, <1>2, <1>3 DEF Next

(* What the contract says of an invoice, before and after a step. *)
LEMMA DueFacts ==
  ASSUME NEW h \in Hashes
  PROVE  /\ h \in credited => Due(h) = "credited"
         /\ h \notin credited =>
              /\ invoice[h].st = "none" => Due(h) = "free"
              /\ invoice[h].st \in {"created", "open"} => Due(h) = "issued"
              /\ invoice[h].st = "paid" => Due(h) = "received"
              /\ invoice[h].st = "failed" => Due(h) = "failed"
BY DEF Due

LEMMA DueNext ==
  ASSUME NEW h \in Hashes
  PROVE  /\ h \in credited' => Due(h)' = "credited"
         /\ h \notin credited' =>
              /\ invoice'[h].st = "none" => Due(h)' = "free"
              /\ invoice'[h].st \in {"created", "open"} => Due(h)' = "issued"
              /\ invoice'[h].st = "paid" => Due(h)' = "received"
              /\ invoice'[h].st = "failed" => Due(h)' = "failed"
BY DEF Due

(* An invoice whose state and record stay is the same to the contract. *)
LEMMA DueKept ==
  ASSUME NEW h \in Hashes, invoice'[h].st = invoice[h].st, h \in credited' <=> h \in credited
  PROVE  Due(h)' = Due(h)
BY DEF Due

(* A step that changes one invoice, as the contract sees it. *)
LEMMA DueChanged ==
  ASSUME NEW h \in Hashes, NEW s, Due(h)' = s,
         \A g \in Hashes \ {h} : invoice'[g].st = invoice[g].st
                                   /\ (g \in credited' <=> g \in credited)
  PROVE  [g \in Hashes |-> Due(g)]' = [[g \in Hashes |-> Due(g)] EXCEPT ![h] = s]
<1>1. \A g \in Hashes \ {h} : Due(g)' = Due(g)
  BY DueKept
<1>. QED
  BY <1>1

(* Rows, claims, processors and the status of a card that exists are not    *)
(* in the contract.                                                         *)
LEMMA NotInContract ==
  ASSUME UNCHANGED <<balance, credited, moves>>,
         \A c \in Cards : status'[c] = "deleted" <=> status[c] = "deleted",
         \A h \in Hashes : Due(h)' = Due(h) /\ CardOf(h)' = CardOf(h)
  PROVE  UNCHANGED Promise!topUpVars
BY DEF Promise!topUpVars

(* The invoice's steps are those of the contract. *)
LEMMA InvoiceImplements ==
  ASSUME IInv, MovedInv, InvoiceNext
  PROVE  [Promise!LedgerNext]_(Promise!topUpVars)
<1>. USE DEF cardVars, usdVars
<1>0. /\ status \in [Cards -> Statuses] /\ credited \subseteq Hashes
      /\ invoice \in [Hashes -> Invoices] /\ moves \in [Hashes -> Nat]
      /\ transfer \in [Hashes -> {"none", "wire", "moved", "failed"}]
      /\ \A h \in credited : invoice[h].st = "paid"
      /\ \A h \in Hashes : moves[h] = IF transfer[h] = "moved" THEN 1 ELSE 0
  BY DEF IInv, TypeOK, RowsInv, RowFits
<1>1. ASSUME NEW h \in Hashes, NEW c \in Cards, CreateInvoice(h, c)
      PROVE  Promise!Issue(c, h)
  <2>1. Due(h) = "free" /\ c \in {d \in Cards : status[d] # "deleted"}
    BY <1>0, <1>1, DueFacts DEF CreateInvoice
  <2>2. [g \in Hashes |-> Due(g)]' = [[g \in Hashes |-> Due(g)] EXCEPT ![h] = "issued"]
    <3>1. h \notin credited' /\ invoice'[h].st = "created"
      BY <1>0, <1>1 DEF CreateInvoice
    <3>2. \A g \in Hashes \ {h} : invoice'[g] = invoice[g]
      BY <1>0, <1>1 DEF CreateInvoice
    <3>. QED
      BY <1>1, <3>1, <3>2, DueNext, DueChanged DEF CreateInvoice
  <2>3. [g \in Hashes |-> CardOf(g)]' = [[g \in Hashes |-> CardOf(g)] EXCEPT ![h] = c]
    BY <1>0, <1>1 DEF CreateInvoice, CardOf
  <2>. QED
    BY <1>1, <2>1, <2>2, <2>3 DEF CreateInvoice, Promise!Issue
<1>2. ASSUME NEW h \in Hashes, StorePendingTopUp(h) \/ RowExpires(h) \/ CloseFailedInvoice(h)
      PROVE  UNCHANGED Promise!topUpVars
  <2>1. UNCHANGED <<balance, credited, moves, status>>
    BY <1>2 DEF StorePendingTopUp, RowExpires, CloseFailedInvoice
  <2>2. \A g \in Hashes : Due(g)' = Due(g) /\ CardOf(g)' = CardOf(g)
    <3>1. CASE invoice' = invoice
      BY <2>1, <3>1, DueKept DEF CardOf
    <3>2. CASE StorePendingTopUp(h)
      <4>1. h \notin credited /\ Due(h) = "issued"
        BY <1>0, <3>2, DueFacts DEF StorePendingTopUp
      <4>2. invoice'[h].st = "open" /\ \A g \in Hashes \ {h} : invoice'[g] = invoice[g]
        BY <1>0, <3>2 DEF StorePendingTopUp
      <4>3. Due(h)' = "issued" /\ \A g \in Hashes \ {h} : Due(g)' = Due(g)
        BY <2>1, <4>1, <4>2, DueNext, DueKept
      <4>4. \A g \in Hashes : CardOf(g)' = CardOf(g)
        BY <1>0, <3>2 DEF StorePendingTopUp, CardOf, Invoices
      <4>. QED
        BY <4>1, <4>3, <4>4
    <3>. QED
      BY <1>2, <3>1, <3>2 DEF RowExpires, CloseFailedInvoice
  <2>. QED
    BY <2>1, <2>2, NotInContract
<1>3. ASSUME NEW h \in Hashes, NEW s \in InvoiceStates, InvoiceEnds(h, s)
      PROVE  Promise!Settle(h, "received") \/ Promise!Settle(h, "failed")
  <2>1. h \notin credited /\ Due(h) = "issued"
    BY <1>0, <1>3, DueFacts DEF InvoiceEnds
  <2>5. /\ invoice'[h].st = s /\ h \notin credited' /\ credited' = credited
        /\ \A g \in Hashes \ {h} : invoice'[g] = invoice[g]
    BY <1>0, <1>3, <2>1 DEF InvoiceEnds
  <2>2. ASSUME s = "paid"
        PROVE  [g \in Hashes |-> Due(g)]' = [[g \in Hashes |-> Due(g)] EXCEPT ![h] = "received"]
    BY <2>5, <2>2, DueNext, DueChanged
  <2>3. ASSUME s = "failed"
        PROVE  [g \in Hashes |-> Due(g)]' = [[g \in Hashes |-> Due(g)] EXCEPT ![h] = "failed"]
    BY <2>5, <2>3, DueNext, DueChanged
  <2>4. [g \in Hashes |-> CardOf(g)]' = [g \in Hashes |-> CardOf(g)]
    BY <1>0, <1>3 DEF InvoiceEnds, CardOf, Invoices
  <2>. QED
    BY <1>3, <2>1, <2>2, <2>3, <2>4 DEF InvoiceEnds, Promise!Settle
<1>4. ASSUME NEW h \in Hashes, TransferExecutes(h, "moved")
      PROVE  Promise!MoveToUsd(h)
  <2>1. Due(h) = "received" /\ CardOf(h) \in UsdCards /\ moves[h] = 0
    <3>1. transfer[h] = "wire" /\ invoice[h].st = "paid" /\ IsUsd(h) /\ h \notin credited
      BY <1>0, <1>4 DEF TransferExecutes, MovedInv
    <3>. QED
      BY <1>0, <3>1, DueFacts DEF IsUsd
  <2>2. moves' = [moves EXCEPT ![h] = 1]
    BY <1>0, <1>4, <2>1 DEF TransferExecutes
  <2>. QED
    <3>1. UNCHANGED <<status, balance, credited, invoice>>
      BY <1>4 DEF TransferExecutes
    <3>2. \A g \in Hashes : Due(g)' = Due(g) /\ CardOf(g)' = CardOf(g)
      BY <3>1, DueKept DEF CardOf
    <3>. QED
      BY <2>1, <2>2, <3>1, <3>2 DEF Promise!MoveToUsd
<1>5. ASSUME NEW h \in Hashes, TransferExecutes(h, "failed")
      PROVE  UNCHANGED Promise!topUpVars
  <2>1. moves' = moves
    BY <1>0, <1>5 DEF TransferExecutes
  <2>. QED
    BY <1>5, <2>1, NotInContract DEF TransferExecutes, Due, CardOf
<1>. QED
  BY <1>1, <1>2, <1>3, <1>4, <1>5 DEF InvoiceNext, Promise!LedgerNext

(* Of all a processor does, the contract sees the credit alone. *)
LEMMA WorkerImplements ==
  ASSUME IInv, NEW w \in Workers, WorkerStep(w) \/ ClaimOutcomeUnknown(w) \/ Abort(w)
  PROVE  [Promise!LedgerNext]_(Promise!topUpVars)
<1>. USE DEF cardVars, usdVars
<1>0. status \in [Cards -> Statuses] /\ credited \subseteq Hashes
  BY DEF IInv, TypeOK
<1>1. CASE TopUpCard(w)
  <2> DEFINE h == HashOf(w)
             c == CardOf(h)
  <2>1. h \in Hashes /\ invoice[h].st = "paid" /\ (IsUsd(h) => transfer[h] = "moved")
    BY <1>1 DEF TopUpCard, At, IInv, WorkersInv, Knows, HolderKnows, Holding
  <2>2. c \in Cards /\ (IsUsd(h) => moves[h] = 1)
    BY <2>1 DEF IInv, RowsInv, RowFits
  <2>3. /\ status[c] = "ACTIVE" /\ h \notin credited
        /\ balance' = [balance EXCEPT ![c] = @ + Worth[h]]
        /\ credited' = credited \cup {h}
        /\ UNCHANGED <<status, invoice, moves>>
    BY <1>1 DEF TopUpCard, Credit, Recorded
  <2>. HIDE DEF h, c
  <2>4. Due(h) = "received" /\ c \in {d \in Cards : status[d] # "deleted"}
    BY <2>1, <2>2, <2>3, DueFacts
  <2>5. [g \in Hashes |-> Due(g)]' = [[g \in Hashes |-> Due(g)] EXCEPT ![h] = "credited"]
    BY <2>1, <2>3, DueNext, DueChanged
  <2>6. Promise!Credit(c, h)
    BY <2>1, <2>2, <2>3, <2>4, <2>5 DEF Promise!Credit, IsUsd, CardOf, c
  <2>. QED
    BY <2>1, <2>2, <2>6 DEF Promise!LedgerNext
<1>2. CASE ~TopUpCard(w)
  <2>1. UNCHANGED <<balance, credited, invoice, moves>>
    BY <1>2 DEF WorkerStep, FindPending, ReadCard, VerifyReceipt, ActivateCard,
       MarkTopUpProcessed, LookForCredit, FlagForReview, IsTopUpCredited, SendTransfer,
       TransferAnswered, GetRate, CreditRefused, Release, ClaimOutcomeUnknown, Abort
  <2>2. \A c \in Cards : status'[c] = "deleted" <=> status[c] = "deleted"
    <3>1. CASE ActivateCard(w)
      BY <1>0, <3>1 DEF ActivateCard
    <3>2. CASE ~ActivateCard(w)
      BY <1>2, <3>2 DEF WorkerStep, FindPending, ReadCard, VerifyReceipt,
         MarkTopUpProcessed, LookForCredit, FlagForReview, IsTopUpCredited, SendTransfer,
         TransferAnswered, GetRate, CreditRefused, Release, ClaimOutcomeUnknown, Abort
    <3>. QED
      BY <3>1, <3>2
  <2>. QED
    BY <2>1, <2>2, NotInContract DEF Due, CardOf
<1>. QED
  BY <1>1, <1>2

(* Of the owner's steps, the contract sees the deletion of a card alone. *)
LEMMA OwnerImplements ==
  ASSUME IInv, OwnerNext
  PROVE  [Promise!LedgerNext]_(Promise!topUpVars)
<1>. USE DEF cardVars, usdVars
<1>0. status \in [Cards -> Statuses]
  BY DEF IInv, TypeOK
<1>1. ASSUME NEW c \in Cards, OwnerActivates(c) \/ DisableCard(c) \/ WipeCard(c)
      PROVE  UNCHANGED Promise!topUpVars
  <2>1. UNCHANGED <<balance, credited, invoice, moves>>
    BY <1>1 DEF OwnerActivates, DisableCard, WipeCard, SetStatus
  <2>2. \A d \in Cards : status'[d] = "deleted" <=> status[d] = "deleted"
    BY <1>0, <1>1 DEF OwnerActivates, DisableCard, WipeCard, SetStatus
  <2>. QED
    BY <2>1, <2>2, NotInContract DEF Due, CardOf
<1>2. ASSUME NEW c \in Cards, DeleteWipedCard(c)
      PROVE  Promise!Retire(c)
  <2>1. {d \in Cards : status[d] # "deleted"}' = {d \in Cards : status[d] # "deleted"} \ {c}
    BY <1>0, <1>2 DEF DeleteWipedCard
  <2>. QED
    BY <1>2, <2>1 DEF DeleteWipedCard, Promise!Retire, Due, CardOf
<1>. QED
  BY <1>1, <1>2 DEF OwnerNext, Promise!LedgerNext

(* The processing of top-ups implements the contract: its initial states    *)
(* are initial there, and each of its steps is a step there or changes      *)
(* nothing.                                                                 *)
THEOREM Refinement == Spec => ImplementsTopUpLedger
<1>1. Init => Promise!LedgerInit /\ MovedInv
  BY DEF Init, Promise!LedgerInit, Due, CardOf, MovedInv
<1>2. IInv /\ MovedInv /\ [Next]_vars => MovedInv'
  BY MovesPreserve
<1>3. IInv /\ MovedInv /\ [Next]_vars => [Promise!LedgerNext]_(Promise!topUpVars)
  <2>. SUFFICES ASSUME IInv, MovedInv, [Next]_vars
                PROVE  [Promise!LedgerNext]_(Promise!topUpVars)
    OBVIOUS
  <2>1. CASE UNCHANGED vars
    <3>1. UNCHANGED <<status, balance, credited, invoice, moves>>
      BY <2>1 DEF vars, cardVars, usdVars
    <3>. QED
      BY <3>1, NotInContract DEF Due, CardOf
  <2>. QED
    BY <2>1, InvoiceImplements, WorkerImplements, OwnerImplements DEF Next, WorkerNext
<1>. QED
  BY <1>1, <1>2, <1>3, Invariance, PTL DEF Spec, ImplementsTopUpLedger, Promise!LedgerSpec

===============================================================================
