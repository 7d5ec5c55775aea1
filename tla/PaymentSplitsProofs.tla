-------------------------- MODULE PaymentSplitsProofs --------------------------
(***************************************************************************)
(* Theorems of PaymentSplits, for every number of webhook deliveries,       *)
(* requests, POS flows and polls, and every split.  The invariant holds     *)
(* whatever goes wrong: it says what a task knows of its base payment at    *)
(* each place.  AloneInv is about the histories in which every claim was    *)
(* released by its holder, after a payment that definitely failed: there    *)
(* the claim is a lock on forwarding.                                       *)
(***************************************************************************)
EXTENDS PaymentSplits, SumTheorems, SequenceTheorems

Final == row.status \in {"completed", "failed", "expired"}

Rows == [status : Statuses, dest : Dests, split : Splits]
TaskRecords == [kind : Kinds, at : Places]

(* Redis never says that a payment is being processed, and "completed" only  *)
(* of a row that is done.                                                    *)
CacheInv == cache # "processing" /\ (cache = "completed" => Final)

(* What a task knows of its base payment and its tips. *)
TaskFits(w) ==
    /\ task[w].at \in {"idle", "chosen", "payInvoice"} => base[w] = "none" /\ tips[w] = 0
    /\ task[w].at \in {"tips", "complete"} => base[w] = "settled"
    /\ task[w].at = "sendTips" => base[w] = "settled" \/ Final
    /\ tips[w] # 0 => base[w] = "settled"
    /\ tips[w] \in TipSums(row.split) \cup {0}

TasksInv == \A w \in Tasks : TaskFits(w)

IInv == TypeOK /\ CacheInv /\ TasksInv /\ CompletedIsPaid

-------------------------------------------------------------------------------
(* The amounts of the recipients. *)

LEMMA Shares ==
  ASSUME NEW s \in Splits
  PROVE  /\ s.tip \in Nat /\ Len(s.shares) \in Nat
         /\ \A i \in 1..Len(s.shares) : s.shares[i] \in Int
         /\ HasTips(s) => Len(s.shares) > 0
<1> DEFINE q == s.shares
           S == Int
<1>1. s.tip \in Nat /\ q \in Seq(S)
  BY SplitsAssumption
<1>. HIDE DEF q, S
<1>2. Len(q) \in Nat /\ \A i \in 1..Len(q) : q[i] \in S
  BY <1>1, ElementOfSeq, LenProperties
<1>3. q # <<>> => Len(q) > 0
  BY <1>1, <1>2, EmptySeq
<1>. QED
  BY <1>1, <1>2, <1>3 DEF q, S, HasTips

LEMMA Quotient ==
  /\ \A m \in Int, n \in Nat : n > 0 => m \div n \in Int
  /\ \A m, n \in Int : m * n \in Int
  /\ \A m, n \in Nat : m * n \in Nat
OBVIOUS

LEMMA PortionType ==
  ASSUME NEW s \in Splits, HasTips(s), NEW i \in 1..Len(s.shares)
  PROVE  Portion(s, i) \in Int
<1>1. s.tip \in Nat /\ Len(s.shares) \in Nat /\ Len(s.shares) > 0
  BY Shares
<1>2. s.shares[i] \in Int
  BY Shares
<1>3. s.tip \div Len(s.shares) \in Int
  BY <1>1, Quotient
<1>4. s.tip * s.shares[i] \in Int
  BY <1>1, <1>2, Quotient
<1>5. (s.tip * s.shares[i]) \div 100 \in Int
  BY <1>4, Quotient
<1>. QED
  BY <1>3, <1>5 DEF Portion

LEMMA AmountsType ==
  ASSUME NEW s \in Splits, HasTips(s)
  PROVE  /\ Len(s.shares) \in Nat \ {0}
         /\ RecipientAmounts(s) \in [1..Len(s.shares) -> Int]
<1> DEFINE n == Len(s.shares)
           part == [i \in 1..n |-> Portion(s, i)]
<1>1. n \in Nat \ {0} /\ s.tip \in Nat
  BY Shares
<1>2. part \in [1..n -> Int]
  BY PortionType
<1>7. RecipientAmounts(s) = [part EXCEPT ![n] = s.tip - SumFunctionOnSet(part, 1..(n - 1))]
  BY DEF RecipientAmounts
<1>. HIDE DEF part, n
<1>3. 1..(n - 1) \subseteq 1..n
  BY <1>1
<1>4. IsFiniteSet(1..(n - 1))
  BY <1>1, FS_Interval
<1>5. \A i \in 1..(n - 1) : part[i] \in Int
  BY <1>2, <1>3
<1>6. s.tip - SumFunctionOnSet(part, 1..(n - 1)) \in Int
  <2>1. SumFunctionOnSet(part, 1..(n - 1)) \in Int
    BY <1>4, <1>5, SumType
  <2>. QED
    BY <1>1, <2>1
<1>8. RecipientAmounts(s) \in [1..n -> Int]
  BY <1>2, <1>6, <1>7
<1>. QED
  BY <1>1, <1>8 DEF n

LEMMA TipSumsType ==
  ASSUME NEW s \in Splits
  PROVE  TipSums(s) \subseteq Int
<1>1. CASE ~HasTips(s)
  BY <1>1 DEF TipSums
<1>2. CASE HasTips(s)
  <2> DEFINE a == RecipientAmounts(s)
  <2>1. a \in [1..Len(s.shares) -> Int] /\ Len(s.shares) \in Nat
    BY <1>2, AmountsType
  <2>2. IsFiniteSet(DOMAIN a)
    BY <2>1, FS_Interval
  <2>. SUFFICES ASSUME NEW R \in SUBSET {i \in DOMAIN a : a[i] > 0}
                PROVE  SumFunctionOnSet(a, R) \in Int
    BY <1>2 DEF TipSums
  <2>3. R \subseteq DOMAIN a
    OBVIOUS
  <2>4. IsFiniteSet(R) /\ \A i \in R : a[i] \in Int
    BY <2>1, <2>2, <2>3, FS_Subset
  <2>. HIDE DEF a
  <2>. QED
    BY <2>4, SumType
<1>. QED
  BY <1>1, <1>2

-------------------------------------------------------------------------------
(* The effect of a step of task w on the tasks, the payments and the tips.  *)

Moves(w, place) ==
    /\ task' \in [Tasks -> TaskRecords]
    /\ task'[w].at = place
    /\ \A v \in Tasks \ {w} : task'[v] = task[v]

LEMMA GoMoves ==
  ASSUME TypeOK, NEW w \in Tasks, NEW place \in Places, Go(w, place)
  PROVE  Moves(w, place)
<1>1. task \in [Tasks -> TaskRecords]
  BY DEF TypeOK, TaskRecords
<1>2. CASE place = "done"
  <2>1. task' = [task EXCEPT ![w] = Ended]
    BY <1>2 DEF Go
  <2>2. Ended \in TaskRecords /\ Ended.at = "done"
    BY DEF Ended, TaskRecords, Kinds, Places
  <2>. QED
    BY <1>1, <1>2, <2>1, <2>2 DEF Moves
<1>3. CASE place # "done"
  <2>1. task' = [task EXCEPT ![w] = [task[w] EXCEPT !.at = place]]
    BY <1>3 DEF Go
  <2>2. [task[w] EXCEPT !.at = place] \in TaskRecords /\ [task[w] EXCEPT !.at = place].at = place
    BY <1>1 DEF TaskRecords
  <2>. QED
    BY <1>1, <2>1, <2>2 DEF Moves
<1>. QED
  BY <1>2, <1>3

LEMMA BeginMoves ==
  ASSUME TypeOK, NEW w \in Tasks, NEW k \in Kinds, NEW place \in Places, Begin(w, k, place)
  PROVE  Moves(w, place) /\ task[w].at = "idle"
<1>1. task \in [Tasks -> TaskRecords]
  BY DEF TypeOK, TaskRecords
<1>2. CASE place = "done"
  <2>1. task' = [task EXCEPT ![w] = Ended]
    BY <1>2 DEF Begin
  <2>2. Ended \in TaskRecords /\ Ended.at = "done"
    BY DEF Ended, TaskRecords, Kinds, Places
  <2>. QED
    BY <1>1, <1>2, <2>1, <2>2 DEF Moves, Begin
<1>3. CASE place # "done"
  <2>1. task' = [task EXCEPT ![w] = [kind |-> k, at |-> place]]
    BY <1>3 DEF Begin
  <2>2. [kind |-> k, at |-> place] \in TaskRecords
    BY DEF TaskRecords
  <2>. QED
    BY <1>1, <2>1, <2>2 DEF Moves, Begin
<1>. QED
  BY <1>2, <1>3

(* What a step may do to the row, its holder, its copy and the marks. *)
RowChange ==
    /\ row' \in Rows /\ row'.split = row.split
    /\ holder' \in Tasks \cup {None}
    /\ holder' # None <=> row'.status = "processing"
    /\ cache' \in Statuses \cup {None}
    /\ CacheInv'
    /\ marks \subseteq marks' /\ marks' \subseteq {"unsure", "foreign", "shortcut", "told"}
    /\ Final => Final'

LEMMA SetTheStatus ==
  ASSUME TypeOK, NEW st \in Statuses, SetStatus(st)
  PROVE  row' \in Rows /\ row'.status = st /\ row'.split = row.split
BY DEF TypeOK, SetStatus, Rows

(* The row stays as it is. *)
LEMMA SameRow ==
  ASSUME TypeOK, CacheInv, UNCHANGED <<row, holder>>, cache' \in {cache, "pending", None},
         marks \subseteq marks', marks' \subseteq {"unsure", "foreign", "shortcut", "told"}
  PROVE  RowChange
<1>1. row' \in Rows /\ row'.split = row.split
  BY DEF TypeOK, Rows
<1>2. /\ holder' \in Tasks \cup {None}
      /\ holder' # None <=> row'.status = "processing"
  BY DEF TypeOK
<1>3. cache' \in Statuses \cup {None} /\ (Final => Final')
  BY DEF TypeOK, Statuses, Final
<1>4. CacheInv'
  <2>1. cache' = cache \/ cache' = "pending" \/ cache' = None
    OBVIOUS
  <2>2. CASE cache' = None
    BY <2>2, SplitsAssumption DEF CacheInv, Statuses
  <2>. QED
    BY <2>1, <2>2 DEF CacheInv, Final
<1>. QED
  BY <1>1, <1>2, <1>3, <1>4 DEF RowChange

(* The row is done, and its copy says so, is dropped or stays. *)
LEMMA RowEnds ==
  ASSUME TypeOK, CacheInv, NEW st \in {"completed", "failed", "expired"}, SetStatus(st),
         holder' = None, cache' \in Recopied(st) \cup {None},
         marks \subseteq marks', marks' \subseteq {"unsure", "foreign", "shortcut", "told"}
  PROVE  RowChange /\ Final' /\ row'.status = st
<1>1. row' \in Rows /\ row'.status = st /\ row'.split = row.split
  BY SetTheStatus DEF Statuses
<1>2. cache' \in {cache, st, None}
  BY DEF Recopied
<1>3. Final' /\ row'.status # "processing"
  BY <1>1 DEF Final
<1>4. cache' \in Statuses \cup {None}
  BY <1>2 DEF TypeOK, Statuses
<1>5. CacheInv'
  <2>1. CASE cache' = None
    BY <2>1, SplitsAssumption DEF CacheInv, Statuses
  <2>2. CASE cache' # None
    BY <1>2, <1>3, <2>2 DEF CacheInv
  <2>. QED
    BY <2>1, <2>2
<1>. QED
  BY <1>1, <1>3, <1>4, <1>5 DEF RowChange

-------------------------------------------------------------------------------
(* A step of task w that keeps the tasks, the row and what w knows. *)

Works(w) ==
    /\ task' \in [Tasks -> TaskRecords]
    /\ base' \in [Tasks -> BaseStates]
    /\ tips' \in [Tasks -> Int]
    /\ \A v \in Tasks \ {w} :
          task'[v] = task[v] /\ base'[v] = base[v] /\ tips'[v] = tips[v]
    /\ base[w] = "settled" => base'[w] = "settled"
    /\ RowChange
    /\ TaskFits(w)'
    /\ row'.status = "completed" =>
          row.status = "completed" \/ "shortcut" \in marks' \/ base'[w] = "settled"

LEMMA WorksPreserves ==
  ASSUME IInv, NEW w \in Tasks, Works(w)
  PROVE  IInv'
<1>1. TypeOK'
  BY DEF Works, RowChange, TypeOK, Rows, TaskRecords
<1>2. CacheInv'
  BY DEF Works, RowChange
<1>3. TasksInv'
  <2>. SUFFICES ASSUME NEW v \in Tasks, v # w
                PROVE  TaskFits(v)'
    BY DEF Works, TasksInv
  <2>1. task'[v] = task[v] /\ base'[v] = base[v] /\ tips'[v] = tips[v]
    BY DEF Works
  <2>2. TaskFits(v)
    BY DEF IInv, TasksInv
  <2>3. Final => Final'
    BY DEF Works, RowChange
  <2>4. row'.split = row.split
    BY DEF Works, RowChange
  <2>5. TipSums(row'.split) = TipSums(row.split)
    BY <2>4
  <2>. QED
    BY <2>1, <2>2, <2>3, <2>5 DEF TaskFits
<1>4. CompletedIsPaid'
  <2>. SUFFICES ASSUME row'.status = "completed", "shortcut" \notin marks'
                PROVE  \E v \in Tasks : base'[v] = "settled"
    BY DEF CompletedIsPaid
  <2>1. CASE base'[w] = "settled"
    BY <2>1
  <2>2. CASE row.status = "completed"
    <3>1. PICK v \in Tasks : base[v] = "settled"
      BY <2>2 DEF IInv, CompletedIsPaid, Works, RowChange
    <3>2. base'[v] = "settled"
      BY <3>1 DEF Works
    <3>. QED
      BY <3>2
  <2>. QED
    BY <2>1, <2>2 DEF Works
<1>. QED
  BY <1>1, <1>2, <1>3, <1>4 DEF IInv

Engaged(w) ==
    \/ task[w].at \in {"chosen", "paying", "tips", "complete", "payInvoice", "sendTips"}
    \/ Out(w)
    \/ tips[w] # 0

(* With clean releases only the holder forwards. *)
AloneInv == Clean =>
    /\ \A w \in Tasks : Engaged(w) =>
          row.status # "pending" /\ (row.status = "processing" => holder = w)
    /\ \A v, w \in Tasks : Engaged(v) /\ Engaged(w) => v = w

(* A step that engages nobody and leaves the claim as it is, or ends it. *)
LEMMA StaysAlone ==
  ASSUME IInv, AloneInv, NEW w \in Tasks, Works(w), Engaged(w)' => Engaged(w),
         UNCHANGED <<row, holder>> \/ Final'
  PROVE  AloneInv'
<1>1. \A v \in Tasks : Engaged(v)' => Engaged(v)
  BY DEF Works, Engaged, Out
<1>2. Clean' => Clean
  BY DEF Works, RowChange, Clean
<1>. QED
  BY <1>1, <1>2 DEF AloneInv, Final

(* Only the webhook, the two endpoints and the POS claim, and only a pending row. *)
LEMMA ClaimsAlone ==
  ASSUME IInv, AloneInv, NEW w \in Tasks, Works(w), row.status = "pending",
         row'.status = "processing", holder' = w
  PROVE  AloneInv'
<1>. SUFFICES ASSUME Clean'
              PROVE  /\ \A v \in Tasks : Engaged(v)' => row'.status # "pending"
                                           /\ (row'.status = "processing" => holder' = v)
                     /\ \A u, v \in Tasks : Engaged(u)' /\ Engaged(v)' => u = v
  BY DEF AloneInv
<1>1. Clean
  BY DEF Works, RowChange, Clean
<1>2. \A v \in Tasks : ~Engaged(v)
  BY <1>1 DEF AloneInv
<1>3. \A v \in Tasks \ {w} : ~Engaged(v)'
  BY <1>2 DEF Works, Engaged, Out
<1>. QED
  BY <1>3

-------------------------------------------------------------------------------
(* The actions. *)

Keeps == IInv' /\ AloneInv'

LEMMA ClaimWorks ==
  ASSUME IInv, AloneInv, NEW w \in Tasks, NEW k \in Forwarders \cup {"pos"},
         Claim(w, k) \/ ClaimAnswerLost(w, k)
  PROVE  Keeps
<1>1. TypeOK /\ CacheInv /\ TaskFits(w)
  BY DEF IInv, TasksInv
<1>2. PICK place \in {"chosen", "release", "done"} : Begin(w, k, place)
  BY DEF Claim, ClaimAnswerLost, AfterError
<1>3. Moves(w, place) /\ task[w].at = "idle"
  BY <1>1, <1>2, BeginMoves DEF Places, Kinds
<1>4. /\ row.status = "pending" /\ SetStatus("processing") /\ holder' = w
      /\ cache' \in {cache, None} /\ UNCHANGED <<base, tips, marks>>
  BY DEF Claim, ClaimAnswerLost, Claimable, DropCopy
<1>5. row' \in Rows /\ row'.status = "processing" /\ row'.split = row.split
  BY <1>1, <1>4, SetTheStatus DEF Statuses
<1>6. RowChange
  <2>1. w # None
    BY SplitsAssumption
  <2>2. ~Final /\ ~Final'
    BY <1>4, <1>5 DEF Final
  <2>3. cache' \in Statuses \cup {None}
    BY <1>1, <1>4 DEF TypeOK
  <2>4. CacheInv'
    <3>1. CASE cache' = None
      BY <3>1, SplitsAssumption DEF CacheInv, Statuses
    <3>2. CASE cache' = cache
      BY <1>1, <2>2, <3>2 DEF CacheInv
    <3>. QED
      BY <1>4, <3>1, <3>2
  <2>. QED
    BY <1>1, <1>4, <1>5, <2>1, <2>2, <2>3, <2>4 DEF RowChange, TypeOK
<1>7. TaskFits(w)'
  <2>1. base[w] = "none" /\ tips[w] = 0
    BY <1>1, <1>3 DEF TaskFits
  <2>. QED
    BY <1>3, <1>4, <2>1 DEF TaskFits, Moves
<1>8. Works(w)
  BY <1>1, <1>3, <1>4, <1>5, <1>6, <1>7 DEF Works, Moves, TypeOK
<1>. QED
  BY <1>4, <1>5, <1>8, WorksPreserves, ClaimsAlone DEF Keeps

Engaging == {"chosen", "paying", "tips", "complete", "payInvoice", "sendTips"}

(* What w must know to be at place while its payment and tips stay. *)
MayBeAt(w, place) ==
    /\ place \in {"idle", "chosen", "payInvoice"} => base[w] = "none" /\ tips[w] = 0
    /\ place \in {"tips", "complete"} => base[w] = "settled"
    /\ place = "sendTips" => base[w] = "settled" \/ Final
    /\ place \in Engaging => Engaged(w)

MarksGrow == marks \subseteq marks' /\ marks' \subseteq {"unsure", "foreign", "shortcut", "told"}

(* w moves; no payment and no row changes. *)
LEMMA Quiet ==
  ASSUME IInv, AloneInv, NEW w \in Tasks, NEW place, Moves(w, place), MayBeAt(w, place),
         UNCHANGED <<row, base, tips, holder>>, cache' \in {cache, "pending", None}, MarksGrow
  PROVE  Keeps
<1>1. RowChange
  BY SameRow DEF IInv, MarksGrow
<1>2. TaskFits(w)'
  <2>1. TaskFits(w)
    BY DEF IInv, TasksInv
  <2>. QED
    BY <2>1 DEF TaskFits, Moves, MayBeAt, Final
<1>3. Works(w)
  BY <1>1, <1>2 DEF Works, Moves, IInv, TypeOK
<1>4. Engaged(w)' => Engaged(w)
  BY DEF Engaged, Out, Moves, MayBeAt, Engaging
<1>. QED
  BY <1>3, <1>4, WorksPreserves, StaysAlone DEF Keeps

LEMMA QuietGo ==
  ASSUME IInv, AloneInv, NEW w \in Tasks, NEW place \in Places, Go(w, place), MayBeAt(w, place),
         UNCHANGED <<row, cache, base, tips, holder, marks>>
  PROVE  Keeps
<1>1. Moves(w, place) /\ MarksGrow
  BY GoMoves DEF IInv, TypeOK, MarksGrow
<1>. QED
  BY <1>1, Quiet

LEMMA QuietBegin ==
  ASSUME IInv, AloneInv, NEW w \in Tasks, NEW k \in Kinds, NEW place \in {"done", "release", "warm"},
         Begin(w, k, place), UNCHANGED <<row, cache, base, tips, holder, marks>>
  PROVE  Keeps
<1>1. Moves(w, place) /\ MarksGrow
  BY BeginMoves DEF IInv, TypeOK, MarksGrow, Places
<1>. QED
  BY <1>1, Quiet DEF MayBeAt, Engaging

(* w ends the row, as long as it is not on its way to forward more. *)
LEMMA Ending ==
  ASSUME IInv, AloneInv, NEW w \in Tasks, NEW place, Moves(w, place), MayBeAt(w, place),
         NEW st \in {"completed", "failed"}, SetStatus(st), holder' = None,
         st = "completed" => "shortcut" \in marks' \/ base[w] = "settled",
         cache' \in Recopied(st) \cup {None}, UNCHANGED <<base, tips>>, MarksGrow
  PROVE  Keeps
<1>1. RowChange /\ Final' /\ row'.status = st
  BY RowEnds DEF IInv, MarksGrow
<1>2. TaskFits(w)'
  <2>1. TaskFits(w)
    BY DEF IInv, TasksInv
  <2>2. TipSums(row'.split) = TipSums(row.split)
    BY <1>1 DEF RowChange
  <2>. QED
    BY <1>1, <2>1, <2>2 DEF TaskFits, Moves, MayBeAt
<1>3. Works(w)
  BY <1>1, <1>2 DEF Works, Moves, IInv, TypeOK
<1>4. Engaged(w)' => Engaged(w)
  BY DEF Engaged, Out, Moves, MayBeAt, Engaging
<1>. QED
  BY <1>1, <1>3, <1>4, WorksPreserves, StaysAlone DEF Keeps

(* w asks Blink for the base payment. *)
LEMMA Paying ==
  ASSUME IInv, AloneInv, NEW w \in Tasks, task[w].at \in {"chosen", "payInvoice"},
         Go(w, "paying"), base' = [base EXCEPT ![w] = "wire"],
         UNCHANGED <<row, cache, tips, holder>>, MarksGrow
  PROVE  Keeps
<1>1. TypeOK /\ CacheInv /\ TaskFits(w)
  BY DEF IInv, TasksInv
<1>2. Moves(w, "paying")
  BY <1>1, GoMoves DEF Places
<1>3. RowChange
  BY <1>1, SameRow DEF MarksGrow
<1>4. base[w] = "none" /\ tips[w] = 0
  BY <1>1 DEF TaskFits
<1>5. TaskFits(w)'
  BY <1>2, <1>4 DEF TaskFits, Moves
<1>6. base' \in [Tasks -> BaseStates] /\ \A v \in Tasks \ {w} : base'[v] = base[v]
  BY <1>1 DEF TypeOK, BaseStates
<1>7. Works(w)
  BY <1>1, <1>2, <1>3, <1>4, <1>5, <1>6 DEF Works, Moves, TypeOK
<1>8. Engaged(w)
  BY DEF Engaged
<1>. QED
  BY <1>7, <1>8, WorksPreserves, StaysAlone DEF Keeps

-------------------------------------------------------------------------------
(* One lemma per group of actions: claiming, forwarding, the POS's requests. *)

LEMMA ClaimsPreserve ==
  ASSUME IInv, AloneInv, NEW w \in Tasks, NEW k \in Forwarders \cup {"pos"},
         Claim(w, k) \/ ClaimRefused(w, k) \/ ClaimFails(w, k) \/ ClaimAnswerLost(w, k)
  PROVE  Keeps
<1>1. k \in Kinds
  BY DEF Kinds
<1>2. CASE ClaimRefused(w, k)
  BY <1>1, <1>2, QuietBegin DEF ClaimRefused
<1>3. CASE ClaimFails(w, k)
  BY <1>1, <1>3, QuietBegin DEF ClaimFails, AfterError
<1>. QED
  BY <1>2, <1>3, ClaimWorks

LEMMA ForwardPreserves ==
  ASSUME IInv, AloneInv, NEW w \in Tasks,
         Pay(w) \/ NothingToPay(w) \/ ReturnsHolding(w) \/ MarkFailed(w)
            \/ Paid(w) \/ PayFails(w) \/ Complete(w) \/ CompleteFails(w)
  PROVE  Keeps
<1>0. TypeOK /\ CacheInv /\ TaskFits(w) /\ MarksGrow
  BY DEF IInv, TasksInv, TypeOK, MarksGrow, Pay, NothingToPay, ReturnsHolding, MarkFailed, Paid,
         PayFails, Complete, CompleteFails
<1>1. CASE Pay(w)
  BY <1>0, <1>1, Paying DEF Pay, At
<1>2. MayBeAt(w, "release") /\ MayBeAt(w, "done")
  BY DEF MayBeAt, Engaging
<1>3. CASE NothingToPay(w) \/ ReturnsHolding(w) \/ PayFails(w)
  BY <1>2, <1>3, QuietGo DEF NothingToPay, ReturnsHolding, PayFails, Places
<1>4. CASE Paid(w)
  <2>1. PICK place \in {"sendTips", "tips"} : Go(w, place)
    BY <1>4 DEF Paid
  <2>2. MayBeAt(w, place)
    BY <1>4, <2>1 DEF Paid, SaysSuccess, MayBeAt, Engaged
  <2>. QED
    BY <1>4, <2>1, <2>2, QuietGo DEF Paid, Places
<1>5. CASE MarkFailed(w)
  <2>1. CASE Go(w, "release") /\ UNCHANGED <<row, cache, holder>>
    BY <1>2, <1>5, <2>1, QuietGo DEF MarkFailed, Places
  <2>2. CASE SetStatus("failed") /\ holder' = None /\ cache' \in Recopied("failed") /\ Go(w, "done")
    <3>1. Moves(w, "done")
      BY <1>0, <2>2, GoMoves DEF Places
    <3>. QED
      BY <1>0, <1>2, <1>5, <2>2, <3>1, Ending DEF MarkFailed
  <2>. QED
    BY <1>5, <2>1, <2>2 DEF MarkFailed
<1>6. CASE Complete(w)
  <2>1. Moves(w, "done") /\ base[w] = "settled"
    BY <1>0, <1>6, GoMoves DEF Complete, Places, TaskFits
  <2>. QED
    BY <1>0, <1>2, <1>6, <2>1, Ending DEF Complete
<1>7. CASE CompleteFails(w)
  <2>1. PICK place \in {"done", "release"} : Go(w, place)
    BY <1>7 DEF CompleteFails
  <2>2. MayBeAt(w, place) /\ place \in Places
    BY <1>2 DEF Places
  <2>3. CASE UNCHANGED <<row, holder>>
    BY <1>7, <2>1, <2>2, <2>3, QuietGo DEF CompleteFails
  <2>4. CASE SetStatus("completed") /\ holder' = None
    <3>1. Moves(w, place) /\ base[w] = "settled"
      BY <1>0, <1>7, <2>1, <2>2, GoMoves DEF CompleteFails, TaskFits
    <3>2. cache' \in Recopied("completed") \cup {None}
      BY <1>7 DEF CompleteFails, Recopied
    <3>. QED
      BY <1>0, <1>7, <2>2, <2>4, <3>1, <3>2, Ending DEF CompleteFails
  <2>. QED
    BY <1>7, <2>3, <2>4 DEF CompleteFails
<1>. QED
  BY <1>1, <1>3, <1>4, <1>5, <1>6, <1>7

LEMMA TipsPreserve ==
  ASSUME IInv, AloneInv, NEW w \in Tasks, SendTips(w)
  PROVE  Keeps
<1>1. TypeOK /\ CacheInv /\ TaskFits(w) /\ MarksGrow
  BY DEF IInv, TasksInv, TypeOK, MarksGrow, SendTips
<1>2. PICK n \in TipSums(row.split) : tips' = [tips EXCEPT ![w] = n]
  BY DEF SendTips
<1>3. n \in Int
  BY <1>1, <1>2, TipSumsType DEF TypeOK
<1>4. Moves(w, "complete") /\ base[w] = "settled"
  BY <1>1, GoMoves DEF SendTips, Places, TaskFits
<1>5. /\ tips' \in [Tasks -> Int] /\ tips'[w] = n
      /\ \A v \in Tasks \ {w} : tips'[v] = tips[v]
  BY <1>1, <1>2, <1>3 DEF TypeOK
<1>6. RowChange
  BY <1>1, SameRow DEF SendTips, MarksGrow
<1>7. TaskFits(w)'
  BY <1>2, <1>4, <1>5 DEF SendTips, TaskFits, Moves
<1>8. Works(w)
  BY <1>1, <1>4, <1>5, <1>6, <1>7 DEF SendTips, Works, Moves, TypeOK
<1>9. Engaged(w)
  BY DEF Engaged, SendTips
<1>. QED
  BY <1>8, <1>9, WorksPreserves, StaysAlone DEF Keeps, SendTips

LEMMA PosPreserves ==
  ASSUME IInv, AloneInv, NEW w \in Tasks,
         DeferTips(w) \/ NoTipsToDefer(w) \/ PayInvoice(w) \/ PayInvoiceReadFails(w)
            \/ SendNwcTips(w) \/ Poll(w) \/ WarmUp(w) \/ Stop(w)
  PROVE  Keeps
<1>0. TypeOK /\ CacheInv /\ TaskFits(w) /\ MarksGrow
  BY DEF IInv, TasksInv, TypeOK, MarksGrow, DeferTips, NoTipsToDefer, PayInvoice,
         PayInvoiceReadFails, SendNwcTips, Poll, WarmUp, Stop
<1>1. MayBeAt(w, "release") /\ MayBeAt(w, "done") /\ MayBeAt(w, "warm")
  BY DEF MayBeAt, Engaging
<1>2. CASE DeferTips(w)
  <2>1. MayBeAt(w, "payInvoice")
    BY <1>0, <1>2 DEF DeferTips, At, TaskFits, MayBeAt, Engaged
  <2>. QED
    BY <1>2, <2>1, QuietGo DEF DeferTips, Places
<1>3. CASE NoTipsToDefer(w)
  <2>1. CASE Go(w, "release") /\ UNCHANGED <<row, cache, holder, marks>>
    BY <1>1, <1>3, <2>1, QuietGo DEF NoTipsToDefer, Places
  <2>2. CASE /\ SetStatus("completed") /\ holder' = None
             /\ cache' \in Recopied("completed") \cup {None}
             /\ marks' = marks \cup {"shortcut"}
             /\ Go(w, "payInvoice") \/ Go(w, "release")
    <3>1. PICK place \in {"payInvoice", "release"} : Go(w, place)
      BY <2>2
    <3>2. Moves(w, place)
      BY <1>0, <3>1, GoMoves DEF Places
    <3>3. MayBeAt(w, "payInvoice")
      BY <1>0, <1>3 DEF NoTipsToDefer, At, TaskFits, MayBeAt, Engaged
    <3>. QED
      BY <1>0, <1>1, <1>3, <2>2, <3>2, <3>3, Ending DEF NoTipsToDefer
  <2>. QED
    BY <1>3, <2>1, <2>2 DEF NoTipsToDefer, Recopied
<1>4. CASE PayInvoiceReadFails(w)
  BY <1>1, <1>4, QuietGo DEF PayInvoiceReadFails, Places
<1>5. CASE Stop(w)
  BY <1>1, <1>5, QuietGo DEF Stop, Places
<1>6. CASE WarmUp(w)
  <2>1. Moves(w, "done")
    BY <1>0, <1>6, GoMoves DEF WarmUp, Places
  <2>. QED
    BY <1>0, <1>1, <1>6, <2>1, Quiet DEF WarmUp
<1>7. CASE Poll(w)
  <2>1. PICK place \in {"warm", "done"} : Begin(w, "poll", place)
    BY <1>7 DEF Poll, After
  <2>. QED
    BY <1>7, <2>1, QuietBegin DEF Poll, Kinds
<1>8. CASE SendNwcTips(w)
  <2>1. PICK status \in Statuses :
          /\ Reads(status)
          /\ Go(w, IF status = "processing" THEN "tips" ELSE After(status))
    BY <1>8 DEF SendNwcTips
  <2>2. CASE status = "processing"
    <3>1. ~Final
      BY <1>0, <2>1, <2>2 DEF Reads, CacheInv, Final
    <3>2. MayBeAt(w, "tips")
      BY <1>0, <1>8, <3>1 DEF SendNwcTips, At, TaskFits, MayBeAt, Engaged
    <3>. QED
      BY <1>8, <2>1, <2>2, <3>2, QuietGo DEF SendNwcTips, Places
  <2>3. CASE status # "processing"
    <3>1. PICK place \in {"warm", "done"} : Go(w, place)
      BY <2>1, <2>3 DEF After
    <3>. QED
      BY <1>1, <1>8, <3>1, QuietGo DEF SendNwcTips, Places
  <2>. QED
    BY <2>2, <2>3
<1>9. CASE PayInvoice(w)
  <2>1. PICK status \in Statuses :
          /\ Reads(status)
          /\ base' = IF MayPay(status) THEN [base EXCEPT ![w] = "wire"] ELSE base
          /\ Go(w, IF MayPay(status) THEN "paying"
                   ELSE IF status = "completed" /\ HasTips(row.split) THEN "sendTips"
                   ELSE After(status))
          /\ marks' = IF status = "completed" THEN marks \cup {"told"} ELSE marks
    BY <1>9 DEF PayInvoice
  <2>2. task[w].at = "payInvoice" /\ UNCHANGED <<row, cache, tips, holder>> /\ Engaged(w)
    BY <1>9 DEF PayInvoice, At, Engaged
  <2>3. CASE MayPay(status)
    BY <1>0, <2>1, <2>2, <2>3, Paying
  <2>4. CASE ~MayPay(status)
    <3>1. PICK place \in {"sendTips", "warm", "done"} :
             Go(w, place) /\ (place = "sendTips" => status = "completed")
      BY <2>1, <2>4 DEF After
    <3>2. place = "sendTips" => Final
      BY <1>0, <2>1, <3>1 DEF Reads, CacheInv, Final
    <3>3. MayBeAt(w, place)
      BY <1>1, <2>2, <3>2 DEF MayBeAt
    <3>4. Moves(w, place)
      BY <1>0, <3>1, GoMoves DEF Places
    <3>5. UNCHANGED base
      BY <2>1, <2>4
    <3>. QED
      BY <1>0, <2>2, <3>3, <3>4, <3>5, Quiet
  <2>. QED
    BY <2>3, <2>4
<1>. QED
  BY <1>2, <1>3, <1>4, <1>5, <1>6, <1>7, <1>8, <1>9

LEMMA ReleasePreserves ==
  ASSUME IInv, AloneInv, NEW w \in Tasks, Release(w)
  PROVE  Keeps
<1>1. TypeOK /\ CacheInv /\ TaskFits(w)
  BY DEF IInv, TasksInv
<1>2. Moves(w, "done") /\ task[w].at = "release"
  BY <1>1, GoMoves DEF Release, Places
<1>3. CASE ~Releasable
  BY <1>3, QuietGo DEF Release, Places, MayBeAt, Engaging
<1>4. CASE Releasable
  <2>1. /\ row.status = "processing" /\ SetStatus("pending") /\ holder' = None
        /\ marks' = marks \cup (IF Out(w) THEN {"unsure"} ELSE {})
                          \cup (IF holder # w THEN {"foreign"} ELSE {})
        /\ UNCHANGED <<cache, base, tips>>
    BY <1>4 DEF Release, Releasable
  <2>2. row' \in Rows /\ row'.status = "pending" /\ row'.split = row.split
    BY <1>1, <2>1, SetTheStatus DEF Statuses
  <2>3. ~Final
    BY <2>1 DEF Final
  <2>4. MarksGrow
    BY <1>1, <2>1 DEF MarksGrow, TypeOK
  <2>5. RowChange
    <3>1. CacheInv' /\ cache' \in Statuses \cup {None}
      BY <1>1, <2>1, <2>3 DEF CacheInv, TypeOK
    <3>. QED
      BY <2>1, <2>2, <2>3, <2>4, <3>1 DEF RowChange, MarksGrow
  <2>6. TaskFits(w)'
    BY <1>1, <1>2, <2>1, <2>2 DEF TaskFits, Moves
  <2>7. Works(w)
    BY <1>1, <1>2, <2>1, <2>2, <2>5, <2>6 DEF Works, Moves, TypeOK
  <2>8. AloneInv'
    <3>. SUFFICES ASSUME Clean'
                  PROVE  \A v \in Tasks : ~Engaged(v)'
      BY DEF AloneInv
    <3>1. Clean /\ ~Out(w) /\ holder = w
      BY <2>1 DEF Clean
    <3>2. tips[w] = 0
      BY <1>1, <3>1 DEF TaskFits, Out
    <3>3. ~Engaged(w)'
      BY <1>2, <2>1, <3>1, <3>2 DEF Moves, Engaged, Out
    <3>4. \A v \in Tasks \ {w} : ~Engaged(v)
      BY <2>1, <3>1 DEF AloneInv
    <3>5. \A v \in Tasks \ {w} : ~Engaged(v)'
      BY <1>2, <2>1, <3>4 DEF Moves, Engaged, Out
    <3>. QED
      BY <3>3, <3>5
  <2>. QED
    BY <2>7, <2>8, WorksPreserves DEF Keeps
<1>. QED
  BY <1>3, <1>4

LEMMA BlinkPreserves ==
  ASSUME IInv, AloneInv, NEW w \in Tasks, BlinkExecutes(w)
  PROVE  Keeps
<1>1. TypeOK /\ CacheInv /\ TaskFits(w)
  BY DEF IInv, TasksInv
<1>2. PICK b \in BaseStates :
        /\ <<base[w], b>> \in {<<"wire", "inflight">>, <<"wire", "failed">>,
                               <<"inflight", "settled">>, <<"inflight", "failed">>}
        /\ base' = [base EXCEPT ![w] = b]
  BY DEF BlinkExecutes
<1>3. base[w] \in {"wire", "inflight"}
  BY <1>2
<1>4. UNCHANGED <<row, cache, task, tips, holder, marks>>
  BY DEF BlinkExecutes
<1>5. /\ base' \in [Tasks -> BaseStates]
      /\ \A v \in Tasks \ {w} : base'[v] = base[v]
  BY <1>1, <1>2 DEF TypeOK
<1>6. RowChange
  BY <1>1, <1>4, SameRow DEF TypeOK
<1>7. TaskFits(w)'
  BY <1>1, <1>3, <1>4 DEF TaskFits, Final
<1>8. Works(w)
  BY <1>1, <1>3, <1>4, <1>5, <1>6, <1>7 DEF Works, TypeOK, TaskRecords
<1>9. Engaged(w)
  BY <1>3 DEF Engaged, Out
<1>. QED
  BY <1>4, <1>8, <1>9, WorksPreserves, StaysAlone DEF Keeps

(* The cleanup job, and the copy's time to live: no task moves. *)
LEMMA JobPreserves ==
  ASSUME IInv, AloneInv, Expire \/ CopyExpires \/ UNCHANGED vars
  PROVE  Keeps
<1>1. TypeOK /\ CacheInv /\ UNCHANGED <<task, base, tips, marks>>
  BY DEF IInv, Expire, CopyExpires, vars
<1>2. RowChange /\ (row'.status = "completed" => row.status = "completed")
      /\ (UNCHANGED <<row, holder>> \/ Final')
  <2>1. CASE Expire
    <3>1. SetStatus("expired") /\ holder' = None /\ cache' \in Recopied("expired") \cup {None}
      BY <2>1 DEF Expire, DropCopy, Recopied
    <3>. QED
      BY <1>1, <3>1, RowEnds DEF TypeOK
  <2>2. CASE CopyExpires \/ UNCHANGED vars
    <3>1. UNCHANGED <<row, holder>> /\ cache' \in {cache, "pending", None}
      BY <2>2 DEF CopyExpires, vars
    <3>. QED
      BY <1>1, <3>1, SameRow DEF TypeOK
  <2>. QED
    BY <2>1, <2>2
<1>3. ASSUME NEW w \in Tasks
      PROVE  Keeps
  <2>1. TaskFits(w)'
    <3>1. TaskFits(w)
      BY DEF IInv, TasksInv
    <3>2. TipSums(row'.split) = TipSums(row.split) /\ (Final => Final')
      BY <1>2 DEF RowChange
    <3>. QED
      BY <1>1, <3>1, <3>2 DEF TaskFits
  <2>2. Works(w)
    BY <1>1, <1>2, <2>1 DEF Works, TypeOK, TaskRecords
  <2>3. Engaged(w)' => Engaged(w)
    BY <1>1 DEF Engaged, Out
  <2>. QED
    BY <1>2, <2>2, <2>3, WorksPreserves, StaysAlone DEF Keeps
<1>4. CASE Tasks = {}
  <2>1. TypeOK' /\ CacheInv'
    BY <1>1, <1>2 DEF TypeOK, RowChange, Rows
  <2>2. CompletedIsPaid'
    BY <1>1, <1>2 DEF CompletedIsPaid, IInv
  <2>. QED
    BY <1>4, <2>1, <2>2 DEF Keeps, IInv, TasksInv, AloneInv
<1>. QED
  BY <1>3, <1>4

-------------------------------------------------------------------------------
(* Theorems. *)

(* Whatever fails or is late: a task that sends tips or completes the row   *)
(* paid the base amount, and redis calls only a row completed that is done. *)
THEOREM Invariance == Spec => [](IInv /\ AloneInv)
<1>1. Init => IInv /\ AloneInv
  <2>. SUFFICES ASSUME Init
                PROVE  IInv /\ AloneInv
    OBVIOUS
  <2>1. row.status = "pending" /\ row \in Rows /\ cache \in {"pending", None}
    BY DEF Init, Rows, Statuses
  <2>2. TypeOK
    BY <2>1 DEF Init, TypeOK, Rows, Statuses, Kinds, Places, BaseStates
  <2>3. CacheInv
    <3>1. None \notin Statuses
      BY SplitsAssumption
    <3>. QED
      BY <2>1, <3>1 DEF CacheInv, Statuses
  <2>4. TasksInv
    BY DEF Init, TasksInv, TaskFits
  <2>5. CompletedIsPaid
    BY <2>1 DEF CompletedIsPaid
  <2>6. \A w \in Tasks : ~Engaged(w)
    BY DEF Init, Engaged, Out
  <2>. QED
    BY <2>2, <2>3, <2>4, <2>5, <2>6 DEF IInv, AloneInv
<1>2. IInv /\ AloneInv /\ [Next]_vars => IInv' /\ AloneInv'
  <2>. SUFFICES ASSUME IInv, AloneInv, [Next]_vars
                PROVE  Keeps
    BY DEF Keeps
  <2>. QED
    BY ClaimsPreserve, ForwardPreserves, TipsPreserve, PosPreserves, ReleasePreserves,
       BlinkPreserves, JobPreserves DEF Next
<1>. QED
  BY <1>1, <1>2, PTL DEF Spec

(* Every variable keeps its type, and the row is 'processing' exactly while  *)
(* somebody's claim is on it.                                                *)
THEOREM TypeCorrect == Spec => []TypeOK
<1>1. IInv => TypeOK
  BY DEF IInv
<1>. QED
  BY <1>1, Invariance, PTL

(* A completed row was paid, by removeTipData after SUCCESS, unless the POS's *)
(* flow without tips completed it.                                           *)
THEOREM CompletedMeansPaid == Spec => []CompletedIsPaid
<1>1. IInv => CompletedIsPaid
  BY DEF IInv
<1>. QED
  BY <1>1, Invariance, PTL

(* While no claim is released under an unsettled payment or by a stranger,  *)
(* one base payment and one round of tips at most go out.                   *)
THEOREM ForwardsOnce == Spec => []ForwardedOnce
<1>1. ASSUME NEW S \in SUBSET Tasks, \A v, w \in S : v = w
      PROVE  Cardinality(S) <= 1
  <2>1. CASE S = {}
    BY <2>1, FS_EmptySet
  <2>2. CASE S # {}
    <3>1. PICK w : w \in S
      BY <2>2
    <3>2. S = {w}
      BY <1>1, <3>1
    <3>. QED
      BY <3>2, FS_Singleton
  <2>. QED
    BY <2>1, <2>2
<1>2. AloneInv => ForwardedOnce
  <2>. SUFFICES ASSUME AloneInv, Clean
                PROVE  /\ Cardinality(Payments) <= 1
                       /\ Cardinality({w \in Tasks : tips[w] # 0}) <= 1
    BY DEF ForwardedOnce, Clean
  <2>1. \A v, w \in Payments : v = w
    BY DEF Payments, Engaged, AloneInv
  <2>2. \A v, w \in {u \in Tasks : tips[u] # 0} : v = w
    BY DEF Engaged, AloneInv
  <2>. QED
    BY <1>1, <2>1, <2>2 DEF Payments
<1>. QED
  BY <1>2, Invariance, PTL

(* No step reopens a row that is done: releaseFailedClaim asks for           *)
(* 'processing', the claim for 'pending'.                                    *)
THEOREM StaysDone == Spec => NeverReopened
<1>1. TypeOK /\ [Next]_vars
         => [row.status \in {"completed", "failed", "expired"}
               => row'.status \notin {"pending", "processing"}]_vars
  <2>. SUFFICES ASSUME TypeOK, Next, row.status \in {"completed", "failed", "expired"}
                PROVE  row'.status \notin {"pending", "processing"}
    OBVIOUS
  <2>1. \A st \in Statuses : SetStatus(st) => row'.status = st
    BY SetTheStatus
  <2>2. UNCHANGED row \/ SetStatus("failed") \/ SetStatus("completed")
    BY DEF Next, Claim, Claimable, ClaimRefused, ClaimFails, ClaimAnswerLost, Release, Releasable,
       Pay, NothingToPay, ReturnsHolding, MarkFailed, Paid, PayFails, SendTips, Complete,
       CompleteFails, DeferTips, NoTipsToDefer, PayInvoice, PayInvoiceReadFails, SendNwcTips, Poll,
       WarmUp, Stop, BlinkExecutes, Expire, Expirable, CopyExpires
  <2>. QED
    BY <2>1, <2>2 DEF Statuses
<1>. QED
  BY <1>1, TypeCorrect, PTL DEF Spec, NeverReopened

-------------------------------------------------------------------------------
(* The tip.  The floors of all recipients but the last add up to at most    *)
(* the tip, so the last one's remainder is not negative and the portions    *)
(* add up to the tip exactly; whichever of them go out, they are part of it. *)

LEMMA FloorIsBelow ==
  ASSUME NEW m \in Nat
  PROVE  m \div 100 \in Nat /\ 100 * (m \div 100) <= m
OBVIOUS

LEMMA ScaledSum ==
  ASSUME NEW t \in Nat, NEW p, NEW q, NEW P, NEW Q, p \in Int, q \in Int, P \in Int, Q \in Int,
         100 * p <= t * q, 100 * P <= t * Q
  PROVE  100 * (p + P) <= t * (q + Q)
<1>1. t * (q + Q) = t * q + t * Q
  OBVIOUS
<1>2. t * q \in Int /\ t * Q \in Int
  OBVIOUS
<1> DEFINE x == t * q
           y == t * Q
<1>3. x \in Int /\ y \in Int /\ 100 * p <= x /\ 100 * P <= y /\ t * (q + Q) = x + y
  BY <1>1, <1>2
<1>. HIDE DEF x, y
<1>. QED
  BY <1>3

LEMMA FloorsAddUp ==
  ASSUME NEW t \in Nat, NEW share, NEW part, NEW S, IsFiniteSet(S),
         \A i \in S : share[i] \in Nat /\ part[i] \in Nat /\ 100 * part[i] <= t * share[i]
  PROVE  100 * SumFunctionOnSet(part, S) <= t * SumFunctionOnSet(share, S)
<1> DEFINE Fits(T) == 100 * SumFunctionOnSet(part, T) <= t * SumFunctionOnSet(share, T)
           G == {T \in SUBSET S : Fits(T)}
<1>1. {} \in G
  BY SumEmpty
<1>2. ASSUME NEW T \in SUBSET S, T # {}, \A x \in T : T \ {x} \in G
      PROVE  T \in G
  <2>1. PICK x : x \in T
    BY <1>2
  <2>2. IsFiniteSet(T) /\ IsFiniteSet(T \ {x})
    BY FS_Subset
  <2>3. \A i \in T : share[i] \in Int /\ part[i] \in Int
    OBVIOUS
  <2>4. /\ SumFunctionOnSet(part, T) = part[x] + SumFunctionOnSet(part, T \ {x})
        /\ SumFunctionOnSet(share, T) = share[x] + SumFunctionOnSet(share, T \ {x})
    BY <2>1, <2>2, <2>3, SumRemove
  <2>5. SumFunctionOnSet(part, T \ {x}) \in Int /\ SumFunctionOnSet(share, T \ {x}) \in Int
    BY <2>2, <2>3, SumType
  <2>6. Fits(T \ {x})
    BY <1>2, <2>1
  <2>7. Fits(T)
    BY <2>1, <2>3, <2>4, <2>5, <2>6, ScaledSum
  <2>. QED
    BY <2>7
<1>. HIDE DEF G
<1>3. SUBSET S \subseteq G
  BY <1>1, <1>2, SubsetsByElements
<1>. QED
  BY <1>3 DEF G

LEMMA SumsWithinTip ==
  ASSUME NEW s \in Splits, SharesFit(s), NEW x \in TipSums(s)
  PROVE  x <= s.tip
<1>1. CASE ~HasTips(s)
  BY <1>1, Shares DEF TipSums
<1>2. CASE HasTips(s)
  <2> DEFINE n == Len(s.shares)
             part == [i \in 1..n |-> Portion(s, i)]
             share == s.shares
             a == RecipientAmounts(s)
             P == SumFunctionOnSet(part, 1..(n - 1))
             t == s.tip
  <2>1. n \in Nat \ {0} /\ t \in Nat
    <3>1. n \in Nat /\ n > 0 /\ t \in Nat
      BY <1>2, Shares
    <3>. HIDE DEF n, t
    <3>. QED
      BY <3>1
  <2>2. \A i \in 1..(n - 1) : i \in 1..n /\ share[i] \in Nat /\ share[i] > 0
    <3>1. \A i \in 1..n : share[i] \in Int
      BY Shares
    <3>2. \A i \in 1..(n - 1) : share[i] > 0
      BY DEF SharesFit
    <3>. HIDE DEF n, share
    <3>. QED
      BY <2>1, <3>1, <3>2
  <2>3. \A i \in 1..(n - 1) : part[i] \in Nat /\ 100 * part[i] <= t * share[i]
    <3>. TAKE i \in 1..(n - 1)
    <3>1. i \in 1..n /\ share[i] \in Nat /\ share[i] > 0
      BY <2>2
    <3>2. part[i] = (t * share[i]) \div 100
      BY <3>1 DEF Portion
    <3>3. t * share[i] \in Nat
      BY <2>1, <3>1, Quotient
    <3>. HIDE DEF part, share, t
    <3>. QED
      BY <3>2, <3>3, FloorIsBelow
  <2>4. PICK R \in SUBSET {i \in DOMAIN a : a[i] > 0} : x = SumFunctionOnSet(a, R)
    BY <1>2 DEF TipSums
  <2>5. a = [part EXCEPT ![n] = t - P] /\ DOMAIN part = 1..n
    BY DEF RecipientAmounts
  <2>. HIDE DEF a, part, share, n, t
  <2>6. /\ IsFiniteSet(1..n) /\ IsFiniteSet(1..(n - 1)) /\ 1..(n - 1) = (1..n) \ {n}
        /\ n \in 1..n
    BY <2>1, FS_Interval
  <2> DEFINE Q == SumFunctionOnSet(share, 1..(n - 1))
  <2>7. P \in Nat /\ Q \in Nat /\ Q <= 100
    <3>1. P \in Nat
      BY <2>3, <2>6, SumGrows
    <3>2. Q \in Nat
      BY <2>2, <2>6, SumGrows
    <3>3. Q <= 100
      BY DEF SharesFit, n, share
    <3>. QED
      BY <3>1, <3>2, <3>3
  <2>8. 100 * P <= t * Q
    <3>1. \A i \in 1..(n - 1) : share[i] \in Nat /\ part[i] \in Nat /\ 100 * part[i] <= t * share[i]
      BY <2>2, <2>3
    <3>. QED
      BY <2>1, <2>6, <3>1, FloorsAddUp
  <2>. HIDE DEF P, Q
  <2>9. P <= t
    <3>1. t * Q <= t * 100
      BY <2>1, <2>7
    <3> DEFINE tq == t * Q
    <3>2. tq \in Int /\ 100 * P <= tq /\ tq <= 100 * t
      BY <2>1, <2>7, <2>8, <3>1
    <3>. HIDE DEF tq
    <3>. QED
      BY <2>1, <2>7, <3>2
  <2>10. \A i \in 1..n : a[i] \in Nat
    <3>. TAKE i \in 1..n
    <3>1. CASE i = n
      BY <2>1, <2>5, <2>7, <2>9, <3>1
    <3>2. CASE i # n
      BY <2>3, <2>5, <2>6, <3>2
    <3>. QED
      BY <3>1, <3>2
  <2>11. SumFunctionOnSet(a, 1..n) = t
    <3>1. SumFunctionOnSet(a, 1..n) = a[n] + SumFunctionOnSet(a, 1..(n - 1))
      BY <2>6, <2>10, SumRemove
    <3>2. SumFunctionOnSet(a, 1..(n - 1)) = P
      <4>1. \A i \in 1..(n - 1) : a[i] = part[i]
        BY <2>5, <2>6
      <4>. QED
        BY <2>6, <4>1, SumSame DEF P
    <3>3. a[n] = t - P
      BY <2>5, <2>6
    <3>. QED
      BY <2>1, <2>7, <3>1, <3>2, <3>3
  <2>12. R \in SUBSET (1..n)
    BY <2>4, <2>5
  <2>13. SumFunctionOnSet(a, R) <= SumFunctionOnSet(a, 1..n)
    BY <2>6, <2>10, <2>12, SumGrows
  <2>. QED
    BY <2>4, <2>11, <2>13 DEF t
<1>. QED
  BY <1>1, <1>2

(* Where at most one task sent anything, all tasks together sent what that   *)
(* one sent.                                                                *)
LEMMA OneSender ==
  ASSUME TypeOK, NEW t \in Nat, \A w \in Tasks : tips[w] <= t,
         \A v, w \in Tasks : tips[v] # 0 /\ tips[w] # 0 => v = w
  PROVE  SumFunctionOnSet(tips, Tasks) <= t
<1>1. IsFiniteSet(Tasks) /\ \A w \in Tasks : tips[w] \in Int
  BY SplitsAssumption DEF TypeOK
<1>2. \A S \in SUBSET Tasks : (\A w \in S : tips[w] = 0) => SumFunctionOnSet(tips, S) <= 0
  <2>. SUFFICES ASSUME NEW S \in SUBSET Tasks, \A w \in S : tips[w] = 0
                PROVE  SumFunctionOnSet(tips, S) <= 0
    OBVIOUS
  <2>1. IsFiniteSet(S)
    BY <1>1, FS_Subset
  <2>2. \A w \in S : tips[w] \in Nat /\ 100 * tips[w] <= 0 * tips[w]
    OBVIOUS
  <2>3. 100 * SumFunctionOnSet(tips, S) <= 0 * SumFunctionOnSet(tips, S)
    BY <2>1, <2>2, FloorsAddUp
  <2>4. SumFunctionOnSet(tips, S) \in Int
    BY <1>1, <2>1, SumType
  <2>. QED
    BY <2>3, <2>4
<1>3. CASE \A w \in Tasks : tips[w] = 0
  <2>1. SumFunctionOnSet(tips, Tasks) <= 0 /\ SumFunctionOnSet(tips, Tasks) \in Int
    BY <1>1, <1>2, <1>3, SumType
  <2>. QED
    BY <2>1
<1>4. CASE \E w \in Tasks : tips[w] # 0
  <2>1. PICK w \in Tasks : tips[w] # 0
    BY <1>4
  <2> DEFINE rest == SumFunctionOnSet(tips, Tasks \ {w})
  <2>2. SumFunctionOnSet(tips, Tasks) = tips[w] + rest
    BY <1>1, <2>1, SumRemove
  <2>3. rest <= 0
    BY <1>2, <2>1
  <2>4. rest \in Int
    <3>1. IsFiniteSet(Tasks \ {w})
      BY <1>1, FS_Subset
    <3>. QED
      BY <1>1, <3>1, SumType
  <2>. HIDE DEF rest
  <2>. QED
    BY <1>1, <2>1, <2>2, <2>3, <2>4
<1>. QED
  BY <1>3, <1>4

(* If the shares fit, the tips an attempt sends are within the tip that the  *)
(* customer paid, whichever of the recipients' payments go out; and with     *)
(* clean releases so are the tips of all attempts, for only one sends any.   *)
THEOREM TipsStayWithin == Spec => []TipsWithinTip
<1>1. IInv /\ AloneInv => TipsWithinTip
  <2>. SUFFICES ASSUME IInv, AloneInv, SharesFit(row.split)
                PROVE  /\ \A w \in Tasks : tips[w] <= row.split.tip
                       /\ Clean => SumFunctionOnSet(tips, Tasks) <= row.split.tip
    BY DEF TipsWithinTip
  <2>1. TypeOK /\ row.split \in Splits
    BY DEF IInv, TypeOK
  <2>2. row.split.tip \in Nat
    BY <2>1, Shares
  <2>3. ASSUME NEW w \in Tasks
        PROVE  tips[w] <= row.split.tip
    <3>1. CASE tips[w] = 0
      BY <2>2, <3>1
    <3>2. CASE tips[w] \in TipSums(row.split)
      BY <2>1, <3>2, SumsWithinTip
    <3>. QED
      BY <3>1, <3>2 DEF IInv, TasksInv, TaskFits
  <2>4. ASSUME Clean
        PROVE  \A v, w \in Tasks : tips[v] # 0 /\ tips[w] # 0 => v = w
    BY <2>4 DEF AloneInv, Engaged
  <2>5. ASSUME Clean
        PROVE  SumFunctionOnSet(tips, Tasks) <= row.split.tip
    BY <2>1, <2>2, <2>3, <2>4, <2>5, OneSender
  <2>. QED
    BY <2>3, <2>5
<1>. QED
  BY <1>1, Invariance, PTL

===============================================================================
