------------------------- MODULE ReconcileScheduler --------------------------
(***************************************************************************)
(* Which open withdrawal rows a reconciliation pass reaches, and when:      *)
(* lib/boltcard/reconcile-scheduler.ts with the loop of                     *)
(* reconcilePendingWithdrawals.  A tick takes the advisory lock and runs a  *)
(* pass over the first Batch rows in selection order; examining a row moves *)
(* it to the back.  A deadline ends the tick but not what the pass is       *)
(* waiting for: it goes on with that row, next to the next tick's pass.     *)
(* The owner's balance tap runs a pass over one card, unlimited and without *)
(* the lock.  What a pass does to a row is module CardWithdraw.             *)
(*                                                                          *)
(* Abstracted: a replica is the slots its passes run in; time is the order  *)
(* of the stamps (the clock of a stamp is read as it is written); the       *)
(* report of stale rows and the timers.                                     *)
(***************************************************************************)
EXTENDS Naturals, Sequences, FiniteSets, Functions

CONSTANTS Withdrawals, \* their payment hashes
          Card,        \* [Withdrawals -> cards]: the card each is claimed on
          Slots,       \* the passes that may be under way at once
          Batch,       \* BOLTCARD_RECONCILE_BATCH
          Nothing

ASSUME ReconcileAssumption ==
    /\ Card \in [Withdrawals -> Range(Card)]
    /\ Batch \in Nat \ {0}
    /\ Nothing \notin Withdrawals \cup Slots

VARIABLES fresh,    \* open rows never checked, in creation order
          checked,  \* open rows by last_checked_at
          claimed,  \* every hash ever claimed
          run,      \* run[s]: the pass in slot s
          lock,     \* the advisory lock: the slot whose tick holds it
          wait      \* wait[h]: since h was created or last examined (history)

schedulerVars == <<fresh, checked, claimed, run, lock, wait>>

(* The rows of a queue that are in S, in the order of the queue. *)
Keep(q, S) ==
    LET kept[n \in 0..Len(q)] ==
          IF n = 0 THEN <<>>
          ELSE IF q[n] \in S THEN Append(kept[n - 1], q[n]) ELSE kept[n - 1]
    IN kept[Len(q)]

NoRun == [kind |-> "none", todo |-> <<>>, at |-> Nothing, late |-> FALSE, missed |-> {}]
Runs == [kind : {"none", "locked", "scheduled", "owner"}, todo : Seq(Withdrawals),
           at : Withdrawals \cup {Nothing}, late : BOOLEAN, missed : SUBSET Withdrawals]

BacklogTypeOK ==
    /\ fresh \in Seq(Withdrawals) /\ checked \in Seq(Withdrawals)
    /\ IsInjective(fresh \o checked)
    /\ Range(fresh \o checked) \subseteq claimed /\ claimed \subseteq Withdrawals
    /\ run \in [Slots -> Runs]
    /\ \A s \in Slots : lock = s <=> run[s].kind \in {"locked", "scheduled"} /\ ~run[s].late
    /\ wait \in [Withdrawals -> [passes : Nat, room : Nat]]

SchedulerInit ==
    /\ fresh = <<>> /\ checked = <<>> /\ claimed = {}
    /\ run = [s \in Slots |-> NoRun]
    /\ lock = Nothing
    /\ wait = [h \in Withdrawals |-> [passes |-> 0, room |-> 0]]

OrderNullsLast == checked \o fresh

(* ORDER BY last_checked_at ASC NULLS FIRST, created_at ASC *)
Order == fresh \o checked

Open == Range(Order)
Without(q, h) == Keep(q, Withdrawals \ {h})
Waiting(n) == [passes |-> 0, room |-> n]
Later(w) == [w EXCEPT !.room = @ + 1]

-------------------------------------------------------------------------------
(* The backlog. *)

Claim(h) ==
    LET n == Len(Order) + 1 IN
    /\ h \notin claimed
    /\ fresh' = Append(fresh, h)
    /\ claimed' = claimed \cup {h}
    /\ wait' = [g \in Withdrawals |->
                  IF g = h THEN Waiting(n) ELSE IF g \in Open THEN Later(wait[g]) ELSE wait[g]]
    /\ UNCHANGED <<checked, run, lock>>

Unqueue(h) ==
    /\ fresh' = Without(fresh, h) /\ checked' = Without(checked, h)
    /\ wait' = [wait EXCEPT ![h] = Waiting(0)]

(* The callback finalises it, or its card's row is deleted. *)
ResolvedElsewhere(h) ==
    /\ h \in Open
    /\ Unqueue(h)
    /\ UNCHANGED <<claimed, run, lock>>

-------------------------------------------------------------------------------
(* Passes. *)

Free(s) == run[s].kind = "none"

LockFreeIgnored == TRUE

(* pg_try_advisory_lock; a tick that does not get it is skipped. *)
LockFree == lock = Nothing

Tick(s) ==
    /\ Free(s) /\ LockFree
    /\ run' = [run EXCEPT ![s].kind = "locked"]
    /\ lock' = s
    /\ UNCHANGED <<fresh, checked, claimed, wait>>

SelectBatch(s) ==
    /\ run[s].kind = "locked"
    /\ LET rows == SubSeq(Order, 1, IF Len(Order) < Batch THEN Len(Order) ELSE Batch) IN
       run' = [run EXCEPT ![s] =
                  IF @.late THEN [@ EXCEPT !.kind = "scheduled"]
                  ELSE [@ EXCEPT !.kind = "scheduled", !.todo = rows,
                                 !.missed = Open \ Range(rows)]]
    /\ UNCHANGED <<fresh, checked, claimed, lock, wait>>

(* A balance tap on card c. *)
OwnerTap(s, c) ==
    /\ Free(s) /\ \E h \in Open : Card[h] = c
    /\ run' = [run EXCEPT ![s] = [@ EXCEPT !.kind = "owner",
                                        !.todo = Keep(Order, {h \in Open : Card[h] = c})]]
    /\ UNCHANGED <<fresh, checked, claimed, lock, wait>>

(* MARK_WITHDRAWAL_CHECKED_SQL: a no-op once resolved. *)
Rotate(h) ==
    IF h \in Open
      THEN fresh' = Without(fresh, h) /\ checked' = Append(Without(checked, h), h)
      ELSE UNCHANGED <<fresh, checked>>

Between(s) == run[s].kind \in {"scheduled", "owner"} /\ run[s].at = Nothing

(* The next row of the loop, which the signal would have emptied: stamp it. *)
BeginRow(s) ==
    LET h == Head(run[s].todo) IN
    /\ Between(s) /\ run[s].todo # <<>>
    /\ Rotate(h)
    /\ run' = [t \in Slots |->
                  IF t = s THEN [run[s] EXCEPT !.at = h, !.todo = Tail(@), !.missed = @ \ {h}]
                  ELSE [run[t] EXCEPT !.missed = @ \ {h}]]
    /\ wait' = [wait EXCEPT ![h] = IF h \in Open THEN Waiting(Len(Order)) ELSE @]
    /\ UNCHANGED <<claimed, lock>>

(* The row is resolved, or left for a later pass, or the lookup was aborted. *)
RowDone(s) ==
    /\ run[s].at # Nothing
    /\ run' = [run EXCEPT ![s].at = Nothing]
    /\ Unqueue(run[s].at) \/ UNCHANGED <<fresh, checked, wait>>
    /\ UNCHANGED <<claimed, lock>>

ReleaseNever(s) == lock' = IF lock = s THEN s ELSE lock

Release(s) == lock' = IF lock = s THEN Nothing ELSE lock

PassEnds(s) ==
    /\ Between(s) /\ run[s].todo = <<>>
    /\ run' = [run EXCEPT ![s] = NoRun]
    /\ Release(s)
    /\ wait' = [h \in Withdrawals |->
                  IF h \in run[s].missed \cap Open
                    THEN [wait[h] EXCEPT !.passes = @ + 1] ELSE wait[h]]
    /\ UNCHANGED <<fresh, checked, claimed>>

(* The tick gives up: it unlocks, and signals the pass, which may still be  *)
(* waiting for the batch or for a row but begins no other.                  *)
Deadline(s) ==
    /\ run[s].kind \in {"locked", "scheduled"} /\ ~run[s].late
    /\ run' = [run EXCEPT ![s] = [@ EXCEPT !.late = TRUE, !.todo = <<>>, !.missed = {}]]
    /\ Release(s)
    /\ UNCHANGED <<fresh, checked, claimed, wait>>

(* The process dies, its session with it, or the selection fails. *)
Dies(s) ==
    /\ ~Free(s)
    /\ run' = [run EXCEPT ![s] = NoRun]
    /\ Release(s)
    /\ UNCHANGED <<fresh, checked, claimed, wait>>

-------------------------------------------------------------------------------
PassStep(s) == SelectBatch(s) \/ BeginRow(s) \/ RowDone(s) \/ PassEnds(s)

SchedulerNext ==
    \/ \E h \in Withdrawals : Claim(h) \/ ResolvedElsewhere(h)
    \/ \E s \in Slots :
        \/ Tick(s) \/ PassStep(s) \/ Deadline(s) \/ Dies(s)
        \/ \E c \in Range(Card) : OwnerTap(s, c)

SchedulerSpec == SchedulerInit /\ [][SchedulerNext]_schedulerVars

(* Every await of a pass returns (a lookup is aborted by the signal), ticks *)
(* keep coming and find a free slot, and a tick is not for ever cut short   *)
(* before it has stamped its first row.                                     *)
FairSchedulerSpec ==
    /\ SchedulerSpec
    /\ \A s \in Slots : WF_schedulerVars(PassStep(s))
    /\ SF_schedulerVars(\E s \in Slots : Tick(s))
    /\ SF_schedulerVars(\E s \in Slots : SelectBatch(s) /\ ~run[s].late)
    /\ SF_schedulerVars(\E s \in Slots : run[s].kind = "scheduled" /\ BeginRow(s))

-------------------------------------------------------------------------------
(* Properties. *)

(* What the rotation gives a row: each completed scheduled pass that missed *)
(* it has used up Batch of the rows that were there when it was last        *)
(* examined or have come since, whatever taps, deadlines, crashes and late  *)
(* passes happen in between.                                                *)
CoveredByPasses ==
    \A h \in Open : wait[h].passes * Batch < wait[h].room

(* "Selection is never-checked first, then least recently checked, so a     *)
(* stuck prefix cannot starve later rows": every open row is examined again *)
(* and again until it is resolved, even if every lookup runs into the       *)
(* deadline.  This is the fairness module CardWithdraw assumes.             *)
EveryOpenRowIsExamined ==
    \A h \in Withdrawals : []<>(h \notin Open \/ \E s \in Slots : run[s].at = h)

-------------------------------------------------------------------------------
(* The inductive invariant.                                                 *)

(* The rows that stand before h in a queue, and in the selection order.     *)
Before(q, h) == {q[i] : i \in {n \in DOMAIN q : \E m \in DOMAIN q : n < m /\ q[m] = h}}
Ahead(h) == Before(Order, h)

(* A free slot is clean, and only the pass whose tick holds the lock has    *)
(* rows it is said to miss.                                                 *)
RunsInv ==
    \A s \in Slots :
        /\ Free(s) => run[s] = NoRun
        /\ run[s].missed \subseteq claimed
        /\ run[s].missed # {} => run[s].kind = "scheduled" /\ ~run[s].late

(* The rows before h fit into the room the passes that missed h have left.  *)
QueueInv ==
    \A h \in Open : Cardinality(Ahead(h)) + wait[h].passes * Batch < wait[h].room

(* When a pass has missed h, the rows before h that it will not reach any   *)
(* more leave room for this pass too: what it selected stood before h, and  *)
(* what it has examined no longer does.                                     *)
ProgressInv ==
    \A s \in Slots : \A h \in run[s].missed \cap Open :
        Cardinality(Ahead(h) \ Range(run[s].todo)) + (wait[h].passes + 1) * Batch
            < wait[h].room

SchedulerIInv == BacklogTypeOK /\ RunsInv /\ QueueInv /\ ProgressInv
===============================================================================
