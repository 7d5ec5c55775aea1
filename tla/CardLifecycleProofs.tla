-------------------------- MODULE CardLifecycleProofs --------------------------
(***************************************************************************)
(* Proofs about CardLifecycle, for any links, owners, requests and bounds.   *)
(*                                                                          *)
(* The inductive invariant has four parts beside the types.                  *)
(*   TasksInv : what a request has read still says something about the row:  *)
(*              a row it is about to delete is WIPED or was revived.          *)
(*   LinksInv : a link is held by one request from its claim until it mints,  *)
(*              is released or is left behind, and has minted nothing so far. *)
(*   KeysInv  : what was handed out or is on the chip names a row that was    *)
(*              issued, and keys not newer than that row's.                  *)
(*   UsesInv  : the row's version and counter are past every tap that it      *)
(*              granted something while the tap's keys were its own.         *)
(***************************************************************************)
EXTENDS CardLifecycle, TLAPS

(* Where a request holds its link, and where it has minted with it. *)
Holding == {"lookup", "delete", "reread", "reprogram", "create", "unclaim"}
Minting == {"activate", "mark"}

Apart == "overlap" \notin marks

TasksInv ==
    \A w \in Tasks :
        /\ task[w].id <= issued
        /\ task[w].at \in Holding => task[w].owner \in Owners
        /\ task[w].at \in (Holding \ {"create"}) \cup Minting => task[w].link # None
        /\ task[w].at \in {"open", "record"} => task[w].tap \in tapped
        /\ task[w].at = "delete" /\ RowIs(task[w].id)
             => card.status = "WIPED" \/ "revived" \in marks

Holds(w, l) == task[w].at \in Holding /\ task[w].link = l
Minter(w, l) == task[w].at \in Minting /\ task[w].link = l

LinksInv ==
    \A l \in Links :
        /\ minted[l] \in {0, 1}
        /\ minted[l] = 1 => link[l].status = "COMPLETED"
        /\ \A w \in Tasks :
             /\ Holds(w, l) => link[l].status = "COMPLETED" /\ minted[l] = 0
             /\ Minter(w, l) => minted[l] = 1
             /\ \A v \in Tasks : Holds(w, l) /\ Holds(v, l) => v = w

(* The URL of a row that was issued, and keys not newer than the row's. *)
Fits(k) == k.url <= issued /\ (RowIs(k.url) /\ Apart => k.version <= card.version)
KeysInv ==
    /\ \A k \in handed : Fits(k)
    /\ chip # None => Fits(chip.holds)

Passed(t) == card.version > t.version \/ (card.version = t.version /\ card.counter >= t.counter)
UsesInv ==
    \A w \in Tasks :
        used[w] # None =>
            /\ used[w].row <= issued
            /\ RowIs(used[w].row) /\ used[w].current /\ Apart => Passed(used[w].tap)

IInv == TypeOK /\ TasksInv /\ LinksInv /\ KeysInv /\ UsesInv /\ TapUsedOnce

-------------------------------------------------------------------------------
(* The types by name. *)

LinkRows == [owner : Owners, status : LinkStatuses, card : {0} \cup Ids]
TaskRows == [at : Places, link : Links \cup {None}, owner : Owners \cup {None},
             id : {0} \cup Ids, version : 0..MaxVersion, tap : Taps \cup {None}]
ChipRows == [holds : Programmings, counter : 0..MaxCounter]
Grants == [tap : Taps, row : Ids, current : BOOLEAN]

LEMMA Types ==
  ASSUME TypeOK
  PROVE  /\ card \in Rows \cup {None} /\ issued \in 0..MaxCards
         /\ card # None => card.id = issued
         /\ link \in [Links -> LinkRows] /\ task \in [Tasks -> TaskRows]
         /\ handed \subseteq Programmings /\ chip \in ChipRows \cup {None}
         /\ tapped \subseteq Taps /\ minted \in [Links -> Nat]
         /\ used \in [Tasks -> Grants \cup {None}]
         /\ marks \subseteq {"revived", "overlap"}
<1>1. card \in Rows \cup {None} /\ issued \in 0..MaxCards /\ (card # None => card.id = issued)
  BY DEF TypeOK
<1>2. link \in [Links -> LinkRows]
  BY DEF TypeOK, LinkRows
<1>3. task \in [Tasks -> TaskRows]
  BY DEF TypeOK, TaskRows
<1>4. chip \in ChipRows \cup {None}
  BY DEF TypeOK, ChipRows
<1>5. used \in [Tasks -> Grants \cup {None}]
  BY DEF TypeOK, Grants
<1>6. handed \subseteq Programmings /\ tapped \subseteq Taps /\ minted \in [Links -> Nat]
      /\ marks \subseteq {"revived", "overlap"}
  BY DEF TypeOK
<1>. QED
  BY <1>1, <1>2, <1>3, <1>4, <1>5, <1>6

LEMMA Bounds ==
  /\ MaxCards \in Nat /\ MaxVersion \in Nat /\ MaxCounter \in Nat
  /\ MaxCards >= 1 /\ MaxVersion >= 1 /\ MaxCounter >= 1
  /\ None \notin Links /\ None \notin Owners /\ None \notin Rows
BY CardLifecycleAssumption

(* The fields of a row, of a tap and of a programming are numbers that can be *)
(* compared.                                                                *)
LEMMA Fields ==
  /\ \A c \in Rows : /\ c.id \in Nat /\ c.version \in Nat /\ c.counter \in Nat
                     /\ c.owner \in Owners /\ c.status \in Statuses /\ c.verified \in BOOLEAN
  /\ \A t \in Taps : t.version \in Nat /\ t.counter \in Nat
  /\ \A k \in Programmings : k.url \in Nat /\ k.version \in Nat
BY Bounds DEF Rows, Taps, Programmings, Ids

-------------------------------------------------------------------------------
(* What every step does to the row: it ages.  A row keeps its id, its version  *)
(* and counter only move on (unless re-programmings overlapped), it stays       *)
(* WIPED unless it is revived; or a new row takes the next id.                *)

Older == \/ card'.version > card.version
         \/ card'.version = card.version /\ card'.counter >= card.counter

RowAges ==
    /\ card' \in Rows \cup {None} /\ issued' \in 0..MaxCards /\ issued <= issued'
    /\ marks \subseteq marks' /\ marks' \subseteq {"revived", "overlap"}
    /\ card' # None =>
         \/ card'.id = issued' /\ issued' = issued + 1
         \/ /\ card # None /\ card'.id = card.id /\ issued' = issued
            /\ "overlap" \notin marks' => Older
            /\ card.status = "WIPED" => card'.status = "WIPED" \/ "revived" \in marks'

Gone(id) == RowIs(id) => card.status = "WIPED" \/ "revived" \in marks
Spent(id, t) == id <= issued /\ (RowIs(id) /\ Apart => Passed(t))

LEMMA RowSame ==
  ASSUME TypeOK, UNCHANGED <<card, issued, marks>>
  PROVE  RowAges
<1>1. card \in Rows \cup {None} /\ issued \in 0..MaxCards /\ marks \subseteq {"revived", "overlap"}
  BY Types
<1>2. ASSUME card # None PROVE card.version \in Nat /\ card.counter \in Nat
  BY <1>1, <1>2, Fields
<1>3. issued \in Nat
  BY <1>1, Bounds
<1>. QED
  BY <1>1, <1>2, <1>3 DEF RowAges, Older

(* A statement that writes some columns of the row. *)
LEMMA RowWritten ==
  ASSUME TypeOK, card # None, card' \in Rows, UNCHANGED issued, card'.id = card.id,
         marks \subseteq marks', marks' \subseteq {"revived", "overlap"},
         "overlap" \notin marks' => Older,
         card.status = "WIPED" => card'.status = "WIPED" \/ "revived" \in marks'
  PROVE  RowAges
<1>1. issued \in 0..MaxCards /\ issued \in Nat
  BY Types, Bounds
<1>. QED
  BY <1>1 DEF RowAges

LEMMA RowAgesKeeps ==
  ASSUME IInv, RowAges
  PROVE  /\ \A id \in Nat : id <= issued => id <= issued' /\ (Gone(id) => Gone(id)')
         /\ \A k \in Programmings : Fits(k) => Fits(k)'
         /\ \A id \in Nat, t \in Taps : Spent(id, t) => Spent(id, t)'
<1>1. /\ card \in Rows \cup {None} /\ card' \in Rows \cup {None}
      /\ issued \in Nat /\ issued' \in Nat /\ issued <= issued'
  BY Types, Bounds DEF IInv, RowAges
<1>2. ASSUME NEW id \in Nat, id <= issued, RowIs(id)'
      PROVE  /\ RowIs(id) /\ issued' = issued /\ card \in Rows /\ card' \in Rows
             /\ Apart' => Apart /\ Older
             /\ card.status = "WIPED" => card'.status = "WIPED" \/ "revived" \in marks'
             /\ marks \subseteq marks'
  <2>1. card' # None /\ card'.id = id
    BY <1>2 DEF RowIs
  <2>2. ~(card'.id = issued' /\ issued' = issued + 1)
    BY <1>1, <1>2, <2>1
  <2>. QED
    BY <1>1, <2>1, <2>2 DEF RowAges, RowIs, Apart
<1>3. ASSUME NEW id \in Nat, id <= issued
      PROVE  id <= issued' /\ (Gone(id) => Gone(id)')
  BY <1>1, <1>2, <1>3 DEF Gone
<1>4. ASSUME NEW k \in Programmings, Fits(k)
      PROVE  Fits(k)'
  <2>1. k.url \in Nat /\ k.version \in Nat /\ k.url <= issued /\ k.url <= issued'
    BY <1>1, <1>4, Fields DEF Fits
  <2>2. ASSUME RowIs(k.url)', Apart'
        PROVE  k.version <= card'.version
    <3>1. RowIs(k.url) /\ Apart /\ Older /\ card \in Rows /\ card' \in Rows
      BY <1>2, <2>1, <2>2
    <3>2. k.version <= card.version
      BY <1>4, <3>1 DEF Fits
    <3>. QED
      BY <2>1, <3>1, <3>2, Fields DEF Older
  <2>. QED
    BY <2>1, <2>2 DEF Fits
<1>5. ASSUME NEW id \in Nat, NEW t \in Taps, Spent(id, t)
      PROVE  Spent(id, t)'
  <2>1. t.version \in Nat /\ t.counter \in Nat /\ id <= issued /\ id <= issued'
    BY <1>1, <1>5, Fields DEF Spent
  <2>2. ASSUME RowIs(id)', Apart'
        PROVE  Passed(t)'
    <3>1. RowIs(id) /\ Apart /\ Older /\ card \in Rows /\ card' \in Rows
      BY <1>2, <2>1, <2>2
    <3>2. Passed(t)
      BY <1>5, <3>1 DEF Spent
    <3>. QED
      BY <2>1, <3>1, <3>2, Fields DEF Older, Passed
  <2>. QED
    BY <2>1, <2>2 DEF Spent
<1>. QED
  BY <1>3, <1>4, <1>5

-------------------------------------------------------------------------------
(* What becomes of the parts of the invariant. *)

TaskFits(w) ==
    /\ task[w].id <= issued
    /\ task[w].at \in Holding => task[w].owner \in Owners
    /\ task[w].at \in (Holding \ {"create"}) \cup Minting => task[w].link # None
    /\ task[w].at \in {"open", "record"} => task[w].tap \in tapped
    /\ task[w].at = "delete" => Gone(task[w].id)

LEMMA TasksFit == TasksInv <=> \A w \in Tasks : TaskFits(w)
BY DEF TasksInv, TaskFits, Gone

LEMMA TasksFitNext == TasksInv' <=> \A w \in Tasks : TaskFits(w)'
BY DEF TasksInv, TaskFits, Gone, RowIs

LEMMA TasksKeep ==
  ASSUME IInv, RowAges, tapped \subseteq tapped',
         \A w \in Tasks : task'[w] = task[w] \/ TaskFits(w)'
  PROVE  TasksInv'
<1>. SUFFICES ASSUME NEW w \in Tasks, task'[w] = task[w]
              PROVE  TaskFits(w)'
  BY TasksFitNext
<1>1. TaskFits(w)
  BY TasksFit DEF IInv
<1>2. task[w].id \in Nat
  <2>1. task[w] \in TaskRows
    BY Types DEF IInv
  <2>. QED
    BY <2>1, Bounds DEF TaskRows, Ids
<1>3. task[w].id <= issued' /\ (Gone(task[w].id) => Gone(task[w].id)')
  BY <1>1, <1>2, RowAgesKeeps DEF TaskFits
<1>. QED
  BY <1>1, <1>3 DEF TaskFits, Gone, RowIs

LEMMA KeysKeep ==
  ASSUME IInv, RowAges, UNCHANGED <<handed, chip>>
  PROVE  KeysInv'
<1>1. \A k \in Programmings : Fits(k) => Fits(k)'
  BY RowAgesKeeps
<1>2. handed \subseteq Programmings /\ chip \in ChipRows \cup {None}
  BY Types DEF IInv
<1>3. ASSUME NEW k \in handed PROVE Fits(k)'
  BY <1>1, <1>2 DEF IInv, KeysInv
<1>4. ASSUME chip # None PROVE Fits(chip.holds)'
  <2>1. chip.holds \in Programmings /\ Fits(chip.holds)
    BY <1>2, <1>4 DEF ChipRows, IInv, KeysInv
  <2>2. PICK k \in Programmings : k = chip.holds
    BY <2>1
  <2>3. Fits(k)'
    BY <1>1, <2>1, <2>2
  <2>. QED
    BY <2>2, <2>3 DEF Fits, RowIs
<1>. QED
  BY <1>3, <1>4 DEF KeysInv

UseFits(w) ==
    used[w].row <= issued /\ (used[w].current => Spent(used[w].row, used[w].tap))

LEMMA UsesKeep ==
  ASSUME IInv, RowAges, \A w \in Tasks : used'[w] = used[w] \/ UseFits(w)'
  PROVE  UsesInv'
<1>. SUFFICES ASSUME NEW w \in Tasks, used'[w] # None
              PROVE  UseFits(w)'
  BY DEF UsesInv, UseFits, Spent, RowIs, Passed, Apart
<1>1. CASE used'[w] = used[w]
  <2>1. used[w] \in Grants
    BY <1>1, Types DEF IInv
  <2>2. PICK id \in Nat, t \in Taps : id = used[w].row /\ t = used[w].tap
    BY <2>1 DEF Grants, Ids
  <2>3. id <= issued /\ (used[w].current => Spent(id, t))
    BY <1>1, <2>2 DEF IInv, UsesInv, Spent
  <2>4. id <= issued' /\ (Spent(id, t) => Spent(id, t)')
    BY <2>3, RowAgesKeeps
  <2>. QED
    BY <1>1, <2>2, <2>3, <2>4 DEF UseFits, Spent, RowIs, Passed, Apart
<1>. QED
  BY <1>1

(* A granted tap was not granted before: its counter is past the row's.       *)
LEMMA SameUses ==
  ASSUME IInv, UNCHANGED used, marks \subseteq marks'
  PROVE  TapUsedOnce'
BY DEF IInv, TapUsedOnce

LEMMA LinksKeep ==
  ASSUME LinksInv, UNCHANGED minted,
         \A l \in Links : link'[l].status = link[l].status \/ link[l].status # "COMPLETED",
         \A w \in Tasks, l \in Links : /\ Holds(w, l)' => Holds(w, l)
                                       /\ Minter(w, l)' => Minter(w, l) \/ minted[l] = 1
  PROVE  LinksInv'
BY DEF LinksInv

-------------------------------------------------------------------------------
(* What becomes of a request. *)

LEMMA Records ==
  /\ Idle \in TaskRows /\ Idle.at = "idle" /\ Idle.link = None /\ Idle.id = 0
  /\ Ended \in TaskRows /\ Ended.at = "done" /\ Ended.link = None /\ Ended.id = 0
<1>1. Idle \in TaskRows /\ Idle.at = "idle" /\ Idle.link = None /\ Idle.id = 0
  BY Bounds DEF Idle, TaskRows, Places
<1>2. Idle \in [at : Places, link : Links \cup {None}, owner : Owners \cup {None},
                id : {0} \cup Ids, version : 0..MaxVersion, tap : Taps \cup {None}]
  BY <1>1 DEF TaskRows
<1>3. "done" \in Places
  BY DEF Places
<1>. QED
  BY <1>1, <1>2, <1>3 DEF Ended, TaskRows

(* w's record becomes r, the others stay. *)
Becomes(w, r) == task' = [task EXCEPT ![w] = r]

LEMMA BecomesIs ==
  ASSUME TypeOK, NEW w \in Tasks, NEW r \in TaskRows, Becomes(w, r)
  PROVE  /\ task' \in [Tasks -> TaskRows] /\ task'[w] = r
         /\ \A v \in Tasks \ {w} : task'[v] = task[v]
<1>1. task \in [Tasks -> TaskRows]
  BY Types
<1>. QED
  BY <1>1 DEF Becomes

LEMMA GoIs ==
  ASSUME TypeOK, NEW w \in Tasks, NEW place \in Places, Go(w, place)
  PROVE  /\ task' \in [Tasks -> TaskRows] /\ \A v \in Tasks \ {w} : task'[v] = task[v]
         /\ place = "done" => task'[w] = Ended
         /\ place # "done" => task'[w] = [task[w] EXCEPT !.at = place] /\ task'[w].at = place
<1>1. task \in [Tasks -> TaskRows] /\ task[w] \in TaskRows
  BY Types
<1>2. CASE place = "done"
  <2>1. Becomes(w, Ended)
    BY <1>2 DEF Go, Becomes
  <2>. QED
    BY <1>2, <2>1, Records, BecomesIs
<1>3. CASE place # "done"
  <2>1. task' = [task EXCEPT ![w] = [task[w] EXCEPT !.at = place]]
    BY <1>1, <1>3 DEF Go
  <2>2. [task[w] EXCEPT !.at = place] \in TaskRows /\ [task[w] EXCEPT !.at = place].at = place
    BY <1>1 DEF TaskRows
  <2>3. Becomes(w, [task[w] EXCEPT !.at = place])
    BY <2>1 DEF Becomes
  <2>. QED
    BY <1>3, <2>2, <2>3, BecomesIs
<1>. QED
  BY <1>2, <1>3

(* The request ends, or never began to hold anything. *)
LEMMA AtRest ==
  ASSUME IInv, RowAges, NEW w \in Tasks, task'[w].at \in {"idle", "answer", "done"},
         task'[w].id <= issued'
  PROVE  TaskFits(w)'
BY DEF TaskFits, Holding, Minting

LEMMA EndedFits ==
  ASSUME IInv, RowAges, NEW w \in Tasks, task'[w] = Ended
  PROVE  TaskFits(w)'
<1>1. issued' \in Nat
  BY Bounds DEF RowAges
<1>. QED
  BY <1>1, Records, AtRest

(* Nobody begins to hold a link, or to mint. *)
LEMMA LinksLeft ==
  ASSUME IInv, NEW w \in Tasks,
         UNCHANGED minted,
         \A l \in Links : link'[l].status = link[l].status \/ link[l].status # "COMPLETED",
         \A v \in Tasks \ {w} : task'[v] = task[v],
         \/ task'[w].at \notin Holding \cup Minting
         \/ task'[w].link = None
         \/ task'[w].link = task[w].link /\ (task'[w].at \in Holding => task[w].at \in Holding)
                                         /\ (task'[w].at \in Minting => task[w].at \in Minting)
  PROVE  LinksInv'
<1>1. ASSUME NEW v \in Tasks, NEW l \in Links
      PROVE  (Holds(v, l)' => Holds(v, l)) /\ (Minter(v, l)' => Minter(v, l))
  BY Bounds DEF Holds, Minter
<1>. QED
  BY <1>1, LinksKeep DEF IInv

LEMMA TypesNext ==
  ASSUME TypeOK, RowAges, task' \in [Tasks -> TaskRows],
         link' \in [Links -> LinkRows],
         \A l \in Links : link'[l].card # 0 => link'[l].status = "COMPLETED",
         handed' \subseteq Programmings, chip' \in ChipRows \cup {None}, tapped' \subseteq Taps,
         minted' \in [Links -> Nat], used' \in [Tasks -> Grants \cup {None}]
  PROVE  TypeOK'
<1>1. /\ card' \in Rows \cup {None} /\ issued' \in 0..MaxCards
      /\ marks' \subseteq {"revived", "overlap"}
      /\ card' # None => card'.id = issued'
  <2>1. card # None => card.id = issued
    BY Types
  <2>. QED
    BY <2>1 DEF RowAges
<1>. QED
  BY <1>1 DEF TypeOK, LinkRows, TaskRows, ChipRows, Grants

(* A step that hands out no keys, grants nothing and leaves the chip alone.    *)
LEMMA QuietStep ==
  ASSUME IInv, RowAges, UNCHANGED <<handed, chip, tapped, used>>,
         task' \in [Tasks -> TaskRows],
         \A w \in Tasks : task'[w] = task[w] \/ TaskFits(w)',
         link' \in [Links -> LinkRows],
         \A l \in Links : link'[l].card # 0 => link'[l].status = "COMPLETED",
         minted' \in [Links -> Nat], LinksInv'
  PROVE  IInv'
<1>1. TypeOK'
  <2>1. /\ handed \subseteq Programmings /\ chip \in ChipRows \cup {None} /\ tapped \subseteq Taps
        /\ used \in [Tasks -> Grants \cup {None}]
    BY Types DEF IInv
  <2>. QED
    BY <2>1, TypesNext DEF IInv
<1>2. TasksInv'
  BY TasksKeep
<1>3. KeysInv'
  BY KeysKeep
<1>4. UsesInv'
  <2>1. \A w \in Tasks : used'[w] = used[w]
    OBVIOUS
  <2>. QED
    BY <2>1, UsesKeep
<1>5. TapUsedOnce'
  BY SameUses DEF RowAges
<1>. QED
  BY <1>1, <1>2, <1>3, <1>4, <1>5 DEF IInv

(* A step of one request that leaves the links alone as well.                 *)
LEMMA RequestStep ==
  ASSUME IInv, RowAges, UNCHANGED <<link, handed, chip, tapped, minted, used>>,
         NEW w \in Tasks, task' \in [Tasks -> TaskRows],
         \A v \in Tasks \ {w} : task'[v] = task[v], TaskFits(w)',
         \/ task'[w].at \notin Holding \cup Minting
         \/ task'[w].link = None
         \/ task'[w].link = task[w].link /\ (task'[w].at \in Holding => task[w].at \in Holding)
                                         /\ (task'[w].at \in Minting => task[w].at \in Minting)
  PROVE  IInv'
<1>1. /\ link \in [Links -> LinkRows] /\ minted \in [Links -> Nat]
      /\ \A l \in Links : link[l].card # 0 => link[l].status = "COMPLETED"
  BY Types DEF IInv, TypeOK
<1>2. LinksInv'
  BY LinksLeft
<1>. QED
  BY <1>1, <1>2, QuietStep

-------------------------------------------------------------------------------
(* One lemma per step of a registration. *)

LEMMA ClaimLinkPreserves ==
  ASSUME IInv, NEW w \in Tasks, NEW l \in Links, ClaimLink(w, l)
  PROVE  IInv'
<1>1. /\ task[w].at = "idle" /\ link[l].status = "PENDING"
      /\ link' = [link EXCEPT ![l].status = "COMPLETED"]
      /\ UNCHANGED <<card, issued, handed, chip, tapped, minted, used, marks>>
  BY DEF ClaimLink, LinkClaimable, history
<1>2. link \in [Links -> LinkRows] /\ minted \in [Links -> Nat] /\ issued \in Nat
  BY Types, Bounds DEF IInv
<1>3. link' \in [Links -> LinkRows] /\ link'[l].status = "COMPLETED"
      /\ \A m \in Links \ {l} : link'[m] = link[m]
  BY <1>1, <1>2 DEF LinkRows, LinkStatuses
<1>4. \A m \in Links : link'[m].card # 0 => link'[m].status = "COMPLETED"
  BY <1>3 DEF IInv, TypeOK
<1>5. RowAges
  BY <1>1, RowSame DEF IInv
<1>. DEFINE r == [Idle EXCEPT !.at = "lookup", !.link = l, !.owner = link[l].owner]
<1>6. r \in TaskRows /\ r.at = "lookup" /\ r.link = l /\ r.owner \in Owners /\ r.id = 0
  <2>1. Idle \in TaskRows /\ Idle.id = 0
    BY Records
  <2>2. link[l].owner \in Owners
    BY <1>2 DEF LinkRows
  <2>3. "lookup" \in Places
    BY DEF Places
  <2>. QED
    BY <2>1, <2>2, <2>3 DEF TaskRows
<1>7. /\ task' \in [Tasks -> TaskRows] /\ task'[w] = r
      /\ \A v \in Tasks \ {w} : task'[v] = task[v]
  <2>1. Becomes(w, r)
    BY DEF ClaimLink, Becomes
  <2>. HIDE DEF r
  <2>. QED
    BY <1>6, <2>1, BecomesIs DEF IInv
<1>. HIDE DEF r
<1>8. TaskFits(w)'
  BY <1>1, <1>2, <1>6, <1>7, Bounds DEF TaskFits, Holding, Minting
<1>9. LinksInv'
  <2>. SUFFICES ASSUME NEW m \in Links
                PROVE  /\ minted'[m] \in {0, 1}
                       /\ minted'[m] = 1 => link'[m].status = "COMPLETED"
                       /\ \A u \in Tasks :
                            /\ Holds(u, m)' => link'[m].status = "COMPLETED" /\ minted'[m] = 0
                            /\ Minter(u, m)' => minted'[m] = 1
                            /\ \A v \in Tasks : Holds(u, m)' /\ Holds(v, m)' => v = u
    BY DEF LinksInv
  <2>1. \A u \in Tasks : Minter(u, m)' => Minter(u, m)
    BY <1>6, <1>7 DEF Minter, Minting
  <2>2. CASE m = l
    <3>1. minted[l] = 0 /\ \A u \in Tasks : ~Holds(u, l)
      BY <1>1 DEF IInv, LinksInv
    <3>2. \A u \in Tasks : Holds(u, l)' => u = w
      BY <1>7, <3>1 DEF Holds
    <3>. QED
      BY <1>1, <1>3, <2>1, <2>2, <3>1, <3>2 DEF IInv, LinksInv
  <2>3. CASE m # l
    <3>1. \A u \in Tasks : Holds(u, m)' => Holds(u, m)
      BY <1>6, <1>7, <2>3 DEF Holds
    <3>. QED
      BY <1>1, <1>3, <2>1, <2>3, <3>1 DEF IInv, LinksInv
  <2>. QED
    BY <2>2, <2>3
<1>. QED
  BY <1>1, <1>2, <1>3, <1>4, <1>5, <1>7, <1>8, <1>9, QuietStep

(* The link goes back PENDING: it named no card and minted nothing.           *)
LEMMA ReleaseLinkPreserves ==
  ASSUME IInv, NEW w \in Tasks, ReleaseLink(w)
  PROVE  IInv'
<1>1. /\ task[w].at = "unclaim" /\ Go(w, "done")
      /\ \/ link[task[w].link].card = 0 /\ link' = [link EXCEPT ![task[w].link].status = "PENDING"]
         \/ UNCHANGED link
      /\ UNCHANGED <<card, issued, handed, chip, tapped, minted, used, marks>>
  BY DEF ReleaseLink, history
<1>2. link \in [Links -> LinkRows] /\ minted \in [Links -> Nat] /\ task[w] \in TaskRows
  BY Types DEF IInv
<1>3. /\ task' \in [Tasks -> TaskRows] /\ \A v \in Tasks \ {w} : task'[v] = task[v]
      /\ task'[w] = Ended
  BY <1>1, GoIs DEF IInv, Places
<1>4. RowAges
  BY <1>1, RowSame DEF IInv
<1>5. TaskFits(w)'
  BY <1>3, <1>4, EndedFits
<1>6. CASE UNCHANGED link
  BY <1>1, <1>3, <1>4, <1>5, <1>6, Records, RequestStep DEF Holding, Minting
<1>7. CASE /\ link[task[w].link].card = 0
           /\ link' = [link EXCEPT ![task[w].link].status = "PENDING"]
  <2>1. PICK l \in Links : l = task[w].link
    BY <1>1, <1>2 DEF IInv, TasksInv, Holding, TaskRows
  <2>2. /\ link' \in [Links -> LinkRows] /\ link'[l].card = 0
        /\ \A m \in Links \ {l} : link'[m] = link[m]
    BY <1>2, <1>7, <2>1 DEF LinkRows, LinkStatuses
  <2>3. \A m \in Links : link'[m].card # 0 => link'[m].status = "COMPLETED"
    BY <2>2 DEF IInv, TypeOK
  <2>4. Holds(w, l)
    BY <1>1, <2>1 DEF Holds, Holding
  <2>5. \A u \in Tasks, m \in Links : /\ Holds(u, m)' => Holds(u, m) /\ u # w
                                      /\ Minter(u, m)' => Minter(u, m) /\ u # w
    BY <1>3, Records DEF Holds, Minter, Holding, Minting
  <2>6. minted[l] = 0 /\ \A u \in Tasks : ~Holds(u, l)' /\ ~Minter(u, l)'
    <3>1. minted[l] = 0
      BY <2>4 DEF IInv, LinksInv
    <3>2. \A u \in Tasks : Holds(u, l) => u = w
      BY <2>4 DEF IInv, LinksInv
    <3>3. \A u \in Tasks : ~Minter(u, l)
      BY <3>1 DEF IInv, LinksInv
    <3>. QED
      BY <2>5, <3>1, <3>2, <3>3
  <2>7. LinksInv'
    <3>. SUFFICES ASSUME NEW m \in Links
                  PROVE  /\ minted'[m] \in {0, 1}
                         /\ minted'[m] = 1 => link'[m].status = "COMPLETED"
                         /\ \A u \in Tasks :
                              /\ Holds(u, m)' => link'[m].status = "COMPLETED" /\ minted'[m] = 0
                              /\ Minter(u, m)' => minted'[m] = 1
                              /\ \A v \in Tasks : Holds(u, m)' /\ Holds(v, m)' => v = u
      BY DEF LinksInv
    <3>1. CASE m = l
      BY <1>1, <2>6, <3>1
    <3>2. CASE m # l
      BY <1>1, <2>2, <2>5, <3>2 DEF IInv, LinksInv
    <3>. QED
      BY <3>1, <3>2
  <2>. QED
    BY <1>1, <1>2, <1>3, <1>4, <1>5, <2>2, <2>3, <2>7, QuietStep
<1>. QED
  BY <1>1, <1>6, <1>7

LEMMA LookUpPreserves ==
  ASSUME IInv, NEW w \in Tasks, LookUpCard(w)
  PROVE  IInv'
<1>1. task[w].at = "lookup" /\ UNCHANGED <<card, issued, link, handed, chip, tapped, minted, used, marks>>
  BY DEF LookUpCard, history
<1>2. task[w] \in TaskRows /\ card \in Rows \cup {None} /\ issued \in Nat
  BY Types, Bounds DEF IInv
<1>3. RowAges
  BY <1>1, RowSame DEF IInv
<1>4. task[w].id <= issued /\ task[w].owner \in Owners /\ task[w].link # None
  BY <1>1 DEF IInv, TasksInv, Holding
<1>5. CASE Go(w, "create")
  <2>1. /\ task' \in [Tasks -> TaskRows] /\ \A v \in Tasks \ {w} : task'[v] = task[v]
        /\ task'[w] = [task[w] EXCEPT !.at = "create"]
    BY <1>5, GoIs DEF IInv, Places
  <2>2. task'[w].at = "create" /\ task'[w].id = task[w].id /\ task'[w].owner = task[w].owner
        /\ task'[w].link = task[w].link
    BY <1>2, <2>1 DEF TaskRows
  <2>3. TaskFits(w)'
    BY <1>1, <1>4, <2>2 DEF TaskFits, Holding, Minting
  <2>. QED
    BY <1>1, <1>3, <2>1, <2>2, <2>3, RequestStep DEF Holding, Minting
<1>6. CASE ~Go(w, "create")
  <2>. DEFINE place == IF Deletes(card.status) THEN "delete"
                       ELSE IF card.owner = task[w].owner THEN "reread" ELSE "unclaim"
              r == [task[w] EXCEPT !.id = card.id, !.at = place]
  <2>1. card # None /\ task' = [task EXCEPT ![w].id = card.id, ![w].at = place]
    BY <1>6 DEF LookUpCard
  <2>2. card \in Rows /\ card.id = issued /\ card.id \in {0} \cup Ids
    BY <1>2, <2>1, Types DEF IInv, Rows
  <2>3. place \in {"delete", "reread", "unclaim"} /\ (place = "delete" => card.status = "WIPED")
    BY DEF Deletes
  <2>4. Becomes(w, r)
    <3>1. task \in [Tasks -> TaskRows]
      BY Types DEF IInv
    <3>. HIDE DEF place
    <3>. QED
      BY <2>1, <3>1 DEF Becomes, TaskRows
  <2>. HIDE DEF place
  <2>5. /\ r \in TaskRows /\ r.at = place /\ r.id = card.id /\ r.owner = task[w].owner
        /\ r.link = task[w].link
    BY <1>2, <2>2, <2>3 DEF TaskRows, Places
  <2>. HIDE DEF r
  <2>6. /\ task' \in [Tasks -> TaskRows] /\ task'[w] = r
        /\ \A v \in Tasks \ {w} : task'[v] = task[v]
    BY <2>4, <2>5, BecomesIs DEF IInv
  <2>7. task'[w].at \in {"delete", "reread", "unclaim"}
        /\ (task'[w].at = "delete" => card.status = "WIPED")
        /\ task'[w].id = issued /\ task'[w].owner \in Owners /\ task'[w].link = task[w].link
    BY <1>4, <2>2, <2>3, <2>5, <2>6
  <2>8. TaskFits(w)'
    BY <1>1, <1>2, <1>4, <2>7 DEF TaskFits, Holding, Minting, Gone, RowIs
  <2>. QED
    BY <1>1, <1>3, <2>6, <2>7, <2>8, RequestStep DEF Holding, Minting
<1>. QED
  BY <1>5, <1>6

(* The row that goes is WIPED (or was revived meanwhile), and no other row has *)
(* its id.                                                                   *)
LEMMA DeletePreserves ==
  ASSUME IInv, NEW w \in Tasks, DeleteWipedCard(w)
  PROVE  IInv'
<1>1. task[w].at = "delete" /\ UNCHANGED <<issued, link, handed, chip, tapped, minted, used, marks>>
  BY DEF DeleteWipedCard, history
<1>2. task[w] \in TaskRows /\ card \in Rows \cup {None} /\ issued \in 0..MaxCards
      /\ marks \subseteq {"revived", "overlap"} /\ issued \in Nat
  BY Types, Bounds DEF IInv
<1>3. task[w].id <= issued /\ task[w].owner \in Owners
  BY <1>1 DEF IInv, TasksInv, Holding
<1>4. card' = card \/ card' = None
  BY DEF DeleteWipedCard
<1>5. RowAges
  <2>1. CASE card' = card
    BY <1>1, <2>1, RowSame DEF IInv
  <2>2. CASE card' = None
    BY <1>1, <1>2, <2>2 DEF RowAges
  <2>. QED
    BY <1>4, <2>1, <2>2
<1>6. CASE Go(w, "create")
  <2>1. /\ task' \in [Tasks -> TaskRows] /\ \A v \in Tasks \ {w} : task'[v] = task[v]
        /\ task'[w] = [task[w] EXCEPT !.at = "create"]
    BY <1>6, GoIs DEF IInv, Places
  <2>2. task'[w].at = "create" /\ task'[w].id = task[w].id /\ task'[w].owner = task[w].owner
        /\ task'[w].link = task[w].link
    BY <1>2, <2>1 DEF TaskRows
  <2>3. TaskFits(w)'
    BY <1>1, <1>3, <2>2 DEF TaskFits, Holding, Minting
  <2>. QED
    BY <1>1, <1>5, <2>1, <2>2, <2>3, RequestStep DEF Holding, Minting
<1>7. CASE Go(w, "done")
  <2>1. /\ task' \in [Tasks -> TaskRows] /\ \A v \in Tasks \ {w} : task'[v] = task[v]
        /\ task'[w] = Ended
    BY <1>7, GoIs DEF IInv, Places
  <2>2. TaskFits(w)'
    BY <1>5, <2>1, EndedFits
  <2>. QED
    BY <1>1, <1>5, <2>1, <2>2, Records, RequestStep
<1>. QED
  BY <1>6, <1>7 DEF DeleteWipedCard

(* A link that mints was held by this request alone and had minted nothing.   *)
LEMMA MintOnce ==
  ASSUME IInv, NEW w \in Tasks, NEW l \in Links, task[w].at \in Holding, task[w].link = l,
         UNCHANGED link, MintOf(l),
         task'[w].at \notin Holding, \A v \in Tasks \ {w} : task'[v] = task[v],
         task'[w].link = l
  PROVE  LinksInv' /\ minted' \in [Links -> Nat]
<1>1. minted \in [Links -> Nat]
  BY Types DEF IInv
<1>2. minted' = [minted EXCEPT ![l] = minted[l] + 1]
  BY <1>1, Bounds DEF MintOf
<1>3. Holds(w, l)
  BY DEF Holds
<1>4. minted[l] = 0 /\ link[l].status = "COMPLETED" /\ \A u \in Tasks : Holds(u, l) => u = w
  BY <1>3 DEF IInv, LinksInv
<1>5. minted' \in [Links -> Nat] /\ minted'[l] = 1
      /\ \A m \in Links \ {l} : minted'[m] = minted[m]
  BY <1>1, <1>2, <1>4
<1>6. \A u \in Tasks, m \in Links : /\ Holds(u, m)' => Holds(u, m) /\ u # w
                                    /\ Minter(u, m)' => m = l \/ Minter(u, m)
  BY DEF Holds, Minter
<1>7. \A u \in Tasks : ~Holds(u, l)'
  BY <1>4, <1>6
<1>8. LinksInv'
  <2>. SUFFICES ASSUME NEW m \in Links
                PROVE  /\ minted'[m] \in {0, 1}
                       /\ minted'[m] = 1 => link'[m].status = "COMPLETED"
                       /\ \A u \in Tasks :
                            /\ Holds(u, m)' => link'[m].status = "COMPLETED" /\ minted'[m] = 0
                            /\ Minter(u, m)' => minted'[m] = 1
                            /\ \A v \in Tasks : Holds(u, m)' /\ Holds(v, m)' => v = u
    BY DEF LinksInv
  <2>1. CASE m = l
    BY <1>4, <1>5, <1>7, <2>1
  <2>2. CASE m # l
    BY <1>5, <1>6, <2>2 DEF IInv, LinksInv
  <2>. QED
    BY <2>1, <2>2
<1>. QED
  BY <1>5, <1>8

LEMMA NewCardType ==
  ASSUME NEW id \in Ids, NEW o \in Owners
  PROVE  NewCard(id, o) \in Rows /\ NewCard(id, o).id = id
BY Bounds DEF NewCard, Rows, Statuses

LEMMA CreatePreserves ==
  ASSUME IInv, NEW w \in Tasks, CreateCard(w)
  PROVE  IInv'
<1>1. task[w].at = "create" /\ UNCHANGED <<link, handed, chip, tapped, used, marks>>
  BY DEF CreateCard
<1>2. /\ task \in [Tasks -> TaskRows] /\ task[w] \in TaskRows /\ card \in Rows \cup {None}
      /\ issued \in 0..MaxCards /\ issued \in Nat /\ marks \subseteq {"revived", "overlap"}
      /\ link \in [Links -> LinkRows] /\ minted \in [Links -> Nat]
      /\ \A l \in Links : link[l].card # 0 => link[l].status = "COMPLETED"
  BY Types, Bounds DEF IInv, TypeOK
<1>3. task[w].owner \in Owners
  BY <1>1 DEF IInv, TasksInv, Holding
<1>4. CASE card # None
  <2>1. Go(w, "done") /\ UNCHANGED <<card, issued, minted>>
    BY <1>4 DEF CreateCard
  <2>2. /\ task' \in [Tasks -> TaskRows] /\ \A v \in Tasks \ {w} : task'[v] = task[v]
        /\ task'[w] = Ended
    BY <2>1, GoIs DEF IInv, Places
  <2>3. RowAges
    BY <1>1, <2>1, RowSame DEF IInv
  <2>4. TaskFits(w)'
    BY <2>2, <2>3, EndedFits
  <2>. QED
    BY <1>1, <2>1, <2>2, <2>3, <2>4, Records, RequestStep
<1>5. CASE card = None
  <2>. DEFINE place == IF task[w].link = None THEN "answer" ELSE "activate"
              r == [task[w] EXCEPT !.id = issued + 1, !.at = place]
  <2>1. /\ issued < MaxCards /\ issued' = issued + 1 /\ card' = NewCard(issued + 1, task[w].owner)
        /\ MintOf(task[w].link)
        /\ task' = [task EXCEPT ![w].id = issued + 1, ![w].at = place]
    BY <1>5 DEF CreateCard
  <2>2. issued + 1 \in Ids /\ card' \in Rows /\ card'.id = issued'
    <3>1. issued + 1 \in Ids
      BY <1>2, <2>1, Bounds DEF Ids
    <3>. QED
      BY <1>3, <2>1, <3>1, NewCardType
  <2>3. RowAges
    <3>1. issued' \in 0..MaxCards /\ issued <= issued'
      BY <1>2, <2>1, Bounds
    <3>. QED
      BY <1>1, <1>2, <2>1, <2>2, <3>1 DEF RowAges
  <2>4. Becomes(w, r)
    <3>. HIDE DEF place
    <3>. QED
      BY <1>2, <2>1 DEF Becomes, TaskRows
  <2>5. place \in {"answer", "activate"} /\ (place = "activate" => task[w].link # None)
    OBVIOUS
  <2>. HIDE DEF place
  <2>6. r \in TaskRows /\ r.at = place /\ r.id = issued + 1 /\ r.link = task[w].link
    BY <1>2, <2>2, <2>5 DEF TaskRows, Places
  <2>. HIDE DEF r
  <2>7. /\ task' \in [Tasks -> TaskRows] /\ task'[w] = r
        /\ \A v \in Tasks \ {w} : task'[v] = task[v]
    BY <2>4, <2>6, BecomesIs DEF IInv
  <2>8. TaskFits(w)'
    <3>1. task'[w].id <= issued'
      BY <1>2, <2>1, <2>6, <2>7
    <3>2. task'[w].at \in {"answer", "activate"} /\ (task'[w].at = "activate" => task'[w].link # None)
      BY <2>5, <2>6, <2>7
    <3>. QED
      BY <3>1, <3>2 DEF TaskFits, Holding, Minting
  <2>9. task'[w].at \notin Holding /\ task'[w].link = task[w].link
    BY <2>5, <2>6, <2>7 DEF Holding
  <2>10. CASE task[w].link = None
    <3>1. UNCHANGED minted
      BY <2>1, <2>10 DEF MintOf
    <3>. QED
      BY <1>1, <2>3, <2>7, <2>8, <2>9, <2>10, <3>1, RequestStep
  <2>11. CASE task[w].link # None
    <3>1. PICK l \in Links : l = task[w].link
      BY <1>2, <2>11 DEF TaskRows
    <3>2. task[w].at \in Holding
      BY <1>1 DEF Holding
    <3>3. MintOf(l)
      BY <2>1, <3>1
    <3>4. LinksInv' /\ minted' \in [Links -> Nat]
      BY <1>1, <2>7, <2>9, <3>1, <3>2, <3>3, MintOnce
    <3>. QED
      BY <1>1, <1>2, <2>3, <2>7, <2>8, <3>4, QuietStep
  <2>. QED
    BY <2>10, <2>11
<1>. QED
  BY <1>4, <1>5

LEMMA RereadPreserves ==
  ASSUME IInv, NEW w \in Tasks, RereadCard(w)
  PROVE  IInv'
<1>1. task[w].at = "reread" /\ UNCHANGED <<card, issued, link, handed, chip, tapped, minted, used, marks>>
  BY DEF RereadCard, history
<1>2. task \in [Tasks -> TaskRows] /\ task[w] \in TaskRows /\ card \in Rows \cup {None}
  BY Types DEF IInv
<1>3. RowAges
  BY <1>1, RowSame DEF IInv
<1>4. task[w].id <= issued /\ task[w].owner \in Owners /\ task[w].link # None
  BY <1>1 DEF IInv, TasksInv, Holding
<1>5. CASE Go(w, "done")
  <2>1. /\ task' \in [Tasks -> TaskRows] /\ \A v \in Tasks \ {w} : task'[v] = task[v]
        /\ task'[w] = Ended
    BY <1>5, GoIs DEF IInv, Places
  <2>2. TaskFits(w)'
    BY <1>3, <2>1, EndedFits
  <2>. QED
    BY <1>1, <1>3, <2>1, <2>2, Records, RequestStep
<1>6. CASE /\ RowIs(task[w].id)
           /\ task' = [task EXCEPT ![w].at = "reprogram", ![w].version = card.version]
  <2>. DEFINE r == [task[w] EXCEPT !.at = "reprogram", !.version = card.version]
  <2>1. Becomes(w, r)
    BY <1>2, <1>6 DEF Becomes, TaskRows
  <2>2. card.version \in 0..MaxVersion
    BY <1>2, <1>6, Bounds DEF RowIs, Rows
  <2>3. /\ r \in TaskRows /\ r.at = "reprogram" /\ r.id = task[w].id /\ r.owner = task[w].owner
        /\ r.link = task[w].link
    BY <1>2, <2>2 DEF TaskRows, Places
  <2>. HIDE DEF r
  <2>4. /\ task' \in [Tasks -> TaskRows] /\ task'[w] = r
        /\ \A v \in Tasks \ {w} : task'[v] = task[v]
    BY <2>1, <2>3, BecomesIs DEF IInv
  <2>5. TaskFits(w)'
    BY <1>1, <1>4, <2>3, <2>4 DEF TaskFits, Holding, Minting
  <2>. QED
    BY <1>1, <1>3, <2>3, <2>4, <2>5, RequestStep DEF Holding, Minting
<1>. QED
  BY <1>5, <1>6 DEF RereadCard

(* The next version of what was read is newer than the row's, unless another   *)
(* re-programming came between.                                              *)
LEMMA ReprogramPreserves ==
  ASSUME IInv, NEW w \in Tasks, ReprogramCard(w)
  PROVE  IInv'
<1>1. task[w].at = "reprogram" /\ UNCHANGED <<issued, link, handed, chip, tapped, used>>
  BY DEF ReprogramCard
<1>2. /\ task[w] \in TaskRows /\ card \in Rows \cup {None}
      /\ issued \in Nat /\ marks \subseteq {"revived", "overlap"}
      /\ link \in [Links -> LinkRows]
      /\ \A l \in Links : link[l].card # 0 => link[l].status = "COMPLETED"
  BY Types, Bounds DEF IInv, TypeOK
<1>3. task[w].id <= issued /\ task[w].owner \in Owners /\ task[w].link # None
  BY <1>1 DEF IInv, TasksInv, Holding
<1>4. CASE ~RowIs(task[w].id)
  <2>1. Go(w, "create") /\ UNCHANGED <<card, minted, marks>>
    BY <1>4 DEF ReprogramCard
  <2>2. /\ task' \in [Tasks -> TaskRows] /\ \A v \in Tasks \ {w} : task'[v] = task[v]
        /\ task'[w] = [task[w] EXCEPT !.at = "create"]
    BY <2>1, GoIs DEF IInv, Places
  <2>3. task'[w].at = "create" /\ task'[w].id = task[w].id /\ task'[w].owner = task[w].owner
        /\ task'[w].link = task[w].link
    BY <1>2, <2>2 DEF TaskRows
  <2>4. TaskFits(w)'
    BY <1>1, <1>3, <2>3 DEF TaskFits, Holding, Minting
  <2>5. RowAges
    BY <1>1, <2>1, RowSame DEF IInv
  <2>. QED
    BY <1>1, <2>1, <2>2, <2>3, <2>4, <2>5, RequestStep DEF Holding, Minting
<1>5. CASE RowIs(task[w].id)
  <2>. DEFINE v1 == task[w].version + 1
  <2>1. /\ v1 <= MaxVersion /\ card # None
        /\ card' = [card EXCEPT !.version = v1, !.counter = 0, !.status = "PENDING"]
        /\ MintOf(task[w].link) /\ Go(w, "activate")
        /\ marks' = marks \cup (IF card.status = "WIPED" THEN {"revived"} ELSE {})
                          \cup (IF card.version # task[w].version THEN {"overlap"} ELSE {})
    BY <1>5 DEF ReprogramCard, NextVersion, RowIs
  <2>2. task[w].version \in Nat /\ v1 \in 1..MaxVersion
    BY <1>2, <2>1, Bounds DEF TaskRows
  <2>3. v1 = task[w].version + 1
    OBVIOUS
  <2>. HIDE DEF v1
  <2>4. card \in Rows /\ card' \in Rows /\ card'.id = card.id /\ card'.version = v1
    <3>1. card \in Rows
      BY <1>2, <2>1
    <3>2. 0 \in 0..MaxCounter /\ "PENDING" \in Statuses
      BY Bounds DEF Statuses
    <3>3. card' = [card EXCEPT !.version = v1, !.counter = 0, !.status = "PENDING"]
      BY <2>1
    <3>. QED
      BY <2>2, <3>1, <3>2, <3>3 DEF Rows
  <2>5. marks \subseteq marks' /\ marks' \subseteq {"revived", "overlap"}
        /\ (card.status = "WIPED" => "revived" \in marks')
        /\ ("overlap" \notin marks' => card.version = task[w].version)
    BY <1>2, <2>1
  <2>6. "overlap" \notin marks' => Older
    BY <2>2, <2>3, <2>4, <2>5 DEF Older
  <2>7. RowAges
    BY <1>1, <2>1, <2>4, <2>5, <2>6, RowWritten DEF IInv
  <2>8. /\ task' \in [Tasks -> TaskRows] /\ \A v \in Tasks \ {w} : task'[v] = task[v]
        /\ task'[w] = [task[w] EXCEPT !.at = "activate"] /\ task'[w].at = "activate"
    BY <2>1, GoIs DEF IInv, Places
  <2>9. task'[w].id = task[w].id /\ task'[w].link = task[w].link
    BY <1>2, <2>8 DEF TaskRows
  <2>10. TaskFits(w)'
    BY <1>1, <1>3, <2>8, <2>9 DEF TaskFits, Holding, Minting
  <2>11. PICK l \in Links : l = task[w].link
    BY <1>2, <1>3 DEF TaskRows
  <2>12. LinksInv' /\ minted' \in [Links -> Nat]
    <3>1. task[w].at \in Holding /\ task'[w].at \notin Holding /\ MintOf(l)
      BY <1>1, <2>1, <2>8, <2>11 DEF Holding
    <3>. QED
      BY <1>1, <2>8, <2>9, <2>11, <3>1, MintOnce
  <2>. QED
    BY <1>1, <1>2, <2>7, <2>8, <2>10, <2>12, QuietStep
<1>. QED
  BY <1>4, <1>5

LEMMA ActivatePreserves ==
  ASSUME IInv, NEW w \in Tasks, ActivateRegistered(w)
  PROVE  IInv'
<1>1. task[w].at = "activate" /\ UNCHANGED <<issued, link, handed, chip, tapped, minted, used, marks>>
  BY DEF ActivateRegistered, history
<1>2. task[w] \in TaskRows /\ card \in Rows \cup {None} /\ marks \subseteq {"revived", "overlap"}
  BY Types DEF IInv
<1>3. task[w].id <= issued /\ task[w].link # None
  BY <1>1 DEF IInv, TasksInv, Minting
<1>4. CASE Go(w, "done") /\ UNCHANGED card
  <2>1. /\ task' \in [Tasks -> TaskRows] /\ \A v \in Tasks \ {w} : task'[v] = task[v]
        /\ task'[w] = Ended
    BY <1>4, GoIs DEF IInv, Places
  <2>2. RowAges
    BY <1>1, <1>4, RowSame DEF IInv
  <2>3. TaskFits(w)'
    BY <2>1, <2>2, EndedFits
  <2>. QED
    BY <1>1, <2>1, <2>2, <2>3, Records, RequestStep
<1>5. CASE /\ card # None /\ Activatable(card.status)
           /\ card' = [card EXCEPT !.status = "ACTIVE"] /\ Go(w, "mark")
  <2>1. /\ task' \in [Tasks -> TaskRows] /\ \A v \in Tasks \ {w} : task'[v] = task[v]
        /\ task'[w] = [task[w] EXCEPT !.at = "mark"] /\ task'[w].at = "mark"
    BY <1>5, GoIs DEF IInv, Places
  <2>2. task'[w].id = task[w].id /\ task'[w].link = task[w].link
    BY <1>2, <2>1 DEF TaskRows
  <2>3. card \in Rows /\ card' \in Rows /\ card'.id = card.id /\ Older /\ card.status # "WIPED"
    BY <1>2, <1>5, Fields DEF Rows, Statuses, Older, Activatable
  <2>4. RowAges
    BY <1>1, <1>2, <1>5, <2>3, RowWritten DEF IInv
  <2>5. TaskFits(w)'
    BY <1>1, <1>3, <2>1, <2>2 DEF TaskFits, Holding, Minting
  <2>. QED
    BY <1>1, <2>1, <2>2, <2>4, <2>5, RequestStep DEF Holding, Minting
<1>. QED
  BY <1>4, <1>5 DEF ActivateRegistered, RowIs

(* The link that is marked with the card minted it, so it is COMPLETED.        *)
LEMMA MarkPreserves ==
  ASSUME IInv, NEW w \in Tasks, MarkLink(w)
  PROVE  IInv'
<1>1. task[w].at = "mark" /\ UNCHANGED <<card, issued, handed, chip, tapped, minted, used, marks>>
  BY DEF MarkLink, history
<1>2. /\ task[w] \in TaskRows /\ link \in [Links -> LinkRows] /\ minted \in [Links -> Nat]
      /\ \A l \in Links : link[l].card # 0 => link[l].status = "COMPLETED"
  BY Types DEF IInv, TypeOK
<1>3. task[w].id <= issued /\ task[w].link # None
  BY <1>1 DEF IInv, TasksInv, Minting
<1>4. RowAges
  BY <1>1, RowSame DEF IInv
<1>5. CASE Go(w, "done") /\ UNCHANGED link
  <2>1. /\ task' \in [Tasks -> TaskRows] /\ \A v \in Tasks \ {w} : task'[v] = task[v]
        /\ task'[w] = Ended
    BY <1>5, GoIs DEF IInv, Places
  <2>2. TaskFits(w)'
    BY <1>4, <2>1, EndedFits
  <2>. QED
    BY <1>1, <1>4, <1>5, <2>1, <2>2, Records, RequestStep
<1>6. CASE link' = [link EXCEPT ![task[w].link].card = task[w].id] /\ Go(w, "answer")
  <2>1. /\ task' \in [Tasks -> TaskRows] /\ \A v \in Tasks \ {w} : task'[v] = task[v]
        /\ task'[w] = [task[w] EXCEPT !.at = "answer"] /\ task'[w].at = "answer"
    BY <1>6, GoIs DEF IInv, Places
  <2>2. task'[w].id = task[w].id
    BY <1>2, <2>1 DEF TaskRows
  <2>3. PICK l \in Links : l = task[w].link
    BY <1>2, <1>3 DEF TaskRows
  <2>4. link[l].status = "COMPLETED"
    <3>1. Minter(w, l)
      BY <1>1, <2>3 DEF Minter, Minting
    <3>. QED
      BY <3>1 DEF IInv, LinksInv
  <2>5. /\ link' \in [Links -> LinkRows]
        /\ \A m \in Links : link'[m].status = link[m].status
        /\ \A m \in Links \ {l} : link'[m] = link[m]
    BY <1>2, <1>6, <2>3 DEF LinkRows, TaskRows
  <2>6. \A m \in Links : link'[m].card # 0 => link'[m].status = "COMPLETED"
    BY <1>2, <2>4, <2>5
  <2>7. TaskFits(w)'
    BY <1>1, <1>3, <1>4, <2>1, <2>2, AtRest
  <2>8. LinksInv'
    BY <1>1, <2>1, <2>5, LinksLeft DEF Holding, Minting
  <2>. QED
    BY <1>1, <1>2, <1>4, <2>1, <2>5, <2>6, <2>7, <2>8, QuietStep
<1>. QED
  BY <1>5, <1>6 DEF MarkLink

LEMMA AnswerPreserves ==
  ASSUME IInv, NEW w \in Tasks, AnswerKeys(w)
  PROVE  IInv'
<1>1. task[w].at = "answer" /\ Go(w, "done")
      /\ UNCHANGED <<card, issued, link, chip, tapped, minted, used, marks>>
  BY DEF AnswerKeys, history
<1>2. /\ card \in Rows \cup {None} /\ link \in [Links -> LinkRows] /\ minted \in [Links -> Nat]
      /\ handed \subseteq Programmings /\ chip \in ChipRows \cup {None} /\ tapped \subseteq Taps
      /\ used \in [Tasks -> Grants \cup {None}] /\ issued \in Nat
      /\ \A l \in Links : link[l].card # 0 => link[l].status = "COMPLETED"
      /\ card # None => card.id = issued
  BY Types, Bounds DEF IInv, TypeOK
<1>3. RowAges
  BY <1>1, RowSame DEF IInv
<1>4. /\ task' \in [Tasks -> TaskRows] /\ \A v \in Tasks \ {w} : task'[v] = task[v]
      /\ task'[w] = Ended
  BY <1>1, GoIs DEF IInv, Places
<1>5. handed' = handed \/ (card \in Rows /\ handed' = handed \cup {Programming(card)})
  BY <1>2 DEF AnswerKeys, RowIs
<1>6. ASSUME card \in Rows
      PROVE  /\ Programming(card) \in Programmings /\ Programming(card).url = card.id
             /\ Programming(card).version = card.version
  BY <1>6 DEF Programming, Programmings, Rows
<1>7. handed' \subseteq Programmings
  BY <1>2, <1>5, <1>6
<1>8. TypeOK'
  BY <1>1, <1>2, <1>3, <1>4, <1>7, TypesNext DEF IInv
<1>9. TasksInv'
  <2>1. TaskFits(w)'
    BY <1>3, <1>4, EndedFits
  <2>. QED
    BY <1>1, <1>3, <1>4, <2>1, TasksKeep
<1>10. LinksInv'
  BY <1>1, <1>4, Records, LinksLeft
<1>11. KeysInv'
  <2>1. ASSUME card \in Rows PROVE Fits(Programming(card))
    <3>1. card.id = issued
      BY <1>2, <2>1, Bounds
    <3>. QED
      BY <1>2, <1>6, <2>1, <3>1, Fields DEF Fits
  <2>2. \A k \in handed' : Fits(k)
    BY <1>5, <2>1 DEF IInv, KeysInv
  <2>. QED
    BY <1>1, <2>2 DEF IInv, KeysInv, Fits, RowIs, Apart
<1>12. UsesInv' /\ TapUsedOnce'
  BY <1>1 DEF IInv, UsesInv, TapUsedOnce, RowIs, Apart, Passed
<1>. QED
  BY <1>8, <1>9, <1>10, <1>11, <1>12 DEF IInv

LEMMA RegisterPreserves ==
  ASSUME IInv, NEW w \in Tasks, NEW o \in Owners, RegisterDirectly(w, o)
  PROVE  IInv'
<1>1. task[w].at = "idle" /\ UNCHANGED <<card, issued, link, handed, chip, tapped, minted, used, marks>>
  BY DEF RegisterDirectly, history
<1>. DEFINE r == [Idle EXCEPT !.at = "create", !.owner = o]
<1>2. r \in TaskRows /\ r.at = "create" /\ r.link = None /\ r.owner \in Owners /\ r.id = 0
  BY Records DEF TaskRows, Places
<1>3. Becomes(w, r)
  BY DEF RegisterDirectly, Becomes
<1>. HIDE DEF r
<1>4. /\ task' \in [Tasks -> TaskRows] /\ task'[w] = r
      /\ \A v \in Tasks \ {w} : task'[v] = task[v]
  BY <1>2, <1>3, BecomesIs DEF IInv
<1>5. RowAges
  BY <1>1, RowSame DEF IInv
<1>6. TaskFits(w)'
  <2>1. issued' \in Nat
    BY <1>5, Bounds DEF RowAges
  <2>. QED
    BY <1>2, <1>4, <2>1 DEF TaskFits, Holding, Minting
<1>. QED
  BY <1>1, <1>2, <1>4, <1>5, <1>6, RequestStep

-------------------------------------------------------------------------------
(* One lemma per step of a tap. *)

LEMMA VerifyPreserves ==
  ASSUME IInv, NEW w \in Tasks, NEW t \in tapped, VerifyTap(w, t) \/ VerifyReset(w, t)
  PROVE  IInv'
<1>1. /\ task[w].at = "idle" /\ card # None
      /\ UNCHANGED <<card, issued, link, handed, chip, tapped, minted, used, marks>>
  BY DEF VerifyTap, VerifyReset, Genuine, history
<1>2. PICK place \in {"open", "record"} : Begin(w, t, place)
  BY DEF VerifyTap, VerifyReset
<1>. DEFINE r == [Idle EXCEPT !.at = place, !.id = card.id, !.tap = t]
<1>3. r \in TaskRows /\ r.at = place /\ r.link = None /\ r.tap = t /\ r.id = issued
  <2>1. t \in Taps /\ card \in Rows /\ card.id = issued
    BY <1>1, Types DEF IInv
  <2>2. card.id \in {0} \cup Ids
    BY <2>1 DEF Rows
  <2>. QED
    BY <2>1, <2>2, Records DEF TaskRows, Places
<1>4. Becomes(w, r)
  BY <1>2 DEF Begin, Becomes
<1>. HIDE DEF r
<1>5. /\ task' \in [Tasks -> TaskRows] /\ task'[w] = r
      /\ \A v \in Tasks \ {w} : task'[v] = task[v]
  BY <1>3, <1>4, BecomesIs DEF IInv
<1>6. RowAges
  BY <1>1, RowSame DEF IInv
<1>7. TaskFits(w)'
  <2>1. issued' \in Nat
    BY <1>6, Bounds DEF RowAges
  <2>. QED
    BY <1>1, <1>3, <1>5, <2>1 DEF TaskFits, Holding, Minting
<1>. QED
  BY <1>1, <1>3, <1>5, <1>6, <1>7, RequestStep

(* The grant moves the counter up to the tap's, so that a tap granted before   *)
(* under the row's keys is not granted again.                                *)
LEMMA GrantPreserves ==
  ASSUME IInv, NEW w \in Tasks, StartWithdrawSession(w) \/ RecordVerifiedResetTap(w)
  PROVE  IInv'
<1>. DEFINE t == task[w].tap
<1>1. /\ task[w].at \in {"open", "record"} /\ Go(w, "done")
      /\ UNCHANGED <<issued, link, handed, chip, tapped, minted, marks>>
  BY DEF StartWithdrawSession, RecordVerifiedResetTap
<1>2. /\ card \in Rows \cup {None} /\ issued \in Nat /\ link \in [Links -> LinkRows]
      /\ minted \in [Links -> Nat] /\ marks \subseteq {"revived", "overlap"}
      /\ used \in [Tasks -> Grants \cup {None}] /\ handed \subseteq Programmings
      /\ chip \in ChipRows \cup {None} /\ tapped \subseteq Taps
      /\ \A l \in Links : link[l].card # 0 => link[l].status = "COMPLETED"
  BY Types, Bounds DEF IInv, TypeOK
<1>3. /\ task' \in [Tasks -> TaskRows] /\ \A v \in Tasks \ {w} : task'[v] = task[v]
      /\ task'[w] = Ended
  BY <1>1, GoIs DEF IInv, Places
<1>4. t \in tapped /\ t \in Taps
  BY <1>1, <1>2 DEF IInv, TasksInv
<1>5. CASE UNCHANGED <<card, used>>
  <2>1. RowAges
    BY <1>1, <1>5, RowSame DEF IInv
  <2>2. TaskFits(w)'
    BY <1>3, <2>1, EndedFits
  <2>. QED
    BY <1>1, <1>3, <1>5, <2>1, <2>2, Records, RequestStep
<1>6. CASE ~UNCHANGED <<card, used>>
  <2>1. /\ RowIs(task[w].id) /\ Newer(t) /\ Granted(w, t)
        /\ \/ card' = [card EXCEPT !.counter = t.counter]
           \/ /\ card' = [card EXCEPT !.counter = t.counter, !.verified = TRUE]
    BY <1>6 DEF StartWithdrawSession, RecordVerifiedResetTap
  <2>2. PICK tap \in Taps : tap = t
    BY <1>4
  <2>0. PICK id \in Ids : id = task[w].id
    <3>1. card \in Rows
      BY <1>2, <2>1 DEF RowIs
    <3>. QED
      BY <2>1, <3>1 DEF RowIs, Rows
  <2>3. /\ RowIs(id) /\ card.counter < tap.counter
        /\ used' = [used EXCEPT ![w] = [tap |-> tap, row |-> id, current |-> Genuine(tap)]]
        /\ \/ card' = [card EXCEPT !.counter = tap.counter]
           \/ card' = [card EXCEPT !.counter = tap.counter, !.verified = TRUE]
    BY <2>0, <2>1, <2>2 DEF Newer, Granted
  <2>4. id \in Nat /\ id <= issued
    BY <2>0, Bounds DEF Ids, IInv, TasksInv
  <2>. HIDE DEF t
  <2>5. /\ card \in Rows /\ card' \in Rows /\ card'.id = card.id /\ card'.status = card.status
        /\ card'.version = card.version /\ card'.counter = tap.counter
    <3>1. card \in Rows /\ tap.counter \in 0..MaxCounter
      BY <1>2, <2>3, Bounds DEF RowIs, Taps
    <3>. QED
      BY <2>3, <3>1 DEF Rows
  <2>6. /\ card.id \in Nat /\ card.version \in Nat /\ card.counter \in Nat
        /\ tap.version \in Nat /\ tap.counter \in Nat
    BY <2>5, Fields
  <2>7. Older
    BY <2>3, <2>5, <2>6 DEF Older
  <2>8. RowAges
    BY <1>1, <1>2, <2>3, <2>5, <2>7, RowWritten DEF IInv, RowIs
  <2>9. Genuine(tap) \in BOOLEAN
    BY DEF Genuine, RowIs
  <2>10. /\ used' \in [Tasks -> Grants \cup {None}]
         /\ used'[w].tap = tap /\ used'[w].row = id /\ (used'[w].current => Genuine(tap))
         /\ \A v \in Tasks \ {w} : used'[v] = used[v]
    BY <1>2, <2>3, <2>9 DEF Grants
  <2>11. TypeOK'
    BY <1>1, <1>2, <1>3, <2>8, <2>10, TypesNext DEF IInv
  <2>12. TasksInv'
    <3>1. TaskFits(w)'
      BY <1>3, <2>8, EndedFits
    <3>. QED
      BY <1>1, <1>3, <2>8, <3>1, TasksKeep
  <2>13. LinksInv'
    BY <1>1, <1>3, Records, LinksLeft
  <2>14. KeysInv'
    BY <1>1, <2>8, KeysKeep
  <2>15. UsesInv'
    <3>1. Passed(tap)' <=> card'.version > tap.version
                           \/ (card'.version = tap.version /\ card'.counter >= tap.counter)
      BY DEF Passed
    <3>2. used'[w].current => Passed(tap)'
      <4>. SUFFICES ASSUME Genuine(tap)
                    PROVE  Passed(tap)'
        BY <2>10
      <4>1. card.version = tap.version
        BY DEF Genuine, Keys
      <4>. QED
        BY <2>5, <2>6, <3>1, <4>1
    <3>3. UseFits(w)'
      BY <1>1, <2>4, <2>10, <3>2 DEF UseFits, Spent, Passed
    <3>. QED
      BY <2>8, <2>10, <3>3, UsesKeep
  <2>16. TapUsedOnce'
    <3>1. ASSUME NEW v \in Tasks \ {w}, used[v] # None, used[v].tap = tap,
                 used[v].row = id, Apart
          PROVE  ~used[v].current \/ ~Genuine(tap)
      <4>. SUFFICES ASSUME used[v].current, Genuine(tap)
                    PROVE  FALSE
        OBVIOUS
      <4>1. Passed(tap)
        BY <2>3, <3>1 DEF IInv, UsesInv
      <4>2. card.version = tap.version
        BY DEF Genuine, Keys
      <4>. QED
        BY <2>3, <2>6, <4>1, <4>2 DEF Passed
    <3>2. ASSUME NEW v \in Tasks \ {w}, used'[v] # None,
                 used'[v].tap = used'[w].tap, used'[v].row = used'[w].row
          PROVE  "overlap" \in marks' \/ ~used'[v].current \/ ~used'[w].current
      BY <1>1, <2>10, <3>1, <3>2 DEF Apart
    <3>3. ASSUME NEW u \in Tasks \ {w}, NEW v \in Tasks \ {w}, u # v,
                 used'[u] # None, used'[v] # None,
                 used'[u].tap = used'[v].tap, used'[u].row = used'[v].row
          PROVE  "overlap" \in marks' \/ ~used'[u].current \/ ~used'[v].current
      BY <1>1, <2>10, <3>3 DEF IInv, TapUsedOnce
    <3>. QED
      BY <3>2, <3>3 DEF TapUsedOnce
  <2>. QED
    BY <2>11, <2>12, <2>13, <2>14, <2>15, <2>16 DEF IInv
<1>. QED
  BY <1>5, <1>6

LEMMA StopPreserves ==
  ASSUME IInv, NEW w \in Tasks, Stop(w)
  PROVE  IInv'
<1>1. Go(w, "done") /\ UNCHANGED <<card, issued, link, handed, chip, tapped, minted, used, marks>>
  BY DEF Stop, history
<1>2. /\ task' \in [Tasks -> TaskRows] /\ \A v \in Tasks \ {w} : task'[v] = task[v]
      /\ task'[w] = Ended
  BY <1>1, GoIs DEF IInv, Places
<1>3. RowAges
  BY <1>1, RowSame DEF IInv
<1>4. TaskFits(w)'
  BY <1>2, <1>3, EndedFits
<1>. QED
  BY <1>1, <1>2, <1>3, <1>4, Records, RequestStep

-------------------------------------------------------------------------------
(* The owner, the clocks and the chip. *)

LEMMA OwnerPreserves ==
  ASSUME IInv, \/ ActivateCard \/ DisableCard \/ EnableCard \/ WipeCard
               \/ WipeCardAfterVerifiedReset \/ VerificationExpires
  PROVE  IInv'
<1>1. /\ card # None
      /\ UNCHANGED <<issued, link, task, handed, chip, tapped, minted, used, marks>>
  BY DEF ActivateCard, DisableCard, EnableCard, WipeCard, SetStatus, WipeCardAfterVerifiedReset,
         VerificationExpires, history
<1>2. /\ card \in Rows /\ marks \subseteq {"revived", "overlap"} /\ link \in [Links -> LinkRows]
      /\ minted \in [Links -> Nat] /\ task \in [Tasks -> TaskRows]
      /\ \A l \in Links : link[l].card # 0 => link[l].status = "COMPLETED"
  BY <1>1, Types DEF IInv, TypeOK
<1>3. \/ \E s \in Statuses : /\ card' = [card EXCEPT !.status = s]
                             /\ card.status = "WIPED" => s = "WIPED"
      \/ card.status # "WIPED" /\ card' = [card EXCEPT !.status = "WIPED", !.verified = FALSE]
      \/ card' = [card EXCEPT !.verified = FALSE]
  BY DEF ActivateCard, Activatable, DisableCard, EnableCard, WipeCard, SetStatus,
         WipeCardAfterVerifiedReset, VerificationExpires, Statuses
<1>4. /\ card' \in Rows /\ card'.id = card.id /\ card'.version = card.version
      /\ card'.counter = card.counter /\ (card.status = "WIPED" => card'.status = "WIPED")
  BY <1>2, <1>3 DEF Rows, Statuses
<1>5. RowAges
  <2>1. Older
    BY <1>2, <1>4, Fields DEF Older
  <2>. QED
    BY <1>1, <1>2, <1>4, <2>1, RowWritten DEF IInv
<1>6. LinksInv'
  BY <1>1 DEF IInv, LinksInv, Holds, Minter
<1>. QED
  BY <1>1, <1>2, <1>5, <1>6, QuietStep

LEMMA EndLinkPreserves ==
  ASSUME IInv, NEW l \in Links, EndLink(l)
  PROVE  IInv'
<1>1. /\ link[l].status = "PENDING" /\ link' = [link EXCEPT ![l].status = "ENDED"]
      /\ UNCHANGED <<card, issued, task, handed, chip, tapped, minted, used, marks>>
  BY DEF EndLink, Cancellable, history
<1>2. /\ link \in [Links -> LinkRows] /\ minted \in [Links -> Nat] /\ task \in [Tasks -> TaskRows]
      /\ \A m \in Links : link[m].card # 0 => link[m].status = "COMPLETED"
  BY Types DEF IInv, TypeOK
<1>3. /\ link' \in [Links -> LinkRows] /\ link'[l].card = link[l].card
      /\ \A m \in Links \ {l} : link'[m] = link[m]
  BY <1>1, <1>2 DEF LinkRows, LinkStatuses
<1>4. \A m \in Links : link'[m].card # 0 => link'[m].status = "COMPLETED"
  BY <1>1, <1>2, <1>3
<1>5. RowAges
  BY <1>1, RowSame DEF IInv
<1>6. LinksInv'
  <2>1. \A m \in Links : link'[m].status = link[m].status \/ link[m].status # "COMPLETED"
    BY <1>1, <1>3
  <2>2. \A w \in Tasks, m \in Links : (Holds(w, m)' => Holds(w, m)) /\ (Minter(w, m)' => Minter(w, m))
    BY <1>1 DEF Holds, Minter
  <2>. QED
    BY <1>1, <2>1, <2>2, LinksKeep DEF IInv
<1>. QED
  BY <1>1, <1>2, <1>3, <1>4, <1>5, <1>6, QuietStep

(* The chip only ever holds keys that were handed out, and taps with them.     *)
LEMMA ChipPreserves ==
  ASSUME IInv, ProgramChip \/ EraseChip \/ TapChip
  PROVE  IInv'
<1>1. UNCHANGED <<card, issued, link, task, handed, minted, used, marks>>
  BY DEF ProgramChip, EraseChip, TapChip, history
<1>2. /\ link \in [Links -> LinkRows] /\ minted \in [Links -> Nat] /\ task \in [Tasks -> TaskRows]
      /\ handed \subseteq Programmings /\ chip \in ChipRows \cup {None} /\ tapped \subseteq Taps
      /\ used \in [Tasks -> Grants \cup {None}]
      /\ \A l \in Links : link[l].card # 0 => link[l].status = "COMPLETED"
  BY Types DEF IInv, TypeOK
<1>3. RowAges
  BY <1>1, RowSame DEF IInv
<1>4. /\ chip' \in ChipRows \cup {None} /\ tapped \subseteq tapped' /\ tapped' \subseteq Taps
      /\ chip' # None => chip'.holds \in handed \/ (chip # None /\ chip'.holds = chip.holds)
  <2>1. CASE ProgramChip
    <3>1. tapped' = tapped /\ \E k \in handed : chip' = [holds |-> k, counter |-> 0]
      BY <2>1 DEF ProgramChip
    <3>. QED
      BY <1>2, <3>1, Bounds DEF ChipRows
  <2>2. CASE EraseChip
    BY <1>2, <2>2 DEF EraseChip
  <2>3. CASE TapChip
    <3>. DEFINE tap == [owner |-> chip.holds.owner, version |-> chip.holds.version,
                        counter |-> chip.counter + 1]
    <3>1. /\ chip # None /\ chip.counter < MaxCounter
          /\ chip' = [chip EXCEPT !.counter = chip.counter + 1] /\ tapped' = tapped \cup {tap}
      BY <2>3 DEF TapChip
    <3>2. chip \in ChipRows /\ chip.counter + 1 \in 1..MaxCounter /\ chip.counter + 1 \in 0..MaxCounter
      BY <1>2, <3>1, Bounds DEF ChipRows
    <3>3. tap \in Taps
      BY <3>2 DEF ChipRows, Programmings, Taps
    <3>. HIDE DEF tap
    <3>4. chip' \in ChipRows /\ chip'.holds = chip.holds
      BY <3>1, <3>2 DEF ChipRows
    <3>. QED
      BY <1>2, <3>1, <3>3, <3>4
  <2>. QED
    BY <2>1, <2>2, <2>3
<1>5. TypeOK'
  BY <1>1, <1>2, <1>3, <1>4, TypesNext DEF IInv
<1>6. TasksInv'
  BY <1>1, <1>3, <1>4, TasksKeep
<1>7. LinksInv'
  BY <1>1 DEF IInv, LinksInv, Holds, Minter
<1>8. KeysInv'
  <2>1. \A k \in handed : Fits(k)
    BY DEF IInv, KeysInv
  <2>2. chip # None => Fits(chip.holds)
    BY DEF IInv, KeysInv
  <2>3. chip' # None => Fits(chip'.holds)
    BY <1>4, <2>1, <2>2
  <2>. QED
    BY <1>1, <2>1, <2>3 DEF KeysInv, Fits, RowIs, Apart
<1>9. UsesInv' /\ TapUsedOnce'
  BY <1>1 DEF IInv, UsesInv, TapUsedOnce, RowIs, Apart, Passed
<1>. QED
  BY <1>5, <1>6, <1>7, <1>8, <1>9 DEF IInv

-------------------------------------------------------------------------------
(* Theorems. *)

LEMMA NextPreserves ==
  ASSUME IInv, [Next]_vars
  PROVE  IInv'
<1>1. CASE UNCHANGED vars
  <2>1. UNCHANGED <<card, issued, link, task, handed, chip, tapped, minted, used, marks>>
    BY <1>1 DEF vars
  <2>2. TypeOK' /\ TasksInv'
    BY <2>1 DEF IInv, TypeOK, TasksInv, RowIs
  <2>3. LinksInv'
    BY <2>1 DEF IInv, LinksInv, Holds, Minter
  <2>4. KeysInv'
    BY <2>1 DEF IInv, KeysInv, Fits, RowIs, Apart
  <2>5. UsesInv' /\ TapUsedOnce'
    BY <2>1 DEF IInv, UsesInv, TapUsedOnce, RowIs, Apart, Passed
  <2>. QED
    BY <2>2, <2>3, <2>4, <2>5 DEF IInv
<1>. QED
  BY <1>1, ClaimLinkPreserves, LookUpPreserves, ReleaseLinkPreserves, DeletePreserves,
     CreatePreserves, RereadPreserves, ReprogramPreserves, ActivatePreserves, MarkPreserves,
     AnswerPreserves, RegisterPreserves, VerifyPreserves, GrantPreserves, StopPreserves,
     OwnerPreserves, EndLinkPreserves, ChipPreserves DEF Next

LEMMA InitHolds ==
  ASSUME Init
  PROVE  IInv
<1>1. PICK o \in Owners : card \in {None, [NewCard(1, o) EXCEPT !.status = "ACTIVE"]}
  BY DEF Init
<1>2. /\ issued = IF card = None THEN 0 ELSE 1
      /\ link \in [Links -> [owner : Owners, status : {"PENDING", "COMPLETED"}, card : {0, issued}]]
      /\ \A l \in Links : link[l].status = "COMPLETED" <=> link[l].card # 0
      /\ task = [w \in Tasks |-> Idle] /\ handed = {} /\ tapped = {} /\ marks = {}
      /\ minted = [l \in Links |-> IF link[l].card = 0 THEN 0 ELSE 1]
      /\ used = [w \in Tasks |-> None]
  BY DEF Init
<1>3. 1 \in Ids /\ 1 \in 1..MaxVersion
  BY Bounds DEF Ids
<1>4. card \in Rows \cup {None} /\ (card # None => card.id = 1 /\ card.version = 1)
  <2>1. NewCard(1, o) \in Rows /\ NewCard(1, o).id = 1 /\ NewCard(1, o).version = 1
    BY <1>3, NewCardType DEF NewCard
  <2>. QED
    BY <1>1, <2>1 DEF Rows, Statuses
<1>5. issued \in 0..MaxCards /\ issued \in {0, 1} /\ (card # None => card.id = issued)
  BY <1>2, <1>4, Bounds
<1>6. link \in [Links -> LinkRows]
  BY <1>2, <1>3, <1>5 DEF LinkRows, LinkStatuses
<1>7. /\ task \in [Tasks -> TaskRows]
      /\ \A w \in Tasks : task[w].at = "idle" /\ task[w].id = 0 /\ task[w].link = None
  BY <1>2, Records
<1>8. chip = None \/ (card # None /\ chip = [holds |-> Programming(card), counter |-> 0])
  BY DEF Init
<1>9. /\ chip \in ChipRows \cup {None}
      /\ chip # None => card # None /\ chip.holds.url = 1 /\ chip.holds.version = 1
  BY <1>3, <1>4, <1>8, Fields, Bounds DEF ChipRows, Programmings, Programming
<1>10. \A l \in Links : minted[l] \in {0, 1} /\ (minted[l] = 1 => link[l].status = "COMPLETED")
  BY <1>2
<1>11. minted \in [Links -> Nat] /\ used \in [Tasks -> Grants \cup {None}]
  BY <1>2
<1>12. TypeOK
  BY <1>2, <1>4, <1>5, <1>6, <1>7, <1>9, <1>11 DEF TypeOK, LinkRows, TaskRows, ChipRows, Grants
<1>13. TasksInv
  BY <1>5, <1>7 DEF TasksInv, Holding, Minting
<1>14. LinksInv
  BY <1>7, <1>10 DEF LinksInv, Holds, Minter, Holding, Minting
<1>15. KeysInv
  BY <1>2, <1>4, <1>5, <1>9 DEF KeysInv, Fits, RowIs
<1>16. UsesInv /\ TapUsedOnce
  BY <1>2 DEF UsesInv, TapUsedOnce
<1>. QED
  BY <1>12, <1>13, <1>14, <1>15, <1>16 DEF IInv

(* The row, the links, what is programmed and what was granted agree with each *)
(* other in every reachable state, whatever requests overlap or die: the row   *)
(* is past every tap that this row granted something under its keys.          *)
THEOREM Invariance == Spec => []IInv
<1>1. Init => IInv
  BY InitHolds
<1>2. IInv /\ [Next]_vars => IInv'
  BY NextPreserves
<1>. QED
  BY <1>1, <1>2, PTL DEF Spec

(* Every variable keeps its type; only a COMPLETED link names a card.          *)
THEOREM TypeCorrect == Spec => []TypeOK
<1>1. IInv => TypeOK
  BY DEF IInv
<1>. QED
  BY <1>1, Invariance, PTL

(* A link creates or re-programs at most one card, and none once it was        *)
(* cancelled or expired (store.ts:643).                                       *)
THEOREM MintsOnce == Spec => []LinkMintsOnce
<1>1. IInv => LinkMintsOnce
  BY DEF IInv, LinksInv, LinkMintsOnce
<1>. QED
  BY <1>1, Invariance, PTL

(* At one row, one tap opens one session or hands out the keys once, over all   *)
(* re-programmings that set the counter back.                                *)
THEOREM TapsCountOnce == Spec => []TapUsedOnce
<1>1. IInv => TapUsedOnce
  BY DEF IInv
<1>. QED
  BY <1>1, Invariance, PTL

(* A row's key version never falls behind the chip that was programmed for it. *)
THEOREM KeysAreKnown == Spec => []KeysStayKnown
<1>1. IInv => KeysStayKnown
  <2>. SUFFICES ASSUME IInv, chip # None, RowIs(chip.holds.url), "overlap" \notin marks
                PROVE  chip.holds.version <= card.version
    BY DEF KeysStayKnown
  <2>1. Fits(chip.holds)
    BY DEF IInv, KeysInv
  <2>. QED
    BY <2>1 DEF Fits, Apart
<1>. QED
  BY <1>1, Invariance, PTL

(* Where the row can change, and how.                                        *)
LEMMA RowSteps ==
  ASSUME IInv, Next, card # None, card' # card
  PROVE  \/ \E w \in Tasks : /\ task[w].at = "delete" /\ RowIs(task[w].id) /\ card' = None
         \/ \E w \in Tasks : /\ task[w].at = "reprogram" /\ task'[w].at = "activate"
                             /\ card' \in Rows /\ card'.id = card.id
         \/ /\ card' \in Rows /\ card'.id = card.id
            /\ card.status = "WIPED" => card'.status = "WIPED"
<1>1. card \in Rows /\ issued \in Nat
  BY Types, Bounds DEF IInv
<1>2. ASSUME NEW w \in Tasks, DeleteWipedCard(w)
      PROVE  task[w].at = "delete" /\ RowIs(task[w].id) /\ card' = None
  BY <1>2 DEF DeleteWipedCard
<1>3. ASSUME NEW w \in Tasks, ReprogramCard(w)
      PROVE  /\ task[w].at = "reprogram" /\ task'[w].at = "activate"
             /\ card' \in Rows /\ card'.id = card.id
  <2>1. /\ task[w].at = "reprogram" /\ Go(w, "activate")
        /\ NextVersion(task[w].version) <= MaxVersion
        /\ card' = [card EXCEPT !.version = NextVersion(task[w].version),
                                !.counter = 0, !.status = "PENDING"]
    BY <1>3 DEF ReprogramCard
  <2>2. task'[w].at = "activate"
    BY <2>1, GoIs DEF IInv, Places
  <2>3. NextVersion(task[w].version) \in 1..MaxVersion /\ 0 \in 0..MaxCounter
    <3>1. task[w].version \in Nat
      BY Types, Bounds DEF IInv, TaskRows
    <3>. QED
      BY <2>1, <3>1, Bounds DEF NextVersion
  <2>4. card' \in Rows /\ card'.id = card.id
    BY <1>1, <2>1, <2>3 DEF Rows, Statuses
  <2>. QED
    BY <2>1, <2>2, <2>4
<1>4. ASSUME NEW w \in Tasks, ActivateRegistered(w)
      PROVE  /\ card' \in Rows /\ card'.id = card.id
             /\ card.status = "WIPED" => card'.status = "WIPED"
  BY <1>1, <1>4 DEF ActivateRegistered, Activatable, Rows, Statuses
<1>5. ASSUME NEW w \in Tasks, StartWithdrawSession(w) \/ RecordVerifiedResetTap(w)
      PROVE  card' \in Rows /\ card'.id = card.id /\ card'.status = card.status
  <2>1. \/ card' = [card EXCEPT !.counter = task[w].tap.counter]
        \/ card' = [card EXCEPT !.counter = task[w].tap.counter, !.verified = TRUE]
    BY <1>5 DEF StartWithdrawSession, RecordVerifiedResetTap
  <2>2. task[w].tap \in Taps
    <3>1. task[w].at \in {"open", "record"}
      BY <1>5 DEF StartWithdrawSession, RecordVerifiedResetTap
    <3>. QED
      BY <3>1, Types DEF IInv, TasksInv
  <2>3. task[w].tap.counter \in 0..MaxCounter
    BY <2>2, Bounds DEF Taps
  <2>. QED
    BY <1>1, <2>1, <2>3 DEF Rows
<1>6. ASSUME \/ ActivateCard \/ DisableCard \/ EnableCard \/ WipeCard
             \/ WipeCardAfterVerifiedReset \/ VerificationExpires
      PROVE  /\ card' \in Rows /\ card'.id = card.id
             /\ card.status = "WIPED" => card'.status = "WIPED"
  BY <1>1, <1>6 DEF ActivateCard, Activatable, DisableCard, EnableCard, WipeCard, SetStatus,
     WipeCardAfterVerifiedReset, VerificationExpires, Rows, Statuses
<1>7. \A w \in Tasks : ~CreateCard(w)
  BY DEF CreateCard
<1>. QED
  BY <1>2, <1>3, <1>4, <1>5, <1>6, <1>7
     DEF Next, ClaimLink, RegisterDirectly, VerifyTap, VerifyReset, LookUpCard, ReleaseLink,
         RereadCard, MarkLink, AnswerKeys, Stop, EndLink, ProgramChip, EraseChip, TapChip

(* WIPED is final (store.ts:1608) but for a re-programming that read the row   *)
(* before it was wiped.                                                      *)
THEOREM WipedStaysWiped == Spec => WipedIsFinal
<1>1. IInv /\ [Next]_vars
        => [card # None /\ card.status = "WIPED" /\ card' # None /\ card'.id = card.id
              => \/ card'.status = "WIPED"
                 \/ \E w \in Tasks : task[w].at = "reprogram" /\ task'[w].at = "activate"]_vars
  BY RowSteps
<1>. QED
  BY <1>1, Invariance, PTL DEF Spec, WipedIsFinal

(* Only a WIPED row is ever deleted, unless such a re-programming revived it    *)
(* after it was read.                                                        *)
THEOREM LiveCardsStay == Spec => NoLiveCardDeleted
<1>1. IInv /\ [Next]_vars
        => [card # None /\ (card' = None \/ card'.id # card.id)
              => card.status = "WIPED" \/ "revived" \in marks]_vars
  <2>. SUFFICES ASSUME IInv, Next, card # None, card' = None \/ card'.id # card.id
                PROVE  card.status = "WIPED" \/ "revived" \in marks
    OBVIOUS
  <2>1. card' # card
    OBVIOUS
  <2>2. PICK w \in Tasks : task[w].at = "delete" /\ RowIs(task[w].id)
    BY <2>1, RowSteps, Bounds
  <2>. QED
    BY <2>2 DEF IInv, TasksInv
<1>. QED
  BY <1>1, Invariance, PTL DEF Spec, NoLiveCardDeleted

===============================================================================
