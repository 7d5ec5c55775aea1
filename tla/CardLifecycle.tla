---------------------------- MODULE CardLifecycle ----------------------------
(***************************************************************************)
(* The life of one physical card (one UID) and of its boltcards row: the     *)
(* links that register it (lib/boltcard/store.ts, pages/api/boltcard/keys),   *)
(* direct registration, re-programming, resets, wiping, deletion of the row   *)
(* for a new registration, and the taps that meet them.  CardWithdraw follows *)
(* a card between two programmings; this module has the programmings.        *)
(*                                                                          *)
(* Abstracted: keys are what they are derived from beside the UID, the owner's *)
(* issuer key and the version (two rows of one owner have the same keys at the  *)
(* same version); a link's expiry is the step that ends it; the audit rows and  *)
(* what a card holds; a tap's session after it is opened (CardWithdraw).       *)
(***************************************************************************)
EXTENDS Integers, FiniteSets

CONSTANTS Tasks,       \* requests
          Links,       \* registration links
          Owners,
          None,
          MaxCards,    \* bound: rows ever created for the UID
          MaxVersion,  \* bound: key versions of a row
          MaxCounter   \* bound: taps of the chip under one set of keys

Statuses == {"PENDING", "ACTIVE", "DISABLED", "WIPED"}
Ids == 1..MaxCards
Rows == [id : Ids, owner : Owners, status : Statuses, version : 1..MaxVersion,
         counter : 0..MaxCounter, verified : BOOLEAN]

ASSUME CardLifecycleAssumption ==
    /\ {MaxCards, MaxVersion, MaxCounter} \subseteq Nat \ {0}
    /\ None \notin Tasks \cup Links \cup Owners \cup Rows
    /\ IsFiniteSet(Tasks)

VARIABLES card,    \* the boltcards row of this UID, or None
          issued,  \* how many rows the UID has had; the last one's id
          link,    \* link[l]: the boltcard_pending_registrations row
          task,    \* task[w]: where w stands and what it read
          handed,  \* programmings that were handed out: URL and keys
          chip,    \* what the chip holds, or None: factory keys
          tapped,  \* the taps it has emitted
          minted,  \* minted[l]: how often l changed the row (history)
          used,    \* used[w]: the tap w was granted something for, and the row
                   \* it was granted at (history)
          marks    \* what went wrong on the way (history)

vars == <<card, issued, link, task, handed, chip, tapped, minted, used, marks>>
history == <<minted, used, marks>>

(* Nothing asks whether an ended link is CANCELLED or EXPIRED. *)
LinkStatuses == {"PENDING", "COMPLETED", "ENDED"}
Places == {"idle", "lookup", "delete", "reread", "reprogram", "create", "activate",
           "mark", "answer", "unclaim", "open", "record", "done"}
(* The chip's URL names a row; a tap shows the keys it was made with.          *)
Programmings == [url : Ids, owner : Owners, version : 1..MaxVersion]
Taps == [owner : Owners, version : 1..MaxVersion, counter : 1..MaxCounter]

TypeOK ==
    /\ card \in Rows \cup {None}
    /\ issued \in 0..MaxCards
    /\ card # None => card.id = issued
    /\ link \in [Links -> [owner : Owners, status : LinkStatuses, card : {0} \cup Ids]]
    /\ \A l \in Links : link[l].card # 0 => link[l].status = "COMPLETED"
    /\ task \in [Tasks -> [at : Places, link : Links \cup {None}, owner : Owners \cup {None},
                           id : {0} \cup Ids, version : 0..MaxVersion, tap : Taps \cup {None}]]
    /\ handed \subseteq Programmings
    /\ chip = None \/ chip \in [holds : Programmings, counter : 0..MaxCounter]
    /\ tapped \subseteq Taps
    /\ minted \in [Links -> Nat]
    /\ used \in [Tasks -> [tap : Taps, row : Ids, current : BOOLEAN] \cup {None}]
    /\ marks \subseteq {"revived", "overlap"}

Idle == [at |-> "idle", link |-> None, owner |-> None, id |-> 0, version |-> 0, tap |-> None]
Ended == [Idle EXCEPT !.at = "done"]

NewCard(id, o) == [id |-> id, owner |-> o, status |-> "PENDING", version |-> 1,
                   counter |-> 0, verified |-> FALSE]

(* deriveAllKeys, and what the programmer app is answered: the URL with the    *)
(* row's id (generateCardUrl) and the keys.                                  *)
Keys(c) == [owner |-> c.owner, version |-> c.version]
Programming(c) == [url |-> c.id, owner |-> c.owner, version |-> c.version]

(* No card yet, or one that was registered directly or through a link.       *)
Init ==
    /\ \E o \in Owners :
         card \in {None, [NewCard(1, o) EXCEPT !.status = "ACTIVE"]}
    /\ issued = IF card = None THEN 0 ELSE 1
    /\ link \in [Links -> [owner : Owners, status : {"PENDING", "COMPLETED"}, card : {0, issued}]]
    /\ \A l \in Links : link[l].status = "COMPLETED" <=> link[l].card # 0
    /\ \A l \in Links : link[l].card # 0 => link[l].owner = card.owner
    /\ task = [w \in Tasks |-> Idle]
    /\ handed = {}
    /\ chip \in {None} \cup
         (IF card = None THEN {}
          ELSE {[holds |-> Programming(card), counter |-> 0]})
    /\ tapped = {}
    /\ minted = [l \in Links |-> IF link[l].card = 0 THEN 0 ELSE 1]
    /\ used = [w \in Tasks |-> None]
    /\ marks = {}

Go(w, place) ==
    task' = [task EXCEPT ![w] = IF place = "done" THEN Ended ELSE [@ EXCEPT !.at = place]]

(* A statement "... WHERE id = $1" finds the row. *)
RowIs(id) == card # None /\ card.id = id
MintOf(l) == minted' = IF l = None THEN minted ELSE [minted EXCEPT ![l] = @ + 1]

-------------------------------------------------------------------------------
(* completePendingRegistration *)

LinkClaimableAgain(l) == link[l].status \in {"PENDING", "COMPLETED"}
LinkClaimable(l) == link[l].status = "PENDING"

ClaimLink(w, l) ==
    /\ task[w].at = "idle"
    /\ LinkClaimable(l)
    /\ link' = [link EXCEPT ![l].status = "COMPLETED"]
    /\ task' = [task EXCEPT ![w] = [Idle EXCEPT !.at = "lookup", !.link = l,
                                                !.owner = link[l].owner]]
    /\ UNCHANGED <<card, issued, handed, chip, tapped, history>>

DeletesDisabled(status) == status \in {"WIPED", "DISABLED"}
Deletes(status) == status = "WIPED"

(* getCardByUid, which answers null for a database error too. *)
LookUpCard(w) ==
    /\ task[w].at = "lookup"
    /\ \/ Go(w, "create")
       \/ /\ card # None
          /\ task' = [task EXCEPT ![w].id = card.id,
                                  ![w].at = IF Deletes(card.status) THEN "delete"
                                            ELSE IF card.owner = task[w].owner THEN "reread"
                                            ELSE "unclaim"]
    /\ UNCHANGED <<card, issued, link, handed, chip, tapped, history>>

(* Nothing was written yet: the link goes back, if that write succeeds. *)
ReleaseLink(w) ==
    /\ task[w].at = "unclaim"
    /\ LET l == task[w].link IN
         \/ link[l].card = 0 /\ link' = [link EXCEPT ![l].status = "PENDING"]
         \/ UNCHANGED link
    /\ Go(w, "done")
    /\ UNCHANGED <<card, issued, handed, chip, tapped, history>>

(* boltcard_pending_registrations.card_id REFERENCES boltcards(id), without  *)
(* ON DELETE: a row that a link created or re-programmed cannot be deleted.  *)
Referenced(id) == \E l \in Links : link[l].card = id

DeleteWipedCard(w) ==
    /\ task[w].at = "delete"
    /\ IF RowIs(task[w].id) /\ Referenced(task[w].id)
       THEN Go(w, "done") /\ UNCHANGED card
       ELSE /\ Go(w, "create")
            /\ card' = IF RowIs(task[w].id) THEN None ELSE card
    /\ UNCHANGED <<issued, link, handed, chip, tapped, history>>

(* createCard; card_uid is unique. *)
CreateCard(w) ==
    /\ task[w].at = "create"
    /\ IF card # None
       THEN Go(w, "done") /\ UNCHANGED <<card, issued, minted>>
       ELSE /\ issued < MaxCards
            /\ issued' = issued + 1
            /\ card' = NewCard(issued + 1, task[w].owner)
            /\ MintOf(task[w].link)
            /\ task' = [task EXCEPT ![w].id = issued + 1,
                                    ![w].at = IF task[w].link = None THEN "answer" ELSE "activate"]
    /\ UNCHANGED <<link, handed, chip, tapped, used, marks>>

(* reprogramCard reads the row again, null for an error, and writes the next  *)
(* version of what it read over whatever the row is by then.                 *)
RereadCard(w) ==
    /\ task[w].at = "reread"
    /\ \/ Go(w, "done")
       \/ /\ RowIs(task[w].id)
          /\ task' = [task EXCEPT ![w].at = "reprogram", ![w].version = card.version]
    /\ UNCHANGED <<card, issued, link, handed, chip, tapped, history>>

NextVersionFixed(v) == 1
NextVersionToggled(v) == 3 - v
NextVersion(v) == v + 1

ReprogramCard(w) ==
    /\ task[w].at = "reprogram"
    /\ NextVersion(task[w].version) <= MaxVersion
    /\ IF RowIs(task[w].id)
       THEN /\ card' = [card EXCEPT !.version = NextVersion(task[w].version),
                                    !.counter = 0, !.status = "PENDING"]
            /\ MintOf(task[w].link)
            /\ marks' = marks \cup (IF card.status = "WIPED" THEN {"revived"} ELSE {})
                              \cup (IF card.version # task[w].version THEN {"overlap"} ELSE {})
            /\ Go(w, "activate")
       ELSE Go(w, "create") /\ UNCHANGED <<card, minted, marks>>
    /\ UNCHANGED <<issued, link, handed, chip, tapped, used>>

ActivatableAnyway(status) == status # "ACTIVE"
Activatable(status) == status \in {"PENDING", "DISABLED"}

ActivateRegistered(w) ==
    /\ task[w].at = "activate"
    /\ IF RowIs(task[w].id) /\ Activatable(card.status)
       THEN card' = [card EXCEPT !.status = "ACTIVE"] /\ Go(w, "mark")
       ELSE Go(w, "done") /\ UNCHANGED card
    /\ UNCHANGED <<issued, link, handed, chip, tapped, history>>

(* The link is marked with the card; a card that is gone cannot be named. *)
MarkLink(w) ==
    /\ task[w].at = "mark"
    /\ IF RowIs(task[w].id)
       THEN link' = [link EXCEPT ![task[w].link].card = task[w].id] /\ Go(w, "answer")
       ELSE Go(w, "done") /\ UNCHANGED link
    /\ UNCHANGED <<card, issued, handed, chip, tapped, history>>

(* The row is read once more, and its keys are the answer. *)
AnswerKeys(w) ==
    /\ task[w].at = "answer"
    /\ handed' = IF RowIs(task[w].id) THEN handed \cup {Programming(card)} ELSE handed
    /\ Go(w, "done")
    /\ UNCHANGED <<card, issued, link, chip, tapped, history>>

(* register.ts with the card's UID: no link, and no activation. *)
RegisterDirectly(w, o) ==
    /\ task[w].at = "idle"
    /\ task' = [task EXCEPT ![w] = [Idle EXCEPT !.at = "create", !.owner = o]]
    /\ UNCHANGED <<card, issued, link, handed, chip, tapped, history>>

-------------------------------------------------------------------------------
(* Taps.  A request reads the row its path names and verifies the tap with    *)
(* that row's keys and counter; what it grants later is one conditional       *)
(* statement.                                                               *)

Genuine(t) == card # None /\ Keys(card) = [owner |-> t.owner, version |-> t.version]

Begin(w, t, place) ==
    task' = [task EXCEPT ![w] = [Idle EXCEPT !.at = place, !.id = card.id, !.tap = t]]

(* handleWithdrawRequest *)
VerifyTap(w, t) ==
    /\ task[w].at = "idle"
    /\ Genuine(t) /\ card.status = "ACTIVE" /\ t.counter > card.counter
    /\ Begin(w, t, "open")
    /\ UNCHANGED <<card, issued, link, handed, chip, tapped, history>>

(* POST reset/[cardId] *)
VerifyReset(w, t) ==
    /\ task[w].at = "idle"
    /\ Genuine(t) /\ card.status # "WIPED" /\ t.counter > card.counter
    /\ Begin(w, t, "record")
    /\ UNCHANGED <<card, issued, link, handed, chip, tapped, history>>

NewerOrEqual(t) == card.counter <= t.counter
Newer(t) == card.counter < t.counter

Granted(w, t) ==
    used' = [used EXCEPT ![w] = [tap |-> t, row |-> task[w].id, current |-> Genuine(t)]]

StartWithdrawSession(w) ==
    /\ task[w].at = "open"
    /\ LET t == task[w].tap IN
         IF RowIs(task[w].id) /\ card.status = "ACTIVE" /\ Newer(t)
         THEN card' = [card EXCEPT !.counter = t.counter] /\ Granted(w, t)
         ELSE UNCHANGED <<card, used>>
    /\ Go(w, "done")
    /\ UNCHANGED <<issued, link, handed, chip, tapped, minted, marks>>

(* recordVerifiedResetTap, then the keys that were read are handed out. *)
RecordVerifiedResetTap(w) ==
    /\ task[w].at = "record"
    /\ LET t == task[w].tap IN
         IF RowIs(task[w].id) /\ card.status # "WIPED" /\ Newer(t)
         THEN /\ card' = [card EXCEPT !.counter = t.counter, !.verified = TRUE]
              /\ Granted(w, t)
         ELSE UNCHANGED <<card, used>>
    /\ Go(w, "done")
    /\ UNCHANGED <<issued, link, handed, chip, tapped, minted, marks>>

-------------------------------------------------------------------------------
(* The owner, the programmer app's confirmation, clocks, crashes. *)

SetStatus(from, to) ==
    /\ card # None /\ card.status \in from
    /\ card' = [card EXCEPT !.status = to]
    /\ UNCHANGED <<issued, link, task, handed, chip, tapped, history>>

(* Also the first credit of a top-up activates a card (lnurlp.ts). *)
ActivateCard == card # None /\ Activatable(card.status) /\ SetStatus(Statuses, "ACTIVE")
DisableCard == SetStatus({"ACTIVE"}, "DISABLED")
EnableCard == SetStatus({"DISABLED"}, "ACTIVE")
WipeCard == SetStatus(Statuses \ {"WIPED"}, "WIPED")

(* POST reset/[cardId]/confirm *)
WipeCardAfterVerifiedReset ==
    /\ card # None /\ card.status # "WIPED" /\ card.verified
    /\ card' = [card EXCEPT !.status = "WIPED", !.verified = FALSE]
    /\ UNCHANGED <<issued, link, task, handed, chip, tapped, history>>

(* RESET_CONFIRM_WINDOW_MS *)
VerificationExpires ==
    /\ card # None /\ card.verified
    /\ card' = [card EXCEPT !.verified = FALSE]
    /\ UNCHANGED <<issued, link, task, handed, chip, tapped, history>>

CancellableAnyway(l) == link[l].status # "ENDED"
Cancellable(l) == link[l].status = "PENDING"

EndLink(l) ==
    /\ Cancellable(l)
    /\ link' = [link EXCEPT ![l].status = "ENDED"]
    /\ UNCHANGED <<card, issued, task, handed, chip, tapped, history>>

Stop(w) ==
    /\ task[w].at \notin {"idle", "done"}
    /\ Go(w, "done")
    /\ UNCHANGED <<card, issued, link, handed, chip, tapped, history>>

-------------------------------------------------------------------------------
(* The chip.  The app programs a chip with factory keys, and whoever has its  *)
(* keys gives it those back; enabling its URL again restarts its counter.     *)

ProgramChip ==
    /\ chip = None
    /\ \E p \in handed : chip' = [holds |-> p, counter |-> 0]
    /\ UNCHANGED <<card, issued, link, task, handed, tapped, history>>

EraseChip ==
    /\ chip # None
    /\ chip' = None
    /\ UNCHANGED <<card, issued, link, task, handed, tapped, history>>

TapChip ==
    /\ chip # None /\ chip.counter < MaxCounter
    /\ chip' = [chip EXCEPT !.counter = @ + 1]
    /\ tapped' = tapped \cup {[owner |-> chip.holds.owner, version |-> chip.holds.version,
                               counter |-> chip.counter + 1]}
    /\ UNCHANGED <<card, issued, link, task, handed, history>>

Next ==
    \/ \E w \in Tasks :
         \/ \E l \in Links : ClaimLink(w, l)
         \/ \E o \in Owners : RegisterDirectly(w, o)
         \/ \E t \in tapped : VerifyTap(w, t) \/ VerifyReset(w, t)
         \/ LookUpCard(w) \/ ReleaseLink(w) \/ DeleteWipedCard(w) \/ CreateCard(w)
         \/ RereadCard(w) \/ ReprogramCard(w) \/ ActivateRegistered(w) \/ MarkLink(w)
         \/ AnswerKeys(w) \/ StartWithdrawSession(w) \/ RecordVerifiedResetTap(w) \/ Stop(w)
    \/ ActivateCard \/ DisableCard \/ EnableCard \/ WipeCard
    \/ WipeCardAfterVerifiedReset \/ VerificationExpires
    \/ \E l \in Links : EndLink(l)
    \/ ProgramChip \/ EraseChip \/ TapChip

Spec == Init /\ [][Next]_vars

-------------------------------------------------------------------------------
(* "two concurrent requests can never both mint a card (and keys) from it"    *)
(* (store.ts:643): a link creates or re-programs at most one card, also after   *)
(* it was released, and one that was cancelled or expired none.              *)
LinkMintsOnce ==
    \A l \in Links : minted[l] <= 1 /\ (minted[l] = 1 => link[l].status = "COMPLETED")

(* A row grants one tap one thing, a session or the keys for a reset, although *)
(* re-programming sets the counter back to 0: the old taps fail under the new  *)
(* keys.  Excepted is a tap that was verified before the card was re-programmed *)
(* and is granted after, and two re-programmings of one version.  Nothing is   *)
(* said of two rows: a row that was deleted and its owner's next one have the   *)
(* same keys, so one tap can count at both.                                  *)
TapUsedOnce ==
    \A w, v \in Tasks :
        /\ w # v /\ used[w] # None /\ used[v] # None
        /\ used[w].tap = used[v].tap /\ used[w].row = used[v].row
        => "overlap" \in marks \/ ~used[w].current \/ ~used[v].current

(* A row never falls behind the chip that was programmed for it: the keys the   *)
(* chip holds are the row's or older ones, unless re-programmings overlapped.  *)
KeysStayKnown ==
    chip # None /\ RowIs(chip.holds.url) /\ "overlap" \notin marks
        => chip.holds.version <= card.version

(* WIPED is a "permanent delete marker" (store.ts:1608): only a re-programming  *)
(* that read the row before it was wiped takes it back.                       *)
WipedIsFinal ==
    [][card # None /\ card.status = "WIPED" /\ card' # None /\ card'.id = card.id
         => \/ card'.status = "WIPED"
            \/ \E w \in Tasks : task[w].at = "reprogram" /\ task'[w].at = "activate"]_vars

(* A row goes away only while it is WIPED, whoever asked for the deletion      *)
(* whatever happened since, unless such a re-programming revived it.          *)
NoLiveCardDeleted ==
    [][card # None /\ (card' = None \/ card'.id # card.id)
         => card.status = "WIPED" \/ "revived" \in marks]_vars

(* "If card is WIPED, delete it completely to allow fresh registration"        *)
(* (store.ts:691): a registration that decided so can delete the row.          *)
WipedMakesRoom ==
    \A w \in Tasks : task[w].at = "delete" => ~(RowIs(task[w].id) /\ Referenced(task[w].id))
===============================================================================
