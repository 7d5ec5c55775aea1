-------------------------- MODULE Nip46SessionsProofs --------------------------
(***************************************************************************)
(* Theorems of Nip46Sessions, for every number of sessions, clients and     *)
(* consuming requests and every pair of caps.  The invariant says what can  *)
(* still become of a session: nothing exists of it before it is stored,     *)
(* only its worker can approve it, and after a sign-in or a reported        *)
(* failure no copy of its record is approved or can become so.              *)
(***************************************************************************)
EXTENDS Nip46Sessions, FiniteSetTheorems, TLAPS

USE Nip46Assumption

Records == [mem : Statuses \cup {"none"}, red : Statuses \cup {"none"}]

Spent(x) == minted[x] # 0 \/ x \in told

SessionFits(x) ==
    /\ create[x] # "ended" =>
          /\ record[x] = NoRecord /\ worker[x] = "none"
          /\ x \notin live /\ x \notin signed /\ x \notin told /\ minted[x] = 0
    /\ worker[x] = "approving" => x \in signed
    /\ "approved" \in {record[x].mem, record[x].red} => x \in signed
    /\ InMemory(x) => record[x].red \in {"none", "pending"}
    /\ Spent(x) =>
          /\ "approved" \notin {record[x].mem, record[x].red}
          /\ \/ x \in expired \/ Status(x) # "pending"
             \/ worker[x] \notin {"waiting", "approving"}

SessionsInv == \A x \in Sessions : SessionFits(x)

IInv == TypeOK /\ SessionsInv

-------------------------------------------------------------------------------
(* What a step does to the record of x: the visible copy gets the status to. *)

Put(x, to) ==
    record'[x] = IF InMemory(x) THEN [record[x] EXCEPT !.mem = to]
                 ELSE [record[x] EXCEPT !.red = to]

LEMMA PutFields ==
  ASSUME TypeOK, NEW x \in Sessions, NEW to \in Statuses, Put(x, to)
  PROVE  /\ Status(x)' = to
         /\ InMemory(x)' <=> InMemory(x)
         /\ InMemory(x) => record'[x].mem = to /\ record'[x].red = record[x].red
         /\ ~InMemory(x) => record'[x].mem = "none" /\ record'[x].red = to
<1>1. record[x] \in Records
  BY DEF TypeOK, Records
<1>2. CASE InMemory(x)
  <2>1. record'[x].mem = to /\ record'[x].red = record[x].red
    BY <1>1, <1>2 DEF Put, Records
  <2>. QED
    BY <1>2, <2>1 DEF InMemory, Status, Statuses
<1>3. CASE ~InMemory(x)
  <2>1. record'[x].mem = record[x].mem /\ record'[x].red = to
    BY <1>1, <1>3 DEF Put, Records
  <2>. QED
    BY <1>3, <2>1 DEF InMemory, Status
<1>. QED
  BY <1>2, <1>3

(* At most the record of s changes, to status to. *)
OnlyPuts(s, to) ==
    /\ record' \in [Sessions -> Records]
    /\ \A x \in Sessions \ {s} : record'[x] = record[x]
    /\ s \in Sessions => record'[s] = record[s] \/ (Status(s) # "none" /\ Put(s, to))

LEMMA MovePuts ==
  ASSUME TypeOK, NEW s \in Sessions, NEW to \in Statuses, Move(s, to), Status(s) # "none"
  PROVE  OnlyPuts(s, to) /\ Put(s, to)
<1>1. record \in [Sessions -> Records]
  BY DEF TypeOK, Records
<1>2. /\ [record[s] EXCEPT !.mem = to] \in Records
      /\ [record[s] EXCEPT !.red = to] \in Records
  BY <1>1 DEF Records
<1>3. record' = [record EXCEPT ![s] = IF InMemory(s) THEN [record[s] EXCEPT !.mem = to]
                                      ELSE [record[s] EXCEPT !.red = to]]
  BY DEF Move
<1>. QED
  BY <1>1, <1>2, <1>3 DEF OnlyPuts, Put

LEMMA UnchangedPuts ==
  ASSUME TypeOK, NEW s, NEW to, UNCHANGED record
  PROVE  OnlyPuts(s, to)
BY DEF TypeOK, OnlyPuts, Records

LEMMA MarkFailedPuts ==
  ASSUME TypeOK, NEW s \in Sessions, MarkFailed(s)
  PROVE  OnlyPuts(s, "failed")
<1>1. CASE UNCHANGED record
  BY <1>1, UnchangedPuts
<1>2. CASE Transition(s, Failable, "failed")
  BY <1>2, MovePuts DEF Transition, Found, Statuses
<1>. QED
  BY <1>1, <1>2 DEF MarkFailed, Refused, NotExecuted

-------------------------------------------------------------------------------
(* A session keeps fitting when its record is failed or consumed, its       *)
(* worker gives up, its sockets close, its time passes, or a failure that   *)
(* is recorded is reported.                                                 *)

Settles(x) ==
    \/ record'[x] = record[x]
    \/ Status(x) # "none" /\ \E to \in {"failed", "consumed"} : Put(x, to)

Calm(x) ==
    /\ create'[x] = create[x]
    /\ x \in expired => x \in expired'
    /\ x \in signed' <=> x \in signed
    /\ x \in told' => x \in told \/ Status(x)' = "failed"
    /\ minted'[x] = minted[x]
    /\ x \in live' => x \in live
    /\ \/ worker'[x] = worker[x]
       \/ worker[x] # "none" /\ worker'[x] \in {"none", "failing"}

LEMMA StaysFit ==
  ASSUME TypeOK, NEW x \in Sessions, SessionFits(x), Calm(x), Settles(x)
  PROVE  SessionFits(x)'
<1>1. CASE record'[x] = record[x]
  BY <1>1 DEF SessionFits, Calm, Spent, InMemory, Status, NoRecord
<1>2. CASE Status(x) # "none" /\ \E to \in {"failed", "consumed"} : Put(x, to)
  <2>1. PICK to \in {"failed", "consumed"} : Put(x, to)
    BY <1>2
  <2>2. /\ Status(x)' = to
        /\ InMemory(x)' <=> InMemory(x)
        /\ InMemory(x) => record'[x].mem = to /\ record'[x].red = record[x].red
        /\ ~InMemory(x) => record'[x].mem = "none" /\ record'[x].red = to
    BY <2>1, PutFields DEF Statuses
  <2>3. create[x] = "ended"
    BY <1>2 DEF SessionFits, NoRecord, Status, InMemory
  <2>4. "approved" \notin {record'[x].mem, record'[x].red}
    BY <2>1, <2>2 DEF SessionFits
  <2>5. InMemory(x)' => record'[x].red \in {"none", "pending"}
    BY <2>2 DEF SessionFits
  <2>6. Status(x)' # "pending"
    BY <2>1, <2>2
  <2>7. worker'[x] = "approving" => x \in signed'
    BY DEF SessionFits, Calm
  <2>8. create'[x] = "ended"
    BY <2>3 DEF Calm
  <2>. QED
    BY <2>4, <2>5, <2>6, <2>7, <2>8 DEF SessionFits
<1>. QED
  BY <1>1, <1>2 DEF Settles

(* The session is approved by its worker. *)
LEMMA ApprovedFits ==
  ASSUME TypeOK, NEW x \in Sessions, SessionFits(x), Calm(x), Put(x, "approved"),
         Found(x), Status(x) = "pending", worker[x] = "approving"
  PROVE  SessionFits(x)'
<1>1. /\ Status(x)' = "approved"
      /\ InMemory(x)' <=> InMemory(x)
      /\ InMemory(x) => record'[x].mem = "approved" /\ record'[x].red = record[x].red
      /\ ~InMemory(x) => record'[x].mem = "none" /\ record'[x].red = "approved"
  BY PutFields DEF Statuses
<1>2. create[x] = "ended" /\ x \in signed /\ ~Spent(x)
  BY DEF SessionFits, Found
<1>. QED
  BY <1>1, <1>2 DEF SessionFits, Calm, Spent

-------------------------------------------------------------------------------
(* Creating. *)

LEMMA CancelPuts ==
  ASSUME TypeOK, NEW p \in Sessions \cup {None}, CancelByBindingHash(p)
  PROVE  OnlyPuts(p, "failed") /\ live' = live \ {p} /\ sent' \subseteq Sessions
<1>1. live' = live \ {p}
  BY DEF CancelByBindingHash, Teardown
<1>2. CASE p \notin live
  BY <1>1, <1>2, UnchangedPuts DEF CancelByBindingHash, TypeOK
<1>3. CASE p \in live
  <2>1. p \in Sessions
    BY <1>3 DEF TypeOK
  <2>2. sent' \subseteq Sessions
    BY <1>3, <2>1 DEF CancelByBindingHash, TypeOK
  <2>3. OnlyPuts(p, "failed")
    BY <1>3, <2>1, MarkFailedPuts, UnchangedPuts DEF CancelByBindingHash
  <2>. QED
    BY <1>1, <2>2, <2>3
<1>. QED
  BY <1>2, <1>3

LEMMA ReserveFits ==
  ASSUME IInv, NEW s \in Sessions, NEW p \in Sessions \cup {None}, Reserve(s, p)
  PROVE  IInv'
<1>1. TypeOK /\ SessionsInv
  BY DEF IInv
<1>2. /\ OnlyPuts(p, "failed") /\ live' = live \ {p} /\ sent' \subseteq Sessions
      /\ create[s] = "none" /\ p # s
      /\ UNCHANGED <<expired, worker, consume, history>>
  BY <1>1, CancelPuts DEF Reserve
<1>3. \E step \in {"opening", "ended"} :
         /\ create' = [create EXCEPT ![s] = step]
         /\ holding' = IF step = "opening" THEN holding \cup {s} ELSE holding
  BY DEF Reserve
<1>4. s \notin live /\ worker[s] = "none" /\ record[s] = NoRecord
      /\ s \notin signed /\ s \notin told /\ minted[s] = 0
  BY <1>1, <1>2 DEF SessionsInv, SessionFits
<1>5. TypeOK'
  <2>1. create' \in [Sessions -> {"none", "opening", "storing", "ended"}]
    BY <1>1, <1>3 DEF TypeOK
  <2>2. holding' = {x \in Sessions : create'[x] \in {"opening", "storing"}}
    <3>1. holding = {x \in Sessions : create[x] \in {"opening", "storing"}}
      BY <1>1 DEF TypeOK
    <3>2. create \in [Sessions -> {"none", "opening", "storing", "ended"}]
      BY <1>1 DEF TypeOK
    <3>. QED
      BY <1>2, <1>3, <3>1, <3>2
  <2>3. live' \subseteq Sessions \ holding'
    BY <1>1, <1>2, <1>3, <1>4 DEF TypeOK
  <2>4. record' \in [Sessions -> Records]
    BY <1>2 DEF OnlyPuts
  <2>. QED
    BY <1>1, <1>2, <2>1, <2>2, <2>3, <2>4 DEF TypeOK, history, Records
<1>6. ASSUME NEW x \in Sessions
      PROVE  SessionFits(x)'
  <2>1. SessionFits(x)
    BY <1>1 DEF SessionsInv
  <2>2. CASE x = s
    <3>1. record'[s] = record[s]
      BY <1>2 DEF OnlyPuts
    <3>2. s \notin live' /\ create'[s] \in {"opening", "ended"}
      BY <1>1, <1>2, <1>3, <1>4 DEF TypeOK
    <3>. QED
      BY <1>2, <1>4, <2>2, <3>1, <3>2 DEF SessionFits, history, Spent, NoRecord, InMemory
  <2>3. CASE x # s
    <3>1. Settles(x)
      BY <1>2, <2>3 DEF OnlyPuts, Settles
    <3>2. Calm(x)
      BY <1>1, <1>2, <1>3, <2>3 DEF Calm, history, TypeOK
    <3>. QED
      BY <1>1, <2>1, <3>1, <3>2, StaysFit
  <2>. QED
    BY <2>2, <2>3
<1>. QED
  BY <1>5, <1>6 DEF IInv, SessionsInv

(* The other sessions when s alone moves. *)
Aside(s) == \A x \in Sessions \ {s} :
    /\ create'[x] = create[x] /\ record'[x] = record[x] /\ worker'[x] = worker[x]
    /\ x \in expired' <=> x \in expired
    /\ x \in live' <=> x \in live
    /\ x \in signed' <=> x \in signed
    /\ x \in told' <=> x \in told
    /\ minted'[x] = minted[x]

LEMMA OneFits ==
  ASSUME SessionsInv, NEW s \in Sessions, Aside(s), SessionFits(s)'
  PROVE  SessionsInv'
<1>. SUFFICES ASSUME NEW x \in Sessions, x # s
              PROVE  SessionFits(x)'
  BY DEF SessionsInv
<1>1. SessionFits(x)
  BY DEF SessionsInv
<1>. QED
  BY <1>1 DEF Aside, SessionFits, Spent, InMemory, Status

LEMMA CreateFits ==
  ASSUME IInv, NEW s \in Sessions, OpenRelays(s) \/ RelaysUnavailable(s) \/ StoreSession(s)
  PROVE  IInv'
<1>1. TypeOK /\ SessionsInv /\ SessionFits(s)
  BY DEF IInv, SessionsInv
<1>2. CASE OpenRelays(s)
  <2>1. create' = [create EXCEPT ![s] = "storing"] /\ create[s] = "opening"
    BY <1>2 DEF OpenRelays
  <2>2. UNCHANGED <<holding, record, expired, live, worker, sent, consume, history>>
    BY <1>2 DEF OpenRelays
  <2>3. holding' = {x \in Sessions : create'[x] \in {"opening", "storing"}}
    BY <1>1, <2>1, <2>2 DEF TypeOK
  <2>4. TypeOK'
    BY <1>1, <2>1, <2>2, <2>3 DEF TypeOK, history
  <2>5. Aside(s)
    BY <1>1, <2>1, <2>2 DEF Aside, history, TypeOK
  <2>6. SessionFits(s)'
    BY <1>1, <2>1, <2>2 DEF SessionFits, history, Spent, InMemory, NoRecord
  <2>. QED
    BY <1>1, <2>4, <2>5, <2>6, OneFits DEF IInv
<1>3. CASE RelaysUnavailable(s)
  <2>1. create' = [create EXCEPT ![s] = "ended"] /\ create[s] = "opening" /\ holding' = holding \ {s}
    BY <1>3 DEF RelaysUnavailable
  <2>2. UNCHANGED <<record, expired, live, worker, sent, consume, history>>
    BY <1>3 DEF RelaysUnavailable
  <2>3. holding' = {x \in Sessions : create'[x] \in {"opening", "storing"}}
    BY <1>1, <2>1 DEF TypeOK
  <2>4. TypeOK'
    BY <1>1, <2>1, <2>2, <2>3 DEF TypeOK, history
  <2>5. Aside(s)
    BY <1>1, <2>1, <2>2 DEF Aside, history, TypeOK
  <2>6. SessionFits(s)'
    BY <1>1, <2>1, <2>2 DEF SessionFits, history, Spent, InMemory, NoRecord
  <2>. QED
    BY <1>1, <2>4, <2>5, <2>6, OneFits DEF IInv
<1>4. CASE StoreSession(s)
  <2>1. /\ create' = [create EXCEPT ![s] = "ended"] /\ create[s] = "storing"
        /\ holding' = holding \ {s} /\ live' = live \cup {s}
        /\ worker' = [worker EXCEPT ![s] = "waiting"]
        /\ UNCHANGED <<expired, sent, consume, history>>
    BY <1>4 DEF StoreSession
  <2>2. PICK new \in {[mem |-> "none", red |-> "pending"], [mem |-> "pending", red |-> "none"],
                      [mem |-> "pending", red |-> "pending"]} :
           record' = [record EXCEPT ![s] = new]
    BY <1>4 DEF StoreSession
  <2>3. new \in Records /\ new.mem \in {"none", "pending"} /\ new.red \in {"none", "pending"}
    BY DEF Records, Statuses
  <2>4. holding' = {x \in Sessions : create'[x] \in {"opening", "storing"}}
    BY <1>1, <2>1 DEF TypeOK
  <2>5. record' \in [Sessions -> Records] /\ record'[s] = new
    BY <1>1, <2>2, <2>3 DEF TypeOK, Records
  <2>6. live' \subseteq Sessions \ holding' /\ \A x \in live' : worker'[x] # "none"
    BY <1>1, <2>1 DEF TypeOK
  <2>7. TypeOK'
    BY <1>1, <2>1, <2>4, <2>5, <2>6 DEF TypeOK, history, Records
  <2>8. Aside(s)
    BY <1>1, <2>1, <2>2 DEF Aside, history, TypeOK
  <2>9. SessionFits(s)'
    <3>1. create'[s] = "ended" /\ worker'[s] = "waiting"
      BY <1>1, <2>1 DEF TypeOK
    <3>2. ~Spent(s)'
      BY <1>1, <2>1 DEF SessionFits, Spent, history
    <3>. QED
      BY <2>3, <2>5, <3>1, <3>2 DEF SessionFits
  <2>. QED
    BY <1>1, <2>7, <2>8, <2>9, OneFits DEF IInv
<1>. QED
  BY <1>2, <1>3, <1>4

-------------------------------------------------------------------------------
(* The worker. *)

LEMMA WaitFits ==
  ASSUME IInv, NEW s \in Sessions, SignerApproves(s) \/ SignerFails(s) \/ Aborted(s)
  PROVE  IInv'
<1>1. TypeOK /\ SessionsInv /\ SessionFits(s)
  BY DEF IInv, SessionsInv
<1>2. PICK step \in {"approving", "failing", "none"} :
         /\ worker' = [worker EXCEPT ![s] = step]
         /\ step = "none" => s \notin live
         /\ signed' = IF step = "approving" THEN signed \cup {s} ELSE signed
  BY DEF SignerApproves, SignerFails, Aborted, history
<1>3. worker[s] = "waiting" /\ UNCHANGED <<creating, record, expired, live, sent, consume, told, minted>>
  BY DEF SignerApproves, SignerFails, Aborted, history
<1>4. TypeOK'
  BY <1>1, <1>2, <1>3 DEF TypeOK, creating
<1>5. Aside(s)
  BY <1>1, <1>2, <1>3 DEF Aside, TypeOK, creating
<1>6. SessionFits(s)'
  <2>1. worker'[s] = step /\ create[s] = "ended"
    BY <1>1, <1>2, <1>3 DEF TypeOK, SessionFits
  <2>2. s \in signed => s \in signed'
    BY <1>2
  <2>. QED
    BY <1>1, <1>2, <1>3, <2>1, <2>2 DEF SessionFits, Spent, InMemory, Status, creating
<1>. QED
  BY <1>1, <1>4, <1>5, <1>6, OneFits DEF IInv

(* The steps that may write the record of s, close its sockets and end its  *)
(* worker.                                                                  *)
Recording(s) ==
    /\ UNCHANGED <<creating, expired, consume, history>>
    /\ sent' \subseteq sent
    /\ live' = live \/ live' = live \ {s}
    /\ \/ UNCHANGED worker
       \/ /\ worker[s] # "none"
          /\ \E step \in {"none", "failing"} :
                /\ worker' = [worker EXCEPT ![s] = step]
                /\ step = "none" => s \notin live'

LEMMA RecordingFits ==
  ASSUME IInv, NEW s \in Sessions, Recording(s),
         \/ OnlyPuts(s, "failed")
         \/ OnlyPuts(s, "consumed")
         \/ /\ OnlyPuts(s, "approved") /\ Put(s, "approved")
            /\ Found(s) /\ Status(s) = "pending" /\ worker[s] = "approving"
  PROVE  IInv'
<1>1. TypeOK /\ SessionsInv /\ SessionFits(s)
  BY DEF IInv, SessionsInv
<1>2. TypeOK'
  <2>1. record' \in [Sessions -> Records]
    BY DEF OnlyPuts
  <2>2. worker' \in [Sessions -> {"none", "waiting", "approving", "failing"}]
    BY <1>1 DEF TypeOK, Recording
  <2>3. \A x \in live' : worker'[x] # "none"
    BY <1>1 DEF TypeOK, Recording
  <2>. QED
    BY <1>1, <2>1, <2>2, <2>3 DEF TypeOK, Recording, Records, creating, history
<1>3. ASSUME NEW x \in Sessions
      PROVE  SessionFits(x)'
  <2>1. SessionFits(x)
    BY <1>1 DEF SessionsInv
  <2>2. Calm(x)
    BY <1>1 DEF Calm, Recording, TypeOK, creating, history
  <2>3. CASE Settles(x)
    BY <1>1, <2>1, <2>2, <2>3, StaysFit
  <2>4. CASE ~Settles(x)
    <3>1. x = s /\ ~OnlyPuts(s, "failed") /\ ~OnlyPuts(s, "consumed")
      BY <2>4 DEF Settles, OnlyPuts
    <3>. QED
      BY <1>1, <2>1, <2>2, <3>1, ApprovedFits
  <2>. QED
    BY <2>3, <2>4
<1>. QED
  BY <1>2, <1>3 DEF IInv, SessionsInv

LEMMA WorkerFits ==
  ASSUME IInv, NEW s \in Sessions,
         MarkApproved(s) \/ ApprovalUnknown(s) \/ Fail(s) \/ LateMarkFailed(s)
  PROVE  IInv'
<1>1. TypeOK
  BY DEF IInv
<1>2. CASE MarkApproved(s)
  <2>1. Recording(s)
    BY <1>2 DEF MarkApproved, Recording, Teardown
  <2>2. CASE Transition(s, Approvable, "approved")
    <3>1. OnlyPuts(s, "approved") /\ Put(s, "approved") /\ Found(s) /\ Status(s) = "pending"
      BY <1>1, <2>2, MovePuts DEF Transition, Found, Approvable, Statuses
    <3>. QED
      BY <1>2, <2>1, <3>1, RecordingFits DEF MarkApproved
  <2>3. CASE Refused(s, Approvable)
    BY <1>1, <2>1, <2>3, UnchangedPuts, RecordingFits DEF Refused
  <2>. QED
    BY <1>2, <2>2, <2>3 DEF MarkApproved
<1>3. CASE ApprovalUnknown(s)
  <2>1. Recording(s)
    BY <1>3 DEF ApprovalUnknown, Recording
  <2>2. CASE Transition(s, Approvable, "approved")
    <3>1. OnlyPuts(s, "approved") /\ Put(s, "approved") /\ Found(s) /\ Status(s) = "pending"
      BY <1>1, <2>2, MovePuts DEF Transition, Found, Approvable, Statuses
    <3>. QED
      BY <1>3, <2>1, <3>1, RecordingFits DEF ApprovalUnknown
  <2>3. CASE UNCHANGED record
    BY <1>1, <2>1, <2>3, UnchangedPuts, RecordingFits
  <2>. QED
    BY <1>3, <2>2, <2>3 DEF ApprovalUnknown
<1>4. CASE Fail(s)
  <2>1. Recording(s)
    BY <1>4 DEF Fail, Recording, Teardown
  <2>. QED
    BY <1>1, <1>4, <2>1, MarkFailedPuts, RecordingFits DEF Fail
<1>5. CASE LateMarkFailed(s)
  <2>1. Recording(s)
    BY <1>5 DEF LateMarkFailed, Recording
  <2>. QED
    BY <1>1, <1>5, <2>1, MarkFailedPuts, RecordingFits DEF LateMarkFailed
<1>. QED
  BY <1>2, <1>3, <1>4, <1>5

-------------------------------------------------------------------------------
(* The browser. *)

LEMMA ReportFits ==
  ASSUME IInv, NEW s \in Sessions, Poll(s) \/ Cancel(s)
  PROVE  IInv'
<1>1. TypeOK /\ SessionsInv
  BY DEF IInv
<1>2. OnlyPuts(s, "failed")
  BY <1>1, MarkFailedPuts, UnchangedPuts DEF Poll, Cancel
<1>3. /\ UNCHANGED <<creating, expired, worker, sent, consume, signed, minted>>
      /\ live' \subseteq live
      /\ told' = told \/ (told' = told \cup {s} /\ Status(s)' = "failed")
  BY DEF Poll, Cancel, Report, Teardown
<1>4. TypeOK'
  <2>1. record' \in [Sessions -> Records]
    BY <1>2 DEF OnlyPuts
  <2>. QED
    BY <1>1, <1>3, <2>1 DEF TypeOK, creating, Records
<1>5. ASSUME NEW x \in Sessions
      PROVE  SessionFits(x)'
  <2>1. SessionFits(x) /\ Settles(x)
    BY <1>1, <1>2 DEF SessionsInv, OnlyPuts, Settles
  <2>2. x \in told' => x \in told \/ Status(x)' = "failed"
    BY <1>3
  <2>3. Calm(x)
    BY <1>3, <2>2 DEF Calm, creating
  <2>. QED
    BY <1>1, <2>1, <2>3, StaysFit
<1>. QED
  BY <1>4, <1>5 DEF IInv, SessionsInv

(* A request that has read a session holds its id. *)
ReadInv == \A c \in Consumers : consume[c].at = "read" => consume[c].session \in Sessions

Consumes == [at : {"idle", "read", "done"}, session : Sessions \cup {None}, approved : BOOLEAN]

LEMMA DoneTyped ==
  ASSUME TypeOK, NEW c \in Consumers, Done(c)
  PROVE  /\ consume' \in [Consumers -> Consumes]
         /\ consume'[c].at = "done"
         /\ \A d \in Consumers \ {c} : consume'[d] = consume[d]
<1>1. consume \in [Consumers -> Consumes]
  BY DEF TypeOK, Consumes
<1>2. NoConsume \in Consumes
  BY DEF NoConsume, Consumes
<1>3. [NoConsume EXCEPT !.at = "done"] \in Consumes /\ [NoConsume EXCEPT !.at = "done"].at = "done"
  BY <1>2 DEF Consumes
<1>. QED
  BY <1>1, <1>2, <1>3 DEF Done

LEMMA ConsumeFits ==
  ASSUME IInv, ReadInv, NEW c \in Consumers, Consume(c)
  PROVE  IInv'
<1>0. PICK s \in Sessions : s = consume[c].session
  BY DEF ReadInv, Consume
<1>1. TypeOK /\ SessionsInv
  BY DEF IInv
<1>2. SessionFits(s)
  BY <1>1 DEF SessionsInv
<1>3. /\ Found(s) /\ Status(s) = "approved" /\ Move(s, "consumed") /\ live' = live \ {s}
      /\ minted' = [minted EXCEPT ![s] = @ + 1]
      /\ UNCHANGED <<creating, expired, worker, sent, signed, told>>
  BY <1>0 DEF Consume, Consumable, Teardown
<1>4. OnlyPuts(s, "consumed") /\ Put(s, "consumed")
  BY <1>1, <1>3, MovePuts DEF Statuses
<1>5. TypeOK'
  <2>1. record' \in [Sessions -> Records]
    BY <1>4 DEF OnlyPuts
  <2>2. minted' \in [Sessions -> Nat]
    BY <1>1, <1>3 DEF TypeOK
  <2>3. consume' \in [Consumers -> Consumes]
    BY <1>1, DoneTyped DEF Consume
  <2>. QED
    BY <1>1, <1>3, <2>1, <2>2, <2>3 DEF TypeOK, creating, Records, Consumes
<1>6. Aside(s)
  BY <1>1, <1>3, <1>4 DEF Aside, OnlyPuts, creating, TypeOK
<1>7. SessionFits(s)'
  <2>1. /\ Status(s)' = "consumed"
        /\ InMemory(s)' <=> InMemory(s)
        /\ InMemory(s) => record'[s].mem = "consumed" /\ record'[s].red = record[s].red
        /\ ~InMemory(s) => record'[s].mem = "none" /\ record'[s].red = "consumed"
    BY <1>1, <1>4, PutFields DEF Statuses
  <2>2. create[s] = "ended"
    BY <1>2, <1>3 DEF SessionFits, NoRecord, Status, InMemory
  <2>3. create'[s] = "ended" /\ (worker'[s] = "approving" => s \in signed')
    BY <1>2, <1>3, <2>2 DEF SessionFits, creating
  <2>4. "approved" \notin {record'[s].mem, record'[s].red}
        /\ (InMemory(s)' => record'[s].red \in {"none", "pending"})
    BY <1>2, <2>1 DEF SessionFits
  <2>. QED
    BY <2>1, <2>3, <2>4 DEF SessionFits
<1>. QED
  BY <1>1, <1>5, <1>6, <1>7, OneFits DEF IInv

LEMMA RequestFits ==
  ASSUME IInv, ReadInv, NEW c \in Consumers,
         ConsumeFails(c) \/ \E s \in Sessions : ReadSession(c, s)
  PROVE  IInv'
<1>1. TypeOK /\ SessionsInv
  BY DEF IInv
<1>2. UNCHANGED <<creating, expired, live, worker, sent, history>>
  BY DEF ConsumeFails, ReadSession
<1>3. consume' \in [Consumers -> Consumes]
  <2>1. CASE ConsumeFails(c)
    BY <1>1, <2>1, DoneTyped DEF ConsumeFails
  <2>2. ASSUME NEW s \in Sessions, ReadSession(c, s)
        PROVE  consume' \in [Consumers -> Consumes]
    BY <1>1, <2>2 DEF TypeOK, ReadSession, Consumes
  <2>. QED
    BY <2>1, <2>2
<1>4. \E s \in Sessions \cup {None} : OnlyPuts(s, "consumed")
  <2>1. CASE UNCHANGED record
    BY <1>1, <2>1, UnchangedPuts
  <2>2. CASE ConsumeFails(c) /\ ~UNCHANGED record
    <3>1. /\ consume[c].session \in Sessions
          /\ Consumable(c) /\ Move(consume[c].session, "consumed")
      BY <2>2 DEF ConsumeFails, NotExecuted, ReadInv
    <3>. QED
      BY <1>1, <3>1, MovePuts DEF Consumable, Statuses
  <2>. QED
    BY <2>1, <2>2 DEF ReadSession
<1>5. TypeOK'
  <2>1. record' \in [Sessions -> Records]
    BY <1>4 DEF OnlyPuts
  <2>. QED
    BY <1>1, <1>2, <1>3, <2>1 DEF TypeOK, creating, history, Records, Consumes
<1>6. ASSUME NEW x \in Sessions
      PROVE  SessionFits(x)'
  <2>1. SessionFits(x)
    BY <1>1 DEF SessionsInv
  <2>2. Settles(x)
    BY <1>4 DEF OnlyPuts, Settles
  <2>3. Calm(x)
    BY <1>2 DEF Calm, creating, history
  <2>. QED
    BY <1>1, <2>1, <2>2, <2>3, StaysFit
<1>. QED
  BY <1>5, <1>6 DEF IInv, SessionsInv

-------------------------------------------------------------------------------
(* Time and the process. *)

LEMMA TimeFits ==
  ASSUME IInv, NEW s \in Sessions, Expire(s) \/ Forget(s)
  PROVE  IInv'
<1>1. TypeOK /\ SessionsInv /\ SessionFits(s)
  BY DEF IInv, SessionsInv
<1>2. CASE Expire(s)
  <2>1. TypeOK'
    BY <1>1, <1>2 DEF TypeOK, Expire, creating, history
  <2>2. ASSUME NEW x \in Sessions
        PROVE  SessionFits(x)'
    BY <1>1, <1>2, <2>2, StaysFit DEF Expire, Calm, Settles, creating, history, SessionsInv
  <2>. QED
    BY <2>1, <2>2 DEF IInv, SessionsInv
<1>3. CASE Forget(s)
  <2>1. record \in [Sessions -> Records] /\ record[s] \in Records
    BY <1>1 DEF TypeOK, Records
  <2>2. s \in expired /\ UNCHANGED <<creating, expired, live, worker, sent, consume, history>>
    BY <1>3 DEF Forget
  <2>3. CASE InMemory(s)
    <3>1. record' = [record EXCEPT ![s] = [record[s] EXCEPT !.mem = "none"]]
      BY <1>3, <2>3 DEF Forget
    <3>2. /\ record' \in [Sessions -> Records]
          /\ record'[s].mem = "none" /\ record'[s].red = record[s].red
      BY <2>1, <3>1 DEF Records
    <3>3. TypeOK'
      BY <1>1, <2>2, <3>2 DEF TypeOK, creating, history, Records
    <3>4. Aside(s)
      BY <2>1, <2>2, <3>1 DEF Aside, creating, history
    <3>5. SessionFits(s)'
      BY <1>1, <2>2, <2>3, <3>2 DEF SessionFits, Spent, InMemory, NoRecord, creating, history
    <3>. QED
      BY <1>1, <3>3, <3>4, <3>5, OneFits DEF IInv
  <2>4. CASE ~InMemory(s)
    <3>1. record' = [record EXCEPT ![s] = [record[s] EXCEPT !.red = "none"]] /\ record[s].red # "none"
      BY <1>3, <2>4 DEF Forget
    <3>2. /\ record' \in [Sessions -> Records]
          /\ record'[s].mem = record[s].mem /\ record'[s].red = "none"
      BY <2>1, <3>1 DEF Records
    <3>3. TypeOK'
      BY <1>1, <2>2, <3>2 DEF TypeOK, creating, history, Records
    <3>4. Aside(s)
      BY <2>1, <2>2, <3>1 DEF Aside, creating, history
    <3>5. SessionFits(s)'
      BY <1>1, <2>2, <2>4, <3>1, <3>2
         DEF SessionFits, Spent, InMemory, NoRecord, creating, history
    <3>. QED
      BY <1>1, <3>3, <3>4, <3>5, OneFits DEF IInv
  <2>. QED
    BY <2>3, <2>4
<1>. QED
  BY <1>2, <1>3

LEMMA RestartFits ==
  ASSUME IInv, Restart
  PROVE  IInv'
<1>1. TypeOK /\ SessionsInv
  BY DEF IInv
<1>2. PICK failed \in SUBSET {s \in live : Marked(s)} :
         record' = [s \in Sessions |->
                       [mem |-> "none",
                        red |-> IF s \in failed /\ ~InMemory(s) THEN "failed" ELSE record[s].red]]
  BY DEF Restart
<1>3. /\ create' = [s \in Sessions |-> IF create[s] = "none" THEN "none" ELSE "ended"]
      /\ holding' = {} /\ live' = {} /\ sent' = {}
      /\ worker' = [s \in Sessions |-> "none"]
      /\ UNCHANGED <<expired, history>>
  BY DEF Restart
<1>4. record' \in [Sessions -> Records]
  <2>1. \A s \in Sessions : record[s].red \in Statuses \cup {"none"}
    BY <1>1 DEF TypeOK
  <2>. QED
    BY <1>2, <2>1 DEF Records, Statuses
<1>5. consume' \in [Consumers -> Consumes]
  <2>1. NoConsume \in Consumes
    BY DEF NoConsume, Consumes
  <2>2. [NoConsume EXCEPT !.at = "done"] \in Consumes
    BY <2>1 DEF Consumes
  <2>. QED
    BY <1>1, <2>2 DEF Restart, TypeOK, Consumes
<1>6. TypeOK'
  <2>1. create' \in [Sessions -> {"none", "opening", "storing", "ended"}]
    BY <1>3
  <2>2. holding' = {s \in Sessions : create'[s] \in {"opening", "storing"}}
    BY <1>3
  <2>. QED
    BY <1>1, <1>3, <1>4, <1>5, <2>1, <2>2 DEF TypeOK, history, Records, Consumes
<1>7. ASSUME NEW x \in Sessions
      PROVE  SessionFits(x)'
  <2>1. SessionFits(x)
    BY <1>1 DEF SessionsInv
  <2>2. /\ record'[x].mem = "none"
        /\ record'[x].red = record[x].red \/ (record'[x].red = "failed" /\ x \in live)
    BY <1>2
  <2>3. record'[x] \in Records
    BY <1>4
  <2>4. create'[x] # "ended" => create[x] # "ended" /\ record'[x].red = "none"
    BY <1>3, <2>1, <2>2 DEF SessionFits, NoRecord
  <2>5. create'[x] # "ended" => record'[x] = NoRecord
    BY <2>2, <2>3, <2>4 DEF NoRecord, Records
  <2>. QED
    BY <1>3, <2>1, <2>2, <2>4, <2>5 DEF SessionFits, Spent, InMemory, history
<1>. QED
  BY <1>6, <1>7 DEF IInv, SessionsInv

LEMMA ReadPreserved ==
  ASSUME IInv, ReadInv, [Next]_vars
  PROVE  ReadInv'
<1>1. TypeOK
  BY DEF IInv
<1>2. CASE UNCHANGED consume
  BY <1>2 DEF ReadInv
<1>3. ASSUME NEW c \in Consumers, Done(c)
      PROVE  ReadInv'
  BY <1>1, <1>3, DoneTyped DEF ReadInv
<1>4. ASSUME NEW c \in Consumers, NEW s \in Sessions, ReadSession(c, s)
      PROVE  ReadInv'
  BY <1>1, <1>4 DEF ReadSession, ReadInv, TypeOK
<1>5. CASE Restart
  <2>1. \A c \in Consumers : consume'[c].at # "read"
    BY <1>5 DEF Restart, NoConsume
  <2>. QED
    BY <2>1 DEF ReadInv
<1>. QED
  BY <1>2, <1>3, <1>4, <1>5 DEF Next, vars, Reserve, OpenRelays, RelaysUnavailable, StoreSession,
     SignerApproves, SignerFails, Aborted, MarkApproved, ApprovalUnknown, Fail, LateMarkFailed,
     Poll, Cancel, Expire, Forget, Consume, ConsumeFails

LEMMA FitsPreserved ==
  ASSUME IInv, ReadInv, [Next]_vars
  PROVE  IInv'
<1>1. CASE UNCHANGED vars
  <2>1. TypeOK'
    BY <1>1 DEF IInv, TypeOK, vars
  <2>. QED
    BY <1>1, <2>1 DEF IInv, SessionsInv, SessionFits, Spent, InMemory, Status, vars
<1>. QED
  BY <1>1, ReserveFits, CreateFits, WaitFits, WorkerFits, ReportFits, ConsumeFits, RequestFits,
     TimeFits, RestartFits DEF Next

-------------------------------------------------------------------------------
(* The caps.  Every session holds its slot from the reservation on, first in *)
(* holding, then in live, and the synchronous head of create compares the    *)
(* sessions of both with the caps.                                          *)

Held == live \cup holding

LEMMA CountedIsEnough ==
  ASSUME TypeOK, NEW L, L \subseteq Sessions, NEW S \in SUBSET Sessions, NEW s, NEW m \in Nat,
         Counted(L, S) < m
  PROVE  Cardinality((S \cap L) \cup (S \cap holding) \cup {s}) <= m
<1>1. IsFiniteSet(S \cap L) /\ IsFiniteSet(S \cap holding)
  <2>1. S \cap L \in SUBSET Sessions /\ S \cap holding \in SUBSET Sessions
    OBVIOUS
  <2>. QED
    BY <2>1, FS_Subset
<1> DEFINE A == S \cap L
           B == S \cap holding
<1>2. Cardinality(A) + Cardinality(B) < m
  BY DEF Counted
<1>. HIDE DEF A, B
<1>3. IsFiniteSet(A) /\ IsFiniteSet(B)
  BY <1>1 DEF A, B
<1>4. /\ IsFiniteSet(A \cup B) /\ IsFiniteSet(A \cap B)
      /\ Cardinality(A \cup B) = Cardinality(A) + Cardinality(B) - Cardinality(A \cap B)
  <2>1. A \cap B \in SUBSET A
    OBVIOUS
  <2>. QED
    BY <1>3, <2>1, FS_Union, FS_Subset
<1>5. /\ Cardinality(A) \in Nat /\ Cardinality(B) \in Nat /\ Cardinality(A \cap B) \in Nat
      /\ Cardinality(A \cup B) \in Nat
  BY <1>3, <1>4, FS_CardinalityType
<1>6. Cardinality(A \cup B \cup {s}) <= Cardinality(A \cup B) + 1
  <2>1. Cardinality(A \cup B \cup {s})
           = IF s \in A \cup B THEN Cardinality(A \cup B) ELSE Cardinality(A \cup B) + 1
    BY <1>4, FS_AddElement
  <2>. QED
    BY <1>5, <2>1
<1>7. Cardinality(A \cup B \cup {s}) \in Nat
  BY <1>4, FS_AddElement, FS_CardinalityType
<1>8. Cardinality(A \cup B \cup {s}) <= m
  BY <1>2, <1>4, <1>5, <1>6, <1>7
<1>. QED
  BY <1>8 DEF A, B

LEMMA FewerHeld ==
  ASSUME TypeOK, CapsHold, Held' \subseteq Held
  PROVE  CapsHold'
<1>1. Held \subseteq Sessions
  BY DEF TypeOK, Held
<1>2. ASSUME NEW S \in SUBSET Sessions, NEW R \in SUBSET S, NEW m \in Nat, Cardinality(S) <= m
      PROVE  Cardinality(R) <= m
  <2>1. IsFiniteSet(S)
    BY FS_Subset
  <2>2. IsFiniteSet(R) /\ Cardinality(R) <= Cardinality(S)
    BY <2>1, FS_Subset
  <2>3. Cardinality(R) \in Nat /\ Cardinality(S) \in Nat
    BY <2>1, <2>2, FS_CardinalityType
  <2>. QED
    BY <1>2, <2>2, <2>3
<1>3. MaxSessions \in Nat /\ MaxPerIp \in Nat
  OBVIOUS
<1>4. Cardinality(live' \cup holding') <= MaxSessions
  BY <1>1, <1>2, <1>3 DEF CapsHold, Held
<1>5. ASSUME NEW ip \in Ips
      PROVE  Cardinality(OfIp(live' \cup holding', ip)) <= MaxPerIp
  <2>1. /\ OfIp(live \cup holding, ip) \in SUBSET Sessions
        /\ OfIp(live' \cup holding', ip) \in SUBSET OfIp(live \cup holding, ip)
    BY <1>1 DEF OfIp, Held
  <2>2. Cardinality(OfIp(live \cup holding, ip)) <= MaxPerIp
    BY DEF CapsHold
  <2>. QED
    BY <1>2, <1>3, <2>1, <2>2
<1>. QED
  BY <1>4, <1>5 DEF CapsHold, OfIp

LEMMA ReserveKeepsCaps ==
  ASSUME TypeOK, CapsHold, NEW s \in Sessions, NEW p \in Sessions \cup {None}, Reserve(s, p)
  PROVE  CapsHold'
<1>1. live' = live \ {p}
  BY DEF Reserve, CancelByBindingHash, Teardown
<1>2. CASE UNCHANGED holding
  BY <1>1, <1>2, FewerHeld DEF Held
<1>3. CASE ~UNCHANGED holding
  <2>1. RoomFor(live', s) /\ holding' = holding \cup {s}
    BY <1>1, <1>3 DEF Reserve
  <2>2. live \subseteq Sessions /\ holding \subseteq Sessions /\ live' \subseteq Sessions
    BY <1>1 DEF TypeOK
  <2>3. MaxSessions \in Nat /\ MaxPerIp \in Nat
    OBVIOUS
  <2>4. Cardinality(live' \cup holding') <= MaxSessions
    <3>1. (Sessions \cap live') \cup (Sessions \cap holding) \cup {s} = live' \cup holding'
      BY <2>1, <2>2
    <3>2. Counted(live', Sessions) < MaxSessions
      BY <2>1 DEF RoomFor
    <3>. QED
      BY <2>2, <2>3, <3>1, <3>2, CountedIsEnough
  <2>5. ASSUME NEW ip \in Ips
        PROVE  Cardinality(OfIp(live' \cup holding', ip)) <= MaxPerIp
    <3>1. CASE ip = IpOf[s]
      <4> DEFINE S == OfIp(Sessions, ip)
      <4>1. (S \cap live') \cup (S \cap holding) \cup {s} = OfIp(live' \cup holding', ip)
        BY <2>1, <2>2, <3>1 DEF OfIp
      <4>2. Counted(live', S) < MaxPerIp
        BY <2>1, <3>1 DEF RoomFor
      <4>3. S \in SUBSET Sessions
        BY DEF OfIp
      <4>. HIDE DEF S
      <4>. QED
        BY <2>2, <2>3, <4>1, <4>2, <4>3, CountedIsEnough
    <3>2. CASE ip # IpOf[s]
      <4>1. OfIp(live' \cup holding', ip) \in SUBSET OfIp(live \cup holding, ip)
        BY <1>1, <2>1, <3>2 DEF OfIp
      <4>2. OfIp(live \cup holding, ip) \in SUBSET Sessions
        BY <2>2 DEF OfIp
      <4>3. IsFiniteSet(OfIp(live \cup holding, ip))
        BY <4>2, FS_Subset
      <4>4. /\ IsFiniteSet(OfIp(live' \cup holding', ip))
            /\ Cardinality(OfIp(live' \cup holding', ip)) <= Cardinality(OfIp(live \cup holding, ip))
        BY <4>1, <4>3, FS_Subset
      <4>5. /\ Cardinality(OfIp(live' \cup holding', ip)) \in Nat
            /\ Cardinality(OfIp(live \cup holding, ip)) \in Nat
        BY <4>3, <4>4, FS_CardinalityType
      <4>6. Cardinality(OfIp(live \cup holding, ip)) <= MaxPerIp
        BY DEF CapsHold
      <4>. QED
        BY <2>3, <4>4, <4>5, <4>6
    <3>. QED
      BY <3>1, <3>2
  <2>. QED
    BY <2>4, <2>5 DEF CapsHold, OfIp
<1>. QED
  BY <1>2, <1>3

LEMMA CapsPreserved ==
  ASSUME TypeOK, CapsHold, [Next]_vars
  PROVE  CapsHold'
<1>1. ASSUME NEW s \in Sessions, NEW p \in Sessions \cup {None}, Reserve(s, p)
      PROVE  CapsHold'
  BY <1>1, ReserveKeepsCaps
<1>2. ASSUME NEW s \in Sessions, StoreSession(s)
      PROVE  CapsHold'
  <2>1. s \in holding
    BY <1>2 DEF StoreSession, TypeOK
  <2>2. Held' \subseteq Held
    BY <1>2, <2>1 DEF StoreSession, Held
  <2>. QED
    BY <2>2, FewerHeld
<1>3. ASSUME NEW s \in Sessions,
             \/ OpenRelays(s) \/ RelaysUnavailable(s) \/ SignerApproves(s) \/ SignerFails(s)
             \/ Aborted(s) \/ MarkApproved(s) \/ ApprovalUnknown(s) \/ Fail(s)
             \/ LateMarkFailed(s) \/ Poll(s) \/ Cancel(s) \/ Expire(s) \/ Forget(s)
      PROVE  CapsHold'
  <2>1. Held' \subseteq Held
    BY <1>3 DEF OpenRelays, RelaysUnavailable, SignerApproves, SignerFails, Aborted, MarkApproved,
       ApprovalUnknown, Fail, LateMarkFailed, Poll, Cancel, Expire, Forget, Teardown, Held, creating
  <2>. QED
    BY <2>1, FewerHeld
<1>4. ASSUME NEW c \in Consumers,
             Consume(c) \/ ConsumeFails(c) \/ \E s \in Sessions : ReadSession(c, s)
      PROVE  CapsHold'
  <2>1. Held' \subseteq Held
    BY <1>4 DEF Consume, ConsumeFails, ReadSession, Teardown, Held, creating
  <2>. QED
    BY <2>1, FewerHeld
<1>5. CASE Restart \/ UNCHANGED vars
  <2>1. Held' \subseteq Held
    BY <1>5 DEF Restart, Held, vars
  <2>. QED
    BY <2>1, FewerHeld
<1>. QED
  BY <1>1, <1>2, <1>3, <1>4, <1>5 DEF Next

-------------------------------------------------------------------------------
(* Theorems. *)

(* In every reachable state, restarts and lost commands included, a session *)
(* that was used up or reported failed has no approved copy and no worker   *)
(* that could still approve one.                                            *)
THEOREM Invariance == Spec => [](IInv /\ ReadInv)
<1>1. Init => IInv /\ ReadInv
  <2>. SUFFICES ASSUME Init
                PROVE  IInv /\ ReadInv
    OBVIOUS
  <2>1. TypeOK
    <3>1. record \in [Sessions -> Records]
      BY DEF Init, NoRecord, Records
    <3>2. consume \in [Consumers -> Consumes]
      BY DEF Init, NoConsume, Consumes
    <3>. QED
      BY <3>1, <3>2 DEF Init, TypeOK, Records, Consumes
  <2>2. SessionsInv
    BY DEF Init, SessionsInv, SessionFits, Spent, NoRecord, InMemory
  <2>3. ReadInv
    BY DEF Init, ReadInv, NoConsume
  <2>. QED
    BY <2>1, <2>2, <2>3 DEF IInv
<1>2. IInv /\ ReadInv /\ [Next]_vars => IInv' /\ ReadInv'
  BY FitsPreserved, ReadPreserved
<1>. QED
  BY <1>1, <1>2, PTL DEF Spec

(* Every variable keeps its type; a live session's slot is not reserved too, *)
(* and a live session has a worker that will end it.                        *)
THEOREM TypeCorrect == Spec => []TypeOK
<1>1. IInv => TypeOK
  BY DEF IInv
<1>. QED
  BY <1>1, Invariance, PTL

(* A session is turned into one sign-in at most, after its signer approved  *)
(* and before anybody was told of a failure, for any number of requests,    *)
(* lost answers and restarts.                                               *)
THEOREM SignsInOnce == Spec => OneSignIn
<1>1. IInv /\ ReadInv /\ [Next]_vars
         => [\A s \in Sessions : minted'[s] # minted[s]
               => minted[s] = 0 /\ s \in signed /\ s \notin told]_vars
  <2>. SUFFICES ASSUME IInv, ReadInv, Next, NEW s \in Sessions, minted'[s] # minted[s]
                PROVE  minted[s] = 0 /\ s \in signed /\ s \notin told
    OBVIOUS
  <2>1. PICK c \in Consumers : Consume(c)
    BY DEF Next, Reserve, OpenRelays, RelaysUnavailable, StoreSession, SignerApproves, SignerFails,
       Aborted, MarkApproved, ApprovalUnknown, Fail, LateMarkFailed, Poll, Cancel, Expire, Forget,
       ReadSession, ConsumeFails, Restart, history
  <2>2. /\ consume[c].session \in Sessions /\ Status(consume[c].session) = "approved"
        /\ minted' = [minted EXCEPT ![consume[c].session] = @ + 1]
    BY <2>1 DEF Consume, Consumable, ReadInv
  <2>3. s = consume[c].session
    BY <2>2 DEF IInv, TypeOK
  <2>4. "approved" \in {record[s].mem, record[s].red} /\ SessionFits(s)
    BY <2>2, <2>3 DEF Status, IInv, SessionsInv
  <2>. QED
    BY <2>4 DEF SessionFits, Spent
<1>. QED
  BY <1>1, Invariance, PTL DEF Spec, OneSignIn

(* Creates that overlap never hold more sockets than NIP46_MAX_SESSIONS, or *)
(* than NIP46_MAX_SESSIONS_PER_IP for one client.                           *)
THEOREM CapsAreKept == Spec => []CapsHold
<1>1. Init => CapsHold
  <2>. SUFFICES ASSUME Init
                PROVE  CapsHold
    OBVIOUS
  <2>1. live \cup holding = {} /\ \A ip \in Ips : OfIp(live \cup holding, ip) = {}
    BY DEF Init, OfIp
  <2>2. 0 <= MaxSessions /\ 0 <= MaxPerIp /\ Cardinality({}) = 0
    BY FS_EmptySet
  <2>. QED
    BY <2>1, <2>2 DEF CapsHold
<1>2. TypeOK /\ CapsHold /\ [Next]_vars => CapsHold'
  BY CapsPreserved
<1>. QED
  BY <1>1, <1>2, TypeCorrect, PTL DEF Spec

===============================================================================
