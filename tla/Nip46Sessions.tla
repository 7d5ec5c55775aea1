--------------------------- MODULE Nip46Sessions ---------------------------
(***************************************************************************)
(* Server-held NIP-46 sign-in (lib/nip46-server): a session's record in the *)
(* store it was given at creation, its worker and relay sockets in the      *)
(* process, and the browser's polls, cancellation and consumption           *)
(* (pages/api/nostr-connect).  One process, which may stop and start, and   *)
(* a Redis whose commands may fail before or after they are executed.       *)
(*                                                                         *)
(* Abstracted: keys, relays and the messages to the signer, which answers   *)
(* correctly (SignerApproves) or not in time; the binding cookie, since a   *)
(* request without it changes nothing; the texts of errors.                 *)
(***************************************************************************)
EXTENDS Naturals, FiniteSets

CONSTANTS Sessions,
          Ips,
          IpOf,        \* IpOf[s]: the client that asks for s
          Consumers,   \* requests to consume a session
          None,
          MaxSessions, \* NIP46_MAX_SESSIONS
          MaxPerIp     \* NIP46_MAX_SESSIONS_PER_IP

ASSUME Nip46Assumption ==
    /\ IpOf \in [Sessions -> Ips]
    /\ None \notin Sessions
    /\ {MaxSessions, MaxPerIp} \subseteq Nat \ {0}
    /\ IsFiniteSet(Sessions)

VARIABLES create,   \* create[s]: where the request that creates s stands
          holding,  \* the creates that hold a reservation
          record,   \* record[s]: its status in the process's map and in Redis
          expired,  \* sessions past expiresAt
          live,     \* sessions with sockets in this process
          worker,   \* worker[s]: where its worker stands
          sent,     \* sessions with a markFailed nobody waits for
          consume,  \* consume[c]: where the request stands and what it read
          signed,   \* sessions whose signer approved (history)
          told,     \* sessions recorded and reported as failed (history)
          minted    \* minted[s]: sign-ins s was turned into (history)

vars == <<create, holding, record, expired, live, worker, sent, consume, signed, told, minted>>
history == <<signed, told, minted>>
creating == <<create, holding>>

Statuses == {"pending", "approved", "failed", "consumed"}

TypeOK ==
    /\ create \in [Sessions -> {"none", "opening", "storing", "ended"}]
    /\ holding = {s \in Sessions : create[s] \in {"opening", "storing"}}
    /\ record \in [Sessions -> [mem : Statuses \cup {"none"}, red : Statuses \cup {"none"}]]
    /\ expired \subseteq Sessions /\ live \subseteq Sessions \ holding
    /\ worker \in [Sessions -> {"none", "waiting", "approving", "failing"}]
    /\ \A s \in live : worker[s] # "none"
    /\ sent \subseteq Sessions
    /\ consume \in [Consumers -> [at : {"idle", "read", "done"},
                                  session : Sessions \cup {None},
                                  approved : BOOLEAN]]
    /\ signed \subseteq Sessions /\ told \subseteq Sessions
    /\ minted \in [Sessions -> Nat]

NoRecord == [mem |-> "none", red |-> "none"]
NoConsume == [at |-> "idle", session |-> None, approved |-> FALSE]

Init ==
    /\ create = [s \in Sessions |-> "none"]
    /\ holding = {}
    /\ record = [s \in Sessions |-> NoRecord]
    /\ expired = {} /\ live = {} /\ sent = {}
    /\ worker = [s \in Sessions |-> "none"]
    /\ consume = [c \in Consumers |-> NoConsume]
    /\ signed = {} /\ told = {}
    /\ minted = [s \in Sessions |-> 0]

---------------------------------------------------------------------------
(* The store.  A record in the process's map hides any copy in Redis. *)

InMemory(s) == record[s].mem # "none"
Status(s) == IF InMemory(s) THEN record[s].mem ELSE record[s].red
Found(s) == Status(s) # "none" /\ s \notin expired

(* transition: the check and the write are one step, in either store. *)
Move(s, to) ==
    record' = IF InMemory(s) THEN [record EXCEPT ![s].mem = to]
              ELSE [record EXCEPT ![s].red = to]
Transition(s, from, to) == Found(s) /\ Status(s) \in from /\ Move(s, to)
Refused(s, from) == ~(Found(s) /\ Status(s) \in from) /\ UNCHANGED record
(* Nip46StorageError: Redis did not execute the command. *)
NotExecuted(s) == ~InMemory(s) /\ UNCHANGED record

(* markFailed, whose errors every caller swallows. *)
Failable == {"pending", "approved"}
MarkFailed(s) == Transition(s, Failable, "failed") \/ Refused(s, Failable) \/ NotExecuted(s)

TeardownAtExit(s) == UNCHANGED live
TeardownIfFound(s) == live' = live \ {x \in live : x = s /\ Found(x)}
Teardown(s) == live' = live \ {s}

---------------------------------------------------------------------------
(* Creation *)

OfIp(S, ip) == {s \in S : IpOf[s] = ip}
CountedLiveOnly(L, S) == Cardinality(S \cap L)
Counted(L, S) == Cardinality(S \cap L) + Cardinality(S \cap holding)
RoomFor(L, s) == /\ Counted(L, Sessions) < MaxSessions
                 /\ Counted(L, OfIp(Sessions, IpOf[s])) < MaxPerIp

(* The browser's previous session, if it is live, is torn down at once and   *)
(* its record failed, in Redis by a command nobody waits for.                *)
CancelByBindingHash(previous) ==
    /\ Teardown(previous)
    /\ IF previous \notin live THEN UNCHANGED <<record, sent>>
       ELSE IF InMemory(previous) THEN MarkFailed(previous) /\ UNCHANGED sent
       ELSE sent' = sent \cup {previous} /\ UNCHANGED record

(* The synchronous head of create. *)
Reserve(s, previous) ==
    /\ create[s] = "none" /\ previous # s
    /\ CancelByBindingHash(previous)
    /\ \/ /\ RoomFor(live \ {previous}, s)
          /\ create' = [create EXCEPT ![s] = "opening"]
          /\ holding' = holding \cup {s}
       \/ /\ ~RoomFor(live \ {previous}, s)
          /\ create' = [create EXCEPT ![s] = "ended"]
          /\ UNCHANGED holding
    /\ UNCHANGED <<expired, worker, consume, history>>

OpenRelays(s) ==
    /\ create[s] = "opening"
    /\ create' = [create EXCEPT ![s] = "storing"]
    /\ UNCHANGED <<holding, record, expired, live, worker, sent, consume, history>>

(* No relay was ready in time. *)
RelaysUnavailable(s) ==
    /\ create[s] = "opening"
    /\ create' = [create EXCEPT ![s] = "ended"]
    /\ holding' = holding \ {s}
    /\ UNCHANGED <<record, expired, live, worker, sent, consume, history>>

(* createSession degrades to the map if Redis answers with an error, also   *)
(* one after the write; then the session is live and its worker waits.      *)
StoreSession(s) ==
    /\ create[s] = "storing"
    /\ \E new \in {[mem |-> "none", red |-> "pending"], [mem |-> "pending", red |-> "none"],
                   [mem |-> "pending", red |-> "pending"]} :
            record' = [record EXCEPT ![s] = new]
    /\ create' = [create EXCEPT ![s] = "ended"]
    /\ holding' = holding \ {s}
    /\ live' = live \cup {s}
    /\ worker' = [worker EXCEPT ![s] = "waiting"]
    /\ UNCHANGED <<expired, sent, consume, history>>

---------------------------------------------------------------------------
(* The worker: waiting for the signer, then recording the outcome *)

SignerApproves(s) ==
    /\ worker[s] = "waiting" /\ s \in live
    /\ worker' = [worker EXCEPT ![s] = "approving"]
    /\ signed' = signed \cup {s}
    /\ UNCHANGED <<creating, record, expired, live, sent, consume, told, minted>>

(* A timer, a rejection or an event that does not verify. *)
SignerFails(s) ==
    /\ worker[s] = "waiting" /\ s \in live
    /\ worker' = [worker EXCEPT ![s] = "failing"]
    /\ UNCHANGED <<creating, record, expired, live, sent, consume, history>>

(* The session was torn down: its controller aborts the wait. *)
Aborted(s) ==
    /\ worker[s] = "waiting" /\ s \notin live
    /\ worker' = [worker EXCEPT ![s] = "none"]
    /\ UNCHANGED <<creating, record, expired, live, sent, consume, history>>

Approvable == {"pending"}
MarkApproved(s) ==
    /\ worker[s] = "approving"
    /\ Transition(s, Approvable, "approved") \/ Refused(s, Approvable)
    /\ worker' = [worker EXCEPT ![s] = "none"]
    /\ Teardown(s)
    /\ UNCHANGED <<creating, expired, sent, consume, history>>

(* The store answers with an error, executed or not: an aborted worker ends, *)
(* the others record a failure.                                             *)
ApprovalUnknown(s) ==
    /\ worker[s] = "approving" /\ ~InMemory(s)
    /\ \/ Transition(s, Approvable, "approved")
       \/ UNCHANGED record
    /\ worker' = [worker EXCEPT ![s] = IF s \in live THEN "failing" ELSE "none"]
    /\ UNCHANGED <<creating, expired, live, sent, consume, history>>

Fail(s) ==
    /\ worker[s] = "failing"
    /\ MarkFailed(s)
    /\ worker' = [worker EXCEPT ![s] = "none"]
    /\ Teardown(s)
    /\ UNCHANGED <<creating, expired, sent, consume, history>>

(* The command of a superseded session reaches its store, or does not. *)
LateMarkFailed(s) ==
    /\ s \in sent
    /\ sent' = sent \ {s}
    /\ MarkFailed(s)
    /\ UNCHANGED <<creating, expired, live, worker, consume, history>>

---------------------------------------------------------------------------
(* The browser *)

(* The answer is "failed" or "cancelled" also if the store refused the write; *)
(* told notes the answers that the record bears out.                          *)
Report(s) == told' = IF Status(s)' = "failed" THEN told \cup {s} ELSE told

(* resolveStatus: a pending record without a live session is failed. *)
Poll(s) ==
    /\ Found(s)
    /\ IF Status(s) = "pending" /\ s \notin live THEN MarkFailed(s) ELSE UNCHANGED record
    /\ Report(s)
    /\ UNCHANGED <<creating, expired, live, worker, sent, consume, signed, minted>>

Cancel(s) ==
    /\ Found(s)
    /\ MarkFailed(s)
    /\ Teardown(s)
    /\ Report(s)
    /\ UNCHANGED <<creating, expired, worker, sent, consume, signed, minted>>

(* consumeSession reads the record to check the binding, *)
ReadSession(c, s) ==
    /\ consume[c].at = "idle" /\ Found(s)
    /\ consume' = [consume EXCEPT ![c] = [at |-> "read", session |-> s,
                                            approved |-> Status(s) = "approved"]]
    /\ UNCHANGED <<creating, record, expired, live, worker, sent, history>>

(* then moves it from approved to consumed. *)
ConsumableWhenRead(c) == consume[c].approved
Consumable(c) == Found(consume[c].session) /\ Status(consume[c].session) = "approved"

Done(c) == consume' = [consume EXCEPT ![c] = [NoConsume EXCEPT !.at = "done"]]
Consume(c) ==
    /\ consume[c].at = "read"
    /\ Consumable(c)
    /\ LET s == consume[c].session
       IN Move(s, "consumed") /\ Teardown(s) /\ minted' = [minted EXCEPT ![s] = @ + 1]
    /\ Done(c)
    /\ UNCHANGED <<creating, expired, worker, sent, signed, told>>

(* Refused, or a storage error with or without the move: 409 or 503. *)
ConsumeFails(c) ==
    /\ consume[c].at = "read"
    /\ LET s == consume[c].session
       IN \/ ~Consumable(c) /\ UNCHANGED record
          \/ NotExecuted(s)
          \/ ~InMemory(s) /\ Consumable(c) /\ Move(s, "consumed")
    /\ Done(c)
    /\ UNCHANGED <<creating, expired, live, worker, sent, history>>

---------------------------------------------------------------------------
(* Time and the process *)

Expire(s) ==
    /\ Status(s) # "none" /\ s \notin expired
    /\ expired' = expired \cup {s}
    /\ UNCHANGED <<creating, record, live, worker, sent, consume, history>>

(* The map's timer, or a read, drops an expired record; Redis does later. *)
Forget(s) ==
    /\ s \in expired
    /\ IF InMemory(s) THEN record' = [record EXCEPT ![s].mem = "none"]
       ELSE record[s].red # "none" /\ record' = [record EXCEPT ![s].red = "none"]
    /\ UNCHANGED <<creating, expired, live, worker, sent, consume, history>>

(* The process stops, after shutdown() marked some of its live sessions *)
(* (none in a crash), and starts again with an empty map.               *)
Marked(s) == Found(s) /\ Status(s) \in Failable
Restart ==
    /\ \E failed \in SUBSET {s \in live : Marked(s)} :
            record' = [s \in Sessions |->
                          [mem |-> "none",
                           red |-> IF s \in failed /\ ~InMemory(s) THEN "failed"
                                   ELSE record[s].red]]
    /\ create' = [s \in Sessions |-> IF create[s] = "none" THEN "none" ELSE "ended"]
    /\ holding' = {} /\ live' = {} /\ sent' = {}
    /\ worker' = [s \in Sessions |-> "none"]
    /\ consume' = [c \in Consumers |->
                      IF consume[c].at = "read" THEN [NoConsume EXCEPT !.at = "done"] ELSE consume[c]]
    /\ UNCHANGED <<expired, history>>

Next ==
    \/ \E s \in Sessions :
        \/ \E previous \in Sessions \cup {None} : Reserve(s, previous)
        \/ OpenRelays(s) \/ RelaysUnavailable(s) \/ StoreSession(s)
        \/ SignerApproves(s) \/ SignerFails(s) \/ Aborted(s)
        \/ MarkApproved(s) \/ ApprovalUnknown(s) \/ Fail(s) \/ LateMarkFailed(s)
        \/ Poll(s) \/ Cancel(s) \/ Expire(s) \/ Forget(s)
    \/ \E c \in Consumers :
        \/ \E s \in Sessions : ReadSession(c, s)
        \/ Consume(c) \/ ConsumeFails(c)
    \/ Restart

Spec == Init /\ [][Next]_vars

(* Timers fire and awaits return: nothing waits for a relay or a signer for *)
(* ever, and a command is answered, be it with an error.                    *)
Progress(s) ==
    /\ WF_vars(OpenRelays(s) \/ RelaysUnavailable(s))
    /\ WF_vars(StoreSession(s))
    /\ WF_vars(SignerFails(s))
    /\ WF_vars(MarkApproved(s) \/ ApprovalUnknown(s))
    /\ WF_vars(Fail(s))
FairSpec == Spec /\ \A s \in Sessions : Progress(s)

---------------------------------------------------------------------------
(* Properties *)

(* A sign-in is minted at most once per session, only if its signer          *)
(* approved, and never after the browser was told of a failure or a          *)
(* cancellation that was recorded: for requests that overlap, a worker that   *)
(* records its outcome late, commands whose answer is lost, and a record left *)
(* in both stores before a restart.                                         *)
OneSignIn ==
    [][\A s \in Sessions : minted'[s] # minted[s]
            => minted[s] = 0 /\ s \in signed /\ s \notin told]_vars

(* Creates that overlap, whose sockets are opened before they are counted as *)
(* live, never hold more sockets than the two caps.                          *)
CapsHold ==
    /\ Cardinality(live \cup holding) <= MaxSessions
    /\ \A ip \in Ips : Cardinality(OfIp(live \cup holding, ip)) <= MaxPerIp

(* A slot is given back, however the session ends: no relay, no signer, a    *)
(* storage error, a cancellation, an approval nobody consumes.               *)
SlotsAreFreed == \A s \in Sessions : s \in live \cup holding ~> s \notin live \cup holding
=============================================================================
