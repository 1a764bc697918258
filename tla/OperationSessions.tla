------------------------- MODULE OperationSessions -------------------------
(***************************************************************************)
(* The gateway's pending-operation sessions: a bank request that needs a   *)
(* decoupled TAN leaves a session in Redis, and the API consumer polls it  *)
(* with POST /operations/{id}/poll until it is completed or failed.        *)
(*                                                                         *)
(* A poll is not atomic: it reads the session, waits for the bank in a     *)
(* worker thread, and writes back a modified copy of what it read.  Other  *)
(* polls, the clock and the Redis TTL move in between, so the handler is   *)
(* split at its awaits.  A slot of Pollers is one HTTP request in flight.  *)
(***************************************************************************)
EXTENDS Integers

CONSTANTS
    Operations,      \* operation ids the gateway can hand out (fresh uuids)
    Consumers,       \* API consumers, after authentication
    Pollers,         \* poll requests that may be in flight at the same time
    None,            \* "no value"
    Ttl,             \* operation_session_ttl_seconds
    BankWindow,      \* the connector's own expiry, five minutes after its answer
    Grace,           \* seconds Redis keeps a session beyond expires_at
    MaxTime,         \* bound: the clock stops here
    OnePollAtATime   \* does a client wait for one poll before sending the next?

ASSUME TimesAssumption ==
    /\ Ttl \in Nat \ {0}
    /\ BankWindow \in Nat \ {0}
    /\ Grace \in Nat \ {0}
    /\ MaxTime \in Nat

ASSUME ClientAssumption == OnePollAtATime \in BOOLEAN

VARIABLES
    now,         \* the clock, in seconds
    sessions,    \* what was last written to Redis under ops:<id>
    poll,        \* the poll request in each slot
    challenge,   \* the user's decision on the TAN challenge, known to the bank
    dialog,      \* the FinTS dialog of the operation, as the bank sees it
    told         \* statuses reported for an operation, per consumer (history)

vars == <<now, sessions, poll, challenge, dialog, told>>

-----------------------------------------------------------------------------
(* Types.  "unsent" is the challenge of an operation nobody has started.   *)

Terminal == {"completed", "failed"}
Stored == {"pending"} \cup Terminal

\* What a consumer may hear that has no session to be told about: "expired" of
\* POST, "missing" (404) and "forbidden" (403) of GET.
Refusals == {"expired", "missing", "forbidden"}
Reported == Stored \cup Refusals

Session ==
    [consumer : Consumers,
     status   : Stored,
     created  : Nat,
     expires  : Nat,
     evictAt  : Nat,                      \* when the Redis key disappears
     state    : Operations \cup {None},   \* whose dialog the snapshot resumes
     payload  : Operations \cup {None},   \* whose bank data the payload holds
     reason   : BOOLEAN]                  \* is there a failure_reason?

ASSUME NoneAssumption ==
    None \notin Operations /\ None \notin Consumers /\ None \notin Session

BankResult ==
    [status  : Stored,
     state   : Operations \cup {None},
     expires : Nat,
     payload : Operations \cup {None},
     reason  : BOOLEAN]

Idle == [pc |-> "idle", op |-> None, copy |-> None, result |-> None]

Resuming ==
    [pc : {"resuming"}, op : Operations, copy : Session, result : {None}]
Storing ==
    [pc : {"storing"}, op : Operations, copy : Session, result : BankResult]

TypeOK ==
    /\ now \in Nat
    /\ sessions \in [Operations -> Session \cup {None}]
    /\ poll \in [Pollers -> {Idle} \cup Resuming \cup Storing]
    /\ challenge \in [Operations -> {"unsent", "waiting", "approved", "refused"}]
    /\ dialog \in [Operations -> {"open", "ended"}]
    /\ told \in [Operations -> [Consumers -> SUBSET Reported]]

-----------------------------------------------------------------------------
(* The session store.                                                      *)

\* GET on the key: an evicted session reads as missing.
Visible(o) == sessions[o] # None /\ now < sessions[o].evictAt

EarlierOf(a, b) == IF a <= b THEN a ELSE b

\* Mutant: the cap is anchored at the moment of the write.
CapExpiryFromNow(resultExpires, anchor) == EarlierOf(resultExpires, now + Ttl)

\* cap_session_expires_at: min(result_expires_at, anchor + ttl)
CapExpiry(resultExpires, anchor) == EarlierOf(resultExpires, anchor + Ttl)

\* Mutant: the Redis TTL ends with the session.
EvictionTimeWithoutGrace(expires, cut) ==
    now + (IF expires - now - cut > 0 THEN expires - now - cut ELSE 0)

\* _ttl_seconds: max(int(expires_at - now) + 60, 60).  int() drops a fraction
\* of a second, which in whole ticks costs up to one tick (cut).
EvictionTime(expires, cut) ==
    now + Grace + (IF expires - now - cut > 0 THEN expires - now - cut ELSE 0)

\* create and update are the same SETEX.
Write(o, session, cut) ==
    sessions' = [sessions EXCEPT
        ![o] = [session EXCEPT !.evictAt = EvictionTime(session.expires, cut)]]

Report(o, c, status) ==
    told' = [told EXCEPT ![o][c] = @ \cup {status}]

-----------------------------------------------------------------------------
Init ==
    /\ now = 0
    /\ sessions = [o \in Operations |-> None]
    /\ poll = [p \in Pollers |-> Idle]
    /\ challenge = [o \in Operations |-> "unsent"]
    /\ dialog = [o \in Operations |-> "open"]
    /\ told = [o \in Operations |-> [c \in Consumers |-> {}]]

\* A bank command (accounts, balances, transactions, TAN methods) whose bank
\* call came back PENDING_CONFIRMATION: the command stores a new session.
\* Commands that complete or fail at once leave no trace in the store.
Start(o, c) ==
    /\ challenge[o] = "unsent"
    /\ challenge' = [challenge EXCEPT ![o] = "waiting"]
    /\ \E cut \in {0, 1} :
         Write(o, [consumer |-> c,
                   status   |-> "pending",
                   created  |-> now,
                   expires  |-> CapExpiry(now + BankWindow, now),
                   evictAt  |-> 0,
                   state    |-> o,
                   payload  |-> None,
                   reason   |-> FALSE], cut)
    /\ Report(o, c, "pending")
    /\ UNCHANGED <<now, poll, dialog>>

\* Is another poll of the same operation waiting for the bank or the store?
InFlight(o) == \E q \in Pollers : poll[q] # Idle /\ poll[q].op = o

\* Mutant: an answered poll rewrites the settled session to refresh its TTL.
PollAnsweredTouches(p, c, o) ==
    /\ poll[p] = Idle
    /\ Visible(o)
    /\ sessions[o].consumer = c
    /\ sessions[o].status # "pending"
    /\ Report(o, c, sessions[o].status)
    /\ Write(o, sessions[o], 0)
    /\ UNCHANGED <<now, poll, challenge, dialog>>

\* POST /poll, up to the first store read, for a session it will not resume:
\* missing, somebody else's, or already settled.
PollAnswered(p, c, o) ==
    /\ poll[p] = Idle
    /\ \/ /\ ~(Visible(o) /\ sessions[o].consumer = c)
          /\ Report(o, c, "expired")
       \/ /\ Visible(o)
          /\ sessions[o].consumer = c
          /\ sessions[o].status # "pending"
          /\ Report(o, c, sessions[o].status)
    /\ UNCHANGED <<now, sessions, poll, challenge, dialog>>

\* POST /poll of a pending session: the handler keeps the session it read and
\* waits for the bank.  expires_at is not looked at.
PollResumes(p, c, o) ==
    /\ poll[p] = Idle
    /\ OnePollAtATime => ~InFlight(o)
    /\ Visible(o)
    /\ sessions[o].consumer = c
    /\ sessions[o].status = "pending"
    /\ poll' = [poll EXCEPT ![p] = [pc |-> "resuming", op |-> o,
                                    copy |-> sessions[o], result |-> None]]
    /\ UNCHANGED <<now, sessions, challenge, dialog, told>>

\* resume_operation returned r for slot p.
Answers(p, r) ==
    poll' = [poll EXCEPT ![p] = [@ EXCEPT !.pc = "storing", !.result = r]]

\* The bank still waits for the user: a fresh snapshot, the dialog stays open.
BankStillPending(p) ==
    /\ poll[p].pc = "resuming"
    /\ challenge[poll[p].copy.state] = "waiting"
    /\ dialog[poll[p].copy.state] = "open"
    /\ Answers(p, [status |-> "pending", state |-> poll[p].copy.state,
                   expires |-> now + BankWindow, payload |-> None,
                   reason |-> FALSE])
    /\ UNCHANGED <<now, sessions, challenge, dialog, told>>

\* Mutant: any resumed dialog that no longer asks for a TAN counts as approved.
BankApprovedUnasked(p) ==
    /\ poll[p].pc = "resuming"
    /\ dialog[poll[p].copy.state] = "open"
    /\ dialog' = [dialog EXCEPT ![poll[p].copy.state] = "ended"]
    /\ Answers(p, [status |-> "completed", state |-> None, expires |-> now,
                   payload |-> poll[p].copy.state, reason |-> FALSE])
    /\ UNCHANGED <<now, sessions, challenge, told>>

\* The user approved: the data is fetched in the resumed dialog, and the
\* dialog is ended (HKEND) whatever happens to the data afterwards.
BankApproved(p) ==
    /\ poll[p].pc = "resuming"
    /\ challenge[poll[p].copy.state] = "approved"
    /\ dialog[poll[p].copy.state] = "open"
    /\ dialog' = [dialog EXCEPT ![poll[p].copy.state] = "ended"]
    /\ Answers(p, [status |-> "completed", state |-> None, expires |-> now,
                   payload |-> poll[p].copy.state, reason |-> FALSE])
    /\ UNCHANGED <<now, sessions, challenge, told>>

\* The bank answers with an error: the user refused, the dialog is already
\* ended, the request carries wrong credentials, ...  The dialog is ended.
BankFailed(p) ==
    /\ poll[p].pc = "resuming"
    /\ dialog' = [dialog EXCEPT ![poll[p].copy.state] = "ended"]
    /\ Answers(p, [status |-> "failed", state |-> None, expires |-> now,
                   payload |-> None, reason |-> TRUE])
    /\ UNCHANGED <<now, sessions, challenge, told>>

\* Mutant: a late answer marks the session as expired instead.
ResumedExpired(copy, r) ==
    IF copy.expires <= now THEN [copy EXCEPT !.status = "expired"]
    ELSE [copy EXCEPT !.status = r.status, !.payload = r.payload,
                      !.reason = r.reason, !.state = r.state]

\* Mutant: the snapshot is dropped whatever the answer.
ResumedWithoutState(copy, r) ==
    [copy EXCEPT !.status = r.status, !.payload = r.payload,
                 !.reason = r.reason, !.state = None]

\* Mutant: a failure is taken for one more round of waiting.
ResumedKeepsWaiting(copy, r) ==
    IF r.status = "completed"
      THEN [copy EXCEPT !.status = "completed", !.payload = r.payload,
                        !.state = None]
      ELSE copy

\* The copy read earlier, changed by the bank's answer (model_copy).
Resumed(copy, r) ==
    CASE r.status = "pending" ->
            [copy EXCEPT !.state = r.state,
                         !.expires = CapExpiry(r.expires, copy.created)]
      [] r.status = "completed" ->
            [copy EXCEPT !.status = "completed", !.payload = r.payload,
                         !.state = None]
      [] r.status = "failed" ->
            [copy EXCEPT !.status = "failed", !.reason = r.reason,
                         !.state = None]

\* Mutant: a store that swallows a failed write.
PollStoresMaybe(p) ==
    /\ poll[p].pc = "storing"
    /\ \/ Write(poll[p].op, Resumed(poll[p].copy, poll[p].result), 0)
       \/ UNCHANGED sessions
    /\ Report(poll[p].op, poll[p].copy.consumer, poll[p].result.status)
    /\ poll' = [poll EXCEPT ![p] = Idle]
    /\ UNCHANGED <<now, challenge, dialog>>

\* The handler overwrites the session with the updated copy, whatever is in
\* the store by now, and responds; the response may be lost on the way.
PollStores(p) ==
    /\ poll[p].pc = "storing"
    /\ \E cut \in {0, 1} :
         Write(poll[p].op, Resumed(poll[p].copy, poll[p].result), cut)
    /\ \/ Report(poll[p].op, poll[p].copy.consumer, poll[p].result.status)
       \/ UNCHANGED told
    /\ poll' = [poll EXCEPT ![p] = Idle]
    /\ UNCHANGED <<now, challenge, dialog>>

\* The handler raises or its process dies before it has written anything: no
\* product registration, no institute, a bank connection error, Redis down.
\* When it dies while completing an approved operation, HKEND was already sent.
PollAborts(p) ==
    /\ poll[p] # Idle
    /\ poll' = [poll EXCEPT ![p] = Idle]
    /\ \/ UNCHANGED dialog
       \/ /\ poll[p].pc = "resuming"
          /\ challenge[poll[p].copy.state] = "approved"
          /\ dialog' = [dialog EXCEPT ![poll[p].copy.state] = "ended"]
    /\ UNCHANGED <<now, sessions, challenge, told>>

\* A pending session is told as expired from its expiry on; nothing is written.
StatusNow(s) ==
    IF s.status = "pending" /\ s.expires <= now THEN "expired" ELSE s.status

\* Mutant: GET does not compare the owner.
GetStatusOfAnyone(c, o) ==
    /\ \/ ~Visible(o) /\ Report(o, c, "missing")
       \/ Visible(o) /\ Report(o, c, StatusNow(sessions[o]))
    /\ UNCHANGED <<now, sessions, poll, challenge, dialog>>

\* GET /operations/{id}: 404 without a visible session, 403 to anybody but its
\* owner, who gets the status.
GetStatus(c, o) ==
    /\ \/ ~Visible(o) /\ Report(o, c, "missing")
       \/ Visible(o) /\ sessions[o].consumer # c /\ Report(o, c, "forbidden")
       \/ Visible(o) /\ sessions[o].consumer = c
            /\ Report(o, c, StatusNow(sessions[o]))
    /\ UNCHANGED <<now, sessions, poll, challenge, dialog>>

\* The user decides in the banking app (outside the gateway).
UserDecides(o, decision) ==
    /\ challenge[o] = "waiting"
    /\ challenge' = [challenge EXCEPT ![o] = decision]
    /\ UNCHANGED <<now, sessions, poll, dialog, told>>

Tick ==
    /\ now < MaxTime
    /\ now' = now + 1
    /\ UNCHANGED <<sessions, poll, challenge, dialog, told>>

PollStep(p) ==
    BankStillPending(p) \/ BankApproved(p) \/ BankFailed(p) \/ PollStores(p)
        \/ PollAborts(p)

Next ==
    \/ \E o \in Operations, c \in Consumers : Start(o, c) \/ GetStatus(c, o)
    \/ \E p \in Pollers, o \in Operations, c \in Consumers :
          PollAnswered(p, c, o) \/ PollResumes(p, c, o)
    \/ \E p \in Pollers : PollStep(p)
    \/ \E o \in Operations, decision \in {"approved", "refused"} :
          UserDecides(o, decision)
    \/ Tick

Spec == Init /\ [][Next]_vars
-----------------------------------------------------------------------------
(* Safety, for any number of polls in flight.                              *)

\* The store only ever holds sessions its own reader accepts: get() rebuilds
\* PendingOperationSession and so runs its validators, which the model_copy of
\* the poll handler skips.  A session that failed them could never be read.
StoredSessionIsReadable ==
    \A o \in Operations : sessions[o] # None =>
        LET s == sessions[o] IN
        /\ s.expires > s.created
        /\ s.status = "pending" => s.state # None /\ s.payload = None
        /\ s.status = "completed" => s.payload # None
        /\ s.status = "failed" => s.reason

\* Bank data is released only once the user has approved this very operation:
\* a completed session holds its own operation's data, and no consumer is told
\* "completed" before, whichever stale copy the answer was built from.
CompletedWasApproved ==
    /\ \A o \in Operations :
          sessions[o] # None /\ sessions[o].status = "completed" =>
             sessions[o].payload = o /\ challenge[o] = "approved"
    /\ \A o \in Operations, c \in Consumers :
          "completed" \in told[o][c] => challenge[o] = "approved"

\* A consumer that did not start an operation never hears a status of it, by
\* whichever of the interleaved polls and reads it sends: "expired" from POST,
\* "missing" or "forbidden" from GET.  The last is told of an operation that
\* somebody else started, and never to the one who did.
OnlyOwnerIsTold ==
    \A o \in Operations, c \in Consumers :
        /\ told[o][c] \cap Stored # {} =>
              sessions[o] # None /\ sessions[o].consumer = c
        /\ "forbidden" \in told[o][c] =>
              sessions[o] # None /\ sessions[o].consumer # c

\* However often and late a session is written back, its expiry stays anchored
\* to its creation, and owner and creation time are those of the first write.
ExpiryAnchored ==
    [][\A o \in Operations : sessions[o] # None =>
          /\ sessions'[o] # None
          /\ sessions'[o].consumer = sessions[o].consumer
          /\ sessions'[o].created = sessions[o].created
          /\ sessions'[o].expires <= sessions[o].created + Ttl]_sessions

\* The grace period of _ttl_seconds: Redis never drops a session earlier than
\* Grace seconds after its expiry (less the fraction int() cuts off), even one
\* that was written back after it had expired.
GraceIsKept ==
    \A o \in Operations :
        sessions[o] # None /\ ~Visible(o) =>
            now >= sessions[o].expires + Grace - 1

-----------------------------------------------------------------------------
(* A client that waits for one poll's response before it sends the next.   *)

\* The API's view of an operation.  Its verdict is the status last written,
\* whether or not Redis still holds the session.
Owner ==
    [o \in Operations |->
        IF sessions[o] = None THEN None ELSE sessions[o].consumer]
Verdict ==
    [o \in Operations |->
        IF sessions[o] = None \/ sessions[o].status = "pending"
          THEN "open" ELSE sessions[o].status]

Api == INSTANCE OperationApi WITH owner <- Owner, verdict <- Verdict

\* The handlers implement the API promise.
ImplementsApi == Api!ApiSpec

\* A session that was settled is never written again: no answer that a poll
\* still carries can reopen it, flip its verdict, or lose its result.
SettledIsFinal ==
    [][\A o \in Operations :
          sessions[o] # None /\ sessions[o].status \in Terminal =>
              sessions'[o] = sessions[o]]_sessions

-----------------------------------------------------------------------------
(* What the gateway does by itself: every handler that has started goes on,*)
(* and time passes.  Requests and the user's decision are not its doing.   *)

Returns(p) ==
    BankStillPending(p) \/ BankApproved(p) \/ BankFailed(p) \/ PollStores(p)

GatewayFairness ==
    /\ WF_vars(Tick)
    /\ \A p \in Pollers : WF_vars(Returns(p))

\* A client that keeps polling its operation for as long as it is pending, and
\* whose polls do not all abort on the way.
ClientFairness ==
    \A o \in Operations :
        /\ SF_vars(\E p \in Pollers, c \in Consumers : PollResumes(p, c, o))
        /\ SF_vars(\E p \in Pollers : poll[p].op = o /\ Returns(p))
        /\ SF_vars(\E p \in Pollers : poll[p].op = o /\ PollStores(p))

FairSpec == Spec /\ GatewayFairness
PolledSpec == FairSpec /\ ClientFairness

\* Once the user has approved, an operation that is polled does not stay
\* pending: the session is settled, or Redis has dropped it.
ApprovedIsSettled ==
    \A o \in Operations :
        challenge[o] = "approved" ~>
            ~Visible(o) \/ sessions[o].status \in Terminal

-----------------------------------------------------------------------------
(* What the repository's documents say of the program.                     *)

\* README.md:198: completed and failed are terminal states of an operation.
TerminalStaysTerminal ==
    [][\A o \in Operations :
          sessions[o] # None /\ sessions[o].status \in Terminal =>
              sessions'[o].status = sessions[o].status]_sessions
=============================================================================
