---------------------- MODULE OperationSessions_proofs ----------------------
(***************************************************************************)
(* Proofs about OperationSessions, for every set of operations, consumers  *)
(* and poll slots and every value of the time constants.                   *)
(***************************************************************************)
EXTENDS OperationSessions, TLAPS

\* What is true of a stored session, whenever it was last written.
SessionInv(o, s) ==
    /\ s.created <= now
    /\ s.created < s.expires
    /\ s.expires <= s.created + Ttl
    /\ s.expires + Grace - 1 <= s.evictAt
    /\ s.status = "pending" => s.state = o /\ s.payload = None
    /\ s.status = "completed" => s.payload = o /\ challenge[o] = "approved"
    /\ s.status = "failed" => s.reason

\* What is true of the copy a poll holds: it is a pending session of the same
\* operation, owner and creation time as the one in the store.
CopyInv(x) ==
    /\ sessions[x.op] # None
    /\ x.copy.consumer = sessions[x.op].consumer
    /\ x.copy.created = sessions[x.op].created
    /\ x.copy.created < x.copy.expires
    /\ x.copy.expires <= x.copy.created + Ttl
    /\ x.copy.status = "pending"
    /\ x.copy.state = x.op
    /\ x.copy.payload = None

\* What is true of the bank's answer a poll is about to store.
ResultInv(x) ==
    /\ x.result.status = "pending" =>
          /\ x.result.state = x.op
          /\ x.result.expires > x.copy.created
    /\ x.result.status = "completed" =>
          /\ x.result.payload = x.op
          /\ challenge[x.op] = "approved"
    /\ x.result.status = "failed" => x.result.reason

SessionsInv == \A o \in Operations : sessions[o] # None => SessionInv(o, sessions[o])
PollsInv ==
    \A p \in Pollers :
        /\ poll[p].pc # "idle" => CopyInv(poll[p])
        /\ poll[p].pc = "storing" => ResultInv(poll[p])

\* A consumer c that heard these statuses of an operation with session s is its
\* owner, or was refused; it was not forbidden what is its own.
HeardInv(statuses, c, s) ==
    /\ statuses \subseteq Refusals \/ (s # None /\ s.consumer = c)
    /\ "forbidden" \in statuses => s # None /\ s.consumer # c

ToldInv ==
    \A o \in Operations, c \in Consumers :
        /\ "completed" \in told[o][c] => challenge[o] = "approved"
        /\ HeardInv(told[o][c], c, sessions[o])
UnsentInv == \A o \in Operations : challenge[o] = "unsent" => sessions[o] = None

IInv == TypeOK /\ SessionsInv /\ PollsInv /\ ToldInv /\ UnsentInv

-----------------------------------------------------------------------------
(* Lemmas on the operators.                                                *)

\* The capped expiry lies within the TTL of its anchor, and after the anchor.
LEMMA CapExpiryFacts ==
    ASSUME NEW r \in Nat, NEW a \in Nat
    PROVE  /\ CapExpiry(r, a) \in Nat
           /\ CapExpiry(r, a) <= a + Ttl
           /\ r > a => CapExpiry(r, a) > a
  BY TimesAssumption DEF CapExpiry, EarlierOf

\* A written key lives at least until a grace period after its expiry.
LEMMA EvictionTimeFacts ==
    ASSUME now \in Nat, NEW e \in Nat, NEW cut \in {0, 1}
    PROVE  /\ EvictionTime(e, cut) \in Nat
           /\ e + Grace - 1 <= EvictionTime(e, cut)
  BY TimesAssumption DEF EvictionTime

\* A session is a record, None is not.
LEMMA SessionIsNotNone == ASSUME NEW s \in Session PROVE s # None
  BY NoneAssumption

\* A poll in a slot that is not idle is one of the two kinds of work.
LEMMA SlotTypes ==
    ASSUME TypeOK, NEW p \in Pollers
    PROVE  /\ poll[p] = Idle <=> poll[p].pc = "idle"
           /\ poll[p].pc = "resuming" => poll[p] \in Resuming
           /\ poll[p].pc = "storing" => poll[p] \in Storing
           /\ poll[p].pc # "idle" => /\ poll[p].op \in Operations
                                     /\ poll[p].copy \in Session
           /\ poll[p].pc \in {"idle", "resuming", "storing"}
  BY DEF TypeOK, Idle, Resuming, Storing

\* Two sessions that differ at most in when Redis drops them.
SameButEviction(s, t) ==
    /\ s.consumer = t.consumer
    /\ s.status = t.status
    /\ s.created = t.created
    /\ s.expires = t.expires
    /\ s.state = t.state
    /\ s.payload = t.payload
    /\ s.reason = t.reason

\* What Write does to the store, given a well-typed session.
LEMMA WriteFacts ==
    ASSUME TypeOK, NEW o \in Operations, NEW s \in Session, NEW cut \in {0, 1},
           Write(o, s, cut)
    PROVE  /\ sessions' \in [Operations -> Session \cup {None}]
           /\ \A q \in Operations : q # o => sessions'[q] = sessions[q]
           /\ sessions'[o] \in Session
           /\ sessions'[o] # None
           /\ SameButEviction(sessions'[o], s)
           /\ s.expires + Grace - 1 <= sessions'[o].evictAt
<1>1. s.expires \in Nat /\ now \in Nat
  BY DEF Session, TypeOK
<1>2. /\ EvictionTime(s.expires, cut) \in Nat
      /\ s.expires + Grace - 1 <= EvictionTime(s.expires, cut)
  BY <1>1, EvictionTimeFacts
<1> DEFINE w == [s EXCEPT !.evictAt = EvictionTime(s.expires, cut)]
<1>3. /\ w \in Session /\ w.evictAt = EvictionTime(s.expires, cut)
      /\ SameButEviction(w, s)
  BY <1>2 DEF Session, SameButEviction
<1>4. sessions' = [sessions EXCEPT ![o] = w]
  BY DEF Write
<1>5. w # None
  BY <1>3, SessionIsNotNone
<1> HIDE DEF w
<1>6. /\ sessions' \in [Operations -> Session \cup {None}]
      /\ \A q \in Operations : q # o => sessions'[q] = sessions[q]
      /\ sessions'[o] = w
  BY <1>3, <1>4 DEF TypeOK
<1> QED
  BY <1>2, <1>3, <1>5, <1>6

\* What one more report changes in the history.
LEMMA ReportFacts ==
    ASSUME TypeOK, NEW o \in Operations, NEW c \in Consumers,
           NEW status \in Reported, Report(o, c, status)
    PROVE  /\ told' \in [Operations -> [Consumers -> SUBSET Reported]]
           /\ told'[o][c] = told[o][c] \cup {status}
           /\ \A q \in Operations, d \in Consumers :
                 q # o \/ d # c => told'[q][d] = told[q][d]
  BY DEF TypeOK, Report

-----------------------------------------------------------------------------
(* The inductive step, one lemma per action.                               *)

\* The invariant holds before the first request.
LEMMA InitIInv == Init => IInv
  BY DEF Init, IInv, TypeOK, SessionsInv, PollsInv, ToldInv, HeardInv, UnsentInv, Idle

\* A new session satisfies what is true of stored sessions.
LEMMA StartIInv ==
    ASSUME IInv, NEW o \in Operations, NEW c \in Consumers, Start(o, c)
    PROVE  IInv'
<1> DEFINE s0 == [consumer |-> c, status |-> "pending", created |-> now,
                  expires |-> CapExpiry(now + BankWindow, now), evictAt |-> 0,
                  state |-> o, payload |-> None, reason |-> FALSE]
<1>1. TypeOK /\ now \in Nat /\ sessions[o] = None
  BY DEF IInv, TypeOK, UnsentInv, Start
<1>2. /\ s0.expires \in Nat
      /\ s0.expires <= now + Ttl
      /\ s0.expires > now
  <2>1. now + BankWindow \in Nat /\ now + BankWindow > now
    BY <1>1, TimesAssumption
  <2>2. /\ CapExpiry(now + BankWindow, now) \in Nat
        /\ CapExpiry(now + BankWindow, now) <= now + Ttl
        /\ CapExpiry(now + BankWindow, now) > now
    BY <1>1, <2>1, CapExpiryFacts
  <2> QED BY <2>2
<1>3. s0 \in Session
  BY <1>1, <1>2 DEF Session, Stored
<1>4. PICK cut \in {0, 1} : Write(o, s0, cut)
  BY DEF Start
<1>5. /\ s0.consumer = c /\ s0.status = "pending" /\ s0.created = now
      /\ s0.state = o /\ s0.payload = None
  OBVIOUS
<1> HIDE DEF s0
<1>6. /\ sessions' \in [Operations -> Session \cup {None}]
      /\ \A q \in Operations : q # o => sessions'[q] = sessions[q]
      /\ sessions'[o] # None
      /\ SameButEviction(sessions'[o], s0)
      /\ s0.expires + Grace - 1 <= sessions'[o].evictAt
  BY <1>1, <1>3, <1>4, WriteFacts
<1>7. /\ sessions'[o].consumer = c /\ sessions'[o].status = "pending"
      /\ sessions'[o].created = now /\ sessions'[o].expires = s0.expires
      /\ sessions'[o].state = o /\ sessions'[o].payload = None
  BY <1>5, <1>6 DEF SameButEviction
<1>8. /\ told' \in [Operations -> [Consumers -> SUBSET Reported]]
      /\ told'[o][c] = told[o][c] \cup {"pending"}
      /\ \A q \in Operations, d \in Consumers :
            q # o \/ d # c => told'[q][d] = told[q][d]
  BY <1>1, ReportFacts DEF Start, Reported, Stored
<1>9. /\ now' = now /\ poll' = poll /\ dialog' = dialog
      /\ challenge' \in [Operations -> {"unsent", "waiting", "approved", "refused"}]
      /\ challenge[o] = "unsent" /\ challenge'[o] = "waiting"
      /\ \A q \in Operations : q # o => challenge'[q] = challenge[q]
  BY <1>1 DEF Start, TypeOK
<1>10. TypeOK'
  BY <1>1, <1>6, <1>8, <1>9 DEF TypeOK
<1>11. SessionsInv'
  <2> SUFFICES ASSUME NEW q \in Operations, sessions'[q] # None
               PROVE  SessionInv(q, sessions[q])'
    BY DEF SessionsInv
  <2>1. CASE q = o
    BY <2>1, <1>1, <1>2, <1>6, <1>7, <1>9 DEF SessionInv
  <2>2. CASE q # o
    BY <2>2, <1>6, <1>9 DEF SessionInv, IInv, SessionsInv
  <2> QED BY <2>1, <2>2
<1>12. PollsInv'
  <2> SUFFICES ASSUME NEW p \in Pollers, poll[p].pc # "idle"
               PROVE  /\ CopyInv(poll[p])'
                      /\ poll[p].pc = "storing" => ResultInv(poll[p])'
    BY <1>9 DEF PollsInv
  <2>1. CopyInv(poll[p]) /\ (poll[p].pc = "storing" => ResultInv(poll[p]))
    BY DEF IInv, PollsInv
  <2>2. poll[p].op \in Operations /\ poll[p].op # o
    BY <1>1, <2>1, SlotTypes DEF CopyInv
  <2> QED
    BY <1>6, <1>9, <2>1, <2>2 DEF CopyInv, ResultInv
<1>13. ToldInv'
  <2> SUFFICES ASSUME NEW q \in Operations, NEW d \in Consumers
               PROVE  /\ "completed" \in told'[q][d] => challenge'[q] = "approved"
                      /\ HeardInv(told'[q][d], d, sessions'[q])
    BY DEF ToldInv, HeardInv
  <2>1. /\ "completed" \in told[q][d] => challenge[q] = "approved"
        /\ HeardInv(told[q][d], d, sessions[q])
    BY DEF IInv, ToldInv
  <2>2. CASE q = o /\ d = c
    BY <1>1, <1>6, <1>7, <1>8, <1>9, <2>1, <2>2 DEF HeardInv
  <2>3. CASE q = o /\ d # c
    BY <1>1, <1>8, <1>9, <2>1, <2>3 DEF HeardInv
  <2>4. CASE q # o
    <3>1. told'[q][d] = told[q][d]
      BY <1>8, <2>4
    <3> QED
      BY <1>6, <1>9, <2>1, <2>4, <3>1
  <2> QED
    BY <2>2, <2>3, <2>4
<1>14. UnsentInv'
  BY <1>6, <1>9 DEF IInv, UnsentInv
<1> QED
  BY <1>10, <1>11, <1>12, <1>13, <1>14 DEF IInv

\* A step that only reports a status, with the status covered by what the
\* store says, preserves the invariant.
LEMMA ReportIInv ==
    ASSUME IInv, NEW o \in Operations, NEW c \in Consumers,
           NEW status \in Reported, Report(o, c, status),
           \/ status \in {"expired", "missing"}
           \/ /\ sessions[o] # None /\ sessions[o].consumer # c
              /\ status = "forbidden"
           \/ /\ sessions[o] # None /\ sessions[o].consumer = c
              /\ status = sessions[o].status,
           UNCHANGED <<now, sessions, poll, challenge, dialog>>
    PROVE  IInv'
<1>1. TypeOK
  BY DEF IInv
<1>2. /\ told' \in [Operations -> [Consumers -> SUBSET Reported]]
      /\ told'[o][c] = told[o][c] \cup {status}
      /\ \A q \in Operations, d \in Consumers :
            q # o \/ d # c => told'[q][d] = told[q][d]
  BY <1>1, ReportFacts
<1>3. TypeOK'
  BY <1>1, <1>2 DEF TypeOK
<1>4. SessionsInv' /\ PollsInv' /\ UnsentInv'
  BY DEF IInv, SessionsInv, SessionInv, PollsInv, CopyInv, ResultInv, UnsentInv
<1>5. ToldInv'
  <2> SUFFICES ASSUME NEW q \in Operations, NEW d \in Consumers
               PROVE  /\ "completed" \in told'[q][d] => challenge[q] = "approved"
                      /\ HeardInv(told'[q][d], d, sessions[q])
    BY DEF ToldInv, HeardInv
  <2>1. /\ "completed" \in told[q][d] => challenge[q] = "approved"
        /\ HeardInv(told[q][d], d, sessions[q])
    BY DEF IInv, ToldInv
  <2>2. CASE q # o \/ d # c
    BY <1>2, <2>1, <2>2
  <2>3. CASE q = o /\ d = c
    <3>1. CASE status \in {"expired", "missing"}
      BY <1>2, <2>1, <2>3, <3>1 DEF HeardInv, Refusals
    <3>3. CASE /\ sessions[o] # None /\ sessions[o].consumer # c
               /\ status = "forbidden"
      BY <1>2, <2>1, <2>3, <3>3 DEF HeardInv, Refusals
    <3>2. CASE /\ sessions[o] # None /\ sessions[o].consumer = c
               /\ status = sessions[o].status
      <4>1. status = "completed" => challenge[o] = "approved"
        BY <3>2 DEF IInv, SessionsInv, SessionInv
      <4>2. status # "forbidden"
        BY <1>1, <3>2 DEF TypeOK, Session, Stored, Terminal
      <4> QED
        BY <1>2, <2>1, <2>3, <3>2, <4>1, <4>2 DEF HeardInv
    <3> QED
      BY <3>1, <3>2, <3>3
  <2> QED
    BY <2>2, <2>3
<1> QED
  BY <1>3, <1>4, <1>5 DEF IInv

\* Polls answered from the store, and GET, only report.
LEMMA AnsweredIInv ==
    ASSUME IInv, NEW c \in Consumers, NEW o \in Operations,
           GetStatus(c, o) \/ \E p \in Pollers : PollAnswered(p, c, o)
    PROVE  IInv'
<1>1. sessions[o] # None => sessions[o].status \in Reported
  BY DEF IInv, TypeOK, Session, Reported
<1>2. CASE Report(o, c, "expired") \/ Report(o, c, "missing")
  BY <1>2, ReportIInv DEF PollAnswered, GetStatus, Reported, Refusals
<1>4. CASE /\ Visible(o) /\ sessions[o].consumer # c
           /\ Report(o, c, "forbidden")
  BY <1>4, ReportIInv DEF PollAnswered, GetStatus, Visible, Reported, Refusals
<1>3. CASE /\ Visible(o) /\ sessions[o].consumer = c
           /\ Report(o, c, sessions[o].status)
  BY <1>1, <1>3, ReportIInv DEF PollAnswered, GetStatus, Visible
<1> QED
  BY <1>2, <1>3, <1>4 DEF PollAnswered, GetStatus, StatusNow

\* A poll's copy is one of its operation's sessions.
LEMMA PollResumesIInv ==
    ASSUME IInv, NEW p \in Pollers, NEW c \in Consumers, NEW o \in Operations,
           PollResumes(p, c, o)
    PROVE  IInv'
<1> DEFINE x == [pc |-> "resuming", op |-> o, copy |-> sessions[o], result |-> None]
<1>1. TypeOK /\ sessions[o] # None /\ sessions[o] \in Session
  BY DEF IInv, TypeOK, PollResumes, Visible
<1>2. x \in Resuming
  BY <1>1 DEF Resuming
<1>3. poll' = [poll EXCEPT ![p] = x]
  BY DEF PollResumes
<1>4. x.pc = "resuming" /\ x.op = o /\ x.copy = sessions[o]
  OBVIOUS
<1> HIDE DEF x
<1>5. /\ poll' \in [Pollers -> {Idle} \cup Resuming \cup Storing]
      /\ poll'[p] = x
      /\ \A q \in Pollers : q # p => poll'[q] = poll[q]
  BY <1>1, <1>2, <1>3 DEF TypeOK
<1>6. UNCHANGED <<now, sessions, challenge, dialog, told>>
  BY DEF PollResumes
<1>7. TypeOK'
  BY <1>1, <1>5, <1>6 DEF TypeOK
<1>8. SessionsInv' /\ ToldInv' /\ UnsentInv'
  BY <1>6 DEF IInv, SessionsInv, SessionInv, ToldInv, HeardInv, UnsentInv
<1>9. PollsInv'
  <2> SUFFICES ASSUME NEW q \in Pollers
               PROVE  /\ poll'[q].pc # "idle" => CopyInv(poll[q])'
                      /\ poll'[q].pc = "storing" => ResultInv(poll[q])'
    BY DEF PollsInv
  <2>1. CASE q = p
    <3>1. /\ sessions[o].status = "pending"
          /\ SessionInv(o, sessions[o])
      BY <1>1 DEF PollResumes, IInv, SessionsInv
    <3> QED
      BY <1>1, <1>4, <1>5, <1>6, <2>1, <3>1 DEF CopyInv, SessionInv
  <2>2. CASE q # p
    BY <1>5, <1>6, <2>2 DEF IInv, PollsInv, CopyInv, ResultInv
  <2> QED
    BY <2>1, <2>2
<1> QED
  BY <1>7, <1>8, <1>9 DEF IInv

\* The bank's answers: what every one of them needs to preserve the invariant.
LEMMA AnswersIInv ==
    ASSUME IInv, NEW p \in Pollers, poll[p].pc = "resuming",
           NEW r \in BankResult, Answers(p, r),
           r.status = "pending" =>
              r.state = poll[p].op /\ r.expires > poll[p].copy.created,
           r.status = "completed" =>
              r.payload = poll[p].op /\ challenge[poll[p].op] = "approved",
           r.status = "failed" => r.reason,
           dialog' \in [Operations -> {"open", "ended"}],
           UNCHANGED <<now, sessions, challenge, told>>
    PROVE  IInv'
<1>1. TypeOK /\ poll[p] \in Resuming /\ CopyInv(poll[p])
  BY SlotTypes DEF IInv, PollsInv
<1> DEFINE x == [poll[p] EXCEPT !.pc = "storing", !.result = r]
<1>2. x \in Storing
  BY <1>1 DEF Resuming, Storing
<1>3. x.op = poll[p].op /\ x.copy = poll[p].copy /\ x.result = r
  BY <1>1 DEF Resuming
<1>4. poll' = [poll EXCEPT ![p] = x]
  BY <1>1 DEF Answers, TypeOK
<1> HIDE DEF x
<1>5. /\ poll' \in [Pollers -> {Idle} \cup Resuming \cup Storing]
      /\ poll'[p] = x
      /\ \A q \in Pollers : q # p => poll'[q] = poll[q]
  BY <1>1, <1>2, <1>4 DEF TypeOK
<1>6. TypeOK'
  BY <1>1, <1>5 DEF TypeOK
<1>7. SessionsInv' /\ ToldInv' /\ UnsentInv'
  BY DEF IInv, SessionsInv, SessionInv, ToldInv, HeardInv, UnsentInv
<1>8. PollsInv'
  <2> SUFFICES ASSUME NEW q \in Pollers
               PROVE  /\ poll'[q].pc # "idle" => CopyInv(poll[q])'
                      /\ poll'[q].pc = "storing" => ResultInv(poll[q])'
    BY DEF PollsInv
  <2>1. CASE q = p
    BY <1>1, <1>3, <1>5, <2>1 DEF CopyInv, ResultInv
  <2>2. CASE q # p
    BY <1>5, <2>2 DEF IInv, PollsInv, CopyInv, ResultInv
  <2> QED
    BY <2>1, <2>2
<1> QED
  BY <1>6, <1>7, <1>8 DEF IInv

\* Each answer of the bank is backed by the challenge.
LEMMA BankIInv ==
    ASSUME IInv, NEW p \in Pollers,
           BankStillPending(p) \/ BankApproved(p) \/ BankFailed(p)
    PROVE  IInv'
<1>1. poll[p].pc = "resuming"
  BY DEF BankStillPending, BankApproved, BankFailed
<1>2. /\ TypeOK /\ poll[p] \in Resuming
      /\ CopyInv(poll[p]) /\ poll[p].op \in Operations
      /\ poll[p].copy.state = poll[p].op
  BY <1>1, SlotTypes DEF IInv, PollsInv, CopyInv
<1>3. now \in Nat /\ now + BankWindow \in Nat /\ now + BankWindow > now
  BY <1>2, TimesAssumption DEF TypeOK
<1>4. poll[p].copy.created <= now /\ poll[p].copy.created \in Nat
  <2>1. SessionInv(poll[p].op, sessions[poll[p].op])
    BY <1>2 DEF IInv, SessionsInv, CopyInv
  <2> QED
    BY <1>2, <2>1 DEF CopyInv, SessionInv, Resuming, Session
<1>5. CASE BankStillPending(p)
  <2> DEFINE r == [status |-> "pending", state |-> poll[p].copy.state,
                   expires |-> now + BankWindow, payload |-> None, reason |-> FALSE]
  <2>1. r \in BankResult
    BY <1>2, <1>3 DEF BankResult, Stored
  <2>2. r.expires > poll[p].copy.created
    BY <1>3, <1>4
  <2>3. Answers(p, r) /\ dialog' = dialog /\ UNCHANGED <<now, sessions, challenge, told>>
    BY <1>5 DEF BankStillPending
  <2> QED
    BY <1>1, <1>2, <2>1, <2>2, <2>3, AnswersIInv DEF TypeOK
<1>6. CASE BankApproved(p)
  <2> DEFINE r == [status |-> "completed", state |-> None, expires |-> now,
                   payload |-> poll[p].copy.state, reason |-> FALSE]
  <2>1. r \in BankResult
    BY <1>2, <1>3 DEF BankResult, Stored, Terminal
  <2>2. Answers(p, r) /\ UNCHANGED <<now, sessions, challenge, told>>
    BY <1>6 DEF BankApproved
  <2>3. /\ challenge[poll[p].op] = "approved"
        /\ dialog' \in [Operations -> {"open", "ended"}]
    BY <1>2, <1>6 DEF BankApproved, TypeOK
  <2> QED
    BY <1>1, <1>2, <2>1, <2>2, <2>3, AnswersIInv
<1>7. CASE BankFailed(p)
  <2> DEFINE r == [status |-> "failed", state |-> None, expires |-> now,
                   payload |-> None, reason |-> TRUE]
  <2>1. r \in BankResult
    BY <1>3 DEF BankResult, Stored, Terminal
  <2>2. Answers(p, r) /\ UNCHANGED <<now, sessions, challenge, told>>
    BY <1>7 DEF BankFailed
  <2>3. dialog' \in [Operations -> {"open", "ended"}]
    BY <1>2, <1>7 DEF BankFailed, TypeOK
  <2> QED
    BY <1>1, <2>1, <2>2, <2>3, AnswersIInv
<1> QED
  BY <1>5, <1>6, <1>7

\* An aborted poll leaves the store alone.
LEMMA PollAbortsIInv ==
    ASSUME IInv, NEW p \in Pollers, PollAborts(p)
    PROVE  IInv'
<1>1. TypeOK /\ UNCHANGED <<now, sessions, challenge, told>>
  BY DEF IInv, PollAborts
<1>2. dialog' \in [Operations -> {"open", "ended"}]
  BY <1>1 DEF PollAborts, TypeOK
<1>3. /\ poll' \in [Pollers -> {Idle} \cup Resuming \cup Storing]
      /\ poll'[p] = Idle
      /\ \A q \in Pollers : q # p => poll'[q] = poll[q]
  BY <1>1 DEF PollAborts, TypeOK
<1>4. TypeOK'
  BY <1>1, <1>2, <1>3 DEF TypeOK
<1>5. SessionsInv' /\ ToldInv' /\ UnsentInv'
  BY <1>1 DEF IInv, SessionsInv, SessionInv, ToldInv, HeardInv, UnsentInv
<1>6. PollsInv'
  <2> SUFFICES ASSUME NEW q \in Pollers
               PROVE  /\ poll'[q].pc # "idle" => CopyInv(poll[q])'
                      /\ poll'[q].pc = "storing" => ResultInv(poll[q])'
    BY DEF PollsInv
  <2>1. CASE q = p
    BY <1>3, <2>1 DEF Idle
  <2>2. CASE q # p
    BY <1>1, <1>3, <2>2 DEF IInv, PollsInv, CopyInv, ResultInv
  <2> QED
    BY <2>1, <2>2
<1> QED
  BY <1>4, <1>5, <1>6 DEF IInv

\* The user's decision approves nothing that was completed before.
LEMMA UserDecidesIInv ==
    ASSUME IInv, NEW o \in Operations, NEW decision \in {"approved", "refused"},
           UserDecides(o, decision)
    PROVE  IInv'
<1>1. /\ TypeOK /\ UNCHANGED <<now, sessions, poll, dialog, told>>
      /\ challenge' \in [Operations -> {"unsent", "waiting", "approved", "refused"}]
      /\ challenge[o] = "waiting" /\ challenge'[o] = decision
      /\ \A q \in Operations : q # o => challenge'[q] = challenge[q]
  BY DEF IInv, TypeOK, UserDecides
<1>2. \A q \in Operations : challenge[q] = "approved" => challenge'[q] = "approved"
  BY <1>1
<1>3. TypeOK' /\ UnsentInv'
  BY <1>1 DEF IInv, TypeOK, UnsentInv
<1>4. SessionsInv'
  BY <1>1, <1>2 DEF IInv, SessionsInv, SessionInv
<1>5. PollsInv'
  <2> SUFFICES ASSUME NEW q \in Pollers
               PROVE  /\ poll[q].pc # "idle" => CopyInv(poll[q])'
                      /\ poll[q].pc = "storing" => ResultInv(poll[q])'
    BY <1>1 DEF PollsInv
  <2>1. poll[q].pc # "idle" => poll[q].op \in Operations
    BY <1>1, SlotTypes
  <2> QED
    BY <1>1, <1>2, <2>1 DEF IInv, PollsInv, CopyInv, ResultInv
<1>6. ToldInv'
  BY <1>1, <1>2 DEF IInv, ToldInv, HeardInv
<1> QED
  BY <1>3, <1>4, <1>5, <1>6 DEF IInv

\* Time only makes sessions invisible.
LEMMA TickIInv == ASSUME IInv, Tick PROVE IInv'
<1>1. /\ TypeOK /\ now \in Nat /\ now' = now + 1
      /\ UNCHANGED <<sessions, poll, challenge, dialog, told>>
  BY DEF IInv, TypeOK, Tick
<1>2. TypeOK'
  BY <1>1 DEF TypeOK
<1>3. SessionsInv'
  <2> SUFFICES ASSUME NEW o \in Operations, sessions[o] # None
               PROVE  SessionInv(o, sessions[o])'
    BY <1>1 DEF SessionsInv
  <2>1. sessions[o].created \in Nat /\ SessionInv(o, sessions[o])
    BY <1>1 DEF IInv, SessionsInv, TypeOK, Session
  <2> QED
    BY <1>1, <2>1 DEF SessionInv
<1>4. PollsInv' /\ ToldInv' /\ UnsentInv'
  BY <1>1 DEF IInv, PollsInv, CopyInv, ResultInv, ToldInv, HeardInv, UnsentInv
<1> QED
  BY <1>2, <1>3, <1>4 DEF IInv

\* The updated copy: owner and creation time survive, and the session it makes
\* satisfies what is true of stored sessions.
LEMMA ResumedFacts ==
    ASSUME IInv, NEW p \in Pollers, poll[p].pc = "storing"
    PROVE  /\ Resumed(poll[p].copy, poll[p].result) \in Session
           /\ LET s == Resumed(poll[p].copy, poll[p].result) IN
              /\ s.consumer = poll[p].copy.consumer
              /\ s.created = poll[p].copy.created
              /\ s.created < s.expires
              /\ s.expires <= s.created + Ttl
              /\ s.status = poll[p].result.status
              /\ s.status = "pending" => s.state = poll[p].op /\ s.payload = None
              /\ s.status = "completed" =>
                    s.payload = poll[p].op /\ challenge[poll[p].op] = "approved"
              /\ s.status = "failed" => s.reason
<1>1. /\ TypeOK /\ poll[p] \in Storing
      /\ CopyInv(poll[p]) /\ ResultInv(poll[p])
  BY SlotTypes DEF IInv, PollsInv
<1> DEFINE copy == poll[p].copy
           r == poll[p].result
<1>2. copy \in Session /\ r \in BankResult /\ poll[p].op \in Operations
  BY <1>1 DEF Storing
<1>3. /\ copy.status = "pending" /\ copy.created < copy.expires
      /\ copy.expires <= copy.created + Ttl /\ copy.payload = None
  BY <1>1 DEF CopyInv
<1>4. /\ r.status = "pending" => r.state = poll[p].op /\ r.expires > copy.created
      /\ r.status = "completed" =>
            r.payload = poll[p].op /\ challenge[poll[p].op] = "approved"
      /\ r.status = "failed" => r.reason
  BY <1>1 DEF ResultInv
<1>5. r.status \in {"pending", "completed", "failed"}
  BY <1>2 DEF BankResult, Stored, Terminal
<1> HIDE DEF copy, r
<1> SUFFICES
      /\ Resumed(copy, r) \in Session
      /\ LET s == Resumed(copy, r) IN
         /\ s.consumer = copy.consumer
         /\ s.created = copy.created
         /\ s.created < s.expires
         /\ s.expires <= s.created + Ttl
         /\ s.status = r.status
         /\ s.status = "pending" => s.state = poll[p].op /\ s.payload = None
         /\ s.status = "completed" =>
               s.payload = poll[p].op /\ challenge[poll[p].op] = "approved"
         /\ s.status = "failed" => s.reason
  BY DEF copy, r
<1>6. CASE r.status = "pending"
  <2>1. Resumed(copy, r) = [copy EXCEPT !.state = r.state,
                                        !.expires = CapExpiry(r.expires, copy.created)]
    BY <1>6 DEF Resumed
  <2>2. /\ CapExpiry(r.expires, copy.created) \in Nat
        /\ CapExpiry(r.expires, copy.created) <= copy.created + Ttl
        /\ CapExpiry(r.expires, copy.created) > copy.created
    <3>1. copy.created \in Nat /\ r.expires \in Nat
      BY <1>2 DEF Session, BankResult
    <3> QED
      BY <1>4, <1>6, <3>1, CapExpiryFacts
  <2> QED
    BY <1>2, <1>3, <1>4, <1>6, <2>1, <2>2 DEF Session, BankResult
<1>7. CASE r.status = "completed"
  <2>1. Resumed(copy, r) = [copy EXCEPT !.status = "completed",
                                        !.payload = r.payload, !.state = None]
    BY <1>7 DEF Resumed
  <2> QED
    BY <1>2, <1>3, <1>4, <1>7, <2>1 DEF Session, BankResult, Stored, Terminal
<1>8. CASE r.status = "failed"
  <2>1. Resumed(copy, r) = [copy EXCEPT !.status = "failed",
                                        !.reason = r.reason, !.state = None]
    BY <1>8 DEF Resumed
  <2> QED
    BY <1>2, <1>3, <1>4, <1>8, <2>1 DEF Session, BankResult, Stored, Terminal
<1> QED
  BY <1>5, <1>6, <1>7, <1>8

\* What PollStores leaves in the store.
LEMMA PollStoresFacts ==
    ASSUME IInv, NEW p \in Pollers, PollStores(p)
    PROVE  LET o == poll[p].op
               s == sessions'[o]
           IN  /\ o \in Operations
               /\ sessions[o] # None
               /\ sessions' \in [Operations -> Session \cup {None}]
               /\ \A q \in Operations : q # o => sessions'[q] = sessions[q]
               /\ s # None
               /\ s.consumer = sessions[o].consumer
               /\ s.created = sessions[o].created
               /\ s.status = poll[p].result.status
               /\ SessionInv(o, s)
               /\ s.expires <= s.created + Ttl
<1>1. /\ TypeOK /\ poll[p].pc = "storing" /\ poll[p].op \in Operations
      /\ CopyInv(poll[p])
  BY SlotTypes DEF IInv, PollsInv, PollStores
<1> DEFINE o == poll[p].op
           s0 == Resumed(poll[p].copy, poll[p].result)
<1>2. /\ s0 \in Session
      /\ s0.consumer = poll[p].copy.consumer
      /\ s0.created = poll[p].copy.created
      /\ s0.created < s0.expires
      /\ s0.expires <= s0.created + Ttl
      /\ s0.status = poll[p].result.status
      /\ s0.status = "pending" => s0.state = o /\ s0.payload = None
      /\ s0.status = "completed" => s0.payload = o /\ challenge[o] = "approved"
      /\ s0.status = "failed" => s0.reason
  BY <1>1, ResumedFacts
<1>3. PICK cut \in {0, 1} : Write(o, s0, cut)
  BY DEF PollStores
<1> HIDE DEF s0
<1>4. /\ sessions' \in [Operations -> Session \cup {None}]
      /\ \A q \in Operations : q # o => sessions'[q] = sessions[q]
      /\ sessions'[o] # None
      /\ SameButEviction(sessions'[o], s0)
      /\ s0.expires + Grace - 1 <= sessions'[o].evictAt
  BY <1>1, <1>2, <1>3, WriteFacts
<1>5. /\ sessions[o] # None
      /\ poll[p].copy.consumer = sessions[o].consumer
      /\ poll[p].copy.created = sessions[o].created
      /\ sessions[o].created <= now
  BY <1>1 DEF CopyInv, IInv, SessionsInv, SessionInv
<1>6. SessionInv(o, sessions'[o])
  BY <1>2, <1>4, <1>5 DEF SessionInv, SameButEviction
<1> QED
  BY <1>1, <1>2, <1>4, <1>5, <1>6 DEF SameButEviction

\* The write of a poll keeps the invariant, whatever is in the store by now.
LEMMA PollStoresIInv ==
    ASSUME IInv, NEW p \in Pollers, PollStores(p)
    PROVE  IInv'
<1> DEFINE o == poll[p].op
           c == poll[p].copy.consumer
<1>1. /\ TypeOK /\ poll[p] \in Storing /\ CopyInv(poll[p]) /\ ResultInv(poll[p])
      /\ UNCHANGED <<now, challenge, dialog>>
  BY SlotTypes DEF IInv, PollsInv, PollStores
<1>2. /\ o \in Operations
      /\ sessions[o] # None
      /\ sessions' \in [Operations -> Session \cup {None}]
      /\ \A q \in Operations : q # o => sessions'[q] = sessions[q]
      /\ sessions'[o] # None
      /\ sessions'[o].consumer = sessions[o].consumer
      /\ sessions'[o].created = sessions[o].created
      /\ SessionInv(o, sessions'[o])
  BY PollStoresFacts
<1>3. /\ poll' \in [Pollers -> {Idle} \cup Resuming \cup Storing]
      /\ poll'[p] = Idle
      /\ \A q \in Pollers : q # p => poll'[q] = poll[q]
  BY <1>1 DEF PollStores, TypeOK
<1>4. c \in Consumers /\ poll[p].result.status \in Reported /\ c = sessions[o].consumer
  BY <1>1 DEF Storing, Session, BankResult, Reported, CopyInv
<1>5. /\ told' \in [Operations -> [Consumers -> SUBSET Reported]]
      /\ told'[o][c] \subseteq told[o][c] \cup {poll[p].result.status}
      /\ \A q \in Operations, d \in Consumers :
            q # o \/ d # c => told'[q][d] = told[q][d]
  <2>1. CASE UNCHANGED told
    BY <1>1, <2>1 DEF TypeOK
  <2>2. CASE Report(o, c, poll[p].result.status)
    BY <1>1, <1>2, <1>4, <2>2, ReportFacts
  <2> QED
    BY <2>1, <2>2 DEF PollStores
<1>6. TypeOK'
  BY <1>1, <1>2, <1>3, <1>5 DEF TypeOK
<1>7. SessionsInv'
  <2> SUFFICES ASSUME NEW q \in Operations, sessions'[q] # None
               PROVE  SessionInv(q, sessions[q])'
    BY DEF SessionsInv
  <2>1. SessionInv(q, sessions'[q])
    BY <1>2 DEF IInv, SessionsInv
  <2> QED
    BY <1>1, <2>1 DEF SessionInv
<1>8. PollsInv'
  <2> SUFFICES ASSUME NEW q \in Pollers
               PROVE  /\ poll'[q].pc # "idle" => CopyInv(poll[q])'
                      /\ poll'[q].pc = "storing" => ResultInv(poll[q])'
    BY DEF PollsInv
  <2>1. CASE q = p
    BY <1>3, <2>1 DEF Idle
  <2>2. CASE q # p
    <3>1. /\ poll[q].pc # "idle" => CopyInv(poll[q]) /\ poll[q].op \in Operations
          /\ poll[q].pc = "storing" => ResultInv(poll[q])
      BY <1>1, SlotTypes DEF IInv, PollsInv
    <3>2. CASE poll[q].op = o
      BY <1>1, <1>2, <1>3, <2>2, <3>1, <3>2 DEF CopyInv, ResultInv
    <3>3. CASE poll[q].op # o
      BY <1>1, <1>2, <1>3, <2>2, <3>1, <3>3 DEF CopyInv, ResultInv
    <3> QED
      BY <3>2, <3>3
  <2> QED
    BY <2>1, <2>2
<1>9. ToldInv'
  <2> SUFFICES ASSUME NEW q \in Operations, NEW d \in Consumers
               PROVE  /\ "completed" \in told'[q][d] => challenge[q] = "approved"
                      /\ HeardInv(told'[q][d], d, sessions'[q])
    BY <1>1 DEF ToldInv, HeardInv
  <2>1. /\ "completed" \in told[q][d] => challenge[q] = "approved"
        /\ HeardInv(told[q][d], d, sessions[q])
    BY DEF IInv, ToldInv
  <2>2. sessions[q] # None =>
           sessions'[q] # None /\ sessions'[q].consumer = sessions[q].consumer
    BY <1>2
  <2>3. CASE q # o \/ d # c
    BY <1>5, <2>1, <2>2, <2>3 DEF HeardInv
  <2>4. CASE q = o /\ d = c
    <3>1. poll[p].result.status = "completed" => challenge[o] = "approved"
      BY <1>1 DEF ResultInv
    <3>2. poll[p].result.status # "forbidden"
      BY <1>1 DEF Storing, BankResult, Stored, Terminal
    <3> QED
      BY <1>2, <1>4, <1>5, <2>1, <2>4, <3>1, <3>2 DEF HeardInv
  <2> QED
    BY <2>3, <2>4
<1>10. UnsentInv'
  BY <1>1, <1>2 DEF IInv, UnsentInv
<1> QED
  BY <1>6, <1>7, <1>8, <1>9, <1>10 DEF IInv

-----------------------------------------------------------------------------
\* The invariant is inductive.
LEMMA NextIInv == IInv /\ [Next]_vars => IInv'
<1> SUFFICES ASSUME IInv, [Next]_vars PROVE IInv'
  OBVIOUS
<1>1. CASE UNCHANGED vars
  BY <1>1 DEF vars, IInv, TypeOK, SessionsInv, SessionInv, PollsInv, CopyInv,
              ResultInv, ToldInv, HeardInv, UnsentInv
<1>2. CASE \E o \in Operations, c \in Consumers : Start(o, c) \/ GetStatus(c, o)
  <2>1. PICK o \in Operations, c \in Consumers : Start(o, c) \/ GetStatus(c, o)
    BY <1>2
  <2>2. CASE Start(o, c)
    BY <2>2, StartIInv
  <2>3. CASE GetStatus(c, o)
    BY <2>3, AnsweredIInv
  <2> QED
    BY <2>1, <2>2, <2>3
<1>3. CASE \E p \in Pollers, o \in Operations, c \in Consumers :
              PollAnswered(p, c, o) \/ PollResumes(p, c, o)
  BY <1>3, AnsweredIInv, PollResumesIInv
<1>4. CASE \E p \in Pollers : PollStep(p)
  BY <1>4, BankIInv, PollStoresIInv, PollAbortsIInv DEF PollStep
<1>5. CASE \E o \in Operations, decision \in {"approved", "refused"} :
              UserDecides(o, decision)
  BY <1>5, UserDecidesIInv
<1>6. CASE Tick
  BY <1>6, TickIInv
<1> QED
  BY <1>1, <1>2, <1>3, <1>4, <1>5, <1>6 DEF Next

\* The invariant holds in every reachable state, with any number of polls.
THEOREM InvariantHolds == Spec => []IInv
<1>1. Init => IInv
  BY InitIInv
<1>2. IInv /\ [Next]_vars => IInv'
  BY NextIInv
<1> QED
  BY <1>1, <1>2, PTL DEF Spec

-----------------------------------------------------------------------------
(* The properties TLC checks, for every value of the constants.            *)

\* Every variable stays in its type.
THEOREM TypeCorrect == Spec => []TypeOK
<1>1. IInv => TypeOK
  BY DEF IInv
<1> QED
  BY <1>1, InvariantHolds, PTL

\* Every session in the store can be read back: it satisfies the validators of
\* PendingOperationSession although the poll handler's model_copy skips them.
THEOREM ReadableSessions == Spec => []StoredSessionIsReadable
<1>1. IInv => StoredSessionIsReadable
  BY NoneAssumption
     DEF IInv, SessionsInv, SessionInv, TypeOK, Session, StoredSessionIsReadable
<1> QED
  BY <1>1, InvariantHolds, PTL

\* No bank data is stored or announced before the user approved the operation.
THEOREM CompletionNeedsApproval == Spec => []CompletedWasApproved
<1>1. IInv => CompletedWasApproved
  BY DEF IInv, SessionsInv, SessionInv, ToldInv, CompletedWasApproved
<1> QED
  BY <1>1, InvariantHolds, PTL

\* Consumers hear no status of operations they did not start, by polls or by
\* GET, and only they are told that an operation is not theirs.
THEOREM ToldToOwnerOnly == Spec => []OnlyOwnerIsTold
<1>1. IInv => OnlyOwnerIsTold
  <2> SUFFICES ASSUME IInv, NEW o \in Operations, NEW c \in Consumers
               PROVE  /\ told[o][c] \cap Stored # {} =>
                            sessions[o] # None /\ sessions[o].consumer = c
                      /\ "forbidden" \in told[o][c] =>
                            sessions[o] # None /\ sessions[o].consumer # c
    BY DEF OnlyOwnerIsTold
  <2>1. HeardInv(told[o][c], c, sessions[o])
    BY DEF IInv, ToldInv
  <2> QED
    BY <2>1 DEF HeardInv, Refusals, Stored, Terminal
<1> QED
  BY <1>1, InvariantHolds, PTL

\* Redis keeps every session through its grace period.
THEOREM GraceKept == Spec => []GraceIsKept
<1>1. IInv => GraceIsKept
  <2> SUFFICES ASSUME IInv, NEW o \in Operations, sessions[o] # None, ~Visible(o)
               PROVE  now >= sessions[o].expires + Grace - 1
    BY DEF GraceIsKept
  <2>1. sessions[o] \in Session /\ now \in Nat
    BY DEF IInv, TypeOK
  <2>2. sessions[o].evictAt \in Nat /\ sessions[o].expires \in Nat
    BY <2>1 DEF Session
  <2>3. sessions[o].expires + Grace - 1 <= sessions[o].evictAt
    BY DEF IInv, SessionsInv, SessionInv
  <2>4. now >= sessions[o].evictAt
    BY <2>1, <2>2 DEF Visible
  <2> QED
    BY <2>1, <2>2, <2>3, <2>4, TimesAssumption
<1> QED
  BY <1>1, InvariantHolds, PTL

\* What a step does to the store: nothing, a first session, or a poll's write.
LEMMA StoreSteps ==
    ASSUME IInv, [Next]_vars
    PROVE  \/ sessions' = sessions
           \/ \E o \in Operations, c \in Consumers : Start(o, c)
           \/ \E p \in Pollers : PollStores(p)
<1>1. CASE UNCHANGED vars
  BY <1>1 DEF vars
<1>2. CASE \E o \in Operations, c \in Consumers : Start(o, c) \/ GetStatus(c, o)
  BY <1>2 DEF GetStatus
<1>3. CASE \E p \in Pollers, o \in Operations, c \in Consumers :
              PollAnswered(p, c, o) \/ PollResumes(p, c, o)
  BY <1>3 DEF PollAnswered, PollResumes
<1>4. CASE \E p \in Pollers : PollStep(p)
  BY <1>4 DEF PollStep, BankStillPending, BankApproved, BankFailed, PollAborts
<1>5. CASE \E o \in Operations, decision \in {"approved", "refused"} :
              UserDecides(o, decision)
  BY <1>5 DEF UserDecides
<1>6. CASE Tick
  BY <1>6 DEF Tick
<1> QED
  BY <1>1, <1>2, <1>3, <1>4, <1>5, <1>6 DEF Next

\* A first session is written only where none was.
LEMMA StartIsFirst ==
    ASSUME IInv, NEW o \in Operations, NEW c \in Consumers, Start(o, c)
    PROVE  /\ sessions[o] = None
           /\ \A q \in Operations : q # o => sessions'[q] = sessions[q]
  BY DEF IInv, TypeOK, UnsentInv, Start, Write

\* Owner and creation time are fixed by the first write, and no later write
\* moves the expiry beyond the creation time plus the session TTL.
THEOREM ExpiryStaysAnchored == Spec => ExpiryAnchored
<1> DEFINE Anchored == \A o \in Operations : sessions[o] # None =>
               /\ sessions'[o] # None
               /\ sessions'[o].consumer = sessions[o].consumer
               /\ sessions'[o].created = sessions[o].created
               /\ sessions'[o].expires <= sessions[o].created + Ttl
<1>1. ASSUME IInv, [Next]_vars PROVE Anchored
  <2> SUFFICES ASSUME NEW o \in Operations, sessions[o] # None
               PROVE  /\ sessions'[o] # None
                      /\ sessions'[o].consumer = sessions[o].consumer
                      /\ sessions'[o].created = sessions[o].created
                      /\ sessions'[o].expires <= sessions[o].created + Ttl
    OBVIOUS
  <2>1. sessions[o].expires <= sessions[o].created + Ttl
    BY <1>1 DEF IInv, SessionsInv, SessionInv
  <2>2. CASE sessions' = sessions
    BY <2>1, <2>2
  <2>3. CASE \E q \in Operations, c \in Consumers : Start(q, c)
    BY <1>1, <2>1, <2>3, StartIsFirst
  <2>4. CASE \E p \in Pollers : PollStores(p)
    <3>1. PICK p \in Pollers : PollStores(p)
      BY <2>4
    <3>2. CASE poll[p].op = o
      BY <1>1, <3>1, <3>2, PollStoresFacts
    <3>3. CASE poll[p].op # o
      BY <1>1, <2>1, <3>1, <3>3, PollStoresFacts
    <3> QED
      BY <3>2, <3>3
  <2> QED
    BY <1>1, <2>2, <2>3, <2>4, StoreSteps
<1>2. IInv /\ [Next]_vars => [Anchored]_sessions
  BY <1>1
<1> QED
  BY <1>2, InvariantHolds, PTL DEF Spec, ExpiryAnchored

-----------------------------------------------------------------------------
(* A client that polls one at a time.                                      *)

\* Then no two slots work on the same operation, and what a slot read is still
\* what the store holds.
SequentialInv ==
    \A p \in Pollers : poll[p].pc # "idle" =>
        /\ poll[p].copy = sessions[poll[p].op]
        /\ \A q \in Pollers : q # p /\ poll[q].pc # "idle" => poll[q].op # poll[p].op

\* A step other than the resumption of a poll and the write that ends one
\* neither starts work in a slot nor changes its operation or copy.
LEMMA OtherSlots ==
    ASSUME IInv, [Next]_vars
    PROVE  \/ \E p \in Pollers, c \in Consumers, o \in Operations : PollResumes(p, c, o)
           \/ \E p \in Pollers : PollStores(p)
           \/ \A p \in Pollers : poll'[p].pc # "idle" =>
                 /\ poll[p].pc # "idle"
                 /\ poll'[p].op = poll[p].op
                 /\ poll'[p].copy = poll[p].copy
<1> DEFINE Kept == \A p \in Pollers : poll'[p].pc # "idle" =>
                 /\ poll[p].pc # "idle"
                 /\ poll'[p].op = poll[p].op
                 /\ poll'[p].copy = poll[p].copy
<1>1. CASE UNCHANGED vars
  BY <1>1 DEF vars
<1>2. CASE \E o \in Operations, c \in Consumers : Start(o, c) \/ GetStatus(c, o)
  BY <1>2 DEF Start, GetStatus
<1>3. CASE \E p \in Pollers, o \in Operations, c \in Consumers :
              PollAnswered(p, c, o) \/ PollResumes(p, c, o)
  BY <1>3 DEF PollAnswered
<1>4. CASE \E p \in Pollers : PollStep(p)
  <2>1. PICK p \in Pollers : PollStep(p)
    BY <1>4
  <2>2. poll \in [Pollers -> {Idle} \cup Resuming \cup Storing]
    BY DEF IInv, TypeOK
  <2>3. CASE PollAborts(p)
    BY <2>2, <2>3 DEF PollAborts, Idle
  <2>4. CASE BankStillPending(p) \/ BankApproved(p) \/ BankFailed(p)
    <3>1. poll[p].pc = "resuming" /\ poll[p] \in Resuming
      BY <2>4, SlotTypes DEF IInv, BankStillPending, BankApproved, BankFailed
    <3>2. PICK r : Answers(p, r)
      BY <2>4 DEF BankStillPending, BankApproved, BankFailed
    <3>3. poll'[p].op = poll[p].op /\ poll'[p].copy = poll[p].copy
      BY <2>2, <3>1, <3>2 DEF Answers, Resuming
    <3>4. \A q \in Pollers : q # p => poll'[q] = poll[q]
      BY <2>2, <3>2 DEF Answers
    <3> QED
      BY <3>1, <3>3, <3>4
  <2> QED
    BY <2>1, <2>3, <2>4 DEF PollStep
<1>5. CASE \E o \in Operations, decision \in {"approved", "refused"} :
              UserDecides(o, decision)
  BY <1>5 DEF UserDecides
<1>6. CASE Tick
  BY <1>6 DEF Tick
<1> QED
  BY <1>1, <1>2, <1>3, <1>4, <1>5, <1>6 DEF Next

\* With one poll at a time, what a poll carries is still what is stored.
LEMMA SequentialStep ==
    ASSUME OnePollAtATime, IInv, SequentialInv, [Next]_vars
    PROVE  SequentialInv'
<1>1. TypeOK
  BY DEF IInv
<1>2. CASE \E p \in Pollers, c \in Consumers, o \in Operations : PollResumes(p, c, o)
  <2>1. PICK p \in Pollers, c \in Consumers, o \in Operations : PollResumes(p, c, o)
    BY <1>2
  <2>2. sessions' = sessions /\ ~InFlight(o)
    BY <2>1 DEF PollResumes
  <2>3. \A q \in Pollers : poll[q].pc # "idle" => poll[q].op # o
    BY <1>1, <2>2, SlotTypes DEF InFlight
  <2> DEFINE x == [pc |-> "resuming", op |-> o, copy |-> sessions[o], result |-> None]
  <2>4. poll'[p] = x /\ \A q \in Pollers : q # p => poll'[q] = poll[q]
    BY <1>1, <2>1 DEF PollResumes, TypeOK
  <2>5. poll'[p].op = o /\ poll'[p].copy = sessions[o]
    BY <2>4
  <2> QED
    BY <2>2, <2>3, <2>4, <2>5 DEF SequentialInv
<1>3. CASE \E p \in Pollers : PollStores(p)
  <2>1. PICK p \in Pollers : PollStores(p)
    BY <1>3
  <2>2. poll'[p] = Idle /\ \A q \in Pollers : q # p => poll'[q] = poll[q]
    BY <1>1, <2>1 DEF PollStores, TypeOK
  <2>3. \A o \in Operations : o # poll[p].op => sessions'[o] = sessions[o]
    BY <2>1, PollStoresFacts
  <2>4. poll[p].pc # "idle"
    BY <2>1 DEF PollStores
  <2> SUFFICES ASSUME NEW q \in Pollers, poll'[q].pc # "idle"
               PROVE  /\ poll'[q].copy = sessions'[poll'[q].op]
                      /\ \A r \in Pollers : r # q /\ poll'[r].pc # "idle" =>
                            poll'[r].op # poll'[q].op
    BY DEF SequentialInv
  <2>5. q # p /\ poll'[q] = poll[q]
    BY <2>2 DEF Idle
  <2>6. poll[q].op \in Operations /\ poll[q].op # poll[p].op
    BY <1>1, <2>4, <2>5, SlotTypes DEF SequentialInv
  <2> QED
    BY <2>2, <2>3, <2>5, <2>6 DEF SequentialInv, Idle
<1>4. CASE \E o \in Operations, c \in Consumers : Start(o, c)
  <2>1. PICK o \in Operations, c \in Consumers : Start(o, c)
    BY <1>4
  <2>2. poll' = poll /\ sessions[o] = None
        /\ \A q \in Operations : q # o => sessions'[q] = sessions[q]
    BY <2>1, StartIsFirst DEF Start
  <2>3. \A p \in Pollers : poll[p].pc # "idle" =>
           poll[p].op \in Operations /\ poll[p].op # o
    BY <1>1, <2>2, SlotTypes DEF IInv, PollsInv, CopyInv
  <2> QED
    BY <2>2, <2>3 DEF SequentialInv
<1>5. CASE /\ sessions' = sessions
           /\ \A p \in Pollers : poll'[p].pc # "idle" =>
                 /\ poll[p].pc # "idle"
                 /\ poll'[p].op = poll[p].op
                 /\ poll'[p].copy = poll[p].copy
  BY <1>5 DEF SequentialInv
<1> QED
  BY <1>2, <1>3, <1>4, <1>5, StoreSteps, OtherSlots

\* The same, in every reachable state.
LEMMA SequentialHolds ==
    ASSUME OnePollAtATime PROVE Spec => [](IInv /\ SequentialInv)
<1>1. Init => IInv /\ SequentialInv
  BY InitIInv DEF Init, Idle, SequentialInv
<1>2. IInv /\ SequentialInv /\ [Next]_vars => (IInv /\ SequentialInv)'
  BY NextIInv, SequentialStep
<1> QED
  BY <1>1, <1>2, PTL DEF Spec

\* A poll of a sequential client writes only over the pending session it read.
LEMMA SequentialWrites ==
    ASSUME IInv, SequentialInv, NEW p \in Pollers, PollStores(p)
    PROVE  /\ poll[p].op \in Operations
           /\ sessions[poll[p].op] # None
           /\ sessions[poll[p].op].status = "pending"
  BY SlotTypes DEF IInv, PollsInv, CopyInv, SequentialInv, PollStores

\* For a client that polls one at a time, a completed or failed session is
\* never written again.
THEOREM SettledStays ==
    ASSUME OnePollAtATime PROVE Spec => SettledIsFinal
<1> DEFINE Final == \A o \in Operations :
              sessions[o] # None /\ sessions[o].status \in Terminal =>
                  sessions'[o] = sessions[o]
<1>1. ASSUME IInv, SequentialInv, [Next]_vars PROVE Final
  <2> SUFFICES ASSUME NEW o \in Operations,
                      sessions[o] # None, sessions[o].status \in Terminal
               PROVE  sessions'[o] = sessions[o]
    OBVIOUS
  <2>1. CASE \E q \in Operations, c \in Consumers : Start(q, c)
    BY <1>1, <2>1, StartIsFirst
  <2>2. CASE \E p \in Pollers : PollStores(p)
    BY <1>1, <2>2, SequentialWrites, PollStoresFacts DEF Terminal
  <2> QED
    BY <1>1, <2>1, <2>2, StoreSteps
<1>2. IInv /\ SequentialInv /\ [Next]_vars => [Final]_sessions
  BY <1>1
<1> QED
  BY <1>2, SequentialHolds, PTL DEF Spec, SettledIsFinal

-----------------------------------------------------------------------------
(* The handlers implement OperationApi.                                    *)

\* Refinement: the initial state.
LEMMA ApiInitial == Init => Api!ApiInit
  BY DEF Init, Api!ApiInit, Owner, Verdict

\* A step that reports to c without touching the store informs, refuses or
\* forbids.
LEMMA ApiReport ==
    ASSUME TypeOK, NEW o \in Operations, NEW c \in Consumers, sessions' = sessions,
           \/ Report(o, c, "expired") \/ Report(o, c, "missing")
           \/ /\ sessions[o] # None /\ sessions[o].consumer # c
              /\ Report(o, c, "forbidden")
           \/ /\ sessions[o] # None /\ sessions[o].consumer = c
              /\ Report(o, c, sessions[o].status)
    PROVE  Api!Inform(o, c) \/ Api!Refuse(o, c) \/ Api!Forbid(o, c)
<1>1. Owner' = Owner /\ Verdict' = Verdict
  BY DEF Owner, Verdict
<1>2. CASE Report(o, c, "expired") \/ Report(o, c, "missing")
  BY <1>1, <1>2 DEF Api!Refuse, Api!Tells, Report
<1>4. CASE /\ sessions[o] # None /\ sessions[o].consumer # c
           /\ Report(o, c, "forbidden")
  <2>1. Owner[o] \notin {None, c}
    BY <1>4, NoneAssumption DEF Owner, TypeOK, Session
  <2> QED
    BY <1>1, <1>4, <2>1 DEF Api!Forbid, Api!Tells, Report
<1>3. CASE /\ sessions[o] # None /\ sessions[o].consumer = c
           /\ Report(o, c, sessions[o].status)
  <2>1. Owner[o] = c
    BY <1>3 DEF Owner
  <2>2. sessions[o].status \in Api!Sayable(Verdict[o])
    <3>1. sessions[o].status = "pending" => Verdict[o] = "open"
      BY <1>3 DEF Verdict
    <3>2. sessions[o].status # "pending" =>
             Verdict[o] = sessions[o].status /\ sessions[o].status # "open"
      BY <1>3 DEF Verdict, TypeOK, Session, Stored, Terminal
    <3> QED
      BY <3>1, <3>2 DEF Api!Sayable
  <2> QED
    BY <1>1, <1>3, <2>1, <2>2 DEF Api!Inform, Api!Tells, Report
<1> QED
  BY <1>2, <1>3, <1>4

\* Refinement: a new session submits the operation.
LEMMA ApiStart ==
    ASSUME IInv, NEW o \in Operations, NEW c \in Consumers, Start(o, c)
    PROVE  Api!Submit(o, c)
<1> DEFINE s0 == [consumer |-> c, status |-> "pending", created |-> now,
                  expires |-> CapExpiry(now + BankWindow, now), evictAt |-> 0,
                  state |-> o, payload |-> None, reason |-> FALSE]
<1>1. TypeOK /\ sessions[o] = None
      /\ \A q \in Operations : q # o => sessions'[q] = sessions[q]
  BY StartIsFirst DEF IInv
<1>2. PICK cut \in {0, 1} : Write(o, s0, cut)
  BY DEF Start
<1>3. sessions'[o] = [s0 EXCEPT !.evictAt = EvictionTime(s0.expires, cut)]
  BY <1>1, <1>2 DEF Write, TypeOK
<1>4. sessions'[o].consumer = c /\ sessions'[o].status = "pending"
  BY <1>3
<1>5. /\ now \in Nat /\ now + BankWindow \in Nat
      /\ CapExpiry(now + BankWindow, now) \in Nat
  BY <1>1, CapExpiryFacts, TimesAssumption DEF TypeOK
<1>6. sessions'[o] # None
  <2>1. s0 \in Session
    BY <1>5 DEF Session, Stored
  <2> HIDE DEF s0
  <2> QED
    BY <1>1, <1>2, <2>1, WriteFacts
<1>7. Owner[o] = None /\ Owner' = [Owner EXCEPT ![o] = c]
  BY <1>1, <1>4, <1>6 DEF Owner
<1>8. Verdict' = Verdict
  BY <1>1, <1>4, <1>6 DEF Verdict
<1> QED
  BY <1>7, <1>8 DEF Start, Report, Api!Submit, Api!Tells

\* A poll's write settles an open verdict, or leaves it open and informs.
LEMMA ApiStores ==
    ASSUME IInv, SequentialInv, NEW p \in Pollers, PollStores(p)
    PROVE  [Api!ApiNext]_Api!apiVars
<1> DEFINE o == poll[p].op
           v == poll[p].result.status
<1>1. /\ TypeOK /\ poll[p] \in Storing /\ CopyInv(poll[p])
      /\ o \in Operations /\ sessions[o] # None /\ sessions[o].status = "pending"
  BY SlotTypes, SequentialWrites DEF IInv, PollsInv, PollStores
<1>2. /\ \A q \in Operations : q # o => sessions'[q] = sessions[q]
      /\ sessions'[o] # None
      /\ sessions'[o].consumer = sessions[o].consumer
      /\ sessions'[o].status = v
  BY PollStoresFacts
<1>3. Owner' = Owner
  BY <1>1, <1>2 DEF Owner
<1>4. /\ Owner[o] = sessions[o].consumer /\ Owner[o] # None
      /\ Owner[o] = poll[p].copy.consumer /\ Owner[o] \in Consumers
  BY <1>1, NoneAssumption DEF Owner, TypeOK, Session, CopyInv
<1>5. Verdict[o] = "open"
  BY <1>1 DEF Verdict
<1>6. Report(o, Owner[o], v) \/ UNCHANGED told
  BY <1>4 DEF PollStores
<1>7. v \in {"pending", "completed", "failed"}
  BY <1>1 DEF Storing, BankResult, Stored, Terminal
<1>8. CASE v = "pending"
  <2>1. Verdict' = Verdict
    BY <1>1, <1>2, <1>8 DEF Verdict
  <2>2. v \in Api!Sayable(Verdict[o])
    BY <1>5, <1>8 DEF Api!Sayable
  <2>3. CASE UNCHANGED told
    BY <1>3, <2>1, <2>3 DEF Api!apiVars
  <2>4. CASE Report(o, Owner[o], v)
    <3>1. Api!Inform(o, Owner[o])
      BY <1>3, <2>1, <2>2, <2>4 DEF Api!Inform, Api!Tells, Report
    <3> QED
      BY <1>1, <1>4, <3>1 DEF Api!ApiNext
  <2> QED
    BY <1>6, <2>3, <2>4
<1>9. CASE v \in {"completed", "failed"}
  <2>1. Verdict' = [Verdict EXCEPT ![o] = v]
    BY <1>1, <1>2, <1>9 DEF Verdict
  <2>2. Api!Settle(o, v)
    BY <1>3, <1>4, <1>5, <1>6, <2>1 DEF Api!Settle, Api!Tells, Report
  <2> QED
    BY <1>1, <1>9, <2>2 DEF Api!ApiNext
<1> QED
  BY <1>7, <1>8, <1>9

\* Refinement: every step is a step of the API or a stutter.
LEMMA ApiStep ==
    ASSUME IInv, SequentialInv, [Next]_vars
    PROVE  [Api!ApiNext]_Api!apiVars
<1>1. TypeOK
  BY DEF IInv
<1> DEFINE Silent == UNCHANGED <<sessions, told>>
<1>2. CASE Silent
  BY <1>2 DEF Api!apiVars, Owner, Verdict
<1>3. CASE UNCHANGED vars
  BY <1>2, <1>3 DEF vars
<1>4. CASE \E o \in Operations, c \in Consumers : Start(o, c) \/ GetStatus(c, o)
  <2>1. PICK o \in Operations, c \in Consumers : Start(o, c) \/ GetStatus(c, o)
    BY <1>4
  <2>2. CASE Start(o, c)
    BY <2>2, ApiStart DEF Api!ApiNext
  <2>3. CASE GetStatus(c, o)
    BY <1>1, <2>3, ApiReport DEF GetStatus, StatusNow, Visible, Api!ApiNext
  <2> QED
    BY <2>1, <2>2, <2>3
<1>5. CASE \E p \in Pollers, o \in Operations, c \in Consumers :
              PollAnswered(p, c, o) \/ PollResumes(p, c, o)
  <2>1. PICK p \in Pollers, o \in Operations, c \in Consumers :
              PollAnswered(p, c, o) \/ PollResumes(p, c, o)
    BY <1>5
  <2>2. CASE PollAnswered(p, c, o)
    BY <1>1, <2>2, ApiReport DEF PollAnswered, Visible, Api!ApiNext
  <2>3. CASE PollResumes(p, c, o)
    BY <1>2, <2>3 DEF PollResumes
  <2> QED
    BY <2>1, <2>2, <2>3
<1>6. CASE \E p \in Pollers : PollStep(p)
  BY <1>2, <1>6, ApiStores
     DEF PollStep, BankStillPending, BankApproved, BankFailed, PollAborts
<1>7. CASE \E o \in Operations, decision \in {"approved", "refused"} :
              UserDecides(o, decision)
  BY <1>2, <1>7 DEF UserDecides
<1>8. CASE Tick
  BY <1>2, <1>8 DEF Tick
<1> QED
  BY <1>3, <1>4, <1>5, <1>6, <1>7, <1>8 DEF Next

\* For a client that polls one at a time, the handlers keep the promise of the
\* operations API: one verdict, told truthfully, and to the owner only.
THEOREM SequentialClientsSeeTheApi ==
    ASSUME OnePollAtATime PROVE Spec => ImplementsApi
<1>1. Init => Api!ApiInit
  BY ApiInitial
<1>2. IInv /\ SequentialInv /\ [Next]_vars => [Api!ApiNext]_Api!apiVars
  BY ApiStep
<1> QED
  BY <1>1, <1>2, SequentialHolds, PTL DEF Spec, ImplementsApi, Api!ApiSpec
=============================================================================
