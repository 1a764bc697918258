----------------------------- MODULE UserAdmin -----------------------------
(***************************************************************************)
(* API consumers: the admin commands that write the api_consumers table    *)
(* and the gateway's check of a presented key against it.                  *)
(*                                                                         *)
(* A command reads the whole row, changes the copy and, after an await,    *)
(* writes the whole row back: nothing keeps two commands (two CLI          *)
(* processes, two requests of the admin API) from interleaving.            *)
(* A key is a number; its Argon2 hash is the number too, since all that    *)
(* matters is that a hash verifies the key it was made from and no other.  *)
(***************************************************************************)
EXTENDS Integers, FiniteSets

CONSTANTS
    Users,      \* the user ids that new_operation_id will hand out
    Emails,
    Admins,     \* commands that may run at the same time
    Requests,   \* requests that the gateway may authenticate at the same time
    Prefix,     \* per user: the first eight digits of the id
    NoEmail,
    MaxKeys     \* bound: keys ever generated

ASSUME UserAssumption ==
    /\ NoEmail \notin Emails
    /\ MaxKeys \in Nat

VARIABLES
    row,        \* api_consumers
    generated,  \* the number of keys generated
    cmd,        \* per admin: the command it runs
    mailed,     \* keys sent out by e-mail
    request,    \* per request: how far its authentication is
    rerolled,   \* audit_events: users with a token_rerolled event
    keys,       \* history: per user, the keys its row ever held
    revoked     \* history: keys replaced, disabled or deleted by a stored change

vars == <<row, generated, cmd, mailed, request, rerolled, keys, revoked>>

gateway == <<request>>
table == <<row, keys, revoked>>
outside == <<mailed, rerolled>>

Row ==
    [status : {"none", "active", "disabled", "deleted"},
     hash : Nat, email : Emails \cup {NoEmail}]

User(status, hash, email) == [status |-> status, hash |-> hash, email |-> email]

Absent == User("none", 0, NoEmail)

Command ==
    [pc : {"find", "save", "mail", "audit"}, user : Users, copy : Row, key : Nat,
     op : {"create", "update", "disable", "delete", "reactivate", "rotate"}]

Idle == [pc |-> "idle"]

Request ==
    [pc : {"lookup", "accepted"}, of : Users, key : Nat, late : BOOLEAN, as : Users]

TypeOK ==
    /\ row \in [Users -> Row]
    /\ generated \in Nat
    /\ cmd \in [Admins -> Command \cup {Idle}]
    /\ mailed \subseteq Nat
    /\ request \in [Requests -> Request \cup {Idle}]
    /\ rerolled \subseteq Users
    /\ keys \in [Users -> SUBSET Nat]
    /\ revoked \subseteq Nat

Init ==
    /\ row = [u \in Users |-> Absent]
    /\ generated = 0
    /\ cmd = [a \in Admins |-> Idle]
    /\ mailed = {}
    /\ request = [r \in Requests |-> Idle]
    /\ rerolled = {}
    /\ keys = [u \in Users |-> {}]
    /\ revoked = {}

-----------------------------------------------------------------------------
(* Reading, and what is done with the copy before the next await.          *)

\* key: the raw key to hand out, or 0.
Hold(a, op, pc, u, copy, key) ==
    cmd' = [cmd EXCEPT ![a] =
               [op |-> op, pc |-> pc, user |-> u, copy |-> copy, key |-> key]]

Done(a) == cmd' = [cmd EXCEPT ![a] = Idle]

\* secrets.token_urlsafe: a key nobody had before.
NewKey == generated + 1
Generate == generated < MaxKeys /\ generated' = generated + 1

\* get_by_email finds nobody but, at most, u.
EmailFree(e, u) == \A v \in Users \ {u} : row[v].email # e

\* uuid4: an id that no row and no other command has.
FreshId(u) ==
    /\ row[u] = Absent
    /\ \A b \in Admins : cmd[b] # Idle => cmd[b].user # u

Create(a, u, e) ==
    /\ cmd[a] = Idle
    /\ FreshId(u)
    /\ EmailFree(e, u)
    /\ Generate
    /\ Hold(a, "create", "save", u,
            User("active", NewKey, e), NewKey)
    /\ UNCHANGED <<table, outside, gateway>>

\* get_by_id, followed by the status checks of the command.
Loads(a, u, allowed) ==
    /\ cmd[a] = Idle
    /\ row[u].status \in allowed
    /\ UNCHANGED <<table, outside, gateway>>

Disable(a, u) ==
    /\ Loads(a, u, {"active"})
    /\ Hold(a, "disable", "save", u, User("disabled", row[u].hash, row[u].email), 0)
    /\ UNCHANGED generated

Delete(a, u) ==
    /\ Loads(a, u, {"active", "disabled"})
    /\ Hold(a, "delete", "save", u,
            User("deleted", 0, row[u].email), 0)
    /\ UNCHANGED generated

\* Mutant: a deleted user is not refused.
ReactivateAnyone(a, u) ==
    /\ Loads(a, u, {"disabled", "deleted"})
    /\ Generate
    /\ Hold(a, "reactivate", "save", u,
            User("active", NewKey, row[u].email), NewKey)

Reactivate(a, u) ==
    /\ Loads(a, u, {"disabled"})
    /\ Generate
    /\ Hold(a, "reactivate", "save", u,
            User("active", NewKey, row[u].email), NewKey)

\* Mutant: the new hash is not put into the user that is saved.
RotateForgets(a, u) ==
    /\ Loads(a, u, {"active", "disabled"})
    /\ Generate
    /\ Hold(a, "rotate", "save", u, row[u], NewKey)

Rotate(a, u) ==
    /\ Loads(a, u, {"active", "disabled"})
    /\ Generate
    /\ Hold(a, "rotate", "save", u, User(row[u].status, NewKey, row[u].email), NewKey)

\* The e-mail of a deleted user can be changed too.
Update(a, u, e) ==
    /\ Loads(a, u, {"active", "disabled", "deleted"})
    /\ Hold(a, "update", "find", u, User(row[u].status, row[u].hash, e), 0)
    /\ UNCHANGED generated

\* update_user's get_by_email; somebody else's address ends the command.
Find(a) ==
    /\ cmd[a].pc = "find"
    /\ IF EmailFree(cmd[a].copy.email, cmd[a].user)
          THEN cmd' = [cmd EXCEPT ![a].pc = "save"]
          ELSE Done(a)
    /\ UNCHANGED <<table, generated, outside, gateway>>

-----------------------------------------------------------------------------
(* Writing.                                                                *)

\* Mutant: without the unique column, the check before it is not enough.
SaveUnchecked(a) ==
    LET c == cmd[a]
    IN  /\ c.pc = "save"
        /\ row' = [row EXCEPT ![c.user] = c.copy]
        /\ keys' = [keys EXCEPT ![c.user] = @ \cup ({c.copy.hash} \ {0})]
        /\ revoked' = IF c.op = "update" THEN revoked
                      ELSE (revoked \cup keys[c.user]) \ {c.key}
        /\ IF c.key = 0 THEN Done(a) ELSE cmd' = [cmd EXCEPT ![a].pc = "mail"]
        /\ UNCHANGED <<generated, outside, gateway>>

\* Mutant: only the columns that the command is about are written.
SavePartly(a) ==
    LET c == cmd[a]
        u == c.user
    IN  /\ c.pc = "save"
        /\ EmailFree(c.copy.email, u)
        /\ row' = [row EXCEPT ![u] =
                      CASE c.op = "update" -> [@ EXCEPT !.email = c.copy.email]
                        [] c.op = "rotate" -> [@ EXCEPT !.hash = c.copy.hash]
                        [] c.op = "disable" -> [@ EXCEPT !.status = "disabled"]
                        [] c.op = "reactivate" -> [@ EXCEPT !.status = "active"]
                        [] OTHER -> c.copy]
        /\ keys' = [keys EXCEPT ![u] = @ \cup ({c.copy.hash} \ {0})]
        /\ revoked' = IF c.op = "update" THEN revoked
                      ELSE (revoked \cup keys[u]) \ {c.key}
        /\ IF c.key = 0 THEN Done(a) ELSE cmd' = [cmd EXCEPT ![a].pc = "mail"]
        /\ UNCHANGED <<generated, outside, gateway>>

\* The whole row is replaced in one transaction.  The unique column email is
\* the guard; when it does not hold the command can only fail.
Save(a) ==
    LET c == cmd[a]
    IN  /\ c.pc = "save"
        /\ EmailFree(c.copy.email, c.user)
        /\ row' = [row EXCEPT ![c.user] = c.copy]
        /\ keys' = [keys EXCEPT ![c.user] = @ \cup ({c.copy.hash} \ {0})]
        /\ revoked' = IF c.op = "update" THEN revoked
                      ELSE (revoked \cup keys[c.user]) \ {c.key}
        /\ IF c.key = 0 THEN Done(a) ELSE cmd' = [cmd EXCEPT ![a].pc = "mail"]
        /\ UNCHANGED <<generated, outside, gateway>>

\* Mutant: the mail is left to a queue that this command does not know.
MailQueues(a) ==
    /\ cmd[a].pc = "mail"
    /\ cmd' = [cmd EXCEPT ![a].pc = "queued"]
    /\ UNCHANGED <<table, generated, outside, gateway>>

\* send_token_email; rotate_user_key goes on to its audit event.
Mail(a) ==
    /\ cmd[a].pc = "mail"
    /\ mailed' = mailed \cup {cmd[a].key}
    /\ IF cmd[a].op = "rotate"
          THEN cmd' = [cmd EXCEPT ![a].pc = "audit"]
          ELSE Done(a)
    /\ UNCHANGED <<table, generated, rerolled, gateway>>

Audit(a) ==
    /\ cmd[a].pc = "audit"
    /\ rerolled' = rerolled \cup {cmd[a].user}
    /\ Done(a)
    /\ UNCHANGED <<table, generated, mailed, gateway>>

\* Mutant: the audit event is written in a finally block.
FailsAudited(a) ==
    /\ cmd[a] # Idle
    /\ rerolled' = IF cmd[a].op = "rotate"
                      THEN rerolled \cup {cmd[a].user} ELSE rerolled
    /\ Done(a)
    /\ UNCHANGED <<table, generated, mailed, gateway>>

\* Any step may raise (IntegrityError, SMTP, the audit table, whose error is
\* swallowed) and any process may die: what was saved stays saved.
Fails(a) ==
    /\ cmd[a] # Idle
    /\ Done(a)
    /\ UNCHANGED <<table, generated, outside, gateway>>

-----------------------------------------------------------------------------
(* The gateway: AuthenticateConsumerQuery.                                 *)

admin == <<row, generated, cmd, mailed, rerolled, keys, revoked>>

\* A request arrives with a key that u was given, now or long ago.
Present(r, u, k) ==
    /\ request[r] = Idle
    /\ k \in keys[u]
    /\ request' = [request EXCEPT ![r] =
          [pc |-> "lookup", of |-> u, key |-> k, late |-> k \in revoked, as |-> u]]
    /\ UNCHANGED admin

Accept(r, c) == request' = [request EXCEPT ![r].pc = "accepted", ![r].as = c]
Refuse(r) == request' = [request EXCEPT ![r] = Idle]

\* get_by_key_prefix: an unordered first(), so that ids with the same first
\* eight digits hide each other.
Found(u) ==
    {c \in Users : Prefix[c] = Prefix[u] /\ row[c].status \in {"active", "disabled"}}

\* Mutant: the prefix alone is enough.
LookupTrusts(r) ==
    /\ request[r].pc = "lookup"
    /\ \/ Found(request[r].of) = {} /\ Refuse(r)
       \/ \E c \in Found(request[r].of) :
             IF row[c].status = "active" THEN Accept(r, c) ELSE Refuse(r)
    /\ UNCHANGED admin

\* Mutant: a disabled consumer is not told apart.
LookupDisabled(r) ==
    /\ request[r].pc = "lookup"
    /\ \/ Found(request[r].of) = {} /\ Refuse(r)
       \/ \E c \in Found(request[r].of) :
             IF row[c].hash = request[r].key THEN Accept(r, c) ELSE Refuse(r)
    /\ UNCHANGED admin

\* The audit event of each outcome is left out: nothing reads it, and
\* AuditService absorbs the error when it cannot be written.
Lookup(r) ==
    /\ request[r].pc = "lookup"
    /\ \/ Found(request[r].of) = {} /\ Refuse(r)
       \/ \E c \in Found(request[r].of) :
             IF row[c].status = "active" /\ row[c].hash = request[r].key
                THEN Accept(r, c)
                ELSE Refuse(r)
    /\ UNCHANGED admin

\* The router goes on with the consumer id.
Answer(r) ==
    /\ request[r] # Idle
    /\ request[r].pc = "accepted"
    /\ request' = [request EXCEPT ![r] = Idle]
    /\ UNCHANGED admin

-----------------------------------------------------------------------------
Next ==
    \/ \E a \in Admins, u \in Users :
          \/ Disable(a, u) \/ Delete(a, u) \/ Reactivate(a, u) \/ Rotate(a, u)
          \/ \E e \in Emails : Create(a, u, e) \/ Update(a, u, e)
    \/ \E a \in Admins : Find(a) \/ Save(a) \/ Mail(a) \/ Audit(a) \/ Fails(a)
    \/ \E r \in Requests :
          \/ \E u \in Users : \E k \in keys[u] : Present(r, u, k)
          \/ Lookup(r)
          \/ Answer(r)

Spec == Init /\ [][Next]_vars

-----------------------------------------------------------------------------
(* What holds whatever the commands that run at the same time do.          *)

\* No two users have one address, although the check for it and the write lie
\* in different transactions (create_user, update_user).
EmailsUnique ==
    \A u, v \in Users :
        u # v /\ row[u] # Absent => row[u].email # row[v].email

\* An active row has a hash, so that reading it back never raises: the writes
\* of two commands cannot be mixed.  A deleted row has none.
RowsReadable ==
    \A u \in Users :
        /\ row[u].status = "active" => row[u].hash # 0
        /\ row[u].status = "deleted" => row[u].hash = 0

\* Nobody is sent a key that was not stored before: a failing save hands out
\* nothing.
MailedKeyWasStored ==
    mailed \subseteq UNION {keys[u] : u \in Users}

\* A request is accepted as the user whom its key was given to, also when two
\* ids share their first eight digits.
AcceptedAsOwner ==
    \A r \in Requests :
        request[r] # Idle /\ request[r].pc = "accepted" =>
            request[r].key \in keys[request[r].as]

\* A token_rerolled event means that a second key took the place of a first:
\* a rotation that failed leaves no event.
RerollsHappened ==
    \A u \in Users :
        u \in rerolled => \E k, l \in keys[u] : k # l

-----------------------------------------------------------------------------
(* What holds when commands run one after the other.                       *)

\* A request that begins after a command has replaced or removed its key is
\* refused: "old key is invalidated immediately", "key stops working
\* immediately" (apps/gateway_admin/README.md).
RevokedKeyRejected ==
    \A r \in Requests :
        request[r] # Idle /\ request[r].pc = "accepted" => ~ request[r].late

\* A key that was sent out and not revoked since is the one in the row.
MailedKeyIsCurrent ==
    \A u \in Users : (mailed \cap keys[u]) \ revoked \subseteq {row[u].hash}

\* The table behaves as the README's commands promise.
Lifecycle ==
    INSTANCE UserLifecycle WITH
        Keys <- 1..MaxKeys,
        status <- [u \in Users |-> row[u].status],
        key <- [u \in Users |-> row[u].hash],
        spent <- UNION {keys[u] : u \in Users}

ImplementsLifecycle == Lifecycle!LifeSpec
=============================================================================
