-------------------------- MODULE UserAdmin_proofs --------------------------
(***************************************************************************)
(* Proofs about UserAdmin.  Inv holds whatever the commands that run at    *)
(* the same time do: it says what a command under way carries and that the *)
(* keys a user's row ever held only grow.  SoloInv is added when one       *)
(* command runs at a time: the copy that a command carries still agrees    *)
(* with the row, and every key but the current one is revoked.             *)
(***************************************************************************)
EXTENDS UserAdmin, TLAPS

\* A row or the copy of one: a user that can authenticate has a hash, a
\* deleted one has none.
RowOK(w) ==
    /\ w.status \in {"active", "disabled"} => w.hash # 0
    /\ w.status = "deleted" => w.hash = 0
    /\ w.hash <= generated

\* What a command under way carries.
CommandOK(c) ==
    /\ RowOK(c.copy)
    /\ c.copy.status # "none" /\ c.copy.email \in Emails
    /\ c.key <= generated
    /\ c.pc \in {"find", "save"} /\ c.key # 0 => c.copy.hash = c.key
    /\ c.pc \in {"mail", "audit"} => c.key \in keys[c.user]
    /\ c.pc = "audit" => c.op = "rotate"
    /\ c.op = "rotate" => c.key # 0 /\ \E l \in keys[c.user] : l < c.key

\* A request presents a key that was stored; accepted, it is that user's.
RequestOK(q) ==
    /\ q.key # 0
    /\ q.pc = "accepted" => q.key \in keys[q.as]

Inv ==
    /\ TypeOK
    /\ generated <= MaxKeys
    /\ \A u \in Users :
          /\ RowOK(row[u])
          /\ row[u].status = "none" <=> row[u] = Absent
          /\ row[u].status # "none" => row[u].email \in Emails
          /\ row[u].hash # 0 => row[u].hash \in keys[u]
          /\ \A k \in keys[u] : k # 0 /\ k <= generated
    /\ EmailsUnique
    /\ \A a \in Admins : cmd[a].pc # "idle" => CommandOK(cmd[a])
    /\ \A r \in Requests : request[r].pc # "idle" => RequestOK(request[r])
    /\ MailedKeyWasStored
    /\ RerollsHappened

-----------------------------------------------------------------------------
\* A command under way is a Command, field by field.
LEMMA CommandFields ==
    ASSUME NEW c \in Command \cup {Idle}
    PROVE  /\ c.pc \in {"idle", "find", "save", "mail", "audit"}
           /\ c.pc = "idle" <=> c = Idle
           /\ c.pc # "idle" =>
                /\ c \in Command
                /\ c.user \in Users /\ c.copy \in Row /\ c.key \in Nat
                /\ c.op \in {"create", "update", "disable", "delete",
                             "reactivate", "rotate"}
<1>1. CASE c = Idle
  BY <1>1 DEF Idle
<1>2. CASE c \in Command
  BY <1>2 DEF Command, Idle
<1> QED
  BY <1>1, <1>2

\* A row, field by field.
LEMMA RowFields ==
    ASSUME NEW w \in Row
    PROVE  /\ w.status \in {"none", "active", "disabled", "deleted"}
           /\ w.hash \in Nat
           /\ w.email \in Emails \cup {NoEmail}
  BY DEF Row

\* A command moves on, while the table stays as it is.
LEMMA CommandMoves ==
    ASSUME Inv, NEW a \in Admins, NEW c \in Command \cup {Idle},
           cmd' = [cmd EXCEPT ![a] = c],
           generated' \in Nat, generated <= generated', generated' <= MaxKeys,
           c.pc # "idle" => CommandOK(c)',
           mailed' \subseteq UNION {keys[u] : u \in Users},
           rerolled' \subseteq Users,
           \A u \in rerolled' : \E k, l \in keys[u] : k # l,
           UNCHANGED <<table, request>>
    PROVE  Inv'
<1>1. /\ cmd' \in [Admins -> Command \cup {Idle}]
      /\ cmd'[a] = c
      /\ \A b \in Admins : b # a => cmd'[b] = cmd[b]
  BY DEF Inv, TypeOK
<1>2. /\ UNCHANGED <<row, keys, revoked, request>>
      /\ \A u \in Users : row[u] \in Row /\ row[u].hash \in Nat
      /\ generated \in Nat /\ keys \in [Users -> SUBSET Nat]
  BY RowFields DEF Inv, TypeOK, table
<1>3. mailed' \subseteq Nat
  BY <1>2
<1>4. TypeOK'
  BY <1>1, <1>2, <1>3 DEF Inv, TypeOK
<1>5. \A u \in Users :
          /\ RowOK(row[u])'
          /\ \A k \in keys'[u] : k # 0 /\ k <= generated'
  <2> SUFFICES ASSUME NEW u \in Users
               PROVE  RowOK(row[u])' /\ \A k \in keys'[u] : k # 0 /\ k <= generated'
    OBVIOUS
  <2>1. RowOK(row[u]) /\ \A k \in keys[u] : k # 0 /\ k <= generated /\ k \in Nat
    BY <1>2 DEF Inv
  <2> QED
    BY <1>2, <2>1 DEF RowOK
<1>6. \A b \in Admins : cmd'[b].pc # "idle" => CommandOK(cmd[b])'
  <2> SUFFICES ASSUME NEW b \in Admins, b # a, cmd[b].pc # "idle"
               PROVE  CommandOK(cmd[b])'
    BY <1>1
  <2>1. CommandOK(cmd[b]) /\ cmd[b].key \in Nat /\ cmd[b].copy \in Row
    BY CommandFields DEF Inv, TypeOK
  <2>2. cmd[b].copy.hash \in Nat
    BY <2>1, RowFields
  <2> QED
    BY <1>1, <1>2, <2>1, <2>2 DEF CommandOK, RowOK
<1>7. \A r \in Requests : request'[r].pc # "idle" => RequestOK(request[r])'
  BY <1>2 DEF Inv, RequestOK
<1>8. EmailsUnique' /\ MailedKeyWasStored' /\ RerollsHappened'
  BY <1>2 DEF Inv, EmailsUnique, MailedKeyWasStored, RerollsHappened
<1> QED
  BY <1>2, <1>4, <1>5, <1>6, <1>7, <1>8 DEF Inv

\* A command that has just read its row and changed the copy.
LEMMA CommandBegins ==
    ASSUME Inv, NEW a \in Admins, NEW u \in Users, NEW op, NEW pc, NEW copy, NEW k,
           op \in {"create", "update", "disable", "delete", "reactivate", "rotate"},
           pc \in {"find", "save"},
           copy \in Row, RowOK(copy)', copy.status # "none", copy.email \in Emails,
           k \in Nat, k <= generated', k # 0 => copy.hash = k,
           op = "rotate" => k # 0 /\ \E l \in keys[u] : l < k,
           Hold(a, op, pc, u, copy, k),
           generated' \in Nat, generated <= generated', generated' <= MaxKeys,
           UNCHANGED <<table, outside, gateway>>
    PROVE  Inv'
<1> DEFINE c == [op |-> op, pc |-> pc, user |-> u, copy |-> copy, key |-> k]
<1>1. c \in Command
  BY DEF Command
<1>2. c.op = op /\ c.pc = pc /\ c.user = u /\ c.copy = copy /\ c.key = k
  OBVIOUS
<1>3. cmd' = [cmd EXCEPT ![a] = c]
  BY DEF Hold
<1> HIDE DEF c
<1>4. CommandOK(c)'
  BY <1>2 DEF CommandOK, table
<1>5. mailed' = mailed /\ rerolled' = rerolled /\ UNCHANGED <<table, request>>
  BY DEF outside, gateway
<1> QED
  BY <1>1, <1>3, <1>4, <1>5, CommandMoves
     DEF Inv, MailedKeyWasStored, RerollsHappened, TypeOK

\* A row put together from its fields.
LEMMA NewRow ==
    ASSUME NEW s \in {"active", "disabled", "deleted"}, NEW h \in Nat, NEW e \in Emails
    PROVE  \E copy \in Row :
              /\ copy = User(s, h, e)
              /\ copy.status = s /\ copy.hash = h /\ copy.email = e
<1>1. /\ User(s, h, e) \in Row /\ User(s, h, e).status = s
      /\ User(s, h, e).hash = h /\ User(s, h, e).email = e
  BY DEF Row, User
<1> QED
  BY <1>1

\* The reads of the five commands that start from a row.
LEMMA LoadFacts ==
    ASSUME Inv, NEW u \in Users, row[u].status # "none"
    PROVE  /\ row[u] \in Row /\ RowOK(row[u])
           /\ row[u].status \in {"active", "disabled", "deleted"}
           /\ row[u].hash \in Nat /\ row[u].email \in Emails
           /\ row[u].status \in {"active", "disabled"} => row[u].hash \in keys[u]
  BY RowFields DEF Inv, TypeOK, RowOK

\* The first steps of the commands keep the invariant.
LEMMA BeginsSafe ==
    ASSUME Inv, NEW a \in Admins, NEW u \in Users, NEW e \in Emails,
           \/ Create(a, u, e) \/ Update(a, u, e) \/ Disable(a, u)
           \/ Delete(a, u) \/ Reactivate(a, u) \/ Rotate(a, u)
    PROVE  Inv'
<1>0. generated \in Nat /\ generated <= MaxKeys /\ MaxKeys \in Nat
  BY UserAssumption DEF Inv, TypeOK
<1>a. NewKey \in Nat /\ 0 \in Nat
  BY <1>0 DEF NewKey
<1>b. row[u].status # "none" =>
        /\ row[u].status \in {"active", "disabled", "deleted"}
        /\ row[u].hash \in Nat /\ row[u].email \in Emails
  BY LoadFacts
<1>1. CASE Create(a, u, e)
  <2>1. PICK copy \in Row :
              /\ copy = User("active", NewKey, e)
              /\ copy.status = "active"
              /\ copy.hash = NewKey /\ copy.email = e
    BY <1>a, NewRow
  <2>2. Hold(a, "create", "save", u, copy, NewKey)
    BY <1>1, <2>1 DEF Create
  <2>3. /\ generated' = generated + 1 /\ generated' <= MaxKeys
        /\ UNCHANGED <<table, outside, gateway>>
    BY <1>0, <1>1 DEF Create, Generate
  <2>4. RowOK(copy)'
    BY <1>0, <2>1, <2>3 DEF RowOK, NewKey
  <2> QED
    BY <1>0, <2>1, <2>2, <2>3, <2>4, CommandBegins DEF NewKey
<1>2. CASE Update(a, u, e)
  <2>1. row[u].status # "none"
    BY <1>2 DEF Update, Loads
  <2>2. PICK copy \in Row :
              /\ copy = User(row[u].status, row[u].hash, e)
              /\ copy.status = row[u].status
              /\ copy.hash = row[u].hash /\ copy.email = e
    BY <1>b, <2>1, NewRow
  <2>3. Hold(a, "update", "find", u, copy, 0)
    BY <1>2, <2>2 DEF Update
  <2>4. generated' = generated /\ UNCHANGED <<table, outside, gateway>>
    BY <1>2 DEF Update, Loads
  <2>5. RowOK(copy)'
    BY <2>1, <2>2, <2>4, LoadFacts DEF RowOK
  <2> QED
    BY <1>0, <2>1, <2>2, <2>3, <2>4, <2>5, CommandBegins
<1>3. CASE Disable(a, u)
  <2>1. row[u].status = "active"
    BY <1>3 DEF Disable, Loads
  <2>2. PICK copy \in Row :
              /\ copy = User("disabled", row[u].hash, row[u].email)
              /\ copy.status = "disabled"
              /\ copy.hash = row[u].hash /\ copy.email = row[u].email
    BY <1>b, <2>1, NewRow
  <2>3. Hold(a, "disable", "save", u, copy, 0)
    BY <1>3, <2>2 DEF Disable
  <2>4. generated' = generated /\ UNCHANGED <<table, outside, gateway>>
    BY <1>3 DEF Disable, Loads
  <2>5. RowOK(copy)'
    BY <2>1, <2>2, <2>4, LoadFacts DEF RowOK
  <2> QED
    BY <1>0, <2>1, <2>2, <2>3, <2>4, <2>5, LoadFacts, CommandBegins
<1>4. CASE Delete(a, u)
  <2>1. row[u].status \in {"active", "disabled"}
    BY <1>4 DEF Delete, Loads
  <2>2. PICK copy \in Row :
              /\ copy = User("deleted", 0, row[u].email)
              /\ copy.status = "deleted"
              /\ copy.hash = 0 /\ copy.email = row[u].email
    BY <1>a, <1>b, <2>1, NewRow
  <2>3. Hold(a, "delete", "save", u, copy, 0)
    BY <1>4, <2>2 DEF Delete
  <2>4. generated' = generated /\ UNCHANGED <<table, outside, gateway>>
    BY <1>4 DEF Delete, Loads
  <2>5. RowOK(copy)'
    BY <1>0, <2>2, <2>4 DEF RowOK
  <2> QED
    BY <1>0, <2>1, <2>2, <2>3, <2>4, <2>5, LoadFacts, CommandBegins
<1>5. CASE Reactivate(a, u)
  <2>1. row[u].status = "disabled"
    BY <1>5 DEF Reactivate, Loads
  <2>2. PICK copy \in Row :
              /\ copy = User("active", NewKey, row[u].email)
              /\ copy.status = "active"
              /\ copy.hash = NewKey /\ copy.email = row[u].email
    BY <1>a, <1>b, <2>1, NewRow
  <2>3. Hold(a, "reactivate", "save", u, copy, NewKey)
    BY <1>5, <2>2 DEF Reactivate
  <2>4. /\ generated' = generated + 1 /\ generated' <= MaxKeys
        /\ UNCHANGED <<table, outside, gateway>>
    BY <1>0, <1>5 DEF Reactivate, Loads, Generate
  <2>5. RowOK(copy)'
    BY <1>0, <2>2, <2>4 DEF RowOK, NewKey
  <2> QED
    BY <1>0, <2>1, <2>2, <2>3, <2>4, <2>5, LoadFacts, CommandBegins DEF NewKey
<1>6. CASE Rotate(a, u)
  <2>1. row[u].status \in {"active", "disabled"}
    BY <1>6 DEF Rotate, Loads
  <2>2. PICK copy \in Row :
              /\ copy = User(row[u].status, NewKey, row[u].email)
              /\ copy.status = row[u].status
              /\ copy.hash = NewKey /\ copy.email = row[u].email
    BY <1>a, <1>b, <2>1, NewRow
  <2>3. Hold(a, "rotate", "save", u, copy, NewKey)
    BY <1>6, <2>2 DEF Rotate
  <2>4. /\ generated' = generated + 1 /\ generated' <= MaxKeys
        /\ UNCHANGED <<table, outside, gateway>>
    BY <1>0, <1>6 DEF Rotate, Loads, Generate
  <2>5. RowOK(copy)'
    BY <1>0, <2>1, <2>2, <2>4 DEF RowOK, NewKey
  <2>6. row[u].hash \in keys[u] /\ row[u].hash < NewKey
    BY <1>0, <2>1, LoadFacts DEF Inv, RowOK, NewKey
  <2> QED
    BY <1>0, <2>1, <2>2, <2>3, <2>4, <2>5, <2>6, LoadFacts, CommandBegins DEF NewKey
<1> QED
  BY <1>1, <1>2, <1>3, <1>4, <1>5, <1>6

\* The pc of a command is advanced.
LEMMA AdvanceFacts ==
    ASSUME Inv, NEW a \in Admins, NEW pc \in {"save", "mail", "audit"},
           cmd[a].pc # "idle", cmd' = [cmd EXCEPT ![a].pc = pc]
    PROVE  \E c \in Command :
              /\ cmd' = [cmd EXCEPT ![a] = c]
              /\ c.pc = pc /\ c.op = cmd[a].op /\ c.user = cmd[a].user
              /\ c.copy = cmd[a].copy /\ c.key = cmd[a].key
<1> DEFINE c == [cmd[a] EXCEPT !.pc = pc]
<1>1. cmd[a] \in Command
  BY CommandFields DEF Inv, TypeOK
<1>2. /\ c \in Command
      /\ c.pc = pc /\ c.op = cmd[a].op /\ c.user = cmd[a].user
      /\ c.copy = cmd[a].copy /\ c.key = cmd[a].key
  BY <1>1 DEF Command
<1>3. cmd' = [cmd EXCEPT ![a] = c]
  OBVIOUS
<1> QED
  BY <1>2, <1>3

\* The later steps of the commands, except the save itself.
LEMMA LaterStepsSafe ==
    ASSUME Inv, NEW a \in Admins, Find(a) \/ Mail(a) \/ Audit(a) \/ Fails(a)
    PROVE  Inv'
<1>0. /\ cmd[a].pc # "idle" /\ UNCHANGED <<table, request>>
      /\ generated' = generated /\ generated \in Nat /\ generated <= MaxKeys
      /\ generated <= generated' /\ keys \in [Users -> SUBSET Nat]
  BY CommandFields DEF Inv, TypeOK, Find, Mail, Audit, Fails, gateway
<1>1. CommandOK(cmd[a]) /\ cmd[a].user \in Users
  BY <1>0, CommandFields DEF Inv, TypeOK
<1>2. mailed' \subseteq UNION {keys[u] : u \in Users}
  <2>1. CASE Mail(a)
    BY <1>1, <2>1 DEF Mail, Inv, MailedKeyWasStored, CommandOK
  <2>2. CASE ~ Mail(a)
    BY <2>2 DEF Find, Audit, Fails, outside, Inv, MailedKeyWasStored
  <2> QED
    BY <2>1, <2>2
<1>3. rerolled' \subseteq Users /\ \A u \in rerolled' : \E k, l \in keys[u] : k # l
  <2>1. CASE Audit(a)
    <3>1. cmd[a].key \in keys[cmd[a].user]
      BY <1>1, <2>1 DEF Audit, CommandOK
    <3>2. \E k, l \in keys[cmd[a].user] : k # l
      <4>1. cmd[a].op = "rotate"
        BY <1>1, <2>1 DEF Audit, CommandOK
      <4> QED
        BY <1>0, <1>1, <3>1, <4>1 DEF CommandOK
    <3> QED
      BY <1>1, <2>1, <3>2 DEF Audit, Inv, TypeOK, RerollsHappened
  <2>2. CASE ~ Audit(a)
    BY <2>2 DEF Find, Mail, Fails, outside, Inv, TypeOK, RerollsHappened
  <2> QED
    BY <2>1, <2>2
<1>4. CASE Done(a)
  <2>1. Idle.pc = "idle"
    BY DEF Idle
  <2> QED
    BY <1>0, <1>2, <1>3, <1>4, <2>1, CommandMoves DEF Done
<1>5. CASE ~ Done(a)
  <2> DEFINE pc == IF Find(a) THEN "save" ELSE "audit"
  <2>1. cmd' = [cmd EXCEPT ![a].pc = pc]
    BY <1>5 DEF Find, Mail, Audit, Fails
  <2>2. PICK c \in Command :
              /\ cmd' = [cmd EXCEPT ![a] = c]
              /\ c.pc = pc /\ c.op = cmd[a].op /\ c.user = cmd[a].user
              /\ c.copy = cmd[a].copy /\ c.key = cmd[a].key
    BY <1>0, <2>1, AdvanceFacts
  <2>3. CommandOK(c)'
    BY <1>0, <1>1, <1>5, <2>2 DEF CommandOK, RowOK, Find, Mail, Audit, Fails, table
  <2> QED
    BY <1>0, <1>2, <1>3, <2>2, <2>3, CommandMoves
<1> QED
  BY <1>4, <1>5

\* What a save does, field by field.
LEMMA SaveFacts ==
    ASSUME Inv, NEW a \in Admins, Save(a)
    PROVE  LET u == cmd[a].user
               w == cmd[a].copy
           IN  /\ cmd[a] \in Command /\ CommandOK(cmd[a])
               /\ u \in Users /\ w \in Row
               /\ w.hash \in Nat /\ cmd[a].key \in Nat
               /\ row' \in [Users -> Row] /\ keys' \in [Users -> SUBSET Nat]
               /\ row'[u] = w
               /\ keys'[u] = keys[u] \cup ({w.hash} \ {0})
               /\ \A v \in Users : v # u => row'[v] = row[v] /\ keys'[v] = keys[v]
               /\ \A v \in Users : keys[v] \subseteq keys'[v]
               /\ \A v \in Users \ {u} : row[v].email # w.email
               /\ generated \in Nat /\ UNCHANGED <<generated, outside, gateway>>
<1>1. cmd[a].pc = "save"
  BY DEF Save
<1>2. cmd[a] \in Command /\ CommandOK(cmd[a])
  BY <1>1, CommandFields DEF Inv, TypeOK
<1>3. /\ cmd[a].user \in Users /\ cmd[a].copy \in Row
      /\ cmd[a].copy.hash \in Nat /\ cmd[a].key \in Nat
  BY <1>2, RowFields DEF Command
<1>4. /\ row' = [row EXCEPT ![cmd[a].user] = cmd[a].copy]
      /\ keys' = [keys EXCEPT ![cmd[a].user] = @ \cup ({cmd[a].copy.hash} \ {0})]
      /\ \A v \in Users \ {cmd[a].user} : row[v].email # cmd[a].copy.email
      /\ UNCHANGED <<generated, outside, gateway>>
  BY DEF Save, EmailFree
<1>5. /\ row \in [Users -> Row] /\ keys \in [Users -> SUBSET Nat] /\ generated \in Nat
  BY DEF Inv, TypeOK
<1>6. /\ row' \in [Users -> Row]
      /\ row'[cmd[a].user] = cmd[a].copy
      /\ \A v \in Users : v # cmd[a].user => row'[v] = row[v]
  BY <1>3, <1>4, <1>5
<1>7. /\ keys' \in [Users -> SUBSET Nat]
      /\ keys'[cmd[a].user] = keys[cmd[a].user] \cup ({cmd[a].copy.hash} \ {0})
      /\ \A v \in Users : v # cmd[a].user => keys'[v] = keys[v]
  BY <1>3, <1>4, <1>5
<1>8. \A v \in Users : keys[v] \subseteq keys'[v]
  BY <1>7
<1> QED
  BY <1>2, <1>3, <1>4, <1>5, <1>6, <1>7, <1>8

\* What the save leaves of the command.
LEMMA SaveCommand ==
    ASSUME Inv, NEW a \in Admins, Save(a)
    PROVE  \E c \in Command \cup {Idle} :
              /\ cmd' = [cmd EXCEPT ![a] = c]
              /\ c.pc # "idle" => CommandOK(c)'
<1>0. cmd[a].pc = "save"
  BY DEF Save
<1>1. CASE cmd[a].key = 0
  <2>1. cmd' = [cmd EXCEPT ![a] = Idle] /\ Idle.pc = "idle"
    BY <1>1 DEF Save, Done, Idle
  <2> QED
    BY <2>1
<1>2. CASE cmd[a].key # 0
  <2>1. cmd' = [cmd EXCEPT ![a].pc = "mail"]
    BY <1>2 DEF Save
  <2>2. PICK c \in Command :
              /\ cmd' = [cmd EXCEPT ![a] = c]
              /\ c.pc = "mail" /\ c.op = cmd[a].op /\ c.user = cmd[a].user
              /\ c.copy = cmd[a].copy /\ c.key = cmd[a].key
    BY <1>0, <2>1, AdvanceFacts
  <2>3. cmd[a].copy.hash = cmd[a].key
    BY <1>0, <1>2, SaveFacts DEF CommandOK
  <2>4. cmd[a].key \in keys'[cmd[a].user]
    BY <1>2, <2>3, SaveFacts
  <2>5. generated' = generated /\ keys[cmd[a].user] \subseteq keys'[cmd[a].user]
    BY SaveFacts
  <2>6. CommandOK(cmd[a])
    BY SaveFacts
  <2>7. CommandOK(c)'
    BY <2>2, <2>4, <2>5, <2>6 DEF CommandOK, RowOK
  <2> QED
    BY <2>2, <2>7
<1> QED
  BY <1>1, <1>2

\* The one step that changes the table keeps the invariant.
LEMMA SaveSafe ==
    ASSUME Inv, NEW a \in Admins, Save(a)
    PROVE  Inv'
<1> DEFINE u == cmd[a].user
           w == cmd[a].copy
<1>0. PICK c \in Command \cup {Idle} :
              /\ cmd' = [cmd EXCEPT ![a] = c]
              /\ c.pc # "idle" => CommandOK(c)'
  BY SaveCommand
<1>1. /\ cmd' \in [Admins -> Command \cup {Idle}]
      /\ cmd'[a] = c
      /\ \A b \in Admins : b # a => cmd'[b] = cmd[b]
  BY <1>0 DEF Inv, TypeOK
<1>2. /\ UNCHANGED <<generated, mailed, rerolled, request>>
      /\ generated \in Nat
  BY SaveFacts DEF outside, gateway
<1>3. revoked' \subseteq Nat
  <2>1. revoked' \subseteq revoked \cup keys[u]
    BY DEF Save
  <2> QED
    BY <2>1, SaveFacts DEF Inv, TypeOK
<1>4. TypeOK'
  BY <1>1, <1>2, <1>3, SaveFacts DEF Inv, TypeOK
<1>5. ASSUME NEW v \in Users
      PROVE  /\ RowOK(row[v])'
             /\ row'[v].status = "none" <=> row'[v] = Absent
             /\ row'[v].status # "none" => row'[v].email \in Emails
             /\ row'[v].hash # 0 => row'[v].hash \in keys'[v]
             /\ \A k \in keys'[v] : k # 0 /\ k <= generated'
  <2>1. CASE v = u
    <3>1. CommandOK(cmd[a]) /\ row'[v] = w /\ keys'[v] = keys[u] \cup ({w.hash} \ {0})
      BY <2>1, SaveFacts
    <3>2. w.status # "none" /\ w.email \in Emails /\ RowOK(w)
      BY <3>1 DEF CommandOK
    <3>3. w # Absent
      BY <3>2 DEF Absent, User
    <3>4. \A k \in keys'[v] : k # 0 /\ k <= generated'
      BY <1>2, <2>1, <3>1, <3>2 DEF Inv, RowOK
    <3>5. RowOK(row[v])'
      BY <1>2, <3>1, <3>2 DEF RowOK
    <3> QED
      BY <3>1, <3>2, <3>3, <3>4, <3>5
  <2>2. CASE v # u
    <3>1. row'[v] = row[v] /\ keys'[v] = keys[v]
      BY <2>2, SaveFacts
    <3> QED
      BY <1>2, <3>1 DEF Inv, RowOK
  <2> QED
    BY <2>1, <2>2
<1>6. EmailsUnique'
  <2> SUFFICES ASSUME NEW v \in Users, NEW x \in Users, v # x, row'[v] # Absent
               PROVE  row'[v].email # row'[x].email
    BY DEF EmailsUnique
  <2>1. CASE v = u
    BY <2>1, SaveFacts
  <2>2. CASE x = u
    BY <2>2, SaveFacts
  <2>3. CASE v # u /\ x # u
    BY <2>3, SaveFacts DEF Inv, EmailsUnique
  <2> QED
    BY <2>1, <2>2, <2>3
<1>7. ASSUME NEW b \in Admins, cmd'[b].pc # "idle"
      PROVE  CommandOK(cmd[b])'
  <2>1. CASE b = a
    BY <1>0, <1>1, <1>7, <2>1
  <2>2. CASE b # a
    <3>1. cmd'[b] = cmd[b]
      BY <1>1, <2>2
    <3>2. CommandOK(cmd[b]) /\ cmd[b].user \in Users
      BY <1>7, <3>1, CommandFields DEF Inv, TypeOK
    <3>3. keys[cmd[b].user] \subseteq keys'[cmd[b].user]
      BY <3>2, SaveFacts
    <3> QED
      BY <1>2, <3>1, <3>2, <3>3 DEF CommandOK, RowOK
  <2> QED
    BY <2>1, <2>2
<1>8. ASSUME NEW r \in Requests, request'[r].pc # "idle"
      PROVE  RequestOK(request[r])'
  <2>1. RequestOK(request[r]) /\ request[r].as \in Users
    <3>1. request[r] \in Request
      BY <1>2, <1>8 DEF Inv, TypeOK, Idle
    <3> QED
      BY <1>2, <1>8, <3>1 DEF Inv, Request
  <2>2. keys[request[r].as] \subseteq keys'[request[r].as]
    BY <2>1, SaveFacts
  <2> QED
    BY <1>2, <2>1, <2>2 DEF RequestOK
<1>9. MailedKeyWasStored'
  BY <1>2, SaveFacts DEF Inv, MailedKeyWasStored
<1>10. RerollsHappened'
  BY <1>2, SaveFacts DEF Inv, RerollsHappened
<1> QED
  BY <1>2, <1>4, <1>5, <1>6, <1>7, <1>8, <1>9, <1>10 DEF Inv

\* The gateway's steps: a hash in the table is a key of that row.
LEMMA RequestSafe ==
    ASSUME Inv, NEW r \in Requests,
           \/ \E u \in Users : \E k \in keys[u] : Present(r, u, k)
           \/ Lookup(r) \/ Answer(r)
    PROVE  Inv'
<1>1. UNCHANGED admin
  BY DEF Present, Lookup, Answer
<1>2. /\ request' \in [Requests -> Request \cup {Idle}]
      /\ \A q \in Requests : request'[q].pc # "idle" => RequestOK(request[q])'
  <2>0. request \in [Requests -> Request \cup {Idle}]
    BY DEF Inv, TypeOK
  <2>1. ASSUME NEW q \in Request \cup {Idle}, request' = [request EXCEPT ![r] = q],
               q.pc # "idle" => RequestOK(q)
        PROVE  /\ request' \in [Requests -> Request \cup {Idle}]
               /\ \A o \in Requests : request'[o].pc # "idle" => RequestOK(request[o])'
    <3>1. /\ request' \in [Requests -> Request \cup {Idle}]
          /\ request'[r] = q
          /\ \A o \in Requests : o # r => request'[o] = request[o]
      BY <2>0, <2>1
    <3> QED
      BY <1>1, <2>1, <3>1 DEF Inv, RequestOK, admin
  <2>2. CASE request' = [request EXCEPT ![r] = Idle]
    BY <2>1, <2>2 DEF Idle
  <2>3. CASE \E u \in Users : \E k \in keys[u] : Present(r, u, k)
    <3>0. PICK u \in Users : \E k \in keys[u] : Present(r, u, k)
      BY <2>3
    <3>1. PICK k \in keys[u] : Present(r, u, k)
      BY <3>0
    <3>2. k \in Nat /\ k # 0
      BY DEF Inv, TypeOK
    <3> DEFINE q == [pc |-> "lookup", of |-> u, key |-> k,
                     late |-> k \in revoked, as |-> u]
    <3>3. q \in Request /\ q.pc = "lookup" /\ q.key = k
      BY <3>2 DEF Request
    <3>4. request' = [request EXCEPT ![r] = q]
      BY <3>1 DEF Present
    <3> HIDE DEF q
    <3> QED
      BY <2>1, <3>2, <3>3, <3>4 DEF RequestOK
  <2>4. CASE \E c \in Found(request[r].of) :
                row[c].hash = request[r].key /\ Accept(r, c) /\ request[r].pc = "lookup"
    <3>1. PICK c \in Users :
                row[c].hash = request[r].key /\ Accept(r, c) /\ request[r].pc = "lookup"
      BY <2>4 DEF Found
    <3>2. request[r] \in Request /\ RequestOK(request[r])
      BY <2>0, <3>1 DEF Idle, Inv
    <3>3. request[r].key \in keys[c]
      BY <3>1, <3>2 DEF Inv, RequestOK
    <3> DEFINE q == [request[r] EXCEPT !.pc = "accepted", !.as = c]
    <3>4. q \in Request /\ q.pc = "accepted" /\ q.as = c /\ q.key = request[r].key
      BY <3>2 DEF Request
    <3>5. request' = [request EXCEPT ![r] = q]
      BY <3>1 DEF Accept
    <3> HIDE DEF q
    <3> QED
      BY <2>1, <3>2, <3>3, <3>4, <3>5 DEF RequestOK
  <2> QED
    BY <2>2, <2>3, <2>4 DEF Lookup, Answer, Refuse
<1>3. TypeOK'
  BY <1>1, <1>2 DEF Inv, TypeOK, admin
<1>4. /\ EmailsUnique' /\ MailedKeyWasStored' /\ RerollsHappened'
      /\ generated' <= MaxKeys
  BY <1>1 DEF Inv, admin, EmailsUnique, MailedKeyWasStored, RerollsHappened
<1>5. \A a \in Admins : cmd'[a].pc # "idle" => CommandOK(cmd[a])'
  BY <1>1 DEF Inv, admin, CommandOK, RowOK
<1>6. \A u \in Users :
          /\ RowOK(row[u])'
          /\ row'[u].status = "none" <=> row'[u] = Absent
          /\ row'[u].status # "none" => row'[u].email \in Emails
          /\ row'[u].hash # 0 => row'[u].hash \in keys'[u]
          /\ \A k \in keys'[u] : k # 0 /\ k <= generated'
  BY <1>1 DEF Inv, admin, RowOK
<1> QED
  BY <1>2, <1>3, <1>4, <1>5, <1>6 DEF Inv

\* The initial state satisfies the invariant.
LEMMA InitInv == Init => Inv
<1> SUFFICES ASSUME Init PROVE Inv
  OBVIOUS
<1>1. /\ Absent \in Row /\ Absent.status = "none" /\ Absent.hash = 0
      /\ Absent.email = NoEmail /\ Idle.pc = "idle"
  BY DEF Absent, User, Row, Idle
<1>2. TypeOK /\ generated <= MaxKeys
  BY <1>1, UserAssumption DEF Init, TypeOK
<1>3. \A u \in Users : row[u] = Absent /\ keys[u] = {}
  BY DEF Init
<1> QED
  BY <1>1, <1>2, <1>3 DEF Init, Inv, RowOK, EmailsUnique, MailedKeyWasStored, RerollsHappened

\* Nothing changes: neither does the invariant.
LEMMA StutterSafe == Inv /\ UNCHANGED vars => Inv'
<1> SUFFICES ASSUME Inv, UNCHANGED vars PROVE Inv'
  OBVIOUS
<1> QED
  BY DEF vars, Inv, TypeOK, RowOK, EmailsUnique, CommandOK, RequestOK,
         MailedKeyWasStored, RerollsHappened

\* Every step of the system keeps the invariant.
LEMMA NextSafe == Inv /\ [Next]_vars => Inv'
<1> SUFFICES ASSUME Inv, [Next]_vars PROVE Inv'
  OBVIOUS
<1>1. ASSUME NEW a \in Admins, NEW u \in Users,
             Disable(a, u) \/ Delete(a, u) \/ Reactivate(a, u) \/ Rotate(a, u)
      PROVE  Inv'
  <2>1. row[u].status # "none"
    BY <1>1 DEF Disable, Delete, Reactivate, Rotate, Loads
  <2>2. PICK e \in Emails : TRUE
    BY <2>1, LoadFacts
  <2> QED
    BY <1>1, <2>2, BeginsSafe
<1>2. ASSUME NEW a \in Admins, NEW u \in Users, NEW e \in Emails,
             Create(a, u, e) \/ Update(a, u, e)
      PROVE  Inv'
  BY <1>2, BeginsSafe
<1>3. ASSUME NEW a \in Admins, Find(a) \/ Save(a) \/ Mail(a) \/ Audit(a) \/ Fails(a)
      PROVE  Inv'
  BY <1>3, LaterStepsSafe, SaveSafe
<1>4. ASSUME NEW r \in Requests,
             \/ \E u \in Users : \E k \in keys[u] : Present(r, u, k)
             \/ Lookup(r) \/ Answer(r)
      PROVE  Inv'
  BY <1>4, RequestSafe
<1>5. CASE UNCHANGED vars
  BY <1>5, StutterSafe
<1> QED
  BY <1>1, <1>2, <1>3, <1>4, <1>5 DEF Next

\* The invariant holds throughout, for any number of users, commands at a
\* time and requests, and whatever prefixes the ids share.
THEOREM InvHolds == Spec => []Inv
<1> QED
  BY InitInv, NextSafe, PTL DEF Spec

\* Every variable stays in its type.
THEOREM UserTypeCorrect == Spec => []TypeOK
<1>1. Inv => TypeOK
  BY DEF Inv
<1> QED
  BY <1>1, InvHolds, PTL

\* create_user and update_user look an address up in one transaction and write
\* it in another; no two users ever share one nevertheless.
THEOREM AddressesAreUnique == Spec => []EmailsUnique
<1>1. Inv => EmailsUnique
  BY DEF Inv
<1> QED
  BY <1>1, InvHolds, PTL

\* Whatever stale copy a command writes back, the row can be read again: the
\* entity's check that active users have a hash never fails on the table.
THEOREM TableIsReadable == Spec => []RowsReadable
<1>1. Inv => RowsReadable
  BY DEF Inv, RowsReadable, RowOK
<1> QED
  BY <1>1, InvHolds, PTL

\* A key is mailed only after the row that holds its hash was stored.
THEOREM MailFollowsSave == Spec => []MailedKeyWasStored
<1>1. Inv => MailedKeyWasStored
  BY DEF Inv
<1> QED
  BY <1>1, InvHolds, PTL

\* A request is accepted as the user its key was given to, although users are
\* looked up by a prefix that several may share.
THEOREM NobodyElseIsAccepted == Spec => []AcceptedAsOwner
<1>1. Inv => AcceptedAsOwner
  <2> SUFFICES ASSUME Inv, NEW r \in Requests, request[r].pc = "accepted"
               PROVE  request[r].key \in keys[request[r].as]
    BY DEF AcceptedAsOwner
  <2> QED
    BY DEF Inv, RequestOK
<1> QED
  BY <1>1, InvHolds, PTL

\* A token_rerolled event stands for a rotation that was stored.
THEOREM RerollsAreReal == Spec => []RerollsHappened
<1>1. Inv => RerollsHappened
  BY DEF Inv
<1> QED
  BY <1>1, InvHolds, PTL

-----------------------------------------------------------------------------
(* One command at a time.                                                  *)

OneAtATime == \A a, b \in Admins : a = b

\* The copy of a command that has not saved yet differs from the row in what
\* the command is about and in nothing else, and its key is newer than any
\* key in the table.
Current(c) ==
    LET w == row[c.user]
    IN  /\ c.key # 0 => \A u \in Users : \A k \in keys[u] : k < c.key
        /\ c.op \in {"create", "reactivate", "rotate"} => c.key # 0
        /\ c.op \in {"update", "disable", "delete"} => c.key = 0
        /\ c.op = "create" => w = Absent /\ c.copy.status = "active"
        /\ c.op = "update" => c.copy.status = w.status /\ c.copy.hash = w.hash
        /\ c.op = "disable" => w.status = "active" /\ c.copy.status = "disabled"
                                 /\ c.copy.hash = w.hash
        /\ c.op = "delete" => w.status \in {"active", "disabled"}
                                /\ c.copy.status = "deleted"
        /\ c.op = "reactivate" => w.status = "disabled" /\ c.copy.status = "active"
        /\ c.op = "rotate" => w.status \in {"active", "disabled"}
                                /\ c.copy.status = w.status

\* Every key but the one in the row is revoked, and that one too unless the
\* user is active.
SoloInv ==
    /\ Inv
    /\ \A u, v \in Users : u # v => keys[u] \cap keys[v] = {}
    /\ \A u \in Users :
          /\ keys[u] \ revoked \subseteq {row[u].hash}
          /\ row[u].status = "active" => row[u].hash \notin revoked
          /\ row[u].status = "none" => keys[u] = {}
    /\ revoked \subseteq UNION {keys[u] : u \in Users}
    /\ \A a \in Admins : cmd[a].pc \in {"find", "save"} => Current(cmd[a])
    /\ \A r \in Requests :
          /\ request[r].pc = "lookup" /\ request[r].late => request[r].key \in revoked
          /\ request[r].pc = "accepted" => ~ request[r].late

\* A command moves on, while the table stays as it is.
LEMMA SoloMoves ==
    ASSUME SoloInv, OneAtATime, Inv', NEW a \in Admins, NEW c \in Command \cup {Idle},
           cmd' = [cmd EXCEPT ![a] = c],
           c.pc \in {"find", "save"} => Current(c),
           UNCHANGED <<table, request>>
    PROVE  SoloInv'
<1>1. \A b \in Admins : cmd'[b] = c
  BY DEF OneAtATime, SoloInv, Inv, TypeOK
<1>2. UNCHANGED <<row, keys, revoked, request>>
  BY DEF table
<1>3. \A b \in Admins : cmd'[b].pc \in {"find", "save"} => Current(cmd[b])'
  BY <1>1, <1>2 DEF Current
<1> QED
  BY <1>2, <1>3 DEF SoloInv

\* The first steps: the copy is the row with a change.
LEMMA SoloBegins ==
    ASSUME SoloInv, OneAtATime, Inv',
           NEW a \in Admins, NEW u \in Users, NEW e \in Emails,
           \/ Create(a, u, e) \/ Update(a, u, e) \/ Disable(a, u)
           \/ Delete(a, u) \/ Reactivate(a, u) \/ Rotate(a, u)
    PROVE  SoloInv'
<1>0. /\ generated \in Nat /\ NewKey \in Nat /\ NewKey # 0
      /\ \A v \in Users : \A k \in keys[v] : k < NewKey
  BY DEF SoloInv, Inv, TypeOK, NewKey
<1>1. ASSUME NEW op \in {"create", "update", "disable", "delete", "reactivate", "rotate"},
             NEW pc \in {"find", "save"},
             NEW s \in {"active", "disabled", "deleted"}, NEW h \in Nat, NEW m \in Emails,
             NEW k \in Nat, Hold(a, op, pc, u, User(s, h, m), k),
             k # 0 => k = NewKey,
             op \in {"create", "reactivate", "rotate"} => k # 0,
             op \in {"update", "disable", "delete"} => k = 0,
             op = "create" => row[u] = Absent /\ s = "active",
             op = "update" => s = row[u].status /\ h = row[u].hash,
             op = "disable" => row[u].status = "active" /\ s = "disabled"
                                 /\ h = row[u].hash,
             op = "delete" => row[u].status \in {"active", "disabled"} /\ s = "deleted",
             op = "reactivate" => row[u].status = "disabled" /\ s = "active",
             op = "rotate" => row[u].status \in {"active", "disabled"}
                                /\ s = row[u].status,
             UNCHANGED <<table, request>>
      PROVE  SoloInv'
  <2>1. PICK copy \in Row : copy = User(s, h, m) /\ copy.status = s /\ copy.hash = h
    BY <1>1, NewRow
  <2> DEFINE c == [op |-> op, pc |-> pc, user |-> u, copy |-> copy, key |-> k]
  <2>2. /\ c \in Command /\ c.op = op /\ c.pc = pc /\ c.user = u
        /\ c.copy = copy /\ c.key = k
    BY <1>1 DEF Command
  <2>3. cmd' = [cmd EXCEPT ![a] = c]
    BY <1>1, <2>1 DEF Hold
  <2> HIDE DEF c
  <2>4. Current(c)
    BY <1>0, <1>1, <2>1, <2>2 DEF Current
  <2> QED
    BY <1>1, <2>2, <2>3, <2>4, SoloMoves
<1>2. UNCHANGED <<table, request>> /\ Inv
  BY DEF Create, Update, Disable, Delete, Reactivate, Rotate, Loads, gateway, SoloInv
<1>3. CASE Create(a, u, e)
  BY <1>0, <1>1, <1>2, <1>3 DEF Create, FreshId
<1>4. CASE Update(a, u, e)
  <2>1. row[u].status # "none"
    BY <1>4 DEF Update, Loads
  <2> QED
    BY <1>1, <1>2, <1>4, <2>1, LoadFacts DEF Update
<1>5. CASE Disable(a, u)
  <2>1. row[u].status = "active"
    BY <1>5 DEF Disable, Loads
  <2> QED
    BY <1>1, <1>2, <1>5, <2>1, LoadFacts DEF Disable
<1>6. CASE Delete(a, u)
  <2>1. row[u].status \in {"active", "disabled"}
    BY <1>6 DEF Delete, Loads
  <2> QED
    BY <1>1, <1>2, <1>6, <2>1, LoadFacts DEF Delete
<1>7. CASE Reactivate(a, u)
  <2>1. row[u].status = "disabled"
    BY <1>7 DEF Reactivate, Loads
  <2> QED
    BY <1>0, <1>1, <1>2, <1>7, <2>1, LoadFacts DEF Reactivate
<1>8. CASE Rotate(a, u)
  <2>1. row[u].status \in {"active", "disabled"}
    BY <1>8 DEF Rotate, Loads
  <2> QED
    BY <1>0, <1>1, <1>2, <1>8, <2>1, LoadFacts DEF Rotate
<1> QED
  BY <1>3, <1>4, <1>5, <1>6, <1>7, <1>8

\* The later steps, except the save.
LEMMA SoloLaterSteps ==
    ASSUME SoloInv, OneAtATime, Inv', NEW a \in Admins,
           Find(a) \/ Mail(a) \/ Audit(a) \/ Fails(a)
    PROVE  SoloInv'
<1>1. UNCHANGED <<table, request>> /\ cmd[a].pc # "idle" /\ Inv
  BY CommandFields DEF SoloInv, Inv, TypeOK, Find, Mail, Audit, Fails, gateway
<1>2. CASE Done(a)
  <2>1. Idle.pc = "idle"
    BY DEF Idle
  <2> QED
    BY <1>1, <1>2, <2>1, SoloMoves DEF Done
<1>3. CASE ~ Done(a)
  <2> DEFINE pc == IF Find(a) THEN "save" ELSE "audit"
  <2>1. cmd' = [cmd EXCEPT ![a].pc = pc]
    BY <1>3 DEF Find, Mail, Audit, Fails
  <2>2. PICK c \in Command :
              /\ cmd' = [cmd EXCEPT ![a] = c]
              /\ c.pc = pc /\ c.op = cmd[a].op /\ c.user = cmd[a].user
              /\ c.copy = cmd[a].copy /\ c.key = cmd[a].key
    BY <1>1, <2>1, AdvanceFacts
  <2>3. CASE Find(a)
    <3>1. Current(cmd[a])
      BY <2>3 DEF SoloInv, Find
    <3>2. Current(c)
      BY <2>2, <3>1 DEF Current
    <3> QED
      BY <1>1, <2>2, <3>2, SoloMoves
  <2>4. CASE ~ Find(a)
    BY <1>1, <2>2, <2>4, SoloMoves
  <2> QED
    BY <2>3, <2>4
<1> QED
  BY <1>2, <1>3

\* What a save stores when it is the only command: the row it read, changed.
LEMMA SoloSaveFacts ==
    ASSUME SoloInv, NEW a \in Admins, Save(a)
    PROVE  LET u == cmd[a].user
               c == cmd[a]
           IN  /\ Current(c)
               /\ c.key # 0 => c.copy.hash = c.key
               /\ c.key = 0 => c.copy.hash \in {0, row[u].hash}
               /\ revoked' = IF c.op = "update" THEN revoked
                             ELSE (revoked \cup keys[u]) \ {c.key}
<1>1. Inv /\ cmd[a].pc = "save" /\ Current(cmd[a])
  BY DEF SoloInv, Save
<1>2. cmd[a] \in Command /\ CommandOK(cmd[a])
  BY <1>1, SaveFacts
<1>3. cmd[a].key # 0 => cmd[a].copy.hash = cmd[a].key
  BY <1>1, <1>2 DEF CommandOK
<1>4. cmd[a].key = 0 => cmd[a].copy.hash \in {0, row[cmd[a].user].hash}
  BY <1>1, <1>2, SaveFacts DEF Current, CommandOK, RowOK, Command
<1> QED
  BY <1>1, <1>3, <1>4 DEF Save

\* The save revokes exactly the keys that its row gives up.
LEMMA SoloSave ==
    ASSUME SoloInv, OneAtATime, Inv', NEW a \in Admins, Save(a)
    PROVE  SoloInv'
<1> DEFINE u == cmd[a].user
           w == cmd[a].copy
           k == cmd[a].key
           op == cmd[a].op
<1>0. /\ Inv /\ cmd[a].pc = "save" /\ Current(cmd[a])
      /\ keys \in [Users -> SUBSET Nat] /\ revoked \subseteq Nat
  BY DEF SoloInv, Inv, TypeOK, Save
<1>1. /\ u \in Users /\ k \in Nat /\ w.hash \in Nat
      /\ op \in {"create", "update", "disable", "delete", "reactivate", "rotate"}
      /\ row'[u] = w /\ keys'[u] = keys[u] \cup ({w.hash} \ {0})
      /\ \A v \in Users : v # u => row'[v] = row[v] /\ keys'[v] = keys[v]
      /\ UNCHANGED request
  BY <1>0, SaveFacts DEF Command, gateway
<1>2. /\ k # 0 => w.hash = k
      /\ k = 0 => w.hash \in {0, row[u].hash}
      /\ revoked' = IF op = "update" THEN revoked
                    ELSE (revoked \cup keys[u]) \ {k}
  BY SoloSaveFacts
<1>3. \A v \in Users : \A l \in keys[v] : l # 0 /\ (k # 0 => l < k /\ l # k)
  BY <1>0, <1>1 DEF Inv, Current
<1>4. row[u].hash # 0 => row[u].hash \in keys[u]
  BY <1>0, <1>1 DEF Inv
<1>5. k \notin revoked
  BY <1>3 DEF SoloInv
<1>6. \A v, x \in Users : v # x => keys'[v] \cap keys'[x] = {}
  BY <1>1, <1>2, <1>3, <1>4 DEF SoloInv
<1>7. ASSUME NEW v \in Users
      PROVE  /\ keys'[v] \ revoked' \subseteq {row'[v].hash}
             /\ row'[v].status = "active" => row'[v].hash \notin revoked'
             /\ row'[v].status = "none" => keys'[v] = {}
  <2>1. CASE v # u
    <3>1. /\ row'[v] = row[v] /\ keys'[v] = keys[v]
          /\ keys[v] \ revoked \subseteq {row[v].hash}
          /\ row[v].status = "active" => row[v].hash \notin revoked
          /\ row[v].status = "none" => keys[v] = {}
      BY <1>1, <2>1 DEF SoloInv
    <3>2. row[v].status = "active" => row[v].hash \in keys[v]
      BY <1>0 DEF Inv, RowOK
    <3>3. row[v].status = "active" => row[v].hash \notin keys[u]
      BY <1>1, <2>1, <3>2 DEF SoloInv
    <3>4. keys[v] \ revoked' \subseteq {row[v].hash}
      BY <1>2, <1>3, <3>1
    <3> QED
      BY <1>2, <3>1, <3>3, <3>4
  <2>2. CASE v = u /\ op = "update"
    <3>1. w.hash = row[u].hash /\ w.status = row[u].status
      BY <1>0, <2>2 DEF Current
    <3>2. revoked' = revoked /\ w.status # "none"
      BY <1>0, <1>2, <2>2, SaveFacts DEF CommandOK
    <3> QED
      BY <1>1, <2>2, <3>1, <3>2 DEF SoloInv
  <2>3. CASE v = u /\ op # "update"
    <3>1. revoked' = (revoked \cup keys[u]) \ {k} /\ w.status # "none"
      BY <1>0, <1>2, <2>3, SaveFacts DEF CommandOK
    <3>2. keys'[u] \ revoked' \subseteq {w.hash}
      BY <1>1, <1>2, <1>3, <3>1
    <3>3. w.status = "active" => k # 0
      BY <1>0, <1>1, <2>3 DEF Current
    <3> QED
      BY <1>1, <1>2, <2>3, <3>1, <3>2, <3>3
  <2> QED
    BY <2>1, <2>2, <2>3
<1>8. revoked' \subseteq UNION {keys'[v] : v \in Users}
  <2>1. revoked' \subseteq UNION {keys[v] : v \in Users}
    BY <1>1, <1>2 DEF SoloInv
  <2>2. \A v \in Users : keys[v] \subseteq keys'[v]
    BY <1>1
  <2> QED
    BY <2>1, <2>2
<1>9. \A b \in Admins : cmd'[b].pc \notin {"find", "save"}
  <2>1. cmd'[a].pc \notin {"find", "save"}
    <3>1. CASE k = 0
      BY <1>0, <3>1 DEF Save, Done, Idle, Inv, TypeOK
    <3>2. CASE k # 0
      <4>1. cmd' = [cmd EXCEPT ![a].pc = "mail"]
        BY <3>2 DEF Save
      <4>2. PICK c \in Command : cmd' = [cmd EXCEPT ![a] = c] /\ c.pc = "mail"
        BY <1>0, <4>1, AdvanceFacts
      <4> QED
        BY <1>0, <4>2 DEF Inv, TypeOK
    <3> QED
      BY <3>1, <3>2
  <2> QED
    BY <2>1 DEF OneAtATime
<1>10. \A r \in Requests :
          /\ request'[r].pc = "lookup" /\ request'[r].late => request'[r].key \in revoked'
          /\ request'[r].pc = "accepted" => ~ request'[r].late
  <2>1. \A l \in revoked : l \in revoked'
    BY <1>2, <1>5
  <2> QED
    BY <1>1, <2>1 DEF SoloInv
<1> QED
  BY <1>6, <1>7, <1>8, <1>9, <1>10 DEF SoloInv

\* A request that came with a revoked key finds no active row with its hash.
LEMMA SoloRequest ==
    ASSUME SoloInv, Inv', NEW r \in Requests,
           \/ \E u \in Users : \E k \in keys[u] : Present(r, u, k)
           \/ Lookup(r) \/ Answer(r)
    PROVE  SoloInv'
<1>1. UNCHANGED <<row, keys, revoked, cmd>>
  BY DEF Present, Lookup, Answer, admin
<1>2. request \in [Requests -> Request \cup {Idle}]
  BY DEF SoloInv, Inv, TypeOK
<1>3. ASSUME NEW o \in Requests
      PROVE  /\ request'[o].pc = "lookup" /\ request'[o].late => request'[o].key \in revoked
             /\ request'[o].pc = "accepted" => ~ request'[o].late
  <2>1. CASE request'[o] = request[o]
    BY <2>1 DEF SoloInv
  <2>2. CASE o = r /\ request' = [request EXCEPT ![r] = Idle]
    BY <1>2, <2>2 DEF Idle
  <2>3. CASE o = r /\ \E u \in Users : \E k \in keys[u] : Present(r, u, k)
    <3>1. PICK u \in Users : \E k \in keys[u] : Present(r, u, k)
      BY <2>3
    <3>2. PICK k \in keys[u] : Present(r, u, k)
      BY <3>1
    <3>3. request'[r] = [pc |-> "lookup", of |-> u, key |-> k,
                         late |-> k \in revoked, as |-> u]
      BY <1>2, <3>2 DEF Present
    <3>4. request'[r].pc = "lookup" /\ request'[r].key = k
      BY <3>3
    <3>5. request'[r].late => k \in revoked
      <4> DEFINE q == [pc |-> "lookup", of |-> u, key |-> k,
                       late |-> k \in revoked, as |-> u]
      <4>1. q.late = (k \in revoked)
        BY Zenon
      <4> QED
        BY <3>3, <4>1, Zenon
    <3> QED
      BY <2>3, <3>4, <3>5
  <2>4. CASE o = r /\ Lookup(r) /\ request'[r].pc = "accepted"
    <3>1. request[r].pc = "lookup"
      BY <2>4 DEF Lookup
    <3>2. request[r] \in Request
      BY <1>2, <3>1 DEF Idle
    <3>3. PICK c \in Users : /\ row[c].status = "active"
                             /\ row[c].hash = request[r].key
                             /\ Accept(r, c)
      BY <1>2, <2>4 DEF Lookup, Found, Refuse, Idle
    <3>4. request[r].key \notin revoked
      BY <3>3 DEF SoloInv
    <3>5. ~ request[r].late
      BY <3>1, <3>4 DEF SoloInv
    <3> DEFINE q == [request[r] EXCEPT !.pc = "accepted", !.as = c]
    <3>6. q.late = request[r].late /\ q.pc = "accepted"
      BY <3>2 DEF Request
    <3>7. request'[r] = q
      BY <1>2, <3>3 DEF Accept
    <3> QED
      BY <2>4, <3>5, <3>6, <3>7
  <2>5. CASE o = r /\ Lookup(r) /\ request'[r].pc # "accepted"
    <3>1. request[r].pc = "lookup"
      BY <2>5 DEF Lookup
    <3>2. request[r] \in Request
      BY <1>2, <3>1 DEF Idle
    <3>3. \A c : Accept(r, c) => request'[r].pc = "accepted"
      BY <1>2, <3>2 DEF Accept, Request
    <3>4. request' = [request EXCEPT ![r] = Idle]
      BY <2>5, <3>3 DEF Lookup, Refuse
    <3> QED
      BY <2>2, <2>5, <3>4
  <2>6. CASE o # r
    <3>1. request'[o] = request[o]
      BY <1>2, <2>6 DEF Present, Lookup, Answer, Accept, Refuse
    <3> QED
      BY <2>1, <3>1
  <2>7. CASE o = r /\ Answer(r)
    BY <2>2, <2>7 DEF Answer
  <2> QED
    BY <2>3, <2>4, <2>5, <2>6, <2>7
<1>4. \A a \in Admins : cmd'[a].pc \in {"find", "save"} => Current(cmd[a])'
  BY <1>1 DEF SoloInv, Current
<1> QED
  BY <1>1, <1>3, <1>4 DEF SoloInv

\* Every step of the system keeps SoloInv.
LEMMA SoloNext == ASSUME OneAtATime PROVE SoloInv /\ [Next]_vars => SoloInv'
<1> SUFFICES ASSUME SoloInv, [Next]_vars PROVE SoloInv'
  OBVIOUS
<1>0. Inv /\ Inv'
  BY NextSafe DEF SoloInv
<1>1. ASSUME NEW a \in Admins, NEW u \in Users,
             Disable(a, u) \/ Delete(a, u) \/ Reactivate(a, u) \/ Rotate(a, u)
      PROVE  SoloInv'
  <2>1. row[u].status # "none"
    BY <1>1 DEF Disable, Delete, Reactivate, Rotate, Loads
  <2>2. PICK e \in Emails : TRUE
    BY <1>0, <2>1, LoadFacts
  <2> QED
    BY <1>0, <1>1, <2>2, SoloBegins
<1>2. ASSUME NEW a \in Admins, NEW u \in Users, NEW e \in Emails,
             Create(a, u, e) \/ Update(a, u, e)
      PROVE  SoloInv'
  BY <1>0, <1>2, SoloBegins
<1>3. ASSUME NEW a \in Admins, Find(a) \/ Save(a) \/ Mail(a) \/ Audit(a) \/ Fails(a)
      PROVE  SoloInv'
  BY <1>0, <1>3, SoloLaterSteps, SoloSave
<1>4. ASSUME NEW r \in Requests,
             \/ \E u \in Users : \E k \in keys[u] : Present(r, u, k)
             \/ Lookup(r) \/ Answer(r)
      PROVE  SoloInv'
  BY <1>0, <1>4, SoloRequest
<1>5. CASE UNCHANGED vars
  BY <1>0, <1>5 DEF vars, SoloInv, Current
<1> QED
  BY <1>1, <1>2, <1>3, <1>4, <1>5 DEF Next

LEMMA SoloInit == Init => SoloInv
<1> SUFFICES ASSUME Init PROVE SoloInv
  OBVIOUS
<1>1. Inv
  BY InitInv
<1>2. Absent.status = "none" /\ Idle.pc = "idle"
  BY DEF Absent, User, Idle
<1> QED
  BY <1>1, <1>2 DEF Init, SoloInv

\* The invariant of a single command at a time holds throughout.
LEMMA SoloHolds == ASSUME OneAtATime PROVE Spec => []SoloInv
<1> QED
  BY SoloInit, SoloNext, PTL DEF Spec

\* When commands do not overlap, a request that begins after a rotation, a
\* disabling or a deletion was stored is refused if its key was hit by it.
THEOREM RevocationIsImmediate ==
    ASSUME OneAtATime PROVE Spec => []RevokedKeyRejected
<1>1. SoloInv => RevokedKeyRejected
  BY DEF SoloInv, RevokedKeyRejected
<1> QED
  BY <1>1, SoloHolds, PTL

\* When commands do not overlap, a key that was mailed and not revoked is the
\* one that the row verifies.
THEOREM MailedKeyIsGood ==
    ASSUME OneAtATime PROVE Spec => []MailedKeyIsCurrent
<1>1. SoloInv => MailedKeyIsCurrent
  BY DEF SoloInv, MailedKeyIsCurrent
<1> QED
  BY <1>1, SoloHolds, PTL

-----------------------------------------------------------------------------
(* The commands, one at a time, implement the life cycle.                  *)

\* Membership in the union of a family of sets.
LEMMA InFamily ==
    ASSUME NEW f, NEW k
    PROVE  k \in UNION {f[v] : v \in Users} <=> \E v \in Users : k \in f[v]
  BY Zenon

\* Adding the key 0, or a key that is there, adds nothing.
LEMMA Absorbed ==
    ASSUME NEW S, NEW h, h # 0 => h \in S
    PROVE  S \cup ({h} \ {0}) = S
<1>1. ASSUME NEW x PROVE x \in S \cup ({h} \ {0}) <=> x \in S
  OBVIOUS
<1> QED
  BY <1>1

\* A save, seen as a step of the life cycle: the user's status and key are
\* those of the copy, and its key joins the spent ones.
LEMMA SaveMapped ==
    ASSUME Inv, NEW a \in Admins, Save(a)
    PROVE  /\ [v \in Users |-> row'[v].status] =
                 [[v \in Users |-> row[v].status] EXCEPT
                     ![cmd[a].user] = cmd[a].copy.status]
           /\ [v \in Users |-> row'[v].hash] =
                 [[v \in Users |-> row[v].hash] EXCEPT
                     ![cmd[a].user] = cmd[a].copy.hash]
           /\ UNION {keys'[v] : v \in Users} =
                 (UNION {keys[v] : v \in Users}) \cup ({cmd[a].copy.hash} \ {0})
<1> DEFINE u == cmd[a].user
           w == cmd[a].copy
<1>1. /\ u \in Users /\ row'[u] = w
      /\ keys'[u] = keys[u] \cup ({w.hash} \ {0})
      /\ \A v \in Users : v # u => row'[v] = row[v] /\ keys'[v] = keys[v]
  BY SaveFacts
<1>2. [v \in Users |-> row'[v].status] =
        [[v \in Users |-> row[v].status] EXCEPT ![u] = w.status]
  BY <1>1
<1>3. [v \in Users |-> row'[v].hash] =
        [[v \in Users |-> row[v].hash] EXCEPT ![u] = w.hash]
  BY <1>1
<1>4. ASSUME NEW k
      PROVE  (\E v \in Users : k \in keys'[v]) <=>
                 (\E v \in Users : k \in keys[v]) \/ k \in {w.hash} \ {0}
  BY <1>1
<1>5. UNION {keys'[v] : v \in Users} =
        (UNION {keys[v] : v \in Users}) \cup ({w.hash} \ {0})
  <2>1. ASSUME NEW k \in UNION {keys'[v] : v \in Users}
        PROVE  k \in (UNION {keys[v] : v \in Users}) \cup ({w.hash} \ {0})
    BY <1>4, <2>1, InFamily, Zenon
  <2>2. ASSUME NEW k \in (UNION {keys[v] : v \in Users}) \cup ({w.hash} \ {0})
        PROVE  k \in UNION {keys'[v] : v \in Users}
    BY <1>4, <2>2, InFamily
  <2> QED
    BY <2>1, <2>2
<1> QED
  BY <1>2, <1>3, <1>5

\* A save is the life-cycle step that its command is named after; changing
\* the e-mail is none.
LEMMA SaveIsLifecycleStep ==
    ASSUME SoloInv, NEW a \in Admins, Save(a)
    PROVE  [Lifecycle!LifeNext]_(Lifecycle!lifeVars)
<1>0. Inv
  BY DEF SoloInv
<1>1. PICK u \in Users, w \in Row, k \in Nat,
           op \in {"create", "update", "disable", "delete", "reactivate", "rotate"} :
        u = cmd[a].user /\ w = cmd[a].copy /\ k = cmd[a].key /\ op = cmd[a].op
  BY <1>0, SaveFacts DEF Command
<1>2. /\ w.hash \in Nat /\ k <= MaxKeys
      /\ op \in {"create", "update", "disable", "delete", "reactivate", "rotate"}
      /\ w.status = "deleted" => w.hash = 0
  BY <1>0, <1>1, SaveFacts, UserAssumption DEF Command, CommandOK, RowOK, Inv, Row
<1>3. /\ [v \in Users |-> row'[v].status] =
            [[v \in Users |-> row[v].status] EXCEPT ![u] = w.status]
      /\ [v \in Users |-> row'[v].hash] =
            [[v \in Users |-> row[v].hash] EXCEPT ![u] = w.hash]
      /\ UNION {keys'[v] : v \in Users} =
            (UNION {keys[v] : v \in Users}) \cup ({w.hash} \ {0})
  BY <1>0, <1>1, SaveMapped
<1>4. /\ Current(cmd[a])
      /\ k # 0 => w.hash = k
      /\ k = 0 => w.hash \in {0, row[u].hash}
  BY <1>1, SoloSaveFacts
<1>5. /\ [v \in Users |-> row[v].status][u] = row[u].status
      /\ [v \in Users |-> row[v].hash][u] = row[u].hash
  OBVIOUS
<1>6. row[u].hash # 0 => row[u].hash \in UNION {keys[v] : v \in Users}
  BY <1>0 DEF Inv
<1>7. k # 0 => k \in 1 .. MaxKeys /\ k \notin (UNION {keys[v] : v \in Users}) \cup {0}
  <2>1. k # 0 => \A v \in Users : \A l \in keys[v] : l < k
    BY <1>1, <1>4 DEF Current
  <2>2. k # 0 => k \in 1 .. MaxKeys
    BY <1>2, UserAssumption
  <2>3. k # 0 => ~ \E v \in Users : k \in keys[v]
    BY <2>1
  <2> QED
    BY <2>2, <2>3, InFamily
<1>a. k # 0 => {w.hash} \ {0} = {k}
  BY <1>4
<1>8. CASE op = "create"
  <2>1. row[u].status = "none" /\ w.status = "active" /\ k # 0
    BY <1>1, <1>4, <1>8 DEF Current, Absent, User
  <2>2. Lifecycle!Register(u, k)
    BY <1>3, <1>4, <1>5, <1>7, <1>a, <2>1 DEF Lifecycle!Register, Lifecycle!Issue
  <2>3. Lifecycle!LifeNext
    BY <1>7, <2>1, <2>2 DEF Lifecycle!LifeNext
  <2> QED
    BY <2>3
<1>9. CASE op = "reactivate"
  <2>1. row[u].status = "disabled" /\ w.status = "active" /\ k # 0
    BY <1>1, <1>4, <1>9 DEF Current
  <2>2. Lifecycle!Reactivate(u, k)
    BY <1>3, <1>4, <1>5, <1>7, <1>a, <2>1 DEF Lifecycle!Reactivate, Lifecycle!Issue
  <2>3. Lifecycle!LifeNext
    BY <1>7, <2>1, <2>2 DEF Lifecycle!LifeNext
  <2> QED
    BY <2>3
<1>10. CASE op = "rotate"
  <2>1. row[u].status \in {"active", "disabled"} /\ w.status = row[u].status /\ k # 0
    BY <1>1, <1>4, <1>10 DEF Current
  <2>2. Lifecycle!Rotate(u, k)
    BY <1>3, <1>4, <1>5, <1>7, <1>a, <2>1 DEF Lifecycle!Rotate, Lifecycle!Issue
  <2>3. Lifecycle!LifeNext
    BY <1>7, <2>1, <2>2 DEF Lifecycle!LifeNext
  <2> QED
    BY <2>3
<1>11. CASE op = "disable"
  <2>1. row[u].status = "active" /\ w.status = "disabled" /\ w.hash = row[u].hash
    BY <1>1, <1>4, <1>11 DEF Current
  <2>2. /\ [v \in Users |-> row'[v].hash] = [v \in Users |-> row[v].hash]
        /\ UNION {keys'[v] : v \in Users} = UNION {keys[v] : v \in Users}
    <3>1. [v \in Users |-> row'[v].hash] = [v \in Users |-> row[v].hash]
      BY <1>3, <2>1
    <3>2. UNION {keys'[v] : v \in Users} = UNION {keys[v] : v \in Users}
      BY <1>3, <1>6, <2>1, Absorbed
    <3> QED
      BY <1>3, <2>1, <3>1, <3>2
  <2>3. Lifecycle!Disable(u)
    BY <1>3, <1>5, <2>1, <2>2 DEF Lifecycle!Disable
  <2>4. Lifecycle!LifeNext
    BY <2>3 DEF Lifecycle!LifeNext
  <2> QED
    BY <2>4
<1>12. CASE op = "delete"
  <2>1. row[u].status \in {"active", "disabled"} /\ w.status = "deleted" /\ w.hash = 0
    BY <1>1, <1>2, <1>4, <1>12 DEF Current
  <2>2. UNION {keys'[v] : v \in Users} = UNION {keys[v] : v \in Users}
    BY <1>3, <2>1
  <2>3. Lifecycle!Delete(u)
    BY <1>3, <1>5, <2>1, <2>2 DEF Lifecycle!Delete
  <2>4. Lifecycle!LifeNext
    BY <2>3 DEF Lifecycle!LifeNext
  <2> QED
    BY <2>4
<1>13. CASE op = "update"
  <2>1. w.status = row[u].status /\ w.hash = row[u].hash
    BY <1>1, <1>4, <1>13 DEF Current
  <2>2. /\ [v \in Users |-> row'[v].status] = [v \in Users |-> row[v].status]
        /\ [v \in Users |-> row'[v].hash] = [v \in Users |-> row[v].hash]
        /\ UNION {keys'[v] : v \in Users} = UNION {keys[v] : v \in Users}
    <3>1. [v \in Users |-> row'[v].hash] = [v \in Users |-> row[v].hash]
      BY <1>3, <2>1
    <3>2. UNION {keys'[v] : v \in Users} = UNION {keys[v] : v \in Users}
      BY <1>3, <1>6, <2>1, Absorbed
    <3> QED
      BY <1>3, <2>1, <3>1, <3>2
  <2> QED
    BY <2>2 DEF Lifecycle!lifeVars
<1> QED
  BY <1>2, <1>8, <1>9, <1>10, <1>11, <1>12, <1>13

\* Every other step leaves the table alone.
LEMMA StepIsLifecycleStep ==
    ASSUME SoloInv, [Next]_vars
    PROVE  [Lifecycle!LifeNext]_(Lifecycle!lifeVars)
<1>1. CASE \E a \in Admins : Save(a)
  BY <1>1, SaveIsLifecycleStep
<1>2. CASE ~ \E a \in Admins : Save(a)
  <2>1. UNCHANGED <<row, keys>>
    BY <1>2 DEF Next, vars, Create, Update, Disable, Delete, Reactivate, Rotate, Loads,
                Find, Mail, Audit, Fails, table, Present, Lookup, Answer, admin
  <2> QED
    BY <2>1 DEF Lifecycle!lifeVars
<1> QED
  BY <1>1, <1>2

\* Commands that do not overlap take effect at once, as the README of the
\* admin tool tabulates them: they implement UserLifecycle.
THEOREM CommandsImplementLifecycle ==
    ASSUME OneAtATime PROVE Spec => ImplementsLifecycle
<1>1. Init => Lifecycle!LifeInit
  <2>1. Absent.status = "none" /\ Absent.hash = 0
    BY DEF Absent, User
  <2> QED
    BY <2>1 DEF Init, Lifecycle!LifeInit
<1>2. SoloInv /\ [Next]_vars => [Lifecycle!LifeNext]_(Lifecycle!lifeVars)
  BY StepIsLifecycleStep
<1> QED
  BY <1>1, <1>2, SoloHolds, PTL DEF Spec, ImplementsLifecycle, Lifecycle!LifeSpec
=============================================================================
