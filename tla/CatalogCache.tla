---------------------------- MODULE CatalogCache ----------------------------
(***************************************************************************)
(* The institute catalog: the admin tool replaces it in PostgreSQL and     *)
(* announces that with NOTIFY; the gateway keeps a copy in memory, loaded  *)
(* at startup and again by PostgresNotifyListener for every announcement.  *)
(*                                                                         *)
(* Each announcement starts a task of its own.  A task asks the database   *)
(* for the whole catalog, waits, and puts the answer into the cache, so an *)
(* older answer may be applied after a newer one.                          *)
(* A catalog is a number: how many replacements were committed before it.  *)
(***************************************************************************)
EXTENDS Integers

CONSTANTS
    Admins,      \* admin processes that may sync at the same time
    Slots,       \* refreshes that may be in flight (bound), Warm among them
    Warm,        \* the load at startup
    Faults,      \* what may go wrong, see FaultKinds
    MaxCatalog   \* bound: the number of the last catalog

FaultKinds ==
    { "disconnect",   \* the LISTEN connection breaks or cannot be opened
      "admin",        \* the admin process dies between commit and NOTIFY
      "query",        \* list_all raises
      "close" }       \* closing the LISTEN connection in stop() raises

ASSUME CatalogAssumption ==
    /\ Warm \in Slots
    /\ Faults \subseteq FaultKinds
    /\ MaxCatalog \in Nat

VARIABLES
    db,        \* the catalog committed last
    unsaid,    \* per admin process: the catalog it has yet to announce, or 0
    inbox,     \* announcements on their way to the gateway
    phase,     \* of the gateway process
    runner,    \* the listener's _run task
    refresh,   \* the refresh in each slot
    cache,     \* the catalog in memory, 0 for the empty dict
    awaited,   \* the tasks stop() waits for
    booted,    \* the catalog committed when the process started (history)
    newest,    \* the newest catalog the process has loaded (history)
    missed     \* did a fault keep the last catalog from it? (history)

vars ==
    <<db, unsaid, inbox, phase, runner, refresh, cache, awaited, booted, newest,
      missed>>

\* since: the catalog whose announcement started the refresh, or the last one
\* when the load at startup began; read: the catalog the database answered with.
Refresh ==
    [pc : {"idle", "asked", "answered"}, since : Nat, read : Nat]

Free == [pc |-> "idle", since |-> 0, read |-> 0]

\* The phases with the listener's stop event set: stop() closes the connection,
\* waits for the tasks, and has returned ("stopped") or raised ("torn").
StopSet == {"closing", "waiting", "stopped", "torn"}

TypeOK ==
    /\ db \in Nat
    /\ unsaid \in [Admins -> Nat]
    /\ inbox \subseteq Nat
    /\ phase \in {"down", "starting", "warming", "serving"} \cup StopSet
    /\ runner \in {"none", "connecting", "reconnecting", "listening", "backoff"}
    /\ refresh \in [Slots -> Refresh]
    /\ cache \in Nat
    /\ awaited \subseteq Slots
    /\ booted \in Nat
    /\ newest \in Nat
    /\ missed \in BOOLEAN

Init ==
    /\ db = 1
    /\ unsaid = [a \in Admins |-> 0]
    /\ inbox = {}
    /\ phase = "down"
    /\ runner = "none"
    /\ refresh = [t \in Slots |-> Free]
    /\ cache = 0
    /\ awaited = {}
    /\ booted = 0
    /\ newest = 0
    /\ missed = FALSE

gateway == <<phase, runner, refresh, cache, awaited, booted, newest>>

-----------------------------------------------------------------------------
(* The admin tool: SyncInstituteCatalogCommand.                            *)

\* Mutant: the announcement goes out before the commit.
ReplaceSaysFirst(a) ==
    /\ unsaid[a] = 0
    /\ db < MaxCatalog
    /\ unsaid' = [unsaid EXCEPT ![a] = db + 1]
    /\ inbox' = IF runner = "listening" THEN inbox \cup {db + 1} ELSE inbox
    /\ UNCHANGED <<db, missed, gateway>>

\* replace_catalog deletes and inserts in one transaction.
Replace(a) ==
    /\ unsaid[a] = 0
    /\ db < MaxCatalog
    /\ db' = db + 1
    /\ unsaid' = [unsaid EXCEPT ![a] = db + 1]
    /\ missed' = FALSE
    /\ UNCHANGED <<inbox, gateway>>

\* pg_notify in a second transaction.  Only a connection that listens at that
\* moment will ever see it; one that was broken misses it.
Notify(a) ==
    /\ unsaid[a] # 0
    /\ inbox' = IF runner = "listening" THEN inbox \cup {unsaid[a]} ELSE inbox
    /\ missed' = (missed \/ (unsaid[a] = db /\ runner \in {"backoff", "reconnecting"}))
    /\ unsaid' = [unsaid EXCEPT ![a] = 0]
    /\ UNCHANGED <<db, gateway>>

AdminDies(a) ==
    /\ "admin" \in Faults
    /\ unsaid[a] # 0
    /\ missed' = (missed \/ unsaid[a] = db)
    /\ unsaid' = [unsaid EXCEPT ![a] = 0]
    /\ UNCHANGED <<db, inbox, gateway>>

-----------------------------------------------------------------------------
(* The gateway process.                                                    *)

\* Nothing in memory outlives the process.
Gone ==
    /\ phase' = "down"
    /\ runner' = "none"
    /\ refresh' = [t \in Slots |-> Free]
    /\ inbox' = {}
    /\ cache' = 0
    /\ awaited' = {}
    /\ newest' = 0
    /\ missed' = FALSE

\* Mutant: the cache is warmed before the listener is up.
BootWarmsFirst ==
    /\ phase = "down"
    /\ phase' = "warming"
    /\ runner' = "connecting"
    /\ booted' = db
    /\ refresh' = [refresh EXCEPT
          ![Warm] = [pc |-> "asked", since |-> db, read |-> 0]]
    /\ UNCHANGED <<db, unsaid, inbox, cache, awaited, newest, missed>>

\* startup(): a new process, empty caches, and the listener first.
Boot ==
    /\ phase = "down"
    /\ phase' = "starting"
    /\ runner' = "connecting"
    /\ booted' = db
    /\ UNCHANGED <<db, unsaid, inbox, refresh, cache, awaited, newest, missed>>

\* The load at startup: whatever was missed before, it will read.
Warms ==
    /\ refresh' = [refresh EXCEPT
          ![Warm] = [pc |-> "asked", since |-> db, read |-> 0]]
    /\ missed' = FALSE

\* Mutant: requests are served as soon as the listener is up.
ConnectedServes ==
    /\ runner \in {"connecting", "reconnecting"}
    /\ runner' = "listening"
    /\ IF phase = "starting" THEN phase' = "serving" /\ Warms
       ELSE UNCHANGED <<phase, refresh, missed>>
    /\ UNCHANGED <<db, unsaid, inbox, cache, awaited, booted, newest>>

\* The LISTEN connection is up.  The first time this resolves the startup
\* future, start() returns and startup() goes on to warm the cache.
Connected ==
    /\ runner \in {"connecting", "reconnecting"}
    /\ runner' = "listening"
    /\ IF phase = "starting" THEN phase' = "warming" /\ Warms
       ELSE UNCHANGED <<phase, refresh, missed>>
    /\ UNCHANGED <<db, unsaid, inbox, cache, awaited, booted, newest>>

\* asyncpg.connect or add_listener raises: before the first success start()
\* stops the listener and startup fails, afterwards the runner backs off.
ConnectFails ==
    /\ "disconnect" \in Faults
    /\ runner \in {"connecting", "reconnecting"}
    /\ phase \notin StopSet
    /\ \/ /\ phase = "starting"
          /\ Gone
       \/ /\ phase # "starting"
          /\ runner' = "backoff"
          /\ UNCHANGED <<phase, refresh, inbox, cache, awaited, newest, missed>>
    /\ UNCHANGED <<db, unsaid, booted>>

\* Mutant: the runner gives up after a failed attempt.
BackoffOverGivesUp ==
    /\ runner = "backoff"
    /\ runner' = "failed"
    /\ UNCHANGED <<db, unsaid, inbox, missed, phase, refresh, cache, awaited, booted, newest>>

BackoffOver ==
    /\ runner = "backoff"
    /\ phase \notin StopSet
    /\ runner' = "reconnecting"
    /\ UNCHANGED <<db, unsaid, inbox, missed, phase, refresh, cache, awaited, booted, newest>>

\* The connection breaks with the announcements it carries.  The runner
\* reconnects at once, or backs off when closing the connection raised.
Disconnect ==
    /\ "disconnect" \in Faults
    /\ runner = "listening"
    /\ phase \notin StopSet
    /\ runner' \in {"reconnecting", "backoff"}
    /\ inbox' = {}
    /\ missed' = (missed \/ db \in inbox)
    /\ UNCHANGED <<db, unsaid, phase, refresh, cache, awaited, booted, newest>>

\* The stop event ends a runner that has a connection or opens one, while stop()
\* waits for its own close() or after that raised.
RunnerStops ==
    /\ phase \in {"closing", "torn"}
    /\ runner \notin {"none", "backoff"}
    /\ runner' = "none"
    /\ inbox' = {}
    /\ UNCHANGED <<db, unsaid, missed, phase, refresh, cache, awaited, booted, newest>>

\* Mutant: an announcement is dropped while another refresh is under way.
DeliverUnlessBusy(t) ==
    /\ runner = "listening"
    /\ t # Warm
    /\ refresh[t] = Free
    /\ \E v \in inbox :
         /\ inbox' = inbox \ {v}
         /\ refresh' = IF \A u \in Slots : refresh[u] = Free
                         THEN [refresh EXCEPT ![t] =
                                 [pc |-> "asked", since |-> v, read |-> 0]]
                         ELSE refresh
    /\ UNCHANGED <<db, unsaid, missed, phase, runner, cache, awaited, booted, newest>>

\* _handle_notification: a task per announcement.
Deliver(t) ==
    /\ runner = "listening"
    /\ t # Warm
    /\ refresh[t] = Free
    /\ \E v \in inbox :
         /\ inbox' = inbox \ {v}
         /\ refresh' = [refresh EXCEPT
                          ![t] = [pc |-> "asked", since |-> v, read |-> 0]]
    /\ UNCHANGED <<db, unsaid, missed, phase, runner, cache, awaited, booted, newest>>

\* list_all: one SELECT, so one committed catalog.
Answered(t) ==
    /\ refresh[t].pc = "asked"
    /\ refresh' = [refresh EXCEPT ![t] = [@ EXCEPT !.pc = "answered", !.read = db]]
    /\ UNCHANGED <<db, unsaid, inbox, missed, phase, runner, cache, awaited, booted, newest>>

\* list_all raises: a task only logs that, at startup the process ends.
QueryFails(t) ==
    /\ "query" \in Faults
    /\ refresh[t].pc = "asked"
    /\ \/ /\ t = Warm
          /\ Gone
       \/ /\ t # Warm
          /\ refresh' = [refresh EXCEPT ![t] = Free]
          /\ missed' = (missed \/ refresh[t].since = db)
          /\ UNCHANGED <<phase, runner, inbox, cache, awaited, newest>>
    /\ UNCHANGED <<db, unsaid, booted>>

\* load() replaces the dict, by whatever the task was answered; after the load
\* at startup requests are served.
Load(t) ==
    /\ refresh[t].pc = "answered"
    /\ cache' = refresh[t].read
    /\ newest' = IF newest < refresh[t].read THEN refresh[t].read ELSE newest
    /\ refresh' = [refresh EXCEPT ![t] = Free]
    /\ phase' = IF t = Warm THEN "serving" ELSE phase
    /\ UNCHANGED <<db, unsaid, inbox, missed, runner, awaited, booted>>

\* stop() sets the stop event and closes the connection.  While it waits for
\* that, announcements still arrive and tasks and runner go on.
Shutdown ==
    /\ phase = "serving"
    /\ phase' = "closing"
    /\ UNCHANGED <<db, unsaid, inbox, missed, runner, refresh, cache, awaited, booted,
                   newest>>

\* Mutant: stop() looks for tasks to wait for before the connection is closed.
ClosedTooLate ==
    /\ phase = "closing"
    /\ phase' = "waiting"
    /\ awaited' = {t \in Slots : refresh[t] # Free}
    /\ UNCHANGED <<db, unsaid, inbox, missed, runner, refresh, cache, booted, newest>>

\* The connection is closed, and the runner cancelled and gone; stop() gathers
\* the handler tasks that are there by now.
Closed ==
    /\ phase = "closing"
    /\ phase' = "waiting"
    /\ runner' = "none"
    /\ inbox' = {}
    /\ awaited' = {t \in Slots : refresh[t] # Free}
    /\ UNCHANGED <<db, unsaid, missed, refresh, cache, booted, newest>>

\* connection.close() raises out of stop(): nothing is cancelled or awaited.
\* In a back-off there is no connection to close.
CloseRaises ==
    /\ "close" \in Faults
    /\ phase = "closing"
    /\ runner # "backoff"
    /\ phase' = "torn"
    /\ UNCHANGED <<db, unsaid, inbox, missed, runner, refresh, cache, awaited, booted,
                   newest>>

\* The tasks stop() waited for are done, and it returns.
Awaited ==
    /\ phase = "waiting"
    /\ \A t \in awaited : refresh[t] = Free
    /\ phase' = "stopped"
    /\ awaited' = {}
    /\ UNCHANGED <<db, unsaid, inbox, missed, runner, refresh, cache, booted, newest>>

\* shutdown() disposes the database engine, whether stop() returned or raised,
\* and the process ends.
Exit ==
    /\ phase \in {"stopped", "torn"}
    /\ Gone
    /\ UNCHANGED <<db, unsaid, booted>>

Crash ==
    /\ phase # "down"
    /\ Gone
    /\ UNCHANGED <<db, unsaid, booted>>

Next ==
    \/ \E a \in Admins : Replace(a) \/ Notify(a) \/ AdminDies(a)
    \/ Boot \/ Connected \/ ConnectFails \/ BackoffOver \/ Disconnect \/ RunnerStops
    \/ \E t \in Slots : Deliver(t) \/ Answered(t) \/ QueryFails(t) \/ Load(t)
    \/ Shutdown \/ Closed \/ CloseRaises \/ Awaited \/ Exit \/ Crash

Spec == Init /\ [][Next]_vars

-----------------------------------------------------------------------------
(* Whatever goes wrong.                                                    *)

\* A refresh never reads a catalog older than the one it was started for: the
\* admin tool announces after the commit.
RefreshSeesItsCatalog ==
    \A t \in Slots :
        refresh[t].pc = "answered" => refresh[t].read >= refresh[t].since

\* Once it serves requests, the gateway never falls back to a catalog older
\* than the one it found when it started: refreshes and the load at startup
\* may overtake each other, and none of them is left from before.
ServesBootCatalog ==
    phase = "serving" => cache >= booted

\* No refresh that would query the database, no listener, nothing announced.
Quiet ==
    /\ \A t \in Slots : refresh[t] = Free
    /\ runner = "none"
    /\ inbox = {}

\* Once stop() has returned, and so when the database engine is disposed, no
\* refresh, no listener and no announcement is left, whatever went on while it
\* waited for the connection to close and for the tasks.
StoppedIsQuiet ==
    phase = "stopped" => Quiet

\* Something under way will load the last catalog: it has yet to be announced,
\* the announcement is on its way, or the refresh it started has not loaded its
\* answer, which is then the last catalog.
Outstanding ==
    \/ \E a \in Admins : unsaid[a] = db
    \/ db \in inbox
    \/ \E t \in Slots : refresh[t] # Free /\ refresh[t].since = db

\* A serving gateway that has never loaded the last catalog is about to, or a
\* fault kept the catalog from it: its admin process died, the connection was
\* broken when it was announced, or the refresh it started failed.
StaleHasWork ==
    phase = "serving" /\ newest # db => Outstanding \/ missed

-----------------------------------------------------------------------------
(* What every process does in the end: an admin process announces, the     *)
(* event loop runs a handler for what has arrived, the database answers    *)
(* and the answer is loaded.  Nothing is assumed of the connection.        *)

Fairness ==
    /\ \A a \in Admins : WF_vars(Notify(a))
    /\ \A t \in Slots : WF_vars(Answered(t) \/ QueryFails(t)) /\ WF_vars(Load(t))
    /\ WF_vars(\E t \in Slots : Deliver(t))

FairSpec == Spec /\ Fairness

\* Every committed catalog, or a later one, is loaded at last, unless the
\* process ends before or a fault keeps the last one from it.  (It need not
\* stay in the cache: see CacheIsLatest.)
CatchesUp ==
    \A v \in 1 .. MaxCatalog :
        phase = "serving" /\ db >= v ~> phase # "serving" \/ newest >= v \/ missed

-----------------------------------------------------------------------------
(* What the repository's documents say of the program.                     *)

\* apps/gateway/README.md:11: the gateway reacts to gw.catalog_replaced to
\* refresh its cache without a restart.  So when nothing fails, a cache that is
\* not the last catalog is about to become it.
CacheIsLatest ==
    phase = "serving" /\ cache # db => Outstanding
=============================================================================
