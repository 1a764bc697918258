# TLA+ models of geldstrom

Geldstrom lets programs read bank accounts over FinTS. This directory holds
TLA+ specifications of the parts whose correctness depends on the order of
events, the TLC runs that check them on small instances, and the theorems that
TLAPS proves of them for every size. Every definition is a translation of the
Python source; `PROJECT.json` gives the lines of each.

## Inventory

| part | state it keeps | operations | what is hard | modelled in |
|---|---|---|---|---|
| gateway: bank commands, poll, status query (`application/banking`) | one `PendingOperationSession` per operation, in Redis | the four bank commands, `POST /operations/{id}/poll`, `GET /operations/{id}` | each poll reads, waits seconds for the bank, writes back a copy; clock and Redis TTL move meanwhile; a response may be lost | `OperationSessions`, `OperationApi` |
| gateway: Redis session store | a key per session, TTL | `create`, `get`, `update` (`delete` and `expire_stale` have no caller in the gateway) | the TTL is truncated and extended by a grace period, so "expired", "evicted" and "missing" differ | `OperationSessions` |
| gateway: institute cache, NOTIFY listener, startup and shutdown | the catalog in memory, the LISTEN connection, tasks under way | `start`, `_run`, `_handle_notification`, `load`, `stop` | announcements are lost while disconnected, refreshes overtake each other and the load at startup, shutdown must wait for them, and closing the connection may raise | `CatalogCache` |
| admin: catalog sync | `fints_institutes` | replace, announce | two transactions; the process may die between them | `CatalogCache` |
| admin: users commands | `api_consumers` | create, update, disable, reactivate, rotate-key, delete | read, change, write back the whole row over several awaits; a mail that fails after the save | `UserAdmin`, `UserLifecycle` |
| gateway: authentication, audit | none of its own | `AuthenticateConsumerQuery` | reads the rows the admin tool writes; ids are looked up by an eight-digit prefix | `UserAdmin` |
| gateway: rate limiter | a deque of times per caller, in process | `dispatch` | half-open window, eviction at 50 000 callers | `RateLimit` |
| geldstrom: parameter store (BPD, UPD) | the bank's parameters, each with a version | `update_from_response`, `to_dict`, `from_dict`, everything decided from them | go through bytes at every snapshot, poll and restart; a bank may revise them at any time, send them unasked or not count them | `ParameterStore`, `ClientSession` |
| geldstrom: FinTS dialog, session snapshot | message number, dialog id, security context | `initialize`, `send`, `send_without_tan`, `poll_decoupled_once`, `snapshot`, `resume`, `end` | numbering after an exchange that failed, a second challenge in a resumed dialog, a dialog that the bank drops between two pages | `HistoryDownload` |
| geldstrom: decoupled client, banking connector | the pending TAN of the client object | `resume_and_poll`, `_complete_approved_operation`, `_fetch_transactions_sync` | finishing an approved operation in the resumed dialog, where the answer to the poll may be a first page | `ClientSession` for what each operation returns and saves, `HistoryDownload` for the pages of a download, `OperationSessions` for what the handlers see |
| geldstrom: touchdown pagination, operations | none beyond a call | `fetch` | 3040, 9370, TAN challenges and errors in every order | `HistoryDownload`; versions, formats, accounts and balances in `ParameterStore` and `ClientSession` |
| geldstrom: wire format | none | `parse_segment`, `from_wire_list`, `serialize_segment`, `_implode_deg` | elements are told apart by position: absent ones, groups in groups, lists | `WireTypes`, `SegmentLayouts`, `Segments`, `WireFormat`, `BankMessages`, `ClientWire` |
| admin: CSV import and ranking | none | `read`, `select` | which of several rows of a bank code is kept | not modelled |
| readiness, product registration, routers, schemas, CLI, frontend, examples | none, or one row replaced at once | | no interleaving of their own | not modelled |

The parts meet in three places. The poll handler of the gateway calls the
connector, which resumes a FinTS dialog from the snapshot in the session. The
admin tool and the gateway share a PostgreSQL database: the admin tool writes
users and catalogs, the gateway reads users on every request and the catalog
at startup and after each `gw.catalog_replaced`. Finally the user answers a
challenge in a banking app, which neither program sees; only the bank's next
answer to HKTAN tells.

Correct means, part by part:

- **sessions**: a consumer is told one verdict, bank data only after the
  approval of that operation, nobody else learns a status (that an id exists
  somebody else does learn, see below), expiry is anchored
  at creation, an approved operation that is polled is settled;
- **catalog**: whatever fails, a serving gateway does not fall behind the
  catalog it was started with, a `stop()` that returns leaves nothing under way,
  and every committed catalog, or a later one, is loaded at last unless a fault
  keeps it from the process (that it stays in the cache is not so, see below);
- **users**: a revoked key is refused at once, no spent key or deleted user
  returns, addresses are unique, nobody is sent a key that does not work;
- **rate limiter**: never more than the limit in any window, per caller that is
  not evicted; nobody is rejected who was not let through that often; the dict
  is bounded and every entry of it is freed at last;
- **client and parameters**: whatever was saved, restored, polled and revised,
  the client decides as if it had just read what the bank said; an account that is
  listed with its number is found again; each balance is that of its account;
- **wire format**: what a bank writes is read field by field as it was meant or
  refused, what the client writes is what the standard asks for, and what is
  saved is the same when it is restored, within limits given below;
- **download of a history** (dialog, decoupled client, pagination): pages in
  order and none twice; a feed without `has_more` is the whole history, but for
  three causes the code does not handle: overlapping polls, a second challenge,
  an order that the bank answers with an error; a
  pending session is one the bank still waits for, no dialog is left open, and
  the user approves a history once.

## Modules

| module | what it is |
|---|---|
| `OperationApi` | abstract specification: what the operations API promises a consumer |
| `OperationSessions` | the handlers and the session store; refines `OperationApi` when a client sends one poll at a time |
| `MCOperationSessions` | symmetry for TLC |
| `OperationSessions_proofs` | theorems about it |
| `CatalogCache` | catalog sync, NOTIFY, listener, refreshes, the life of the gateway process |
| `MCCatalogCache`, `CatalogCache_proofs` | symmetry; theorems |
| `UserLifecycle` | abstract specification: the commands of `gw-admin users` as atomic steps |
| `UserAdmin` | the commands split at their awaits, and the gateway's authentication; refines `UserLifecycle` when commands run one at a time |
| `MCUserAdmin`, `UserAdmin_proofs` | symmetry and prefix functions; theorems |
| `HistoryFeed` | abstract specification: what the gateway promises about one download |
| `HistoryDownload` | one download of transactions: connector, decoupled client, dialogs and paginator against a bank; implements `HistoryFeed` |
| `MCHistoryDownload` | symmetry |
| `HistoryDownload_proofs`, `HistoryTurns_proofs` | theorems: whatever happens; while polls take turns, and the refinement |
| `RateLimit` | the sliding window of the rate limiter |
| `MCRateLimit`, `RateLimit_proofs` | symmetry; theorems |
| `WireTypes` | data element types and their validators (`protocol/types.py`) |
| `SegmentLayouts` | the fields of every group and segment that geldstrom declares, and the registry |
| `Segments` | classes, robust mode and fallback segments, over any way to read and write the elements of a segment |
| `WireFormat` | that of geldstrom, parser and serializer: positions, groups, lists |
| `BankMessages` | the other side of the wire: how the standard encodes a segment, and samples of every segment |
| `ParameterStore` | bank and user parameters, how they are taken over, saved and restored, and what is decided from them |
| `ClientSession` | a decoupled client against a bank that revises its parameters, over any wire format, with what it needs of both as assumptions |
| `ClientWire` | composes it with the wire format of geldstrom, and says what is expected of that |
| `MCClientSession` | three banks for TLC |
| `ClientSession_proofs` | theorems about the client over any wire format |
| `Promises_proofs` | theorems about the three abstract specifications |

### OperationSessions

A handler is a coroutine: what happens between two awaits is one action, and
other handlers run at each await. A slot of `Pollers` is a poll in flight.
`PollAnswered` is a poll that ends at its first store read (missing, foreign or
settled session), `PollResumes` one that goes on to the bank with a copy of
what it read. `BankStillPending`, `BankApproved` and `BankFailed` are the
returns of `resume_operation`; they also carry what happens to the dialog:
it is ended by everything but "still waiting". `PollStores` writes
the *copy*, changed by the result, over whatever the store holds by then.
`PollAborts` is every exception and the end of the process. `GetStatus` is the
status query with its three ends: 404 without a session ("missing"), 403 for a
session of somebody else ("forbidden"), and the owner's answer. A poll tells the
first two apart from nothing: it answers "expired". A session is a record of the fields that the code branches on;
`state` and `payload` are the operation whose snapshot or data they hold, so
that a mix-up would be visible. The truncation in `_ttl_seconds` is the choice
of `cut`, since a tick of the clock is a second and the real clock is not.

`told` is a history: what each consumer was told about each operation. The
response of a poll may be lost, a stored result may not.

### CatalogCache

A catalog is the number of commits before it. `Replace` and `Notify` are the two
transactions of a sync. A slot of `refresh` is a handler task, `Warm` the load
at startup. The read of a refresh (`Answered`) and the replacement of the dict
(`Load`) are two steps, because the answer of the database is awaited, and tasks
finish in any order: nothing in the listener orders them, so an older answer may be
loaded last. An announcement reaches the gateway only over a connection that listens
when it is sent.
What may go wrong is the constant `Faults`, so that a run names the faults it
allows: a broken LISTEN connection, an admin process that dies, a failing
query, and a connection that cannot be closed.
`stop()` is taken apart at its awaits: `Shutdown` sets the stop event and starts to close
the connection, meanwhile announcements still start tasks and the runner may end by
itself (`RunnerStops`); `Closed` cancels the runner and gathers the tasks that are there,
`Awaited` is the return. `CloseRaises` is the other end: the phase is then "torn", in which
the factory swallows the exception and goes on, with runner and tasks alive, until `Exit`.
`newest` (the newest catalog loaded), `booted` and `missed` (a fault kept the last catalog
from the process: its announcement was lost or never sent, or its refresh failed) are
histories.

### UserAdmin

`cmd[a]` is a command between two awaits with the copy of the row it read.
`Create`, `Disable`, `Delete`, `Reactivate`, `Rotate` and `Update` are the read
with the checks that follow it, `Find` the second read of `update_user`,
`Save` the write of the whole row, `Mail` and `Audit` what comes after;
`Fails` ends a command at any of these points. A key is a fresh number and
its hash the same number. The unique column is the guard of `Save`. A request
of the gateway arrives with a key (`Present`), reads the rows (`Lookup`) and
is answered. `keys` and `revoked` are histories.

### HistoryDownload

`client[h]` is a request handler of the gateway with its FinTS client: the step
it is at (`connect`, `discover` and `hangup` are the dialog of `list_accounts`,
`login`, `locate`, `history` and `end` that of `get_transactions`, `poll` a
resumed dialog before its first answer), the message number, and what the
paginator has. `stored` is the session, `bank` the environment. One exchange of
messages with the bank is one action, named for its answer: `Served`,
`Unsigned` (9370), `Challenged` (3955), `StillWaiting`, `Approved`, `Rejected`,
`Refused`, `End`; what the handler does with the answer up to its next message
belongs to the action, storing the result included. `Lose` is an exchange that
fails before or after the bank took the message. `Begin` and `Resume` are
`POST /transactions` and `POST /poll`; `Decide` and `Drop` are the user and
the bank's timeout, which may fall between any two messages. `Refused` is an error
answer to anything but HKEND, `Unlisted` an answer without the account
(`locate_sepa_account` raises). What such an answer leads to is `Without`: for a page the
end of the feed, for the list of accounts the user parameters, or an exception where they
lack the account or the error is 9075.

The bank is read off the comments and the answers the client handles: it opens
a dialog on a first message, takes only the next number, asks for approval of an
order when it pleases (of a continuation only if it does not insist on HKTAN
there and gets one), answers any message with an error if it pleases, keeping the dialog
or dropping it, and hears an HKEND that carries the right number. It does not count a
message with a wrong number. `denied` is the history that it did not do what it was asked
for reasons of its own: an error to an order with the right number, or in a dialog it had
dropped, or an account it did not list.

Left out: the dialog that synchronises the system id, the choice between MT940
and CAMT and pages without entries, and BPD caching.
A download that fails before its first challenge is stored as failed here; the
gateway answers such a request with an error and has no session at all. The
clock is left out too, expiry being the subject of `OperationSessions`.

### RateLimit

`Admit` and `Reject` are the two ends of `dispatch`; there is no await before
either, so each is one step. `Expired` says how many times are trimmed, `Others`,
`Full`, `Evicted` and `Entered` what happens to the dict. `accepted` (all times a
caller was ever let through) and `forgotten` (how many of them were in a bucket that
eviction or a restart dropped) are histories. `Restart` is a new process.

### WireTypes, SegmentLayouts, Segments, WireFormat, BankMessages

A value on the wire is nothing, a token or a list; a value of the program carries
the name of its Python type, so that a number read as text differs from a
number. A layout is the sequence of the annotated fields of a class, with
its type, whether it is optional and whether it is a list. `Registry` has every
class that registers itself. `Segments` takes the reading of a segment's elements and
the writing of a segment as constant operators (`Parsed`, `Written`): what depends on
segments but not on their bytes can be reasoned about without them, and the modules
above it declare no recursive operator. The configurations bind the operators to `WireFormat`. `from_wire_list` and `_parse_segment_as_class` read
by position as the code does, with its heuristics (`WithTANProcess`, which puts the TAN process back that some banks omit, and
`_find_deg_boundary`); `to_wire_list`, `serialize_segment` and `_implode_deg`
write. The tokenizer is what it makes of the parts of an element
(`ExplodeElement`). `Encode` in `BankMessages` is independent of all that: the
place of every element by the standard. Escaping, lengths of binary
elements and message headers are left out.

### ParameterStore, ClientSession and ClientWire

`session` is the `FinTSSessionState` an owner keeps, as the bytes that
`to_dict` makes of the parameters, `pending` the `_PendingTANState` with its
context, `client` what the object knows of its accounts. A step is one
operation up to its result or to the challenge that interrupts it
(`ConnectChallenged`, `GetBalancesChallenged`, `GetTransactionsChallenged`,
then `StillWaiting`, `Rejected` or `Approved`). Every `Operation` begins with a login,
in which the bank sends what is newer than the parameters it starts from (`initialize`). `Restart` is a new process with the
session state, with the snapshot of a pending operation or with neither.
`Revise` is the bank changing its parameters between dialogs. Every message of
the bank that the client reads here passes through `Encode` and `parse_segment`,
every saved parameter through `serialize_segment` and back. In `ClientSession` these are
the constant operators `Encoded`, `Parsed` and `Written`; `Copies` gives what a segment
may have become after any number of saves, and `Compact` the segments that do not
change. `ClientWire` has the definitions that the configurations bind to them. Each context carries
which data of the bank it came from (`sent`), a history against which the decisions
are compared. The variable `message` is used by behaviours of one state, in
which a single segment is sent and read: they make the samples of the wire format part
of the same run.

An account without a number has what the code writes in its place: "None" when HIUPD has
no account information (`Text_`), the IBAN or nothing when HISPA leaves the number out
(`Made`, `as_sepa_account`), "" in the fallback.

Left out: the security envelope, the blocking client, a challenge within the
request for TAN methods, and of a download everything but its formats.

## Runs

| run | instance | question |
|---|---|---|
| `sessions_concurrent` | 1 operation, 2 consumers, 2 polls in flight, TTL 2, bank's window 3, clock to 5 | what survives stale copies: readable sessions, approval before data, privacy, grace period, anchored expiry |
| `sessions_sequential` | 1 operation, 2 consumers, one poll at a time, clock to 4, fairness | the API promise, final verdicts, settlement of an approved operation |
| `sessions_terminal` | two polls in flight | **violated**: the slower poll overwrites a verdict |
| `catalog` | 2 admins, 3 slots, catalogs to 4, every fault, fairness | what holds whatever fails and in whatever order refreshes finish; nothing is missed without a fault, across the start of the process too |
| `catalog_overtaken` | 1 admin, 3 slots, no fault | **violated**: an older answer is loaded last and stays |
| `users_concurrent` | 2 users of one prefix, 2 addresses, 2 commands at a time, 2 keys, 1 request | what survives lost updates |
| `users_sequential` | 2 users, 2 addresses, 1 command at a time, 4 keys, 1 request | the life cycle of the README, revocation, mailed keys |
| `history_races` | 2 handlers, up to 3 pages, limit 2, 2 challenges, 1 lost exchange, errors and timeouts at any message | the promise of `HistoryFeed`: pages in order, whole when reported whole, one result; snapshots that the bank accepts, no open dialogs, one approval |
| `history_silent` | 1 handler, nothing lost | **violated**: an error in the place of a page, or a second challenge, ends a download as complete |
| `rate_limit` | 3 callers, 2 buckets, limit 2, window 2, clock to 4, 3 requests let through per caller | the bound on any window and its boundary, due rejections, the bounded dict, with evictions and restarts |
| `client_session` | 3 unlike banks, 1 revision each; 2 values of every type, every segment with elements present and absent | decisions taken from restored parameters, accounts and balances, formats, and the wire format in both directions; the assumptions of the theorems |
| `balances_as_told` | the same banks, no samples | **violated**: a balance is returned with the wrong sign, under an id that was not listed, or not at all |

Every property of a passing run has a mutant in `PROJECT.json`: a plausible bug
in one mapped definition that makes TLC find the property violated.

**Bounds.** One operation is enough for the sessions: no action reads or writes
two of them, and a slot keeps to one operation. Two polls are the least that
race, two consumers the least where one is not the owner. The clock runs past
expiry plus grace and back into a late write. In the catalog, a refresh can
be overtaken by another while the load at startup is under way (three slots),
with catalogs before, during and after; two admin processes announce in the other order than they committed. For users, two keys let one user rotate
while another command holds the old row, and four let a user be created,
rotated, disabled, rotated and reactivated. A history of three pages with a
limit of two has a first, a middle and a last page, ends before, at and after the
limit, and can be continued after an approved first page; the number 6 lets a
session be polled several times before it is approved. The rate limiter has one
caller more than buckets and admits one request more than the limit, over two
windows and the boundary between them. The three banks of the client differ in
everything the code branches on: offered versions and formats, a HIPINS or
none, decoupled methods or not, accounts with numbers, subaccounts or neither, in HIUPD, in HISPA or in both, no user parameters at all,
parameters that are unknown or leave elements out, amounts with and without a currency;
one revision turns any into another while something is saved or pending. A
segment is sampled with each element present with two values and absent, each
list with one item and with two, and groups likewise. The bounds are the
constants `MaxTime`, `MaxCatalog`, `MaxKeys`, `Pages`, `MaxAsked`, `MaxLost`,
`MaxNumber`, `MaxAccepted`, `MaxRevisions` and the sizes of the sets; the theorems hold for all their values.

**Fairness.** `sessions_sequential` assumes that handlers that have started go
on (the event loop runs them), and of the client that it keeps polling a
pending operation and that not every one of its polls is aborted (strong
fairness of resuming and of the answer). Without the second, nothing can be
promised: the gateway settles operations only inside polls. Nothing is assumed
of the user. `catalog` assumes what a live process does: a committed sync is announced,
an announcement that has arrived starts its task, the database answers or the query
fails, and what was answered is loaded. Nothing is assumed of the connection: it may
fail for ever, and `missed` then says so. Nobody has to sync, start or stop
the gateway. Deadlock is not checked for the users, the
download, the rate limiter and the client: commands, keys, times and revisions are
bounded, a system of which nobody asks anything stops, and so does a download that is
over or a message that was read.

## What the violations show

1. **A verdict is overwritten** (`sessions_terminal`). README.md:198 calls
   `completed` and `failed` terminal states. Two polls in flight for one
   operation both hold the pending session. The first completes it and ends
   the dialog; the second, refused by the bank, stores "failed", and the
   fetched data is lost. With one poll at a time this cannot happen
   (`SettledIsFinal`, proved).
2. **A download ends early and says it is complete** (`history_silent`, two causes).
   fints3_decoupled.py:279-282 goes on paging because "Returning early here would
   silently lose transactions". But the paginator (pagination.py:102-112 and 141) looks for
   segments and for 3040 and never for an error, and `Dialog.send` raises none: when the
   bank answers a page with an error, be it 9800 because the dialog timed out between two
   pages, the download is stored as complete with the pages before, or none. TLC prints
   this one. The other cause is a challenge in a dialog that was resumed from a snapshot,
   which has no challenge handler (dialog/core.py:280): when the bank asks again there,
   the answer counts as a last page without data too. Two overlapping polls come to the
   same end: the bank refuses the slower poll and drops the dialog, and the error answer to
   the other's next page counts as the last one. With turns taken, one challenge and no
   error the download is whole, whatever exchanges fail (`CompleteIsWhole`, proved).
3. **An older catalog stays in the cache** (`catalog_overtaken`). apps/gateway/README.md:11
   says that the gateway reacts to `gw.catalog_replaced` to refresh its cache without a
   restart. Each announcement starts a task, and the tasks and the load at startup are not
   ordered among each other (notify_listener.py:166-168): the answer taken before the last
   commit may be loaded after the last catalog. Nothing is then under way that would repair
   it before the next sync. No fault is needed. What remains true is that the last catalog
   was loaded once (`CatchesUp`, `StaleHasWork`) and that the cache is never older than the
   one at startup (`ServesBootCatalog`).
4. **Balances are not returned as they were told** (`balances_as_told`, three defects).
   (a) services/balances.py:129 promises a "BalanceAmount with correct sign", and
   tests/packages/geldstrom/unit/infrastructure/fints/services/test_services.py:298
   tests the conversion of a status "D". But `_balance_to_hisal`
   (operations/balances.py:115) looks for a method `as_mt940_Balance` that is called
   `as_mt940_balance` in formals/amounts.py, never reads `credit_debit`, and takes the sign
   from an amount that has none: every balance is a credit. This is the trace TLC prints.
   (b) A bank may leave out account information (parameters.py:82 names one). Such an account
   is listed as "None:0" (services/accounts.py:108), but balances and transactions are looked
   up by the ids of the accounts in HISPA, or by ":0" in the fallback: it is listed and never
   found, though packages/geldstrom/README.md:51-52 asks for the balance of the first account in
   the list. An account of HISPA
   without a number is listed under its IBAN (operations/accounts.py:176) and found under ":0".
   (c) Two accounts with the key ":0" replace one another in the dict of
   fints3_decoupled.py:448 (services/balances.py:45 likewise): the bank tells two balances,
   one is returned.
   `ListedAccountsAreFound` and `BalancesOfTheirAccounts` say what does hold: of accounts with
   numbers everything, of all accounts that amount, currency, credit line and id belong
   together. The balance of HISAL5 is always reported in EUR, whatever its currency.

Further disagreements met while modelling, without a run of their own.

*Races and recovery.* Any command of the admin tool that read a user before a rotation and
saves after it restores the old hash, although apps/gateway_admin/README.md:77 says
that the old key is invalidated immediately (update_user.py:45 writes the whole
row; `RevokedKeyRejected` holds and is proved for commands that do not overlap). After a
reconnect the NOTIFY listener does not ask whether the catalog changed
meanwhile (notify_listener.py:115; apps/gateway/README.md:11 says it refreshes the
cache without a restart): an announcement that was sent while the connection was down is
lost (`missed`). A `stop()` in which closing the connection raises (notify_listener.py:72) neither
cancels the runner nor waits for the refreshes; gateway_factory.py:185-190 logs that and
disposes the engine under them, although line 170 says "Stop background workers and release
database resources." (`CloseRaises`; `StoppedIsQuiet` is about a `stop()` that returns). A
session that is polled outlives its 120 s (PRD.md:327-328): no poll looks at
`expires_at`, and each update restarts the grace period in Redis. Restarts
and evictions forget buckets of the rate limiter, and several workers have limits of
their own, as its docstring says.

*What GET tells.* poll_operation.py:87-90 explains why a poll answers a missing and a foreign
operation alike: who can tell them apart "could probe for valid operation IDs belonging to
other consumers". `GET /operations/{id}` tells them apart, with 404 and 403
(get_operation_status.py:50-56; docs/openapi.yaml:435-440 lists no 403). `GetStatus` has both
answers, `OperationApi` the step `Forbid`, and `OnlyOwnerIsTold` is no more than that
nobody but the owner is told a *status*.

*Restored parameters.* `RestoredIfCompact` and the TAN methods in `StoresActAsSent`
need compact data, because the code does not restore the rest: a
group is flattened after the absent elements at its end were trimmed
(parser.py:393-410), so TAN methods with absent elements at the end of an entry are
read shifted or lost after a restart, while get_tan_methods trusts what was
restored. Lists of two simple values (languages of HIBPA) and KeyName without a
bank code have the same fate; HITAB 4 and 5 with an absent group in the middle are
refused when they arrive. The docstring of `update_from_response` says "if the new
version is higher" (parameters.py:175), the code takes equal versions too (line 178), and
has to: with `>` a bank that does not count its user parameters would never
have them taken over again (the mutant of `StoresActAsSent`).

*Errors.* The start of a download for an unknown IBAN answers HTTP 500 instead of the failure:
the route builds a pending response without an operation id. HIUPD without a list
of permissions and HIPINS without a list of transactions raise `TypeError`. While
several balances are fetched, a challenge for one of them is swallowed like any
error (services/balances.py:55-62, fints3_decoupled.py:467). If the approved first page
is an empty MT940 page with a touchdown, the others are asked in CAMT
(fints3_decoupled.py:330).

*Documents.* the bank data of a completed operation does lie in Redis until eviction
(PRD.md:325 "never stored"); there is no background worker that resumes
sessions (PRD.md:213-214, apps/gateway/README.md:12) and no consumer cache
(PRD.md:211); sessions are kept in Redis, not in memory (PRD.md:326-327);
"expired" is not terminal in the sense of README.md:198, because `POST /poll` of
a session that `GET` calls expired still resumes it.

## Proofs

The theorems hold for all values of the constants that satisfy the named
assumptions of the modules: any number of operations, consumers, polls, admins,
slots, users, handlers, pages, and any bound. The assumptions say no more than
that times and bounds are natural numbers, some of them positive, that named
faults and slots exist, and that `None` is nobody and no record (`TimesAssumption`, `ClientAssumption`, `NoneAssumption`,
`CatalogAssumption`, `UserAssumption`, `HistoryAssumption`); `ClientSession` assumes more,
about banks and bytes, and says so below. TLC evaluates the assumptions in every run of the
module.

Each proof module starts with its inductive invariant, a conjunction of named
parts; then come lemmas on operators, one lemma or step per action, and the
theorems last.

**`OperationSessions_proofs`.** `IInv` is `TypeOK` with `SessionsInv` (what is
true of a stored session whenever it was written), `PollsInv` (the copy a poll
holds is a pending session of the same operation, owner and creation time as the
stored one), `ToldInv` (who was told what) and `UnsentInv`. `PollsInv` is what
makes it inductive: a poll writes back what it read long ago, so the
properties of the stored session follow only from those of every copy in
flight. From it: `StoredSessionIsReadable`, `CompletedWasApproved`,
`OnlyOwnerIsTold`, `GraceIsKept`, `ExpiryAnchored`. `SequentialInv` adds that, with
`OnePollAtATime`, the copy of the one poll in flight is the stored session but
for eviction. Under that assumption `SettledIsFinal` holds, and the handlers
implement `OperationApi`: each step is mapped to a step or a stutter. What a
consumer may conclude from the API alone is proved in `Promises_proofs`.

**`CatalogCache_proofs`.** Everything is proved for all faults and every order of the refreshes.
`SafeInv` says that each refresh has read
at least the catalog it was started for, a served cache is at least the one at
boot, and after `Closed` only the tasks that are awaited are there. From it follow
`RefreshSeesItsCatalog`, `ServesBootCatalog` and `StoppedIsQuiet`. `FreshInv` adds that a
warming or serving process has loaded the last catalog, or has an announcement, a refresh or a
sync outstanding that will, or `missed` it by a fault (`StaleHasWork`). The step that matters
is `Answered`: a refresh started for the last catalog reads the last catalog, as long as it is the
last. The liveness that the work is done is left to TLC.

**`UserAdmin_proofs`.** `Inv` holds for commands that interleave in any way: what
a command carries is a row that the table could hold, and the set of keys that a user's
row ever held only grows. `SoloInv` is added for `OneAtATime` (any two admins are
equal): the copy in the command agrees with the row, and every key but the
current one is revoked. From it follow `RevokedKeyRejected`, `MailedKeyIsCurrent`
and the refinement of `UserLifecycle`, in which `Save` is the step that counts
and all others stutter. With two at a time a stale write brings a rotated key back, so the assumption is needed.

**`HistoryDownload_proofs`, `HistoryTurns_proofs`.** `Inv` says of every handler where
its download stands: its pages are 1 to n, the page to continue with is n + 1,
and what it learned about the bank is true. It needs nothing of the message
numbers, so `PagesInOrder`, `PartialIsCut` and `ContinuationsAreFree` hold however
polls overlap. `TurnInv` adds that, unless polls overlapped, only one handler is
active and the bank, if it still has the dialog, expects its number. Hence an order is refused
for reasons of the bank only (`denied`), and without these a page without
a touchdown really is the last: `CompleteIsWhole`. The argument survives lost
exchanges, because after one the handler does nothing but end its dialog. `CalmInv` adds, for no losses,
that the stored snapshot has the bank's number (`SnapshotAgrees`), that an exception after an
approval has a cause (`Excused`: the bank denied something or asked twice), and that HKEND is
heard (`DialogsEnd`). `FeedInv` adds what makes the handlers implement `HistoryFeed`:
unless polls overlap, a poll under way is of a session that is still pending, so that
whatever is stored is stored over an open session (`Engaged`), and a session without a
result has no pages (`Unsettled`). Every other step is a stutter of the feed. This
refinement is unconditional, because the three excuses, overlapping polls, a second
approval and an order that was denied, are variables of the abstract specification: it says of
every behaviour, also of those with overlaps, what is still true. A result may then be replaced, but it is a
beginning of the history, and `has_more` is never a false alarm. `PagesInOrder` is part of
it, is proved as `FeedInOrder` and is no longer run by itself.

**`Promises_proofs`.** What follows from the abstract specifications alone, and so holds of
whatever implements them: `ApiConsequences` (one verdict, its status told to the owner only, and to no owner that the operation is somebody else's),
`LifecycleConsequences` (deletion is final, keys never return and are nobody else's) and
`FeedConsequences` (one result, whole or marked as cut off, no data before success).

**`RateLimit_proofs`.** A bucket is a suffix of the times its caller was let
through, in order, and what lies before it has left the window or is forgotten
(`Ledger`). Trimming keeps this because the times before the cutoff are a prefix of an
ordered sequence; appending keeps the spacing of any `Limit + 1` times because a bucket of
fewer than `Limit` times within the window leaves the time `Limit` places back either
expired or forgotten. `BucketsBounded`, the other half of the invariant, is what makes
eviction find somebody else to evict. `RerollsHappened` of `UserAdmin` is proved and no longer run.

**`ClientSession_proofs`.** A client works with copies of copies: a poll parses what
a snapshot saved of what a restart parsed. `Sourced` says that each part of such
parameters is, segment by segment, a copy of what the bank sent at one time
(`AreCopies`), is not newer than the bank's, and if it is as new it is the bank's own.
`Inv` says it of the saved session and of the context of a pending operation; the
property itself, that decisions agree, is not inductive, because it says nothing of
what the same parameters decide after they were saved once more. `KindsDecide`,
`RulesKept` and `AccountsKept` then show that copies decide what their originals
decide: versions and formats from types and versions alone, approvals, CAMT types and TAN
methods from the contents of single segments. Hence `StoresActAsSent`, and
`ContinuedInKind`, since a format offered when a request was sent is offered
when its approval is processed. `ListedAccountsAreFound` and `BalancesOfTheirAccounts`
are kept by every step because each listing and each result is made from sourced
parameters: joining keeps number, subaccount and IBAN (`JoinKeeps`), and of several accounts
with one id the last is asked. Where the id has a number they have the same IBAN, so that
the result is the balance of each; where it has none the result is still that of one of
them, and the others get none. The theorems therefore promise an account its
listing and its balance when it has a number, and of the others only that no result is wrong
or twice: `BalancesAsTold`, which asks for more, is violated.

What these theorems assume of a bank and of the wire is at the end of `ClientSession`, as
five named assumptions that TLC evaluates for the three banks and geldstrom's format:

- `SessionAssumption`: what a bank has is in order, its parameters are lists of segments;
- `AnswersAreRead`: the parser finds the parameters of an answer, with their version, which
  has at most three digits on the wire and thereby bounds the revisions;
- `WireKeepsParameters`: a segment of the parameters is not refused and says to the
  client what it said, as received and when saved again. For TAN methods only if it is compact,
  because the code does not restore the others. The copies of the run are all that
  saving and reading produce until nothing changes (up to three rounds: a fallback
  segment loses elements at its end);
- `AccountsAreNamed`: a bank that gives an account a number gives it the same in HISPA as in HIUPD and
  in every version of its data, and where a number is given, one number and subaccount belong to one
  IBAN and one IBAN to one number and subaccount. FinTS asks that of banks and `account_key` relies on it; the code checks none of
  it. An account may lack its number, its subaccount or its IBAN in HIUPD, and its
  number in HISPA;
- `BalancesAreRead`: HISAL 5, 6 and 7 are read as they were sent.

**Only model-checked.** Liveness (`ApprovedIsSettled`, `CatchesUp`)
and whatever uses ENABLED are beyond the prover. So is what recursive definitions compute: that
geldstrom's format reads and restores segments as it should (`WireAsSpecified`,
`RestoredIfCompact`) is checked for the samples of the run, every segment with each element
present and absent, and so are the assumptions about it above. `AnswersAreRead` would follow from
facts about selections from sequences, which need induction over their length; it stays
an assumption for that reason.

## Not modelled

The in-memory session store is used by tests only. Routing, schemas, readiness,
configuration, the CLI, the frontend and the examples keep no state that
two steps could disagree about. Left out as conversions of data: the entries of MT940 and
CAMT documents, the columns and ranking of the institute CSV, request and response
DTOs, escaping and the tokenizer below the level of elements, the security envelope of
FinTS messages. The blocking client waits inside one call and has nothing to interleave with.
The query of audit events takes two statements, count and page, that may see different
tables; nothing relies on their agreement.
The Argon2 hash is idealised: a key verifies its own hash and no other. PostgreSQL and
Redis are taken at their word: a transaction is one step, a key is there until its
TTL.

## Plan

What would come next:

1. the composition of `HistoryFeed` with `OperationSessions`, whose polls take any
   result of the bank;
2. the formats inside `HistoryDownload`: pages without entries, and continuations in
   the other format;
3. the ranking of institute rows against a reference definition.
