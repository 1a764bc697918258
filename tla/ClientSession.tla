---------------------------- MODULE ClientSession ----------------------------
(***************************************************************************)
(* A FinTS client over its life: it connects, lists accounts, fetches      *)
(* balances and TAN methods, waits for approvals, is restarted with what   *)
(* it saved, while the bank revises the parameters it sends                *)
(* (clients/fints3.py, clients/fints3_decoupled.py, support/connection.py  *)
(* and the services).  An operation is one step up to its result or to the *)
(* challenge that interrupts it.  The pages of a download are the subject  *)
(* of HistoryDownload; here only the format counts they are asked in.      *)
(***************************************************************************)
EXTENDS ParameterStore, FiniteSets

CONSTANTS
    BankData,        \* what a bank may say of itself and of its user
    MessageSamples,  \* segments that are only sent and read
    MaxRevisions,    \* bound: revisions of the parameters
    None,
    Encoded(_),      \* the elements that a bank sends for a segment
    Compact(_),      \* the segments that are the same after they were saved
    Copies(_)        \* what a segment of the parameters may be after any number of saves

IsList(x) == Len(x) \in Nat /\ DOMAIN x = 1 .. Len(x)
IsSegment(x) == DOMAIN x = {"type", "version", "typed", "fields"}

ASSUME SessionAssumption ==
    /\ MaxRevisions \in Nat
    /\ None \notin BankData \cup MessageSamples
    /\ \A d \in BankData :
          /\ DOMAIN d = {"heads", "segments", "sepa", "balances"}
          /\ \A part \in Parts : /\ IsList(d.segments[part])
                                 /\ \A i \in DOMAIN d.segments[part] : IsSegment(d.segments[part][i])

VARIABLES
    bank,      \* its data and versions
    session,   \* _session_state: the parameters as saved, None before the first dialog
    client,    \* what the client object knows of its accounts
    pending,   \* the operation that waits for approval
    answer,    \* what the last operation returned
    message    \* a segment of any kind on its way, or None

vars == << bank, session, client, pending, answer, message >>

Idle == [connected |-> FALSE, accounts |-> <<>>, operations |-> {}, listed |-> None]

\* The parameters of a dialog, and the data of the bank that they came from.
Bpd(ctx) == ctx.store["bpd"].segments
Upd(ctx) == ctx.store["upd"].segments
Unknown == [store |-> EmptyStore, sent |-> [bpd |-> None, upd |-> None]]

-----------------------------------------------------------------------------
(* The bank. *)

Received(segment) == parse_segment(segment.type, segment.version, Encoded(segment))
Delivered(segments) == [i \in DOMAIN segments |-> Received(segments[i])]

\* The parameters in a bank's data, as the client reads them.
Segments == [d \in BankData |-> [part \in Parts |-> Delivered(d.segments[part])]]

Headed(data, part, version) ==
    [data.heads[part] EXCEPT !.fields[part \o "_version"] = [int |-> ToString(version)]]

\* An answer with some parts of the parameters.
Answered(data, versions, parts) ==
    LET Sent(part) == IF part \in parts
                      THEN Delivered(<< Headed(data, part, versions[part]) >>) \o Segments[data][part]
                      ELSE <<>>
    IN FlatMap(Sent, << "bpd", "upd" >>)

\* A bank answers the login with the parameters that are newer than those the
\* client names in HKVVB; some banks always send all of them, and user parameters
\* of version 0 are not kept track of and always sent.
Sends(ctx) ==
    {part \in Parts : bank.sendsAll \/ bank[part] = 0 \/ ctx.store[part].version < bank[part]}

initialize(ctx) ==
    [store |-> update_from_response(ctx.store,
                   Answered(bank.data, [part \in Parts |-> bank[part]], Sends(ctx))),
     sent |-> [part \in Parts |-> IF part \in Sends(ctx) THEN bank.data ELSE ctx.sent[part]]]

\* The accounts of HISPA, and the balance of one of them.
HISPAAccounts(data) == Delivered(<< data.sepa >>)[1].fields["accounts"]

Obj(type, given) ==
    [obj |-> [name \in {type.fields[i].name : i \in DOMAIN type.fields} |->
                 IF name \in DOMAIN given THEN given[name] ELSE Absent]]

Filled(class, given) ==
    [type |-> class.type, version |-> class.version, typed |-> TRUE,
     fields |-> Obj(class, given).obj]

BankCode == Obj(BankIdentifier, [country_identifier |-> Val("280"), bank_code |-> Val("1000")])

AccountAs(version, sepa) ==
    IF version = 7
    THEN Obj(AccountInternational, [iban |-> Val(sepa.iban), bic |-> Val("B1")])
    ELSE Obj(AccountIdentifier, [account_number |-> Val(sepa.number),
                                 subaccount_number |-> Val(sepa.sub), bank_identifier |-> BankCode])

\* A balance has its sign in credit_debit; the amount itself has none.
HISAL(data, version, sepa) ==
    LET b == data.balances[sepa.iban]
        day == [date |-> "20250131"]
        money == Obj(Amount, [amount |-> [decimal |-> b.amount], currency |-> Val(b.currency)])
        booked == IF version = 5
                  THEN Obj(BalanceSimple, [credit_debit |-> Val(b.sign), date |-> day,
                           amount |-> [decimal |-> b.amount], currency |-> Val(b.currency)])
                  ELSE Obj(Balance, [credit_debit |-> Val(b.sign), date |-> day, amount |-> money])
        class == CHOOSE c \in {HISAL5, HISAL6, HISAL7} : c.version = version
    IN Filled(class, [account |-> AccountAs(version, sepa), account_product |-> Val("A1"),
                      currency |-> Val(b.currency), balance_booked |-> booked,
                      line_of_credit |-> money])

-----------------------------------------------------------------------------
(* The client: sessions and dialogs. *)

\* create_session_state, and build_parameters_from_state.
create_session_state(ctx) == [dict |-> to_dict(ctx.store), sent |-> ctx.sent]
_extract_params_dict(state) == [store |-> from_dict(state.dict), sent |-> state.sent]
build_parameters_from_state(state) ==
    IF state = None THEN Unknown ELSE _extract_params_dict(state)

\* Without a system id a dialog of its own precedes the login.
Synchronised == IF session = None THEN initialize(Unknown) ELSE build_parameters_from_state(session)

\* A challenge needs an HKTAN, at the login or with the request for the accounts.
ChallengedAtStart(start, ctx) ==
    HKTANVersion(Bpd(start)) # 0 \/ inject_hktan(Bpd(ctx), "HKSPA")

\* HISPA may be refused, or asked approval for where nobody waits for one: then
\* its answer is one without accounts.
ItemsOf(v) == IF Is(v, "none") THEN <<>> ELSE v.list
Listings == {ItemsOf(HISPAAccounts(bank.data)), <<>>}

CanAsk(ctx, type) == segment_requires_tan(Bpd(ctx), type) # "TypeError"

Connected(ctx, hispa) ==
    [connected |-> TRUE, accounts |-> fetch_all(Upd(ctx), hispa),
     operations |-> get_supported_operations(Bpd(ctx)), listed |-> bank.data]

\* Operations of one client do not overlap: the last one has returned.
Free == message = None /\ answer = None

Returned ==
    /\ answer # None
    /\ answer' = None
    /\ UNCHANGED << bank, session, client, pending, message >>

Answer(op) == [op |-> op]
Waiting(op, connected, ctx, format) ==
    [op |-> op, connected |-> connected, ctx |-> ctx, format |-> format]

Wait(p) ==
    /\ pending' = p
    /\ session' = create_session_state(p.ctx)
    /\ UNCHANGED << bank, client, answer, message >>

\* connect(), directly or by the first operation that needs it (ensure_connected).
Operations == {"accounts", "balances", "transactions"}

ConnectChallenged(start, ctx) ==
    /\ ~ client.connected
    /\ ChallengedAtStart(start, ctx)
    /\ \E op \in Operations : Wait(Waiting(op, FALSE, ctx, None))

Connect(ctx) ==
    /\ ~ client.connected
    /\ CanAsk(ctx, "HKSPA")
    /\ session' = create_session_state(ctx)
    /\ \E hispa \in Listings :
          /\ ~ Failed(fetch_all(Upd(ctx), hispa))
          /\ client' = Connected(ctx, hispa)
    /\ answer' = Answer("accounts")
    /\ UNCHANGED << bank, pending, message >>

-----------------------------------------------------------------------------
(* Balances. *)

\* The model's method is called as_mt940_balance and the code looks for another
\* name, so that the sign is taken from the amount.
Negative(decimal) == SubSeq(decimal, 1, 1) = "-"

_balance_to_hisal(balance) ==
    LET amount == balance.obj["amount"]
    IN IF Is(amount, "obj")
       THEN [amount |-> amount.obj["amount"].decimal, currency |-> amount.obj["currency"].val,
             status |-> IF Negative(amount.obj["amount"].decimal) THEN "D" ELSE "C"]
       ELSE [amount |-> amount.decimal, currency |-> "EUR",
             status |-> IF Negative(amount.decimal) THEN "D" ELSE "C"]

\* fetch_balance: credit line and booked balance, the currency of the latter.
_balance_from_operations(id, hisal) ==
    LET booked == _balance_to_hisal(hisal.fields["balance_booked"])
        credit == hisal.fields["line_of_credit"]
    IN [id |-> id, amount |-> booked.amount, currency |-> booked.currency,
        sign |-> booked.status,
        credit |-> IF Is(credit, "none") THEN "" ELSE credit.obj["amount"].decimal]

BalanceRead(data, version, sepa) == Delivered(<< HISAL(data, version, sepa) >>)[1]

\* Every account is asked in turn; whatever one of them raises, a challenge
\* included, leaves it out and goes on with the next.
_fetch_balances(ctx, hispa, served) ==
    LET sepas == fetch_sepa_accounts(Upd(ctx), hispa)
        ids == {account_key(sepas[i]) : i \in DOMAIN sepas}
        lookup == [id \in ids |-> LastOf(sepas, LAMBDA s : account_key(s) = id)]
        version == HKSALVersion(Bpd(ctx))
        asked == IF version = 0 \/ ~ CanAsk(ctx, "HKSAL") THEN {} ELSE ids
        answered == {id \in asked : lookup[id].iban \in served}
    IN [op |-> "balances", data |-> bank.data, version |-> version,
        accounts |-> sepas, served |-> IF asked = {} THEN {} ELSE served,
        results |-> {_balance_from_operations(id, BalanceRead(bank.data, version, lookup[id])) :
                        id \in answered}]

GetBalancesChallenged(start, ctx) ==
    /\ client.connected
    /\ ChallengedAtStart(start, ctx)
    /\ Wait(Waiting("balances", TRUE, ctx, None))

GetBalances(ctx) ==
    /\ client.connected
    /\ CanAsk(ctx, "HKSPA")
    /\ \E hispa \in Listings, served \in SUBSET DOMAIN bank.data.balances :
          answer' = _fetch_balances(ctx, hispa, served)
    /\ UNCHANGED << bank, session, client, pending, message >>

-----------------------------------------------------------------------------
(* The format of a history. *)

\* MT940 where the bank offers it, else CAMT, else the operation fails.
_fetch_with_mt940_preferred(bpd) ==
    IF HKKAZVersion(bpd) # 0 THEN "MT940" ELSE IF HKCAZVersion(bpd) # 0 THEN "CAMT" ELSE None

Offered(bpd, format) ==
    IF format = "MT940" THEN HKKAZVersion(bpd) # 0 ELSE HKCAZVersion(bpd) # 0

\* Mutant: the pages that follow are always asked in the newer format.
ContinuationNewer(format, entries) == "CAMT"

\* The page that comes with the approval decides on the format of the others.
ContinuationFormat(format, entries) == IF format = "MT940" /\ entries THEN "MT940" ELSE "CAMT"

\* format is that of the request which was approved, None if there was none yet.
_complete_transactions(p, ctx, entries, more) ==
    LET first == p.format
        rest == ContinuationFormat(first, entries)
        fresh == _fetch_with_mt940_preferred(Bpd(ctx))
        paged == first # None /\ p.connected
    IN [op |-> "transactions", entries |-> paged /\ entries, first |-> first,
        rest |-> IF paged /\ more THEN rest ELSE IF paged /\ entries THEN first ELSE fresh,
        failed |-> IF paged /\ more THEN ~ Offered(Bpd(ctx), rest)
                   ELSE ~ (paged /\ entries) /\ fresh = None]

GetTransactionsChallenged(start, ctx) ==
    /\ client.connected
    /\ \E format \in {None, _fetch_with_mt940_preferred(Bpd(ctx))} :
          /\ IF format = None THEN ChallengedAtStart(start, ctx)
             ELSE inject_hktan(Bpd(ctx), IF format = "MT940" THEN "HKKAZ" ELSE "HKCAZ")
          /\ Wait(Waiting("transactions", TRUE, ctx, format))

-----------------------------------------------------------------------------
(* Waiting for the approval. *)

\* resume_and_poll restores the parameters from the snapshot, poll_tan has them.
Resumed(ctx) == _extract_params_dict(create_session_state(ctx))
Contexts == {pending.ctx, Resumed(pending.ctx)}

StillWaiting ==
    /\ Free /\ pending # None
    /\ \E ctx \in {Resumed(pending.ctx)} :
          /\ HKTANVersion(Bpd(ctx)) # 0
          /\ pending' = [pending EXCEPT !.ctx = ctx]
    /\ UNCHANGED << bank, session, client, answer, message >>

\* The bank refuses, or no HKTAN can be built to ask it.
Rejected ==
    /\ Free /\ pending # None
    /\ pending' = None
    /\ UNCHANGED << bank, session, client, answer, message >>

\* _resume_accounts_from_context, where the operation was interrupted before the
\* accounts were known.
Discovers(ctx, hispa) ==
    IF pending.connected
    THEN UNCHANGED client
    ELSE /\ CanAsk(ctx, "HKSPA")
         /\ ~ Failed(fetch_all(Upd(ctx), hispa))
         /\ client' = Connected(ctx, hispa)

\* What the operation returns when it is completed.
Completed(ctx, hispa, served, entries, more) ==
    CASE pending.op = "accounts" -> Answer("accounts")
      [] pending.op = "balances" -> _fetch_balances(ctx, hispa, served)
      [] pending.op = "transactions" -> _complete_transactions(pending, ctx, entries, more)

Approved ==
    /\ Free /\ pending # None
    /\ \E ctx \in Contexts, hispa \in Listings, entries, more \in BOOLEAN,
          served \in SUBSET DOMAIN bank.data.balances :
          /\ pending.op # "balances" => served = {}
          /\ pending.op # "transactions" => ~ entries /\ ~ more
          /\ HKTANVersion(Bpd(ctx)) # 0
          /\ CanAsk(ctx, "HKSPA")
          /\ Discovers(ctx, hispa)
          /\ answer' = Completed(ctx, hispa, served, entries, more)
          /\ session' = IF answer'.op = "transactions" /\ answer'.failed /\ pending.connected
                        THEN session ELSE create_session_state(ctx)
    /\ pending' = None
    /\ UNCHANGED << bank, message >>

-----------------------------------------------------------------------------
(* TAN methods, restarts, revisions. *)

\* From the saved parameters, or if there are none or these name no method, from a
\* dialog without login by TAN and with parameters of its own.
HasMethods(state) ==
    state # None /\ _extract_tan_methods(Bpd(build_parameters_from_state(state))) # <<>>

GetTanMethods ==
    /\ Free
    /\ \E used \in {IF HasMethods(session) THEN build_parameters_from_state(session)
                     ELSE initialize(Unknown)} :
          answer' = [op |-> "methods", methods |-> _extract_tan_methods(Bpd(used)),
                     sent |-> used.sent["bpd"]]
    /\ UNCHANGED << bank, session, client, pending, message >>

\* Mutant: only the connection is new, the accounts are those of before.
RestartKeepsAccounts ==
    /\ Free
    /\ client' = [client EXCEPT !.connected = FALSE]
    /\ \/ session' \in {session, None} /\ pending' = None
       \/ /\ pending # None
          /\ pending' = [pending EXCEPT !.ctx = Resumed(pending.ctx)]
          /\ UNCHANGED session
    /\ UNCHANGED << bank, answer, message >>

\* A new process has the session_state and the snapshot that its owner kept.
Restart ==
    /\ Free
    /\ client' = Idle
    /\ \/ session' \in {session, None} /\ pending' = None
       \/ /\ pending # None
          /\ pending' = [pending EXCEPT !.ctx = Resumed(pending.ctx)]
          /\ UNCHANGED session
    /\ UNCHANGED << bank, answer, message >>

Revise ==
    /\ Free
    /\ bank.bpd <= MaxRevisions
    /\ \E d \in BankData :
          bank' = [bank EXCEPT !.data = d, !.bpd = @ + 1, !.upd = IF @ = 0 THEN 0 ELSE @ + 1]
    /\ UNCHANGED << session, client, pending, answer, message >>

-----------------------------------------------------------------------------

\* A message on its own is a behaviour of one state.
Init ==
    /\ session = None /\ client = Idle /\ pending = None /\ answer = None
    /\ \/ /\ message = None
          /\ bank \in [data : BankData, bpd : {1}, upd : {0, 1}, sendsAll : BOOLEAN]
       \/ /\ message \in MessageSamples
          /\ bank = None

\* What an operation does with the parameters it started from and has after the login.
Operation(start, ctx) ==
    \/ ConnectChallenged(start, ctx)
    \/ Connect(ctx)
    \/ GetBalancesChallenged(start, ctx)
    \/ GetBalances(ctx)
    \/ GetTransactionsChallenged(start, ctx)

Next ==
    \/ /\ Free /\ pending = None
       /\ \E start \in {Synchronised} : \E ctx \in {initialize(start)} : Operation(start, ctx)
    \/ StillWaiting
    \/ Rejected
    \/ Approved
    \/ GetTanMethods
    \/ Restart
    \/ Revise
    \/ Returned

Spec == Init /\ [][Next]_vars

-----------------------------------------------------------------------------
(* Type invariant *)

Requests == {"accounts", "balances", "transactions", "methods"}

\* A client that is connected has saved its parameters or was resumed; only a
\* connected client knows accounts.
TypeOK ==
    /\ message = None \/ (bank = None /\ answer = None /\ session = None)
    /\ bank = None \/ (/\ bank.data \in BankData
                       /\ bank.sendsAll \in BOOLEAN
                       /\ bank.bpd \in 1 .. MaxRevisions + 1 /\ bank.upd \in 0 .. bank.bpd)
    /\ client.connected \in BOOLEAN /\ (~ client.connected => client = Idle)
    /\ client.operations \subseteq DOMAIN FinTSOperations
    /\ pending = None \/ (pending.op \in Operations /\ pending.format \in {None, "MT940", "CAMT"})
    /\ answer = None \/ answer.op \in Requests

-----------------------------------------------------------------------------
(* Sessions. *)

\* The parameters of a client that took the bank's word without any bytes between.
AsSent(sent, part) == IF sent[part] = None THEN <<>> ELSE sent[part].segments[part]

\* Every decision that the client takes from its parameters: which operations and
\* versions it uses, what needs an approval, which formats and accounts there are.
Uses(bpd) ==
    [operations |-> get_supported_operations(bpd), balance |-> HKSALVersion(bpd),
     history |-> HKKAZVersion(bpd), camt |-> HKCAZVersion(bpd), tan |-> HKTANVersion(bpd)]
Rules(bpd) ==
    [approval |-> [type \in {"HKSPA", "HKSAL", "HKKAZ", "HKCAZ"} |-> segment_requires_tan(bpd, type)],
     types |-> _get_supported_camt_types(bpd)]
Accounts(upd) == [listed |-> _upd_accounts(upd), fallback |-> FallbackAccounts(upd)]

CompactMethods(data) ==
    \A i \in DOMAIN data.segments["bpd"] :
        data.segments["bpd"][i].type = "HITANS" => Compact(data.segments["bpd"][i])

ActsAsSent(ctx) ==
    LET bpd == AsSent(ctx.sent, "bpd")
    IN /\ Uses(Bpd(ctx)) = Uses(bpd) /\ Rules(Bpd(ctx)) = Rules(bpd)
       /\ Accounts(Upd(ctx)) = Accounts(AsSent(ctx.sent, "upd"))
       /\ ctx.sent["bpd"] # None /\ CompactMethods(ctx.sent["bpd"]) =>
              _extract_tan_methods(Bpd(ctx)) = _extract_tan_methods(bpd)

\* What has the version of the bank is what the bank says.
IsCurrent(ctx) ==
    \A part \in Parts :
        bank[part] # 0 /\ ctx.store[part].version = bank[part] => ctx.sent[part] = bank.data

\* However often the parameters went through snapshots, restarts and polls, and
\* whatever the bank revised meanwhile, the client decides as if it had read them
\* just now; and it knows the same TAN methods if their description is compact.
\* Parameters of which the bank has no newer version are those of the bank.
StoresActAsSent ==
    message = None =>
        /\ \A ctx \in {build_parameters_from_state(session)} \cup (IF pending = None THEN {} ELSE Contexts) :
              ActsAsSent(ctx) /\ IsCurrent(ctx)
        /\ (answer # None /\ answer.op = "methods" /\ CompactMethods(answer.sent)) =>
               answer.methods = _extract_tan_methods(answer.sent.segments["bpd"])

\* The accounts of HISPA, in the bank's data.
Rows(data) == ItemsOf(data.sepa.fields["accounts"])

\* Has an account the number that the bank gave it?  In the place of one that is
\* left out the code puts None, the IBAN or nothing.
Numbered(account) == account.number \notin {"", "None", account.iban}

\* An account that was listed with a number is found again under its id if the
\* bank names it with one in HISPA, so that balances and transactions can be
\* asked for it; and its id leads to no other account.
ListedAccountsAreFound ==
    client.connected =>
        \A i \in DOMAIN client.accounts, j \in DOMAIN SEPAAccounts(Rows(client.listed)) :
            LET listed == client.accounts[i]
                found == SEPAAccounts(Rows(client.listed))[j]
            IN Numbered(listed) /\ Numbered(found) =>
                  /\ listed.iban = found.iban => account_key(listed) = account_key(found)
                  /\ account_key(listed) = account_key(found) => listed.iban \in {"", found.iban}

\* The balance that the bank told of an account, but for its sign (see below).
Told(data, iban) == data.balances[iban]
IsBalanceOf(r, account, a) ==
    LET told == Told(a.data, account.iban)
    IN /\ r.id = account_key(account) /\ account.iban \in a.served
       /\ r.amount = told.amount /\ r.credit = told.amount
       /\ a.version # 5 => r.currency = told.currency

\* Each account with a number whose balance the bank told is in the result with
\* that balance, whatever happened to the others; there is one balance for an id,
\* and it is that of an account with this id.
BalancesOfTheirAccounts ==
    answer # None /\ answer.op = "balances" =>
        /\ \A i \in DOMAIN answer.accounts :
              answer.accounts[i].iban \in answer.served /\ answer.accounts[i].number # "" =>
                  \E r \in answer.results : IsBalanceOf(r, answer.accounts[i], answer)
        /\ \A r \in answer.results : \E i \in DOMAIN answer.accounts :
              IsBalanceOf(r, answer.accounts[i], answer)
        /\ \A r, s \in answer.results : r.id = s.id => r = s

\* The pages after an approved first page with entries are asked in the format of
\* that page, and the bank offers it.
ContinuedInKind ==
    answer # None /\ answer.op = "transactions" /\ answer.entries =>
        ~ answer.failed /\ answer.rest = answer.first

-----------------------------------------------------------------------------
(* What the repository's documents say of the program.                       *)

\* Every balance that the bank told is returned under the id of the account in the
\* client's list and with its sign: get_balances fetches them "in one dialog"
\* (README.md:105), an account may have no number ("account_information may be None
\* for some banks", parameters.py:82), and a balance is converted "with correct
\* sign" (services/balances.py:129).
BalancesAsTold ==
    client.connected /\ answer # None /\ answer.op = "balances" =>
        \A i \in DOMAIN client.accounts, j \in DOMAIN answer.accounts :
            LET account == client.accounts[i]
                iban == answer.accounts[j].iban
            IN account.iban = iban /\ iban \in answer.served =>
                  \E r \in answer.results :
                      IsBalanceOf(r, account, answer) /\ r.sign = Told(answer.data, iban).sign

-----------------------------------------------------------------------------
(* What a client needs of its bank and of the wire between them. *)

\* The parser finds in an answer the parameters that the bank put into it; so there
\* are no more revisions than there are versions of three digits.
ASSUME AnswersAreRead ==
    \A d \in BankData, parts \in SUBSET Parts, versions \in [Parts -> 0 .. MaxRevisions + 1] :
        LET login == Answered(d, versions, parts)
            Reads(received, part) ==
                IF part \in parts
                THEN /\ ~ Is(received, "none")
                     /\ received.version = versions[part] /\ received.segments = Segments[d][part]
                ELSE Is(received, "none")
        IN Reads(_extract_bpd(login), "bpd") /\ Reads(_extract_upd(login), "upd")

\* A copy of a segment says to the client what the segment said.
KeepsRules(copy, segment) ==
    /\ IsOf(copy, HIPINS1) <=> IsOf(segment, HIPINS1)
    /\ IsOf(segment, HIPINS1) => PinRules(copy) = PinRules(segment)
    /\ segment.type = "HICAZS" => CamtTypes(copy) = CamtTypes(segment)
    /\ segment.type = "HITANS" /\ Compact(segment) => MethodsOf(copy) = MethodsOf(segment)

KeepsAccount(copy, segment) ==
    /\ Unlisted(copy) <=> Unlisted(segment)
    /\ ~ Unlisted(segment) => AccountInfo(copy) = AccountInfo(segment)
    /\ FallbackInfo(copy) = FallbackInfo(segment)

\* No segment of the parameters is refused or says something else, neither as it is
\* received nor after it was saved, once or again.
ASSUME WireKeepsParameters ==
    \A d \in BankData, part \in Parts : \A i \in DOMAIN d.segments[part] :
        LET segment == d.segments[part][i]
        IN /\ Received(segment) \in Copies(segment)
           /\ \A copy \in Copies(segment) :
                 /\ IsSegment(copy)
                 /\ Reread(copy) \in Copies(segment)
                 /\ IF part = "bpd" THEN KeepsRules(copy, segment) ELSE KeepsAccount(copy, segment)

\* A bank that gives an account a number gives it one, in HISPA as in HIUPD and in
\* every version of its data.
NamedOnce(accounts) ==
    \A i, j \in DOMAIN accounts :
        LET x == accounts[i]
            y == accounts[j]
        IN x.number # "" /\ Key(x.number, x.sub) = Key(y.number, y.sub) => x.iban = y.iban

NumberedOnce(accounts) ==
    \A i, j \in DOMAIN accounts :
        LET x == accounts[i]
            y == accounts[j]
        IN x.number # "" /\ y.number # "" /\ x.iban = y.iban =>
              Key(x.number, x.sub) = Key(y.number, y.sub)

NamedAlike(account, row) ==
    LET part == account.fields["account_information"]
        sub == part.obj["subaccount_number"]
        iban == Text_(account.fields["iban"])
        listed == Key(part.obj["account_number"].val, IF Is(sub, "val") THEN sub.val ELSE "")
        found == Key(row.number, row.sub)
    IN ~ Is(part, "none") /\ part.obj["account_number"].val # "" /\ row.number # "" =>
           /\ iban = row.iban => listed = found
           /\ listed = found => iban \in {"", row.iban}

ASSUME AccountsAreNamed ==
    \A d \in BankData :
        /\ HISPAAccounts(d) = d.sepa.fields["accounts"]
        /\ IsList(Rows(d)) /\ NamedOnce(SEPAAccounts(Rows(d))) /\ NumberedOnce(SEPAAccounts(Rows(d)))
        /\ NamedOnce(FallbackAccounts(d.segments["upd"]))
        /\ \A e \in BankData : \A i \in DOMAIN e.segments["upd"], j \in DOMAIN SEPAAccounts(Rows(d)) :
              NamedAlike(e.segments["upd"][i], SEPAAccounts(Rows(d))[j])

\* A balance is read as the bank sent it, for every account that it or another
\* version of its data may name.
Named ==
    UNION {{SEPAAccounts(Rows(d))[i] : i \in DOMAIN SEPAAccounts(Rows(d))}
               \cup {FallbackAccounts(d.segments["upd"])[i] :
                        i \in DOMAIN FallbackAccounts(d.segments["upd"])} : d \in BankData}

ASSUME BalancesAreRead ==
    \A d \in BankData, version \in {5, 6, 7}, sepa \in Named :
        sepa.iban \in DOMAIN d.balances =>
            BalanceRead(d, version, sepa) = HISAL(d, version, sepa)
=============================================================================
