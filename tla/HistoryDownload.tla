-------------------------- MODULE HistoryDownload --------------------------
(***************************************************************************)
(* One download of an account's history: the gateway's connector, the      *)
(* decoupled FinTS client, its dialogs with the bank, and the pages.       *)
(*                                                                         *)
(* A handler of the gateway talks to the bank in exchanges: it sends the   *)
(* next message of its dialog and waits for the answer.  What a handler    *)
(* does next depends on the answer only, so an exchange is one step; it    *)
(* can fail before or after the bank took the message.  When the bank      *)
(* answers with a challenge, the handler stores a snapshot of the dialog   *)
(* and ends; a later poll resumes the dialog from it.                      *)
(*                                                                         *)
(* The bank (state `bank`) is the environment, as the client's code and    *)
(* comments describe it.  Every page holds entries.                        *)
(***************************************************************************)
EXTENDS Integers, Sequences

CONSTANTS
    Handlers,   \* requests to the gateway about this operation, in flight at a time
    Pages,      \* bound: the history has up to that many pages
    MaxPages,   \* max_pages of the paginator
    MaxAsked,   \* bound: challenges that the bank raises when it is free to
    MaxLost,    \* bound: exchanges that fail
    MaxNumber,  \* bound: message number up to which the client polls
    None

ASSUME HistoryAssumption ==
    /\ Pages \in Nat \ {0}
    /\ MaxPages \in Nat \ {0}
    /\ MaxAsked \in Nat
    /\ MaxLost \in Nat
    /\ MaxNumber \in Nat
    /\ None \notin [page : 0..Pages, says : {"waiting", "approved", "rejected"}]

VARIABLES
    client,     \* per handler: the dialog and the download it is engaged in
    stored,     \* the operation's session in the gateway
    bank,       \* the bank's side of the dialog
    lost,       \* history: the number of exchanges that failed
    overlapped, \* history: was there a poll while another was under way?
    denied      \* history: did the bank not do what it was asked, for reasons of its own?

vars == <<client, stored, bank, lost, overlapped, denied>>

-----------------------------------------------------------------------------
(* Types *)

Steps == {"idle", "poll",
          "connect", "discover", "hangup",          \* the dialog of list_accounts
          "login", "locate", "history", "end"}      \* the dialog of get_transactions

\* touchdown is the page to continue with, 0 for a first page; verdict is how
\* the handler will end, partial being a feed with has_more set.
Download ==
    [step : Steps, resumed : BOOLEAN, connected : BOOLEAN, number : Nat,
     touchdown : 0..Pages, fetched : 0..MaxPages,
     needsTan : {"unknown", "yes", "no"}, pages : Seq(1..Pages),
     verdict : {"none", "complete", "partial", "failed", "aborted"}]

Session ==
    [status : {"none", "pending", "complete", "partial", "failed"},
     number : Nat, connected : BOOLEAN, pages : Seq(1..Pages)]

\* A task is an order that waits for approval: a page of the history, or
\* (page 0) a log-in or the list of accounts.
Task == [page : 0..Pages, says : {"waiting", "approved", "rejected"}]

\* last: the history's last page; signs: does the bank insist on HKTAN when a
\* page is continued?
Bank == [state : {"none", "open", "ended", "dropped"}, number : Nat,
         last : 1..Pages, signs : BOOLEAN, task : Task \cup {None}, asked : Nat]

\* A handler before it has sent anything: a dialog's first message is number 1.
Fresh == [step |-> "idle", resumed |-> FALSE, connected |-> FALSE, number |-> 1,
          touchdown |-> 0, fetched |-> 0, needsTan |-> "unknown",
          pages |-> <<>>, verdict |-> "none"]

Init ==
    /\ client = [h \in Handlers |-> Fresh]
    /\ stored = [status |-> "none", number |-> 0, connected |-> FALSE, pages |-> <<>>]
    /\ \E last \in 1..Pages, signs \in BOOLEAN :
          bank = [state |-> "none", number |-> 0, last |-> last, signs |-> signs,
                  task |-> None, asked |-> 0]
    /\ lost = 0
    /\ overlapped = FALSE
    /\ denied = FALSE

-----------------------------------------------------------------------------
(* What the handler sends *)

Orders == {"connect", "discover", "login", "locate", "history"}

Continues(c) == c.step = "history" /\ c.touchdown > 0

\* Mutant: continuations go through send() too.
CarriesTanAlways(c) == TRUE

\* send() injects HKTAN, send_without_tan() does not.
CarriesTan(c) == c.touchdown = 0 \/ c.needsTan = "yes"

PageOf(c) ==
    IF c.step # "history" THEN 0 ELSE IF c.touchdown = 0 THEN 1 ELSE c.touchdown

-----------------------------------------------------------------------------
(* The bank's side of an exchange (environment) *)

\* The bank takes the first message of a dialog, and then messages that carry
\* the next number.
Heard(c) ==
    \/ c.step \in {"connect", "login"}
    \/ bank.state = "open" /\ c.number = bank.number

Taken(c) ==
    IF c.step \in {"connect", "login"}
    THEN [bank EXCEPT !.state = "open", !.number = 2, !.task = None]
    ELSE [bank EXCEPT !.number = @ + 1]

\* A continuation is served with HKTAN by the banks that insist on it, and
\* without by the others.
Serves(c) ==
    /\ Heard(c)
    /\ c.step \in Orders
    /\ Continues(c) => (CarriesTan(c) <=> bank.signs)
    /\ bank' = Taken(c)

\* 9370, "insufficient signatures".
FindsUnsigned(c) ==
    /\ Heard(c)
    /\ Continues(c) /\ ~CarriesTan(c) /\ bank.signs
    /\ bank' = Taken(c)

\* 3955: to banks that do not insist, a continuation with HKTAN is an order
\* of its own.
Asks(c) ==
    /\ Heard(c)
    /\ c.step \in Orders
    /\ IF Continues(c) THEN CarriesTan(c) /\ ~bank.signs ELSE bank.asked < MaxAsked
    /\ bank' = [Taken(c) EXCEPT !.task = [page |-> PageOf(c), says |-> "waiting"],
                                !.asked = @ + 1]

\* The answer to a poll, the task being over once it is not "waiting".
Tells(c, verdict) ==
    /\ Heard(c)
    /\ c.step = "poll"
    /\ bank.task # None
    /\ bank.task.says = verdict
    /\ bank' = [Taken(c) EXCEPT !.task = IF verdict = "waiting" THEN @ ELSE None]

\* HKEND.
Ends(c) ==
    /\ Heard(c)
    /\ c.step \in {"hangup", "end"}
    /\ bank' = [Taken(c) EXCEPT !.state = "ended"]

Dropped == [bank EXCEPT !.state = "dropped"]

\* An error answer: to a log-in, which then opens no dialog; to an order or a
\* poll, whatever its number, after which the bank keeps the dialog or drops it
\* (9800).  An HKEND that the bank hears is not refused.
Refuses(c) ==
    \/ c.step \in {"connect", "login"} /\ bank' = Dropped
    \/ /\ c.step \in {"poll", "discover", "locate", "history"}
       /\ Heard(c)
       /\ bank' = Taken(c) \/ bank' = Dropped
    \/ /\ c.step # "idle"
       /\ ~Heard(c)
       /\ bank' = bank \/ (bank.state = "open" /\ bank' = Dropped)

Acts(c) ==
    \/ Serves(c) \/ FindsUnsigned(c) \/ Asks(c) \/ Ends(c) \/ Refuses(c)
    \/ \E v \in {"waiting", "approved", "rejected"} : Tells(c, v)

-----------------------------------------------------------------------------
(* What the handler makes of the answer *)

\* The client counts a message when it has the answer.
Sent(c) == [c EXCEPT !.number = @ + 1]

Concluded(c, verdict) == [c EXCEPT !.step = "end", !.verdict = verdict]

\* The order after an answered one that is not a page, if the accounts that
\* the answer lists have the right one.
Following(c) ==
    CASE c.step = "connect"  -> [c EXCEPT !.step = "discover"]
      [] c.step = "discover" -> [c EXCEPT !.step = IF c.resumed THEN "locate" ELSE "hangup"]
      [] c.step = "login"    -> [c EXCEPT !.step = "locate"]
      [] c.step = "locate"   -> [c EXCEPT !.step = "history"]

\* Mutant: the limit is checked one page late.
WithPageOffByOne(c) ==
    LET p == PageOf(c)
        d == [c EXCEPT !.pages = Append(@, p), !.fetched = @ + 1]
    IN  IF p = bank.last THEN Concluded(d, "complete")
        ELSE IF d.fetched > MaxPages THEN Concluded(d, "partial")
        ELSE [d EXCEPT !.touchdown = p + 1]

\* Mutant: has_more looks at the limit and not at the touchdown.
WithPageLimitOnly(c) ==
    LET p == PageOf(c)
        d == [c EXCEPT !.pages = Append(@, p), !.fetched = @ + 1]
    IN  IF d.fetched = MaxPages THEN Concluded(d, "partial")
        ELSE IF p = bank.last THEN Concluded(d, "complete")
        ELSE [d EXCEPT !.touchdown = p + 1]

\* A page: on while there is a touchdown (3040) and the limit is not reached.
WithPage(c) ==
    LET p == PageOf(c)
        d == [c EXCEPT !.pages = Append(@, p),
                       !.fetched = @ + 1,
                       !.needsTan = IF Continues(c) /\ @ = "unknown" THEN "no" ELSE @]
    IN  IF p = bank.last THEN Concluded(d, "complete")
        ELSE IF d.fetched = MaxPages THEN Concluded(d, "partial")
        ELSE [d EXCEPT !.touchdown = p + 1]

\* What may come of an answer with neither data nor a touchdown, an error or a
\* challenge: it counts as the last page, a log-in is not looked at, and a list
\* of accounts is taken from the UPD, unless they lack the account or the error
\* is 9075.
Without(c) ==
    CASE c.step = "history"               -> {Concluded(c, "complete")}
      [] c.step \in {"discover", "locate"} -> {Following(c), Concluded(c, "aborted")}
      [] OTHER                            -> {Following(c)}

\* Mutant: the page in the answer is taken for the whole feed.
AfterApprovalAtOnce(c, p) ==
    IF ~c.connected THEN [c EXCEPT !.step = "discover"]
    ELSE IF p = 0 THEN [c EXCEPT !.step = "locate"]
    ELSE Concluded([c EXCEPT !.pages = <<p>>], "complete")

\* The answer to a poll may be the approved order's: its page is the first of
\* the feed, and the paginator starts with the next one.
AfterApproval(c, p) ==
    IF ~c.connected THEN [c EXCEPT !.step = "discover"]
    ELSE IF p = 0 THEN [c EXCEPT !.step = "locate"]
    ELSE IF p = bank.last THEN Concluded([c EXCEPT !.pages = <<p>>], "complete")
    ELSE [c EXCEPT !.step = "locate", !.pages = <<p>>, !.touchdown = p + 1]

\* The challenge reaches the connector as DecoupledTANPending.  Was it raised
\* in the dialog of get_transactions, the snapshot says was_connected.
Suspended(c) ==
    [status |-> "pending", number |-> c.number, pages |-> <<>>,
     connected |-> c.step \in {"login", "locate", "history"}]

Becomes(h, c) == client' = [client EXCEPT ![h] = c]

-----------------------------------------------------------------------------
(* Actions of a handler *)

\* POST /transactions: fetch_transactions calls list_accounts first.
Begin(h) ==
    /\ stored.status = "none"
    /\ \A g \in Handlers : client[g].step = "idle"
    /\ Becomes(h, [Fresh EXCEPT !.step = "connect"])
    /\ UNCHANGED <<stored, bank, lost, overlapped, denied>>

\* Mutant: a session that is over is polled once more.
ResumeSettled(h) ==
    /\ stored.status # "none"
    /\ stored.number < MaxNumber
    /\ client[h].step = "idle"
    /\ Becomes(h, [Fresh EXCEPT !.step = "poll", !.resumed = TRUE,
                                !.connected = stored.connected,
                                !.number = stored.number])
    /\ overlapped' = (overlapped \/ \E g \in Handlers : client[g].step # "idle")
    /\ UNCHANGED <<stored, bank, lost, denied>>

\* POST /poll: the handler reads the session and rebuilds the dialog.
Resume(h) ==
    /\ stored.status = "pending"
    /\ stored.number < MaxNumber
    /\ client[h].step = "idle"
    /\ Becomes(h, [Fresh EXCEPT !.step = "poll", !.resumed = TRUE,
                                !.connected = stored.connected,
                                !.number = stored.number])
    /\ overlapped' = (overlapped \/ \E g \in Handlers : client[g].step # "idle")
    /\ UNCHANGED <<stored, bank, lost, denied>>

Served(h) ==
    LET c == client[h] IN
    /\ Serves(c)
    /\ Becomes(h, IF c.step = "history" THEN WithPage(Sent(c)) ELSE Following(Sent(c)))
    /\ UNCHANGED <<stored, lost, overlapped, denied>>

\* The account is not among those that the bank lists: ValueError.  (Without an
\* account for the IBAN a resumed dialog asks for the list once more, in vain.)
Unlisted(h) ==
    LET c == client[h] IN
    /\ Serves(c)
    /\ c.step \in {"discover", "locate"}
    /\ Becomes(h, Concluded(Sent(c), "aborted"))
    /\ denied' = TRUE
    /\ UNCHANGED <<stored, lost, overlapped>>

\* The first continuation learns whether the bank insists on HKTAN.
Unsigned(h) ==
    LET c == client[h] IN
    /\ FindsUnsigned(c)
    /\ Becomes(h, IF c.needsTan = "unknown"
                  THEN [Sent(c) EXCEPT !.needsTan = "yes"]
                  ELSE Concluded(Sent(c), "complete"))
    /\ UNCHANGED <<stored, lost, overlapped, denied>>

\* Only the dialogs of Begin have a challenge handler; a resumed one goes on
\* with the answer as it is.
Challenged(h) ==
    LET c == client[h] IN
    /\ Asks(c)
    /\ IF c.resumed
       THEN (\E d \in Without(Sent(c)) : Becomes(h, d)) /\ UNCHANGED stored
       ELSE Becomes(h, Fresh) /\ stored' = Suspended(Sent(c))
    /\ UNCHANGED <<lost, overlapped, denied>>

\* Mutant: the snapshot stays as it is.
StillWaitingStale(h) ==
    /\ Tells(client[h], "waiting")
    /\ Becomes(h, Fresh)
    /\ UNCHANGED <<stored, lost, overlapped, denied>>

\* 3956: the session that the poll had read is stored again, with a new
\* snapshot that has the next number; no HKEND.
StillWaiting(h) ==
    LET c == client[h] IN
    /\ Tells(c, "waiting")
    /\ Becomes(h, Fresh)
    /\ stored' = [status |-> "pending", number |-> Sent(c).number,
                  connected |-> c.connected, pages |-> <<>>]
    /\ UNCHANGED <<lost, overlapped, denied>>

Approved(h) ==
    /\ Tells(client[h], "approved")
    /\ Becomes(h, AfterApproval(Sent(client[h]), bank.task.page))
    /\ UNCHANGED <<stored, lost, overlapped, denied>>

\* Mutant: the failure is stored without HKEND.
RejectedLeaves(h) ==
    /\ Tells(client[h], "rejected")
    /\ Becomes(h, Fresh)
    /\ stored' = [stored EXCEPT !.status = "failed"]
    /\ UNCHANGED <<lost, overlapped, denied>>

Rejected(h) ==
    /\ Tells(client[h], "rejected")
    /\ Becomes(h, Concluded(Sent(client[h]), "failed"))
    /\ UNCHANGED <<stored, lost, overlapped, denied>>

\* Only a poll looks for errors in the answer (and HKSPA for 9075).  A wrong
\* number is no reason of the bank's own, unlike a dialog that it dropped.
Refused(h) ==
    LET c == client[h] IN
    /\ c.step \notin {"hangup", "end"}
    /\ Refuses(c)
    /\ IF c.step = "poll"
       THEN Becomes(h, Concluded(Sent(c), "failed")) /\ UNCHANGED denied
       ELSE /\ \E d \in Without(Sent(c)) : Becomes(h, d)
            /\ denied' = (denied \/ Heard(c) \/ bank.state # "open")
    /\ UNCHANGED <<stored, lost, overlapped>>

\* After HKEND, whatever came of it, the next dialog or the end of the handler:
\* an exception leaves the session as it was, but a download that never
\* became pending has none.
AfterEnd(h) ==
    LET c == client[h] IN
    IF c.step = "hangup"
    THEN Becomes(h, [c EXCEPT !.step = "login", !.number = 1]) /\ UNCHANGED stored
    ELSE /\ Becomes(h, Fresh)
         /\ stored' = IF c.verdict # "aborted"
                      THEN [stored EXCEPT !.status = c.verdict, !.pages = c.pages]
                      ELSE IF c.resumed THEN stored
                      ELSE [stored EXCEPT !.status = "failed"]

End(h) ==
    LET c == client[h] IN
    /\ c.step \in {"hangup", "end"}
    /\ Ends(c) \/ Refuses(c)
    /\ AfterEnd(h)
    /\ UNCHANGED <<lost, overlapped, denied>>

\* The exchange fails, before or after the bank took the message: an exception.
\* A poll and a log-in end there; other orders are followed by HKEND.
Lose(h) ==
    LET c == client[h] IN
    /\ lost < MaxLost
    /\ c.step # "idle"
    /\ bank' = bank \/ Acts(c)
    /\ lost' = lost + 1
    /\ IF c.step \in {"hangup", "end"} THEN AfterEnd(h)
       ELSE IF c.step = "poll" THEN Becomes(h, Fresh) /\ UNCHANGED stored
       ELSE IF c.step \in {"connect", "login"}
       THEN Becomes(h, Fresh) /\ stored' = [stored EXCEPT !.status = "failed"]
       ELSE Becomes(h, Concluded(c, "aborted")) /\ UNCHANGED stored
    /\ UNCHANGED <<overlapped, denied>>

-----------------------------------------------------------------------------
(* Actions of the user and the bank *)

\* The user answers in the banking app.
Decide ==
    /\ bank.state = "open"
    /\ bank.task # None
    /\ bank.task.says = "waiting"
    /\ \E v \in {"approved", "rejected"} : bank' = [bank EXCEPT !.task.says = v]
    /\ UNCHANGED <<client, stored, lost, overlapped, denied>>

\* The bank's timeout, which may fall between two pages.
Drop ==
    /\ bank.state = "open"
    /\ bank' = Dropped
    /\ UNCHANGED <<client, stored, lost, overlapped, denied>>

Next ==
    \/ Decide
    \/ Drop
    \/ \E h \in Handlers :
          \/ Begin(h) \/ Resume(h)
          \/ Served(h) \/ Unlisted(h) \/ Unsigned(h) \/ Challenged(h)
          \/ StillWaiting(h) \/ Approved(h) \/ Rejected(h) \/ Refused(h)
          \/ End(h) \/ Lose(h)

Spec == Init /\ [][Next]_vars

-----------------------------------------------------------------------------
(* Properties *)

TypeOK ==
    /\ client \in [Handlers -> Download]
    /\ stored \in Session
    /\ bank \in Bank
    /\ lost \in 0..MaxLost
    /\ overlapped \in BOOLEAN
    /\ denied \in BOOLEAN

\* The feed that is handed out is a beginning of the history, each page once
\* and in its place: however the first page arrived (fetched, with an approval,
\* before or after another dialog), whatever was retried, lost or polled twice.
InOrder(pages) == \A i \in 1..Len(pages) : pages[i] = i

PagesInOrder == InOrder(stored.pages) /\ Len(stored.pages) <= bank.last

\* A feed without has_more is the whole history ("returning early here would
\* silently lose transactions", fints3_decoupled.py:279-282), if polls do not
\* overlap, the bank asks once at most, and answers no order with an error of
\* its own.  Exchanges that fail, and polls that are refused or repeated, do not
\* shorten it: they never lead to an order with a number that the bank refuses.
\* A dialog that is dropped between two pages does.
CompleteIsWhole ==
    stored.status = "complete" /\ ~overlapped /\ ~denied /\ bank.asked <= 1
        => Len(stored.pages) = bank.last

\* has_more is never a false alarm: it is set only when the page limit cut the
\* history off.
PartialIsCut ==
    stored.status = "partial"
        => Len(stored.pages) >= MaxPages /\ Len(stored.pages) < bank.last

Quiet == lost = 0 /\ ~overlapped /\ \A h \in Handlers : client[h].step = "idle"

\* A pending session can be polled: the bank's dialog is still open (nobody
\* sent HKEND), expects the number in the snapshot, and has the task.  (An
\* exception after the approval, an account that the bank does not list, leaves
\* a session that is pending and a dialog that is ended: no such promise then.)
SnapshotAgrees ==
    stored.status = "pending" /\ Quiet /\ ~denied /\ bank.asked <= 1
        => \/ bank.state = "dropped"
           \/ /\ bank.state = "open"
              /\ bank.number = stored.number
              /\ bank.task # None

\* No dialog is left open at the bank when the operation is over.
DialogsEnd ==
    stored.status \in {"complete", "partial", "failed"} /\ Quiet => bank.state # "open"

\* The user is never asked to approve the next page of a history, neither by
\* banks that insist on HKTAN there nor by those for which it is a new order
\* (fints-protocol.md:537-539).
ContinuationsAreFree ==
    [][bank'.asked # bank.asked => bank'.task.page <= 1]_bank

\* The handlers keep the promise of HistoryFeed: what an operation ended with is
\* never replaced by another poll, a late failure or a retry, it is a feed or
\* none, and three things only excuse a feed that is shorter than it says.
Feed ==
    INSTANCE HistoryFeed WITH
        phase <- stored.status,
        pages <- stored.pages,
        last <- bank.last,
        again <- bank.asked > 1

ImplementsFeed == Feed!FeedSpec

\* The claim of fints3_decoupled.py:279-282 whatever the bank asks and answers:
\* neither a second challenge, in a resumed dialog, nor an error in the place of a
\* page (pagination.py:102-112 and 141) ends a download.
NothingSilentlyLost ==
    stored.status = "complete" /\ ~overlapped => Len(stored.pages) = bank.last
=============================================================================
