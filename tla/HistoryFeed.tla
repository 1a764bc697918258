----------------------------- MODULE HistoryFeed -----------------------------
(***************************************************************************)
(* What the gateway promises about one download of transactions.  The      *)
(* operation waits for the user as long as it has to, is then over for     *)
(* good, and hands out a beginning of the history: all of it, or with      *)
(* has_more set as much as the page limit allows.                          *)
(*                                                                         *)
(* Three things excuse a feed that is shorter than it says, and nothing    *)
(* else does: that the client polled while another poll was under way,     *)
(* that the bank asked for a second approval, and that it answered an      *)
(* order with an error of its own, or had dropped the dialog.  Exchanges   *)
(* that fail and polls that are refused or repeated do not.                *)
(***************************************************************************)
EXTENDS Naturals, Sequences

CONSTANTS
    Pages,      \* the history has up to that many pages
    MaxPages    \* the limit for one fetch

VARIABLES
    phase,      \* "none", "pending", then "complete", "partial" or "failed"
    pages,      \* what the consumer gets
    last,       \* the history's last page
    overlapped, \* did polls overlap?
    again,      \* did the bank ask a second time?
    denied      \* did it answer an order with an error of its own?

feedVars == <<phase, pages, last, overlapped, again, denied>>

FeedInit ==
    /\ phase = "none"
    /\ pages = <<>>
    /\ last \in 1..Pages
    /\ ~overlapped
    /\ ~again
    /\ ~denied

\* A verdict is final, unless polls overlapped.
Open == phase \in {"none", "pending"} \/ overlapped

Beginning(n) == [i \in 1..n |-> i]

\* The user is asked, or has not answered yet.
Wait == phase' = "pending" /\ pages' = <<>>

\* No data without success.
Fail == phase' = "failed" /\ pages' = <<>>

\* The page that came with an approval does not count towards the limit.
Deliver(n) == n <= MaxPages + 1 /\ pages' = Beginning(n)

Complete ==
    \E n \in 0..last :
        /\ Deliver(n)
        /\ phase' = "complete"
        /\ n = last \/ overlapped' \/ again' \/ denied'

\* has_more: the limit was reached, and more pages are left.
Cut ==
    \E n \in MaxPages..last :
        /\ Deliver(n)
        /\ phase' = "partial"
        /\ n < last

FeedNext ==
    /\ last' = last
    /\ overlapped => overlapped'
    /\ again => again'
    /\ denied => denied'
    /\ \/ Open /\ (Wait \/ Fail \/ Complete \/ Cut)
       \/ UNCHANGED <<phase, pages>>

FeedSpec == FeedInit /\ [][FeedNext]_feedVars

-----------------------------------------------------------------------------
(* Consequences of the promise. *)

\* A consumer who polls in turn is told one verdict, with one feed.
OneFeed ==
    [][phase \notin {"none", "pending"} /\ ~overlapped
           => UNCHANGED <<phase, pages>>]_feedVars

\* A feed without has_more is the whole history, one with has_more is cut off
\* by the limit, and an operation without a result shows no data.
HonestFeed ==
    /\ \A i \in 1..Len(pages) : pages[i] = i
    /\ phase = "complete" /\ ~overlapped /\ ~again /\ ~denied => Len(pages) = last
    /\ phase = "partial" => Len(pages) >= MaxPages /\ Len(pages) < last
    /\ phase \in {"none", "pending", "failed"} => pages = <<>>
=============================================================================
