------------------------- MODULE HistoryTurns_proofs -------------------------
(***************************************************************************)
(* More about HistoryDownload, on top of Inv: what holds between the       *)
(* handler and the bank as long as polls take turns.  Both then agree on   *)
(* the next message number, whatever was lost, so the bank refuses orders  *)
(* for reasons of its own only (TurnInv).  If no exchange is lost, HKEND   *)
(* ends the dialog of a finished session, and unless an approved handler   *)
(* was aborted a pending one is one that the bank waits for (CalmInv).     *)
(* The handlers implement HistoryFeed, because a poll under way is then of *)
(* a session that is still pending (FeedInv).                              *)
(***************************************************************************)
EXTENDS HistoryDownload_proofs

Active(h) == client[h].step # "idle"

\* Polls take turns, unless the history says otherwise; a POST /transactions
\* is alone in any case.
Alone ==
    /\ ~overlapped => \A g, h \in Handlers : Active(g) /\ Active(h) => g = h
    /\ \A h \in Handlers : Active(h) /\ ~client[h].resumed =>
          stored.status = "none" /\ \A g \in Handlers : Active(g) => g = h

\* A dialog is suspended and resumed after a challenge only.
Asked ==
    /\ \A h \in Handlers : Active(h) /\ client[h].resumed => bank.asked >= 1
    /\ stored.status = "pending" => bank.asked >= 1

\* A handler that goes on has the number that the bank expects, if the bank
\* still has the dialog.
Agrees ==
    ~overlapped => \A h \in Handlers :
        client[h].step \in {"discover", "locate", "history", "hangup"} /\
        bank.state = "open" =>
            bank.number = client[h].number

\* CompleteIsWhole, from the moment a handler concludes.
Whole ==
    /\ ~overlapped /\ ~denied /\ bank.asked <= 1 =>
          \A h \in Handlers : client[h].verdict = "complete" => Len(client[h].pages) = bank.last
    /\ CompleteIsWhole

TurnInv == Inv /\ Alone /\ Asked /\ Agrees /\ Whole

Calm == ~overlapped /\ lost = 0

\* An exception has a cause.
Excused == denied \/ bank.asked > 1

Aborted ==
    Calm => \A h \in Handlers : client[h].verdict = "aborted" => Excused

\* SnapshotAgrees, a poll being under way or not.
Ready ==
    Calm /\ stored.status = "pending" /\ (\A h \in Handlers : client[h].step \in {"idle", "poll"})
        => \/ bank.state = "dropped"
           \/ bank.state # "open" /\ Excused
           \/ bank.state = "open" /\ bank.number = stored.number /\ bank.task # None

\* A poll has what is stored.
PollsStored ==
    Calm => \A h \in Handlers : client[h].step = "poll" =>
        stored.status = "pending" /\ client[h].number = stored.number

\* HKEND will be heard, if the dialog is still there.
Ending ==
    Calm => \A h \in Handlers : client[h].step = "end" =>
        bank.state # "open" \/ bank.number = client[h].number

CalmInv == TurnInv /\ Aborted /\ Ready /\ PollsStored /\ Ending /\ DialogsEnd

-----------------------------------------------------------------------------
(* The steps, as these invariants tell them apart *)

\* The handler goes on, or will end.
Goes(h, d) ==
    /\ Active(h) /\ Becomes(h, d)
    /\ d.step \in {"discover", "hangup", "locate", "history", "end"}
    /\ d.resumed = client[h].resumed
    /\ d.verdict \in {"none", "complete", "partial", "failed", "aborted"}
    /\ UNCHANGED <<stored, lost, overlapped>>

\* It was heard by the bank, and what it concludes is true.
GoesHeard(h, d) ==
    /\ Goes(h, d)
    /\ bank'.state = "open" /\ bank'.number = d.number
    /\ d.verdict = "aborted" => denied' \/ bank'.asked > 1
    /\ ~denied' /\ bank'.asked <= 1 /\ d.verdict = "complete" => Len(d.pages) = bank.last

\* The handler ends with a pending session.
Suspends(h) ==
    /\ Active(h) /\ Becomes(h, Fresh)
    /\ stored'.status = "pending"
    /\ bank'.state = "open" /\ bank'.number = stored'.number
    /\ bank'.task # None /\ bank'.asked >= 1
    /\ UNCHANGED <<lost, overlapped>>

\* The handler stops, goes over to its second dialog, or will end by an
\* exception.
Stops(h, d) ==
    /\ Active(h) /\ Becomes(h, d)
    /\ d.step \in {"idle", "login", "end"}
    /\ \/ d = Fresh
       \/ d.resumed = client[h].resumed /\ stored' = stored
    /\ d.verdict \in {"none", "aborted"}
    /\ d.step = "end" => lost' > 0
    /\ d.verdict = "aborted" => lost' > 0
    /\ stored'.status = "pending" => stored.status = "pending"
    /\ stored'.status = "complete" =>
          \/ stored' = stored
          \/ client[h].verdict = "complete" /\ stored'.pages = client[h].pages
    /\ lost' = 0 /\ d.step = "idle" =>
          /\ client[h].step = "end"
          /\ client[h].verdict = "aborted" \/ stored'.status = client[h].verdict
    /\ lost' \in {lost, lost + 1}
    /\ UNCHANGED <<overlapped, denied>>

LEMMA OneChanges ==
    ASSUME Inv, NEW h \in Handlers, NEW d, Becomes(h, d)
    PROVE  \A g \in Handlers : client'[g] = IF g = h THEN d ELSE client[g]
BY DEF Inv, TypeOK, Becomes

LEMMA HeardTaken ==
    ASSUME bank \in Bank, NEW c \in Download, DownloadOK(c, bank.last, bank.signs), Heard(c)
    PROVE  Taken(c).state = "open" /\ Taken(c).number = c.number + 1
<1>1. CASE c.step \in {"connect", "login"}
  BY <1>1, TakenFields DEF DownloadOK
<1>2. CASE c.step \notin {"connect", "login"}
  BY <1>2, TakenFields DEF Heard
<1>. QED
  BY <1>1, <1>2

\* What the bank's answer to a poll leaves.
LEMMA ToldBank ==
    ASSUME bank \in Bank, NEW c \in Download, DownloadOK(c, bank.last, bank.signs),
           NEW v \in {"waiting", "approved", "rejected"}, Tells(c, v)
    PROVE  /\ bank'.state = "open" /\ bank'.number = c.number + 1
           /\ v = "waiting" => bank'.task = bank.task
           /\ bank.task # None
<1>1. PICK k : k = Taken(c)
  OBVIOUS
<1>2. k.state = "open" /\ k.number = c.number + 1 /\ k \in Bank /\ k.task = bank.task
  BY <1>1, HeardTaken, TakenFields DEF Tells
<1>3. PICK b : b = bank'
  OBVIOUS
<1>4. bank' = [k EXCEPT !.task = IF v = "waiting" THEN k.task ELSE None]
  BY <1>1 DEF Tells
<1>5. b.state = k.state /\ b.number = k.number /\ (v = "waiting" => b.task = k.task)
  BY <1>2, <1>3, <1>4 DEF Bank
<1>. QED
  BY <1>2, <1>3, <1>5 DEF Tells

LEMMA ServedGoes ==
    ASSUME Inv, NEW h \in Handlers, Served(h)
    PROVE  \E d \in Download : GoesHeard(h, d)
<1>. PICK c : c = client[h]
  OBVIOUS
<1>0. /\ c = client[h] /\ c \in Download /\ DownloadOK(c, bank.last, bank.signs)
      /\ bank \in Bank /\ bank.last \in 1..Pages /\ bank.signs \in BOOLEAN
      /\ UNCHANGED <<stored, lost, overlapped>> /\ c.step \in Orders
      /\ Serves(c)
  BY DEF Inv, TypeOK, Bank, Served, Serves
<1>1. bank'.state = "open" /\ bank'.number = c.number + 1
  BY <1>0, HeardTaken DEF Serves
<1>2. CASE c.step = "history"
  <2>1. PICK d : d = WithPage(Sent(c))
    OBVIOUS
  <2>2. /\ d \in Download /\ d.step \in {"history", "end"}
        /\ d.number = c.number + 1 /\ d.resumed = c.resumed
        /\ d.verdict \in {"none", "complete", "partial"}
        /\ d.verdict = "complete" => Len(d.pages) = bank.last
    BY <1>0, <1>2, <2>1, WithPageOK DEF Serves
  <2>3. Becomes(h, d)
    BY <1>0, <1>2, <2>1 DEF Served
  <2>. QED
    BY <1>0, <1>1, <1>2, <2>2, <2>3 DEF GoesHeard, Goes, Active
<1>3. CASE c.step # "history"
  <2>1. PICK d : d = Following(Sent(c))
    OBVIOUS
  <2>2. c.step \in {"connect", "discover", "login", "locate"}
    BY <1>0, <1>3 DEF Orders
  <2>3. /\ d \in Download /\ d.step \in {"discover", "hangup", "locate", "history"}
        /\ d.number = c.number + 1 /\ d.resumed = c.resumed
        /\ DownloadOK(d, bank.last, bank.signs)
    BY <1>0, <2>1, <2>2, FollowingOK
  <2>4. d.verdict = "none"
    BY <2>3 DEF DownloadOK, Download
  <2>5. Becomes(h, d)
    BY <1>0, <1>3, <2>1 DEF Served
  <2>. QED
    BY <1>0, <1>1, <2>2, <2>3, <2>4, <2>5 DEF GoesHeard, Goes, Active
<1>. QED
  BY <1>2, <1>3

LEMMA UnlistedGoes ==
    ASSUME Inv, NEW h \in Handlers, Unlisted(h)
    PROVE  \E d \in Download : GoesHeard(h, d)
<1>. PICK c : c = client[h]
  OBVIOUS
<1>0. /\ c = client[h] /\ c \in Download /\ DownloadOK(c, bank.last, bank.signs)
      /\ bank \in Bank /\ c.step \in {"discover", "locate"} /\ denied'
      /\ UNCHANGED <<stored, lost, overlapped>>
      /\ Serves(c)
  BY DEF Inv, TypeOK, Unlisted
<1>1. bank'.state = "open" /\ bank'.number = c.number + 1
  BY <1>0, HeardTaken DEF Serves
<1>2. PICK d : d = Concluded(Sent(c), "aborted")
  OBVIOUS
<1>3. /\ d \in Download /\ d.step = "end" /\ d.verdict = "aborted"
      /\ d.number = c.number + 1 /\ d.resumed = c.resumed
  BY <1>0, <1>2, SentFields, ConcludedFields
<1>4. Becomes(h, d)
  BY <1>0, <1>2 DEF Unlisted
<1>. QED
  BY <1>0, <1>1, <1>3, <1>4 DEF GoesHeard, Goes, Active

\* A handler that sent HKTAN, or knows that the bank wants none, is not told
\* that it is missing.
LEMMA UnsignedGoes ==
    ASSUME Inv, NEW h \in Handlers, Unsigned(h)
    PROVE  \E d \in Download : GoesHeard(h, d)
<1>. PICK c : c = client[h]
  OBVIOUS
<1>0. /\ c = client[h] /\ c \in Download /\ DownloadOK(c, bank.last, bank.signs)
      /\ bank \in Bank
      /\ UNCHANGED <<stored, lost, overlapped>>
      /\ FindsUnsigned(c)
  BY DEF Inv, TypeOK, Unsigned
<1>1. bank'.state = "open" /\ bank'.number = c.number + 1
  BY <1>0, HeardTaken DEF FindsUnsigned
<1>2. c.step = "history" /\ c.needsTan = "unknown" /\ c.verdict = "none"
  BY <1>0 DEF FindsUnsigned, Continues, CarriesTan, DownloadOK, Download
<1>k. PICK k : k = Sent(c)
  OBVIOUS
<1>3. PICK d : d = [k EXCEPT !.needsTan = "yes"]
  OBVIOUS
<1>4. /\ d \in Download /\ d.step = "history" /\ d.number = c.number + 1
      /\ d.resumed = c.resumed /\ d.verdict = "none"
  BY <1>0, <1>2, <1>k, <1>3, SentFields DEF Download
<1>5. Becomes(h, d)
  BY <1>0, <1>2, <1>k, <1>3 DEF Unsigned
<1>. QED
  BY <1>0, <1>1, <1>2, <1>4, <1>5 DEF GoesHeard, Goes, Active

\* What the bank's challenge leaves.
LEMMA AskedBank ==
    ASSUME bank \in Bank, NEW c \in Download, DownloadOK(c, bank.last, bank.signs), Asks(c)
    PROVE  /\ bank'.state = "open" /\ bank'.number = c.number + 1
           /\ bank'.task # None /\ bank'.asked = bank.asked + 1
<1>1. PICK k : k = Taken(c)
  OBVIOUS
<1>2. k.state = "open" /\ k.number = c.number + 1 /\ k \in Bank /\ k.asked = bank.asked
  BY <1>1, HeardTaken, TakenFields DEF Asks
<1>3. PICK b : b = bank'
  OBVIOUS
<1>t. PICK t : t = [page |-> PageOf(c), says |-> "waiting"]
  OBVIOUS
<1>4. bank' = [k EXCEPT !.task = t, !.asked = k.asked + 1]
  BY <1>1, <1>t DEF Asks
<1>5. b.state = k.state /\ b.number = k.number /\ b.task = t /\ b.asked = k.asked + 1
  BY <1>2, <1>3, <1>4 DEF Bank
<1>6. t \in Task
  <2>1. PageOf(c) \in 0..Pages
    BY HistoryAssumption DEF PageOf, Download
  <2>. QED
    BY <1>t, <2>1 DEF Task
<1>7. t # None
  BY <1>6, HistoryAssumption DEF Task
<1>. QED
  BY <1>2, <1>3, <1>5, <1>7

LEMMA ChallengedGoes ==
    ASSUME Inv, Asked, NEW h \in Handlers, Challenged(h), client[h].resumed
    PROVE  \E d \in Download : GoesHeard(h, d)
<1>. PICK c : c = client[h]
  OBVIOUS
<1>0. /\ c = client[h] /\ c \in Download /\ DownloadOK(c, bank.last, bank.signs)
      /\ bank \in Bank /\ bank.asked \in Nat /\ c.step \in Orders
      /\ bank.last \in 1..Pages /\ bank.signs \in BOOLEAN
      /\ UNCHANGED <<stored, lost, overlapped>>
      /\ Asks(c)
  BY DEF Inv, TypeOK, Bank, Challenged, Asks
<1>1. bank'.state = "open" /\ bank'.number = c.number + 1 /\ bank'.asked = bank.asked + 1
  BY <1>0, AskedBank
<1>2. Active(h)
  BY <1>0 DEF Active, Orders
<1>3. bank.asked >= 1
  BY <1>0, <1>2 DEF Asked
<1>4. PICK d \in Without(Sent(c)) : Becomes(h, d)
  BY <1>0 DEF Challenged
<1>5. /\ d \in Download
      /\ d.step \in {"discover", "hangup", "locate", "history", "end"}
      /\ d.number = c.number + 1 /\ d.resumed = c.resumed
      /\ d.verdict \in {"none", "complete", "aborted"}
  BY <1>0, <1>4, WithoutOK
<1>7. ~(bank'.asked <= 1) /\ bank'.asked > 1
  BY <1>0, <1>1, <1>3
<1>8. Goes(h, d)
  BY <1>0, <1>2, <1>4, <1>5 DEF Goes
<1>. QED
  BY <1>1, <1>5, <1>7, <1>8 DEF GoesHeard

LEMMA ChallengedSuspends ==
    ASSUME Inv, NEW h \in Handlers, Challenged(h), ~client[h].resumed
    PROVE  Suspends(h)
<1>. PICK c : c = client[h]
  OBVIOUS
<1>0. /\ c = client[h] /\ c \in Download /\ DownloadOK(c, bank.last, bank.signs)
      /\ bank \in Bank /\ bank.asked \in Nat /\ c.step \in Orders
      /\ UNCHANGED <<lost, overlapped>>
      /\ Asks(c)
  BY DEF Inv, TypeOK, Bank, Challenged, Asks
<1>1. /\ bank'.state = "open" /\ bank'.number = c.number + 1
      /\ bank'.task # None /\ bank'.asked = bank.asked + 1
  BY <1>0, AskedBank
<1>2. Becomes(h, Fresh) /\ stored' = Suspended(Sent(c))
  BY <1>0 DEF Challenged
<1>3. stored'.status = "pending" /\ stored'.number = c.number + 1
  BY <1>0, <1>2, SentFields DEF Suspended
<1>4. bank'.asked >= 1 /\ Active(h)
  BY <1>0, <1>1 DEF Active, Orders
<1>. QED
  BY <1>0, <1>1, <1>2, <1>3, <1>4 DEF Suspends

LEMMA WaitingSuspends ==
    ASSUME Inv, Asked, NEW h \in Handlers, StillWaiting(h)
    PROVE  Suspends(h)
<1>. PICK c : c = client[h]
  OBVIOUS
<1>0. /\ c = client[h] /\ c \in Download /\ DownloadOK(c, bank.last, bank.signs)
      /\ bank \in Bank /\ bank.asked \in Nat /\ c.step = "poll" /\ c.resumed
      /\ UNCHANGED <<lost, overlapped>> /\ stored \in Session
      /\ Tells(c, "waiting")
  BY DEF Inv, TypeOK, Bank, StillWaiting, Tells, DownloadOK
<1>1. /\ bank'.state = "open" /\ bank'.number = c.number + 1
      /\ bank'.task # None
  BY <1>0, ToldBank
<1>2. Active(h) /\ bank.asked >= 1
  BY <1>0 DEF Active, Asked
<1>3. bank'.asked >= 1
  <2>1. bank'.asked \in {bank.asked, bank.asked + 1}
    BY <1>0, BankNext DEF Next
  <2>. QED
    BY <1>0, <1>2, <2>1
<1>4. Becomes(h, Fresh) /\ stored'.status = "pending" /\ stored'.number = c.number + 1
  <2>1. PICK n, b : n = Sent(c).number /\ b = c.connected
    OBVIOUS
  <2>2. /\ Becomes(h, Fresh)
        /\ stored' = [status |-> "pending", number |-> n, connected |-> b, pages |-> <<>>]
    BY <1>0, <2>1 DEF StillWaiting
  <2>. QED
    BY <1>0, <2>1, <2>2, SentFields
<1>. QED
  BY <1>0, <1>1, <1>2, <1>3, <1>4 DEF Suspends

LEMMA ApprovedGoes ==
    ASSUME Inv, NEW h \in Handlers, Approved(h)
    PROVE  \E d \in Download : GoesHeard(h, d)
<1>. PICK c : c = client[h]
  OBVIOUS
<1>p. PICK p : p = bank.task.page
  OBVIOUS
<1>0. /\ c = client[h] /\ c \in Download /\ DownloadOK(c, bank.last, bank.signs)
      /\ bank \in Bank /\ c.step = "poll" /\ c.resumed
      /\ UNCHANGED <<stored, lost, overlapped>>
      /\ Tells(c, "approved")
  BY DEF Inv, TypeOK, Approved, Tells, DownloadOK
<1>1. p \in {0, 1}
  BY <1>0, <1>p, HistoryAssumption DEF Inv, Tells, TaskOK, Task
<1>2. bank'.state = "open" /\ bank'.number = c.number + 1
  BY <1>0, ToldBank
<1>3. PICK d : d = AfterApproval(Sent(c), p)
  OBVIOUS
<1>4. /\ d \in Download /\ d.step \in {"discover", "locate", "end"}
      /\ d.number = c.number + 1 /\ d.resumed
      /\ d.verdict \in {"none", "complete"}
      /\ d.verdict = "complete" => Len(d.pages) = bank.last
  BY <1>0, <1>1, <1>3, AfterApprovalOK
<1>5. Becomes(h, d)
  BY <1>0, <1>p, <1>3 DEF Approved
<1>. QED
  BY <1>0, <1>2, <1>4, <1>5 DEF GoesHeard, Goes, Active

LEMMA RejectedGoes ==
    ASSUME Inv, NEW h \in Handlers, Rejected(h)
    PROVE  \E d \in Download : GoesHeard(h, d)
<1>. PICK c : c = client[h]
  OBVIOUS
<1>0. /\ c = client[h] /\ c \in Download /\ DownloadOK(c, bank.last, bank.signs)
      /\ bank \in Bank /\ c.step = "poll"
      /\ UNCHANGED <<stored, lost, overlapped>>
      /\ Tells(c, "rejected")
  BY DEF Inv, TypeOK, Rejected, Tells
<1>1. bank'.state = "open" /\ bank'.number = c.number + 1
  BY <1>0, ToldBank
<1>2. PICK d : d = Concluded(Sent(c), "failed")
  OBVIOUS
<1>3. /\ d \in Download /\ d.step = "end" /\ d.verdict = "failed"
      /\ d.number = c.number + 1 /\ d.resumed = c.resumed
  BY <1>0, <1>2, SentFields, ConcludedFields
<1>4. Becomes(h, d)
  BY <1>0, <1>2 DEF Rejected
<1>. QED
  BY <1>0, <1>1, <1>3, <1>4 DEF GoesHeard, Goes, Active

\* What the bank's error answer leaves.
LEMMA RefusedBank ==
    ASSUME bank \in Bank, NEW c \in Download, DownloadOK(c, bank.last, bank.signs), Refuses(c)
    PROVE  /\ bank'.state = "open" =>
                 \/ Heard(c) /\ bank'.number = c.number + 1
                 \/ ~Heard(c) /\ bank' = bank
           /\ c.step \in {"hangup", "end"} => ~Heard(c)
<1>1. PICK b : b = bank'
  OBVIOUS
<1>2. \/ b = [bank EXCEPT !.state = "dropped"]
      \/ Heard(c) /\ b = Taken(c)
      \/ ~Heard(c) /\ b = bank
  BY <1>1 DEF Refuses, Dropped
<1>3. b = [bank EXCEPT !.state = "dropped"] => b.state # "open"
  BY DEF Bank
<1>4. Heard(c) /\ b = Taken(c) => b.number = c.number + 1
  BY HeardTaken
<1>5. c.step \in {"hangup", "end"} => ~Heard(c)
  BY DEF Refuses
<1>. QED
  BY <1>1, <1>2, <1>3, <1>4, <1>5

LEMMA RefusedGoes ==
    ASSUME Inv, NEW h \in Handlers, Refused(h)
    PROVE  \E d \in Download :
              /\ Goes(h, d) /\ d.number = client[h].number + 1
              /\ client[h].step = "poll" => d.step = "end" /\ d.verdict = "failed"
<1>. PICK c : c = client[h]
  OBVIOUS
<1>0. /\ c = client[h] /\ c \in Download /\ DownloadOK(c, bank.last, bank.signs)
      /\ bank \in Bank /\ bank.last \in 1..Pages /\ bank.signs \in BOOLEAN
      /\ c.step = "poll" \/ c.step \in Orders
      /\ UNCHANGED <<stored, lost, overlapped>>
  BY DEF Inv, TypeOK, Bank, Refused, Refuses, Download, Steps, Orders
<1>2. CASE c.step = "poll"
  <2>2. PICK d : d = Concluded(Sent(c), "failed")
    OBVIOUS
  <2>3. /\ d \in Download /\ d.step = "end" /\ d.verdict = "failed"
        /\ d.number = c.number + 1 /\ d.resumed = c.resumed
    BY <1>0, <2>2, SentFields, ConcludedFields
  <2>4. Becomes(h, d)
    BY <1>0, <1>2, <2>2 DEF Refused
  <2>. QED
    BY <1>0, <1>2, <2>3, <2>4 DEF Goes, Active
<1>3. CASE c.step \in Orders
  <2>1. c.step # "poll" /\ c.step # "idle"
    BY <1>3 DEF Orders
  <2>2. PICK d \in Without(Sent(c)) : Becomes(h, d)
    BY <1>0, <2>1 DEF Refused
  <2>3. /\ d \in Download
        /\ d.step \in {"discover", "hangup", "locate", "history", "end"}
        /\ d.number = c.number + 1 /\ d.resumed = c.resumed
        /\ d.verdict \in {"none", "complete", "aborted"}
    BY <1>0, <1>3, <2>2, WithoutOK
  <2>. QED
    BY <1>0, <2>1, <2>2, <2>3 DEF Goes, Active
<1>. QED
  BY <1>0, <1>2, <1>3

\* A handler whose dialog is about to be left by HKEND.
LEMMA AfterEndStops ==
    ASSUME Inv, NEW h \in Handlers, client[h].step \in {"hangup", "end"}, AfterEnd(h),
           lost' \in {lost, lost + 1}, UNCHANGED <<overlapped, denied>>
    PROVE  \E d \in Download : Stops(h, d)
<1>. PICK c : c = client[h]
  OBVIOUS
<1>s. PICK s : s = stored'
  OBVIOUS
<1>0. /\ c = client[h] /\ c \in Download /\ DownloadOK(c, bank.last, bank.signs)
      /\ stored \in Session /\ bank.last \in 1..Pages /\ bank.signs \in BOOLEAN
      /\ Active(h)
  BY DEF Inv, TypeOK, Bank, Active
<1>1. CASE c.step = "hangup"
  <2>1. PICK d : d = [c EXCEPT !.step = "login", !.number = 1]
    OBVIOUS
  <2>2. /\ d \in Download /\ d.step = "login" /\ d.resumed = c.resumed /\ d.verdict = "none"
    BY <1>0, <1>1, <2>1 DEF Download, Steps, DownloadOK
  <2>3. Becomes(h, d) /\ stored' = stored
    BY <1>0, <1>1, <2>1 DEF AfterEnd
  <2>. QED
    BY <1>0, <2>2, <2>3 DEF Stops
<1>2. CASE c.step = "end"
  <2>1. Becomes(h, Fresh) /\ Fresh \in Download /\ Fresh.step = "idle" /\ Fresh.verdict = "none"
    BY <1>0, <1>2, FreshOK DEF AfterEnd, Fresh
  <2>2. \/ /\ c.verdict # "aborted"
           /\ s = [stored EXCEPT !.status = c.verdict, !.pages = c.pages]
        \/ c.verdict = "aborted" /\ (s = stored \/ s = [stored EXCEPT !.status = "failed"])
    BY <1>0, <1>2, <1>s DEF AfterEnd
  <2>3. \/ /\ c.verdict \in {"complete", "partial", "failed"}
           /\ s.status = c.verdict /\ s.pages = c.pages
        \/ c.verdict = "aborted" /\ (s = stored \/ s.status = "failed")
    BY <1>0, <1>2, <2>2 DEF Session, DownloadOK, Download
  <2>4. /\ stored'.status = "pending" => stored.status = "pending"
        /\ stored'.status = "complete" =>
              stored' = stored \/ (c.verdict = "complete" /\ stored'.pages = c.pages)
        /\ c.verdict = "aborted" \/ stored'.status = c.verdict
    BY <1>s, <2>3
  <2>5. Stops(h, Fresh)
    BY <1>0, <1>2, <2>1, <2>4 DEF Stops
  <2>. QED
    BY <2>1, <2>5
<1>. QED
  BY <1>0, <1>1, <1>2

LEMMA LoseStops ==
    ASSUME Inv, NEW h \in Handlers, Lose(h)
    PROVE  lost' > 0 /\ \E d \in Download : Stops(h, d)
<1>. PICK c : c = client[h]
  OBVIOUS
<1>0. /\ c = client[h] /\ c \in Download /\ DownloadOK(c, bank.last, bank.signs)
      /\ stored \in Session /\ bank.last \in 1..Pages /\ bank.signs \in BOOLEAN
      /\ Active(h) /\ lost \in Nat /\ lost' = lost + 1
      /\ UNCHANGED <<overlapped, denied>>
  BY HistoryAssumption DEF Inv, TypeOK, Bank, Active, Lose
<1>f. Fresh \in Download /\ Fresh.step = "idle" /\ Fresh.verdict = "none"
  BY <1>0, FreshOK DEF Fresh
<1>l. lost' > 0 /\ lost' # 0
  BY <1>0
<1>1. CASE c.step \in {"hangup", "end"}
  BY <1>0, <1>1, AfterEndStops DEF Lose
<1>2. CASE c.step = "poll"
  <2>1. Becomes(h, Fresh) /\ UNCHANGED stored
    BY <1>0, <1>2 DEF Lose
  <2>. QED
    BY <1>0, <1>f, <1>l, <2>1 DEF Stops
<1>3. CASE c.step \in {"connect", "login"}
  <2>1. Becomes(h, Fresh) /\ stored' = [stored EXCEPT !.status = "failed"]
    BY <1>0, <1>3 DEF Lose
  <2>2. stored'.status = "failed"
    BY <1>0, <2>1 DEF Session
  <2>. QED
    <3>1. Stops(h, Fresh)
      BY <1>0, <1>f, <1>l, <2>1, <2>2 DEF Stops
    <3>. QED
      BY <1>0, <1>f, <3>1
<1>4. CASE c.step \notin {"hangup", "end", "poll", "connect", "login"}
  <2>1. Becomes(h, Concluded(c, "aborted")) /\ UNCHANGED stored
    BY <1>0, <1>4 DEF Lose
  <2>2. PICK d : d = Concluded(c, "aborted")
    OBVIOUS
  <2>3. d \in Download /\ d.step = "end" /\ d.verdict = "aborted" /\ d.resumed = c.resumed
    BY <1>0, <2>2, ConcludedFields
  <2>. QED
    BY <1>0, <2>1, <2>2, <2>3 DEF Stops
<1>. QED
  BY <1>1, <1>2, <1>3, <1>4

\* A handler that begins.
LEMMA Starts ==
    ASSUME NEW h \in Handlers, Begin(h) \/ Resume(h)
    PROVE  /\ client[h].step = "idle" /\ UNCHANGED <<stored, bank, lost>>
           /\ \E d : /\ Becomes(h, d) /\ d.verdict = "none"
                     /\ Begin(h) => d.step = "connect"
                     /\ Resume(h) => d.step = "poll" /\ d.number = stored.number
           /\ Resume(h) => stored.status = "pending"
<1>1. CASE Begin(h)
  <2>1. PICK d : d = [Fresh EXCEPT !.step = "connect"]
    OBVIOUS
  <2>2. d.verdict = "none" /\ d.step = "connect"
    BY <2>1 DEF Fresh
  <2>. QED
    BY <1>1, <2>1, <2>2 DEF Begin, Resume
<1>2. CASE Resume(h)
  <2>1. PICK d : d = [Fresh EXCEPT !.step = "poll", !.resumed = TRUE,
                                   !.connected = stored.connected, !.number = stored.number]
    OBVIOUS
  <2>2. d.verdict = "none" /\ d.step = "poll" /\ d.number = stored.number
    BY <2>1 DEF Fresh
  <2>. QED
    BY <1>2, <2>1, <2>2 DEF Begin, Resume
<1>. QED
  BY <1>1, <1>2

\* Every step is one of these.
LEMMA Kinds ==
    ASSUME Inv, Asked, [Next]_vars
    PROVE  \/ UNCHANGED vars \/ Decide \/ Drop
           \/ \E h \in Handlers :
                 \/ Begin(h) \/ Resume(h) \/ Suspends(h) \/ Refused(h) \/ Lose(h)
                 \/ \E d \in Download : GoesHeard(h, d)
                 \/ End(h) /\ lost' = lost /\ \E d \in Download : Stops(h, d)
<1>1. ASSUME NEW h \in Handlers, End(h)
      PROVE  lost' = lost /\ \E d \in Download : Stops(h, d)
  BY <1>1, AfterEndStops DEF End
<1>. QED
  BY <1>1, ServedGoes, UnsignedGoes, ChallengedGoes, ChallengedSuspends, WaitingSuspends,
     ApprovedGoes, RejectedGoes, UnlistedGoes DEF Next

-----------------------------------------------------------------------------
(* Polls take turns *)

LEMMA AloneNext == Inv /\ Asked /\ Alone /\ [Next]_vars => Alone'
<1>. SUFFICES ASSUME Inv, Asked, Alone, [Next]_vars PROVE Alone'
  OBVIOUS
<1>1. ASSUME NEW h \in Handlers, NEW d, Becomes(h, d), Active(h), UNCHANGED overlapped,
             d.step = "idle" \/ (d.resumed = client[h].resumed /\ stored' = stored)
      PROVE  Alone'
  <2>1. \A g \in Handlers : client'[g] = IF g = h THEN d ELSE client[g]
    BY <1>1, OneChanges
  <2>2. ASSUME ~overlapped'
        PROVE  \A f, g \in Handlers : Active(f)' /\ Active(g)' => f = g
    BY <1>1, <2>1, <2>2 DEF Alone, Active
  <2>3. ASSUME NEW g \in Handlers, Active(g)', ~client'[g].resumed
        PROVE  stored'.status = "none" /\ \A f \in Handlers : Active(f)' => f = g
    BY <1>1, <2>1, <2>3 DEF Alone, Active
  <2>. QED
    BY <2>2, <2>3 DEF Alone
<1>2. ASSUME NEW h \in Handlers, Begin(h)
      PROVE  Alone'
  <2>1. PICK d : d = [Fresh EXCEPT !.step = "connect"]
    OBVIOUS
  <2>2. \A g \in Handlers : client'[g] = IF g = h THEN d ELSE client[g]
    BY <1>2, <2>1, OneChanges DEF Begin
  <2>. QED
    BY <1>2, <2>2 DEF Begin, Alone, Active
<1>3. ASSUME NEW h \in Handlers, Resume(h)
      PROVE  Alone'
  <2>1. PICK d : d = [Fresh EXCEPT !.step = "poll", !.resumed = TRUE,
                                   !.connected = stored.connected, !.number = stored.number]
    OBVIOUS
  <2>2. \A g \in Handlers : client'[g] = IF g = h THEN d ELSE client[g]
    BY <1>3, <2>1, OneChanges DEF Resume
  <2>3. d.resumed
    BY <2>1 DEF Fresh
  <2>. QED
    BY <1>3, <2>2, <2>3 DEF Resume, Alone, Active
<1>4. CASE UNCHANGED <<client, stored, lost, overlapped>>
  BY <1>4 DEF Alone, Active
<1>5. ASSUME NEW h \in Handlers, NEW d \in Download, Goes(h, d)
      PROVE  Alone'
  BY <1>1, <1>5 DEF Goes
<1>6. ASSUME NEW h \in Handlers, NEW d \in Download, Stops(h, d)
      PROVE  Alone'
  BY <1>1, <1>6 DEF Stops, Fresh
<1>7. ASSUME NEW h \in Handlers, Suspends(h)
      PROVE  Alone'
  <2>1. Fresh.step = "idle"
    BY DEF Fresh
  <2>. QED
    BY <1>1, <1>7, <2>1 DEF Suspends
<1>. QED
  BY <1>2, <1>3, <1>4, <1>5, <1>6, <1>7, Kinds, RefusedGoes, LoseStops
  DEF GoesHeard, vars, Decide, Drop

LEMMA AskedNext == Inv /\ Asked /\ Alone /\ [Next]_vars => Asked'
<1>. SUFFICES ASSUME Inv, Asked, Alone, [Next]_vars PROVE Asked'
  OBVIOUS
<1>0. bank.asked \in Nat /\ bank'.asked \in {bank.asked, bank.asked + 1}
  BY BankNext DEF Inv, TypeOK, Bank
<1>1. ASSUME NEW h \in Handlers, NEW d, Becomes(h, d),
             d.step # "idle" /\ d.resumed => bank.asked >= 1,
             stored'.status = "pending" => bank'.asked >= 1
      PROVE  Asked'
  <2>1. \A g \in Handlers : client'[g] = IF g = h THEN d ELSE client[g]
    BY <1>1, OneChanges
  <2>2. \A g \in Handlers : Active(g)' /\ client'[g].resumed => bank.asked >= 1
    BY <1>1, <2>1 DEF Asked, Active
  <2>3. bank.asked >= 1 => bank'.asked >= 1
    BY <1>0
  <2>. QED
    BY <1>1, <2>2, <2>3 DEF Asked
<1>a. stored.status = "pending" => bank'.asked >= 1
  BY <1>0 DEF Asked
<1>2. ASSUME NEW h \in Handlers, Begin(h)
      PROVE  Asked'
  <2>1. PICK d : d = [Fresh EXCEPT !.step = "connect"]
    OBVIOUS
  <2>2. ~d.resumed
    BY <2>1 DEF Fresh
  <2>. QED
    BY <1>1, <1>2, <1>a, <2>1, <2>2 DEF Begin
<1>3. ASSUME NEW h \in Handlers, Resume(h)
      PROVE  Asked'
  BY <1>1, <1>3, <1>a DEF Resume, Asked
<1>4. CASE UNCHANGED <<client, stored, lost, overlapped>>
  BY <1>0, <1>4 DEF Asked, Active
<1>5. ASSUME NEW h \in Handlers, NEW d \in Download, Goes(h, d)
      PROVE  Asked'
  BY <1>1, <1>5, <1>a DEF Goes, Asked
<1>6. ASSUME NEW h \in Handlers, NEW d \in Download, Stops(h, d)
      PROVE  Asked'
  BY <1>1, <1>6, <1>a DEF Stops, Fresh, Asked
<1>7. ASSUME NEW h \in Handlers, Suspends(h)
      PROVE  Asked'
  BY <1>1, <1>7 DEF Suspends, Fresh
<1>. QED
  BY <1>2, <1>3, <1>4, <1>5, <1>6, <1>7, Kinds, RefusedGoes, LoseStops
  DEF GoesHeard, vars, Decide, Drop

\* While polls take turns, the bank refuses an order for reasons of its own.
LEMMA RefusedOrder ==
    ASSUME Inv, Agrees, ~overlapped, NEW h \in Handlers, Refused(h), client[h].step # "poll"
    PROVE  /\ denied'
           /\ bank'.state = "open" => bank'.number = client[h].number + 1
<1>. PICK c : c = client[h]
  OBVIOUS
<1>1. /\ c = client[h] /\ c \in Download /\ DownloadOK(c, bank.last, bank.signs)
      /\ bank \in Bank /\ c.step \notin {"hangup", "end", "idle", "poll"} /\ Refuses(c)
      /\ denied' = (denied \/ Heard(c) \/ bank.state # "open")
  BY DEF Refused, Refuses, Inv, TypeOK
<1>2. Heard(c) \/ bank.state # "open"
  BY <1>1 DEF Agrees, Heard, Download, Steps
<1>. QED
  BY <1>1, <1>2, RefusedBank

\* The user's decision and a timeout leave the number and the task.
LEMMA QuietBank ==
    ASSUME Inv, UNCHANGED vars \/ Decide \/ Drop
    PROVE  \/ bank'.state = "dropped"
           \/ /\ bank'.state = bank.state /\ bank'.number = bank.number
              /\ bank.task # None => bank'.task # None
<1>1. CASE Decide
  <2>1. PICK v \in {"approved", "rejected"} : bank' = [bank EXCEPT !.task.says = v]
    BY <1>1 DEF Decide
  <2>2. PICK t : t = [bank.task EXCEPT !.says = v]
    OBVIOUS
  <2>3. bank \in Bank /\ bank.task \in Task
    BY <1>1 DEF Inv, TypeOK, TaskOK, Decide
  <2>4. t \in Task
    BY <2>2, <2>3 DEF Task
  <2>5. t # None
    BY <2>4, HistoryAssumption DEF Task
  <2>6. PICK b : b = bank'
    OBVIOUS
  <2>7. b = [bank EXCEPT !.task = t]
    BY <2>1, <2>2, <2>6
  <2>8. b.state = bank.state /\ b.number = bank.number /\ b.task = t
    BY <2>3, <2>7 DEF Bank
  <2>. QED
    BY <2>5, <2>6, <2>8
<1>2. CASE Drop
  <2>1. bank \in Bank /\ bank' = [bank EXCEPT !.state = "dropped"]
    BY <1>2 DEF Drop, Dropped, Inv, TypeOK
  <2>. QED
    BY <2>1 DEF Bank
<1>3. CASE UNCHANGED vars
  BY <1>3 DEF vars
<1>. QED
  BY <1>1, <1>2, <1>3

LEMMA AgreesNext == Inv /\ Asked /\ Alone /\ Agrees /\ [Next]_vars => Agrees'
<1>. SUFFICES ASSUME Inv, Asked, Alone, Agrees, [Next]_vars, ~overlapped',
                     NEW g \in Handlers,
                     client'[g].step \in {"discover", "locate", "history", "hangup"}
              PROVE  bank'.state = "open" => bank'.number = client'[g].number
  BY DEF Agrees
<1>1. ASSUME NEW h \in Handlers, NEW d, Becomes(h, d), g # h
      PROVE  Active(g)
  <2>1. client'[g] = client[g]
    BY <1>1, OneChanges
  <2>. QED
    BY <2>1 DEF Active
<1>2. ASSUME NEW h \in Handlers, NEW d, Becomes(h, d), Active(h), UNCHANGED overlapped
      PROVE  g = h /\ client'[g] = d
  BY <1>1, <1>2, OneChanges DEF Alone
<1>3. ASSUME NEW h \in Handlers, Begin(h)
      PROVE  FALSE
  <2>1. PICK d : d = [Fresh EXCEPT !.step = "connect"]
    OBVIOUS
  <2>2. g = h
    BY <1>1, <1>3 DEF Begin, Active
  <2>3. client'[g].step = "connect"
    BY <1>3, <2>1, <2>2, OneChanges DEF Begin, Fresh
  <2>. QED
    BY <2>3
<1>4. ASSUME NEW h \in Handlers, Resume(h)
      PROVE  FALSE
  <2>1. PICK d : d = [Fresh EXCEPT !.step = "poll", !.resumed = TRUE,
                                   !.connected = stored.connected, !.number = stored.number]
    OBVIOUS
  <2>2. g = h
    BY <1>1, <1>4 DEF Resume, Active
  <2>3. d.step = "poll" /\ Becomes(h, d)
    BY <1>4, <2>1 DEF Resume, Fresh
  <2>. QED
    BY <2>2, <2>3, OneChanges
<1>5. ASSUME NEW h \in Handlers, NEW d \in Download, GoesHeard(h, d)
      PROVE  bank'.state = "open" /\ bank'.number = client'[g].number
  BY <1>2, <1>5 DEF GoesHeard, Goes
<1>6. ASSUME NEW h \in Handlers, NEW d \in Download, Stops(h, d)
      PROVE  FALSE
  BY <1>2, <1>6 DEF Stops
<1>7. ASSUME NEW h \in Handlers, Suspends(h)
      PROVE  FALSE
  BY <1>2, <1>7 DEF Suspends, Fresh
<1>8. ASSUME NEW h \in Handlers, Refused(h)
      PROVE  bank'.state = "open" => bank'.number = client'[g].number
  <2>1. PICK d \in Download :
          /\ Goes(h, d) /\ d.number = client[h].number + 1
          /\ client[h].step = "poll" => d.step = "end"
    BY <1>8, RefusedGoes
  <2>2. g = h /\ client'[g] = d /\ ~overlapped
    BY <1>2, <2>1 DEF Goes
  <2>3. client[h].step # "poll"
    BY <2>1, <2>2
  <2>. QED
    BY <1>8, <2>1, <2>2, <2>3, RefusedOrder
<1>9. CASE UNCHANGED vars \/ Decide \/ Drop
  <2>1. UNCHANGED <<client, overlapped>>
    BY <1>9 DEF vars, Decide, Drop
  <2>2. bank.state = "open" => bank.number = client[g].number
    BY <2>1 DEF Agrees
  <2>3. bank'.state = "open" => bank.state = "open" /\ bank'.number = bank.number
    BY <1>9, QuietBank
  <2>. QED
    BY <2>1, <2>2, <2>3
<1>. QED
  BY <1>3, <1>4, <1>5, <1>6, <1>7, <1>8, <1>9, Kinds, LoseStops

LEMMA WholeNext == TurnInv /\ [Next]_vars => Whole'
<1>. SUFFICES ASSUME TurnInv, [Next]_vars, ~overlapped', ~denied', bank'.asked <= 1
              PROVE  /\ \A g \in Handlers : client'[g].verdict = "complete" =>
                           Len(client'[g].pages) = bank'.last
                     /\ stored'.status = "complete" => Len(stored'.pages) = bank'.last
  BY DEF Whole, CompleteIsWhole
<1>0. bank'.last = bank.last /\ bank.asked <= 1 /\ Inv /\ Asked /\ Agrees /\ ~denied
  <2>1. /\ bank.asked \in Nat /\ bank'.asked \in {bank.asked, bank.asked + 1}
        /\ bank'.last = bank.last
    BY BankNext DEF TurnInv, Inv, TypeOK, Bank
  <2>. QED
    BY <2>1, DeniedGrows DEF TurnInv
<1>w. ~overlapped =>
        /\ \A g \in Handlers : client[g].verdict = "complete" => Len(client[g].pages) = bank.last
        /\ stored.status = "complete" => Len(stored.pages) = bank.last
  BY <1>0 DEF TurnInv, Whole, CompleteIsWhole
<1>1. ASSUME NEW h \in Handlers, NEW d, Becomes(h, d), ~overlapped,
             d.verdict = "complete" => Len(d.pages) = bank.last,
             stored'.status = "complete" => Len(stored'.pages) = bank.last
      PROVE  /\ \A g \in Handlers : client'[g].verdict = "complete" =>
                   Len(client'[g].pages) = bank'.last
             /\ stored'.status = "complete" => Len(stored'.pages) = bank'.last
  <2>1. \A g \in Handlers : client'[g] = IF g = h THEN d ELSE client[g]
    BY <1>0, <1>1, OneChanges
  <2>. QED
    BY <1>0, <1>1, <1>w, <2>1
<1>2. ASSUME NEW h \in Handlers, Begin(h) \/ Resume(h)
      PROVE  \E d : Becomes(h, d) /\ d.verdict = "none" /\ stored' = stored /\ ~overlapped
  <2>1. ~overlapped
    BY <1>2 DEF Begin, Resume
  <2>. QED
    BY <1>2, <2>1, Starts
<1>3. ASSUME NEW h \in Handlers, NEW d \in Download, GoesHeard(h, d)
      PROVE  ~overlapped /\ Becomes(h, d) /\ (d.verdict = "complete" => Len(d.pages) = bank.last)
             /\ stored' = stored
  BY <1>3 DEF GoesHeard, Goes
<1>4. ASSUME NEW h \in Handlers, Refused(h)
      PROVE  \E d : Becomes(h, d) /\ d.verdict = "failed" /\ stored' = stored /\ ~overlapped
  <2>1. PICK d \in Download :
          Goes(h, d) /\ (client[h].step = "poll" => d.verdict = "failed")
    BY <1>0, <1>4, RefusedGoes
  <2>2. ~overlapped
    BY <2>1 DEF Goes
  <2>3. client[h].step = "poll"
    BY <1>0, <1>4, <2>2, RefusedOrder
  <2>. QED
    BY <2>1, <2>2, <2>3 DEF Goes
<1>5. ASSUME NEW h \in Handlers, NEW d \in Download, Stops(h, d)
      PROVE  /\ ~overlapped /\ Becomes(h, d) /\ d.verdict # "complete"
             /\ stored'.status = "complete" => Len(stored'.pages) = bank.last
  BY <1>5, <1>w DEF Stops
<1>6. ASSUME NEW h \in Handlers, Suspends(h)
      PROVE  ~overlapped /\ Becomes(h, Fresh) /\ Fresh.verdict = "none" /\ stored'.status = "pending"
  BY <1>6 DEF Suspends, Fresh
<1>7. CASE UNCHANGED vars \/ Decide \/ Drop
  BY <1>0, <1>7, <1>w DEF vars, Decide, Drop
<1>. QED
  <2>1. ASSUME NEW h \in Handlers, Begin(h) \/ Resume(h) \/ Refused(h)
        PROVE  stored'.status = "complete" => Len(stored'.pages) = bank.last
    BY <1>2, <1>4, <1>w, <2>1
  <2>2. ASSUME NEW h \in Handlers, NEW d \in Download, GoesHeard(h, d)
        PROVE  stored'.status = "complete" => Len(stored'.pages) = bank.last
    BY <1>3, <1>w, <2>2
  <2>. QED
    BY <1>0, <1>1, <1>2, <1>3, <1>4, <1>5, <1>6, <1>7, <2>1, <2>2, Kinds, LoseStops

LEMMA TurnInit == Init => TurnInv
<1>. SUFFICES ASSUME Init PROVE TurnInv
  OBVIOUS
<1>1. /\ \A h \in Handlers : client[h].step = "idle" /\ client[h].verdict = "none"
      /\ stored.status = "none"
  BY DEF Init, Fresh
<1>2. Inv
  BY InvInit
<1>. QED
  BY <1>1, <1>2 DEF TurnInv, Alone, Asked, Agrees, Whole, CompleteIsWhole, Active

LEMMA TurnNext == TurnInv /\ [Next]_vars => TurnInv'
BY InvNext, AloneNext, AskedNext, AgreesNext, WholeNext DEF TurnInv

THEOREM TurnInvHolds == Spec => []TurnInv
<1>. QED
  BY TurnInit, TurnNext, PTL DEF Spec

\* While polls take turns, a feed without has_more is the whole history, whatever
\* exchanges fail, unless the bank asked twice or answered an order with an error
\* for reasons of its own.
THEOREM CompleteFeedIsWhole == Spec => []CompleteIsWhole
<1>1. TurnInv => CompleteIsWhole
  BY DEF TurnInv, Whole
<1>. QED
  BY <1>1, TurnInvHolds, PTL

-----------------------------------------------------------------------------
(* Nothing is lost *)

LEMMA LostGrows ==
    ASSUME Inv, Asked, [Next]_vars
    PROVE  lost \in Nat /\ lost' \in {lost, lost + 1}
<1>1. lost \in Nat
  BY HistoryAssumption DEF Inv, TypeOK
<1>. QED
  BY <1>1 DEF Next, vars, Decide, Drop, Begin, Resume, Served, Unlisted, Unsigned, Challenged,
     StillWaiting, Approved, Rejected, Refused, End, Lose

LEMMA CalmBefore ==
    ASSUME TurnInv, [Next]_vars, Calm'
    PROVE  Calm
<1>1. lost = 0
  BY LostGrows DEF TurnInv, Calm
<1>2. ~overlapped
  BY DEF Calm, Next, vars, Decide, Drop, Begin, Resume, Served, Unlisted, Unsigned, Challenged,
     StillWaiting, Approved, Rejected, Refused, End, Lose
<1>. QED
  BY <1>1, <1>2 DEF Calm

\* A reason stays one.
LEMMA ExcusedGrows ==
    ASSUME Inv, [Next]_vars, Excused
    PROVE  Excused'
<1>1. bank.asked \in Nat /\ bank'.asked \in {bank.asked, bank.asked + 1}
  BY BankNext DEF Inv, TypeOK, Bank
<1>. QED
  BY <1>1, DeniedGrows DEF Excused

LEMMA AbortedNext == TurnInv /\ Aborted /\ [Next]_vars => Aborted'
<1>. SUFFICES ASSUME TurnInv, Aborted, [Next]_vars, Calm',
                     NEW g \in Handlers, client'[g].verdict = "aborted"
              PROVE  Excused'
  BY DEF Aborted
<1>0. /\ Inv /\ Asked /\ Agrees /\ ~overlapped /\ lost' = 0
      /\ client[g].verdict = "aborted" => Excused'
  BY CalmBefore, ExcusedGrows DEF TurnInv, Aborted, Calm
<1>1. ASSUME NEW h \in Handlers, NEW d, Becomes(h, d), d.verdict = "aborted" => Excused'
      PROVE  Excused'
  <2>1. client'[g] = IF g = h THEN d ELSE client[g]
    BY <1>0, <1>1, OneChanges
  <2>. QED
    BY <1>0, <1>1, <2>1
<1>2. ASSUME NEW h \in Handlers, Begin(h) \/ Resume(h)
      PROVE  \E d : Becomes(h, d) /\ d.verdict = "none"
  BY <1>2, Starts
<1>3. ASSUME NEW h \in Handlers, NEW d \in Download, GoesHeard(h, d)
      PROVE  Becomes(h, d) /\ (d.verdict = "aborted" => Excused')
  BY <1>3 DEF GoesHeard, Goes, Excused
<1>r. ASSUME NEW h \in Handlers, Refused(h)
      PROVE  \E d : Becomes(h, d) /\ (d.verdict = "aborted" => Excused')
  <2>1. PICK d \in Download :
          Goes(h, d) /\ (client[h].step = "poll" => d.verdict = "failed")
    BY <1>0, <1>r, RefusedGoes
  <2>2. client[h].step # "poll" => Excused'
    BY <1>0, <1>r, RefusedOrder DEF Excused
  <2>. QED
    BY <2>1, <2>2 DEF Goes
<1>4. ASSUME NEW h \in Handlers, NEW d \in Download, Stops(h, d)
      PROVE  Becomes(h, d) /\ d.verdict # "aborted"
  BY <1>0, <1>4 DEF Stops
<1>5. ASSUME NEW h \in Handlers, Suspends(h)
      PROVE  Becomes(h, Fresh) /\ Fresh.verdict = "none"
  BY <1>5 DEF Suspends, Fresh
<1>6. CASE UNCHANGED vars \/ Decide \/ Drop
  BY <1>0, <1>6 DEF vars, Decide, Drop
<1>. QED
  BY <1>0, <1>1, <1>2, <1>3, <1>r, <1>4, <1>5, <1>6, Kinds, LoseStops

\* While polls take turns, what a handler changes concerns itself alone.
LEMMA OnlyOne ==
    ASSUME TurnInv, ~overlapped', NEW h \in Handlers, NEW d, Becomes(h, d),
           (Active(h) /\ UNCHANGED overlapped) \/ Begin(h) \/ Resume(h),
           NEW g \in Handlers, client'[g].step # "idle"
    PROVE  g = h /\ client'[g] = d
<1>1. \A f \in Handlers : client'[f] = IF f = h THEN d ELSE client[f]
  BY OneChanges DEF TurnInv
<1>2. g # h => Active(g)
  BY <1>1 DEF Active
<1>. QED
  BY <1>1, <1>2 DEF TurnInv, Alone, Begin, Resume, Active

LEMMA PollsNext == TurnInv /\ PollsStored /\ [Next]_vars => PollsStored'
<1>. SUFFICES ASSUME TurnInv, PollsStored, [Next]_vars, Calm',
                     NEW g \in Handlers, client'[g].step = "poll"
              PROVE  stored'.status = "pending" /\ client'[g].number = stored'.number
  BY DEF PollsStored
<1>0. ~overlapped' /\ Calm /\ Inv /\ Asked /\ lost' = 0
  BY CalmBefore DEF TurnInv, Calm
<1>1. ASSUME NEW h \in Handlers, Begin(h)
      PROVE  FALSE
  BY <1>0, <1>1, Starts, OnlyOne
<1>2. ASSUME NEW h \in Handlers, Resume(h)
      PROVE  stored'.status = "pending" /\ client'[g].number = stored'.number
  BY <1>0, <1>2, Starts, OnlyOne
<1>3. ASSUME NEW h \in Handlers, Refused(h) \/ \E d \in Download : GoesHeard(h, d)
      PROVE  FALSE
  <2>1. PICK d \in Download : Goes(h, d)
    BY <1>0, <1>3, RefusedGoes DEF GoesHeard
  <2>. QED
    BY <1>0, <2>1, OnlyOne DEF Goes
<1>4. ASSUME NEW h \in Handlers, NEW d \in Download, Stops(h, d)
      PROVE  FALSE
  BY <1>0, <1>4, OnlyOne DEF Stops
<1>5. ASSUME NEW h \in Handlers, Suspends(h)
      PROVE  FALSE
  BY <1>0, <1>5, OnlyOne DEF Suspends, Fresh
<1>6. CASE UNCHANGED vars \/ Decide \/ Drop
  BY <1>0, <1>6 DEF vars, Decide, Drop, PollsStored
<1>. QED
  BY <1>0, <1>1, <1>2, <1>3, <1>4, <1>5, <1>6, Kinds, LoseStops

\* While polls take turns and nothing is lost, HKEND finds no open dialog or
\* ends it.
LEMMA EndCloses ==
    ASSUME TurnInv, Ending, Calm, NEW h \in Handlers, End(h), client[h].step = "end"
    PROVE  bank'.state # "open"
<1>0. /\ bank \in Bank /\ client[h] \in Download
      /\ DownloadOK(client[h], bank.last, bank.signs)
      /\ bank.state # "open" \/ bank.number = client[h].number
  BY DEF TurnInv, Inv, TypeOK, Ending
<1>1. CASE Ends(client[h])
  <2>1. PICK k : k = Taken(client[h])
    OBVIOUS
  <2>2. k \in Bank /\ bank' = [k EXCEPT !.state = "ended"]
    BY <1>0, <1>1, <2>1, TakenFields DEF Ends
  <2>. QED
    BY <2>2 DEF Bank
<1>2. CASE Refuses(client[h])
  <2>1. ~Heard(client[h])
    BY <1>0, <1>2, RefusedBank
  <2>2. bank.state # "open"
    BY <1>0, <2>1 DEF Heard
  <2>. QED
    BY <1>0, <1>2, <2>1, <2>2, RefusedBank
<1>. QED
  BY <1>1, <1>2 DEF End

LEMMA ReadyNext == TurnInv /\ Aborted /\ Ready /\ Ending /\ [Next]_vars => Ready'
<1>. SUFFICES ASSUME TurnInv, Aborted, Ready, Ending, [Next]_vars, Calm', stored'.status = "pending",
                     \A h \in Handlers : client'[h].step \in {"idle", "poll"}
              PROVE  \/ bank'.state = "dropped"
                     \/ bank'.state # "open" /\ Excused'
                     \/ /\ bank'.state = "open" /\ bank'.number = stored'.number
                        /\ bank'.task # None
  BY DEF Ready
<1>0. ~overlapped' /\ Calm /\ Inv /\ Asked /\ lost = 0 /\ lost' = 0
  BY CalmBefore DEF TurnInv, Calm
<1>1. ASSUME NEW h \in Handlers, Begin(h)
      PROVE  FALSE
  <2>1. PICK d : Becomes(h, d) /\ d.step = "connect"
    BY <1>1, Starts
  <2>. QED
    BY <1>0, <2>1, OneChanges
<1>2. ASSUME NEW h \in Handlers, Resume(h)
      PROVE  \/ bank'.state = "dropped"
             \/ bank'.state # "open" /\ Excused'
             \/ bank'.state = "open" /\ bank'.number = stored'.number /\ bank'.task # None
  <2>1. PICK d : Becomes(h, d)
    BY <1>2, Starts
  <2>2. \A g \in Handlers : client'[g] = IF g = h THEN d ELSE client[g]
    BY <1>0, <2>1, OneChanges
  <2>3. client[h].step = "idle" /\ UNCHANGED <<stored, bank>>
    BY <1>2, Starts
  <2>4. \A g \in Handlers : client[g].step \in {"idle", "poll"}
    BY <2>2, <2>3
  <2>. QED
    BY <1>0, <2>3, <2>4, ExcusedGrows DEF Ready
<1>3. ASSUME NEW h \in Handlers, Refused(h) \/ \E d \in Download : GoesHeard(h, d)
      PROVE  FALSE
  <2>1. PICK d \in Download : Goes(h, d)
    BY <1>0, <1>3, RefusedGoes DEF GoesHeard
  <2>. QED
    BY <1>0, <2>1, OneChanges DEF Goes
<1>4. ASSUME NEW h \in Handlers, End(h), NEW d \in Download, Stops(h, d)
      PROVE  bank'.state # "open" /\ Excused'
  <2>1. d.step = "idle"
    BY <1>0, <1>4, OneChanges DEF Stops
  <2>2. client[h].step = "end" /\ (client[h].verdict = "aborted" \/ stored'.status = client[h].verdict)
    BY <1>0, <1>4, <2>1 DEF Stops
  <2>3. client[h].verdict # "pending"
    BY <1>0 DEF Inv, TypeOK, Download
  <2>4. Excused
    BY <1>0, <2>2, <2>3 DEF Aborted
  <2>. QED
    BY <1>0, <1>4, <2>2, <2>4, EndCloses, ExcusedGrows
<1>5. ASSUME NEW h \in Handlers, Suspends(h)
      PROVE  bank'.state = "open" /\ bank'.number = stored'.number /\ bank'.task # None
  BY <1>5 DEF Suspends
<1>6. CASE UNCHANGED vars \/ Decide \/ Drop
  <2>1. UNCHANGED <<client, stored>>
    BY <1>6 DEF vars, Decide, Drop
  <2>2. \/ bank.state = "dropped"
        \/ bank.state # "open" /\ Excused
        \/ bank.state = "open" /\ bank.number = stored.number /\ bank.task # None
    BY <1>0, <2>1 DEF Ready
  <2>. QED
    BY <1>0, <1>6, <2>1, <2>2, QuietBank, ExcusedGrows
<1>. QED
  BY <1>0, <1>1, <1>2, <1>3, <1>4, <1>5, <1>6, Kinds, LoseStops

LEMMA EndingNext ==
    TurnInv /\ Ready /\ PollsStored /\ Ending /\ [Next]_vars => Ending'
<1>. SUFFICES ASSUME TurnInv, Ready, PollsStored, Ending, [Next]_vars, Calm',
                     NEW g \in Handlers, client'[g].step = "end"
              PROVE  bank'.state # "open" \/ bank'.number = client'[g].number
  BY DEF Ending
<1>0. /\ ~overlapped' /\ Calm /\ Inv /\ Asked /\ Agrees /\ Alone
      /\ ~overlapped /\ lost = 0 /\ lost' = 0
  BY CalmBefore DEF TurnInv, Calm
<1>1. ASSUME NEW h \in Handlers, Begin(h) \/ Resume(h)
      PROVE  FALSE
  BY <1>0, <1>1, Starts, OnlyOne
<1>2. ASSUME NEW h \in Handlers, NEW d \in Download, GoesHeard(h, d)
      PROVE  bank'.number = client'[g].number
  BY <1>0, <1>2, OnlyOne DEF GoesHeard, Goes
<1>3. ASSUME NEW h \in Handlers, Refused(h)
      PROVE  bank'.state # "open" \/ bank'.number = client'[g].number
  <2>1. PICK d \in Download : Goes(h, d) /\ d.number = client[h].number + 1
    BY <1>0, <1>3, RefusedGoes
  <2>2. client'[g].number = client[h].number + 1
    BY <1>0, <2>1, OnlyOne DEF Goes
  <2>3. CASE client[h].step = "poll"
    <3>1. /\ bank \in Bank /\ client[h] \in Download
          /\ DownloadOK(client[h], bank.last, bank.signs) /\ Refuses(client[h])
      BY <1>0, <1>3 DEF Inv, TypeOK, Refused
    <3>2. stored.status = "pending" /\ client[h].number = stored.number
      BY <1>0, <2>3 DEF PollsStored
    <3>3. \A f \in Handlers : client[f].step \in {"idle", "poll"}
      BY <1>0, <2>3 DEF Alone, Active
    <3>4. bank.state # "open" \/ Heard(client[h])
      BY <1>0, <3>2, <3>3 DEF Ready, Heard
    <3>. QED
      BY <2>2, <3>1, <3>4, RefusedBank
  <2>. QED
    BY <1>0, <1>3, <2>2, <2>3, RefusedOrder
<1>4. ASSUME NEW h \in Handlers, NEW d \in Download, Stops(h, d)
      PROVE  FALSE
  BY <1>0, <1>4, OnlyOne DEF Stops
<1>5. ASSUME NEW h \in Handlers, Suspends(h)
      PROVE  FALSE
  BY <1>0, <1>5, OnlyOne DEF Suspends, Fresh
<1>6. CASE UNCHANGED vars \/ Decide \/ Drop
  <2>1. UNCHANGED client
    BY <1>6 DEF vars, Decide, Drop
  <2>2. bank.state # "open" \/ bank.number = client[g].number
    BY <1>0, <2>1 DEF Ending
  <2>. QED
    BY <1>0, <1>6, <2>1, <2>2, QuietBank
<1>. QED
  BY <1>0, <1>1, <1>2, <1>3, <1>4, <1>5, <1>6, Kinds, LoseStops

\* HKEND is the last a dialog hears.
LEMMA DialogsEndNext == TurnInv /\ Ending /\ DialogsEnd /\ [Next]_vars => DialogsEnd'
<1>. SUFFICES ASSUME TurnInv, Ending, DialogsEnd, [Next]_vars, Quiet',
                     stored'.status \in {"complete", "partial", "failed"}
              PROVE  bank'.state # "open"
  BY DEF DialogsEnd
<1>0. /\ ~overlapped' /\ Calm /\ Inv /\ Asked /\ lost = 0 /\ lost' = 0 /\ bank \in Bank
      /\ \A h \in Handlers : client'[h].step = "idle"
  BY CalmBefore DEF TurnInv, Calm, Quiet, Inv, TypeOK
<1>1. ASSUME NEW h \in Handlers, Begin(h) \/ Resume(h)
      PROVE  FALSE
  <2>1. PICK d : Becomes(h, d) /\ d.step # "idle"
    BY <1>1, Starts
  <2>. QED
    BY <1>0, <2>1, OneChanges
<1>2. ASSUME NEW h \in Handlers, Refused(h) \/ \E d \in Download : GoesHeard(h, d)
      PROVE  FALSE
  <2>1. PICK d \in Download : Goes(h, d)
    BY <1>0, <1>2, RefusedGoes DEF GoesHeard
  <2>. QED
    BY <1>0, <2>1, OneChanges DEF Goes
<1>3. ASSUME NEW h \in Handlers, End(h), NEW d \in Download, Stops(h, d)
      PROVE  bank'.state # "open"
  <2>1. d.step = "idle"
    BY <1>0, <1>3, OneChanges DEF Stops
  <2>2. client[h].step = "end"
    BY <1>0, <1>3, <2>1 DEF Stops
  <2>. QED
    BY <1>0, <1>3, <2>2, EndCloses
<1>4. ASSUME NEW h \in Handlers, Suspends(h)
      PROVE  FALSE
  BY <1>4 DEF Suspends
<1>5. CASE UNCHANGED vars \/ Decide \/ Drop
  <2>1. UNCHANGED <<client, stored, lost, overlapped>>
    BY <1>5 DEF vars, Decide, Drop
  <2>2. bank.state # "open"
    BY <1>0, <2>1 DEF DialogsEnd, Quiet
  <2>. QED
    BY <1>0, <1>5, <2>2, QuietBank
<1>. QED
  BY <1>0, <1>1, <1>2, <1>3, <1>4, <1>5, Kinds, LoseStops

THEOREM CalmInvHolds == Spec => []CalmInv
<1>1. Init => CalmInv
  <2>. SUFFICES ASSUME Init PROVE CalmInv
    OBVIOUS
  <2>1. /\ \A h \in Handlers : client[h].step = "idle" /\ client[h].verdict = "none"
        /\ stored.status = "none"
    BY DEF Init, Fresh
  <2>. QED
    BY <2>1, TurnInit DEF CalmInv, Aborted, Ready, PollsStored, Ending, DialogsEnd
<1>2. CalmInv /\ [Next]_vars => CalmInv'
  BY TurnNext, AbortedNext, ReadyNext, PollsNext, EndingNext, DialogsEndNext DEF CalmInv
<1>. QED
  BY <1>1, <1>2, PTL DEF Spec

\* A pending session can be polled: unless the bank dropped the dialog, it is
\* open, has the task, and expects the number in the snapshot, if the bank asked
\* once and denied nothing.
THEOREM SnapshotsAgree == Spec => []SnapshotAgrees
<1>1. CalmInv => SnapshotAgrees
  <2>. SUFFICES ASSUME CalmInv, Excused, ~denied, bank.asked <= 1 PROVE FALSE
    BY DEF CalmInv, Ready, SnapshotAgrees, Quiet, Calm
  <2>1. bank.asked \in Nat
    BY DEF CalmInv, TurnInv, Inv, TypeOK, Bank
  <2>. QED
    BY <2>1 DEF Excused
<1>. QED
  BY <1>1, CalmInvHolds, PTL

\* When an operation is over, no dialog is left open at the bank.
THEOREM DialogsAreEnded == Spec => []DialogsEnd
<1>1. CalmInv => DialogsEnd
  BY DEF CalmInv
<1>. QED
  BY <1>1, CalmInvHolds, PTL

-----------------------------------------------------------------------------
(* The promise of HistoryFeed *)

\* While polls take turns, a poll under way is of a pending session.
Engaged ==
    ~overlapped => \A h \in Handlers :
        Active(h) /\ client[h].resumed => stored.status = "pending"

\* There is data in completed sessions only.
Unsettled == stored.status \in {"none", "pending", "failed"} => stored.pages = <<>>

FeedInv == TurnInv /\ Engaged /\ Unsettled

\* What a step may do to the session.
Writes(h) ==
    \/ UNCHANGED stored
    \/ /\ Active(h) /\ Becomes(h, Fresh) /\ UNCHANGED overlapped
       /\ \/ stored'.status = "pending" /\ stored'.pages = <<>>
          \/ stored'.status = "failed" /\ stored'.pages = stored.pages /\ ~client[h].resumed
          \/ /\ client[h].step = "end"
             /\ client[h].verdict \in {"complete", "partial", "failed"}
             /\ stored'.status = client[h].verdict /\ stored'.pages = client[h].pages

LEMMA AfterEndWrites ==
    ASSUME Inv, NEW h \in Handlers, client[h].step \in {"hangup", "end"}, AfterEnd(h),
           UNCHANGED overlapped
    PROVE  Writes(h)
<1>. PICK c, s : c = client[h] /\ s = stored'
  OBVIOUS
<1>0. /\ c = client[h] /\ s = stored' /\ c \in Download
      /\ DownloadOK(c, bank.last, bank.signs) /\ stored \in Session /\ Active(h)
  BY DEF Inv, TypeOK, Active
<1>1. CASE c.step = "hangup"
  BY <1>0, <1>1 DEF AfterEnd, Writes
<1>2. CASE c.step = "end"
  <2>1. Becomes(h, Fresh)
    BY <1>0, <1>2 DEF AfterEnd
  <2>2. \/ /\ c.verdict # "aborted"
           /\ s = [stored EXCEPT !.status = c.verdict, !.pages = c.pages]
        \/ s = stored
        \/ ~c.resumed /\ s = [stored EXCEPT !.status = "failed"]
    BY <1>0, <1>2 DEF AfterEnd
  <2>3. \/ /\ c.verdict \in {"complete", "partial", "failed"}
           /\ s.status = c.verdict /\ s.pages = c.pages
        \/ s = stored
        \/ ~c.resumed /\ s.status = "failed" /\ s.pages = stored.pages
    BY <1>0, <1>2, <2>2 DEF Session, DownloadOK, Download
  <2>. QED
    BY <1>0, <1>2, <2>1, <2>3 DEF Writes
<1>. QED
  BY <1>0, <1>1, <1>2

LEMMA LoseWrites ==
    ASSUME Inv, NEW h \in Handlers, Lose(h)
    PROVE  Writes(h)
<1>. PICK c : c = client[h]
  OBVIOUS
<1>0. /\ c = client[h] /\ c \in Download /\ DownloadOK(c, bank.last, bank.signs)
      /\ stored \in Session /\ Active(h) /\ UNCHANGED overlapped
  BY DEF Inv, TypeOK, Active, Lose
<1>1. CASE c.step \in {"hangup", "end"}
  BY <1>0, <1>1, AfterEndWrites DEF Lose
<1>2. CASE c.step \in {"connect", "login"}
  <2>1. Becomes(h, Fresh) /\ stored' = [stored EXCEPT !.status = "failed"]
    BY <1>0, <1>2 DEF Lose
  <2>2. stored'.status = "failed" /\ stored'.pages = stored.pages
    BY <1>0, <2>1 DEF Session
  <2>. QED
    BY <1>0, <1>2, <2>1, <2>2 DEF Writes, DownloadOK
<1>3. CASE c.step \notin {"hangup", "end", "connect", "login"}
  BY <1>0, <1>3 DEF Lose, Writes
<1>. QED
  BY <1>1, <1>2, <1>3

\* Sessions are written by handlers that end.
LEMMA OnlyEndingWrites ==
    ASSUME Inv, Asked, [Next]_vars
    PROVE  UNCHANGED stored \/ \E h \in Handlers : Writes(h)
<1>1. ASSUME NEW h \in Handlers, Challenged(h)
      PROVE  Writes(h)
  <2>1. CASE client[h].resumed
    BY <1>1, <2>1 DEF Challenged, Writes
  <2>2. CASE ~client[h].resumed
    <3>1. Suspends(h)
      BY <1>1, <2>2, ChallengedSuspends
    <3>2. stored'.pages = <<>>
      BY <1>1, <2>2 DEF Challenged, Suspended
    <3>. QED
      BY <3>1, <3>2 DEF Suspends, Writes
  <2>. QED
    BY <2>1, <2>2
<1>2. ASSUME NEW h \in Handlers, StillWaiting(h)
      PROVE  Writes(h)
  <2>1. Suspends(h)
    BY <1>2, WaitingSuspends
  <2>2. stored'.pages = <<>>
    BY <1>2 DEF StillWaiting
  <2>. QED
    BY <2>1, <2>2 DEF Suspends, Writes
<1>3. ASSUME NEW h \in Handlers, End(h)
      PROVE  Writes(h)
  BY <1>3, AfterEndWrites DEF End
<1>. QED
  BY <1>1, <1>2, <1>3, LoseWrites
  DEF Next, vars, Decide, Drop, Begin, Resume, Served, Unlisted, Unsigned, Approved, Rejected, Refused

LEMMA EngagedNext == FeedInv /\ [Next]_vars => Engaged'
<1>. SUFFICES ASSUME FeedInv, [Next]_vars, ~overlapped',
                     NEW g \in Handlers, Active(g)', client'[g].resumed
              PROVE  stored'.status = "pending"
  BY DEF Engaged
<1>0. TurnInv /\ Inv /\ Asked /\ Engaged /\ client'[g].step # "idle"
  BY DEF FeedInv, TurnInv, Active
<1>1. ASSUME NEW h \in Handlers, Begin(h)
      PROVE  FALSE
  <2>1. PICK d : d = [Fresh EXCEPT !.step = "connect"]
    OBVIOUS
  <2>2. ~d.resumed
    BY <2>1 DEF Fresh
  <2>3. client'[g] = d
    BY <1>0, <1>1, <2>1, OnlyOne DEF Begin
  <2>. QED
    BY <2>2, <2>3
<1>2. ASSUME NEW h \in Handlers, Resume(h)
      PROVE  stored'.status = "pending"
  BY <1>2 DEF Resume
<1>3. ASSUME NEW h \in Handlers, NEW d, Becomes(h, d), Active(h), UNCHANGED overlapped,
             d.step = "idle" \/ (d.resumed = client[h].resumed /\ stored' = stored)
      PROVE  stored'.status = "pending"
  <2>1. g = h /\ client'[g] = d
    BY <1>0, <1>3, OnlyOne
  <2>2. client[h].resumed /\ stored' = stored
    BY <1>0, <1>3, <2>1
  <2>. QED
    BY <1>0, <1>3, <2>2 DEF Engaged
<1>4. ASSUME NEW h \in Handlers, NEW d \in Download, Goes(h, d)
      PROVE  stored'.status = "pending"
  BY <1>3, <1>4 DEF Goes
<1>5. ASSUME NEW h \in Handlers, NEW d \in Download, Stops(h, d)
      PROVE  stored'.status = "pending"
  BY <1>3, <1>5 DEF Stops, Fresh
<1>6. ASSUME NEW h \in Handlers, Suspends(h)
      PROVE  stored'.status = "pending"
  BY <1>6 DEF Suspends
<1>7. CASE UNCHANGED vars \/ Decide \/ Drop
  <2>1. UNCHANGED <<client, stored, overlapped>>
    BY <1>7 DEF vars, Decide, Drop
  <2>. QED
    BY <1>0, <2>1 DEF Engaged, Active
<1>. QED
  BY <1>0, <1>1, <1>2, <1>4, <1>5, <1>6, <1>7, Kinds, RefusedGoes, LoseStops DEF GoesHeard

LEMMA UnsettledNext == FeedInv /\ [Next]_vars => Unsettled'
<1>. SUFFICES ASSUME FeedInv, [Next]_vars PROVE Unsettled'
  OBVIOUS
<1>0. Inv /\ Asked /\ Alone /\ Unsettled
  BY DEF FeedInv, TurnInv
<1>1. CASE UNCHANGED stored
  BY <1>0, <1>1 DEF Unsettled
<1>2. ASSUME NEW h \in Handlers, Active(h), ~client[h].resumed, stored'.pages = stored.pages
      PROVE  Unsettled'
  BY <1>0, <1>2 DEF Alone, Unsettled
<1>3. ASSUME NEW h \in Handlers, client[h].verdict \in {"complete", "partial", "failed"},
             stored'.status = client[h].verdict, stored'.pages = client[h].pages
      PROVE  Unsettled'
  BY <1>0, <1>3 DEF Inv, DownloadOK, Unsettled
<1>4. ASSUME NEW h \in Handlers, Writes(h)
      PROVE  Unsettled'
  BY <1>1, <1>2, <1>3, <1>4 DEF Writes, Unsettled
<1>. QED
  BY <1>0, <1>1, <1>4, OnlyEndingWrites

THEOREM FeedInvHolds == Spec => []FeedInv
<1>1. Init => FeedInv
  <2>. SUFFICES ASSUME Init PROVE FeedInv
    OBVIOUS
  <2>1. \A h \in Handlers : client[h].step = "idle"
    BY DEF Init, Fresh
  <2>2. stored.pages = <<>>
    BY DEF Init
  <2>. QED
    BY <2>1, <2>2, TurnInit DEF FeedInv, Engaged, Unsettled, Active
<1>2. FeedInv /\ [Next]_vars => FeedInv'
  BY TurnNext, EngagedNext, UnsettledNext DEF FeedInv
<1>. QED
  BY <1>1, <1>2, PTL DEF Spec

LEMMA InOrderIsBeginning ==
    ASSUME NEW s \in Seq(1..Pages), InOrder(s)
    PROVE  s = Feed!Beginning(Len(s))
BY DEF InOrder, Feed!Beginning

\* While polls take turns, a session is written only while it is open.
LEMMA WritesOpen ==
    ASSUME FeedInv, NEW h \in Handlers, Active(h)
    PROVE  Feed!Open
<1>1. CASE client[h].resumed
  BY <1>1 DEF FeedInv, Engaged, Feed!Open
<1>2. CASE ~client[h].resumed
  BY <1>2 DEF FeedInv, TurnInv, Alone, Feed!Open
<1>. QED
  BY <1>1, <1>2

LEMMA StepIsFeedStep ==
    ASSUME FeedInv, FeedInv', [Next]_vars
    PROVE  [Feed!FeedNext]_(Feed!feedVars)
<1>0. Inv /\ Asked /\ Inv' /\ Whole' /\ Unsettled'
  BY DEF FeedInv, TurnInv
<1>1. /\ bank'.last = bank.last /\ bank.last \in 1..Pages
      /\ bank.asked > 1 => bank'.asked > 1
      /\ bank'.asked \in Nat
  BY <1>0, BankNext DEF Inv, TypeOK, Bank
<1>2. (overlapped => overlapped') /\ (denied => denied')
  <2>1. overlapped => overlapped'
    BY DEF Next, vars, Decide, Drop, Begin, Resume, Served, Unlisted, Unsigned, Challenged,
       StillWaiting, Approved, Rejected, Refused, End, Lose
  <2>. QED
    BY <1>0, <2>1, DeniedGrows
<1>3. CASE UNCHANGED stored
  BY <1>1, <1>2, <1>3 DEF Feed!FeedNext
<1>4. ASSUME NEW h \in Handlers, Writes(h), ~ UNCHANGED stored
      PROVE  Feed!FeedNext
  <2>1. Feed!Open /\ UNCHANGED overlapped
    BY <1>4, WritesOpen DEF Writes
  <2>2. stored'.status \in {"pending", "failed", "complete", "partial"}
    BY <1>4 DEF Writes
  <2>n. PICK n : n = Len(stored'.pages)
    OBVIOUS
  <2>3. /\ n \in Nat /\ n <= bank.last /\ n <= MaxPages + 1
        /\ stored'.pages = Feed!Beginning(n)
        /\ stored'.status = "partial" => n >= MaxPages /\ n < bank.last
    BY <1>0, <1>1, <2>n, InOrderIsBeginning DEF Inv, TypeOK, Session, SessionOK
  <2>4. CASE stored'.status = "pending"
    BY <1>0, <1>1, <1>2, <2>1, <2>4 DEF Unsettled, Feed!Wait, Feed!FeedNext
  <2>5. CASE stored'.status = "failed"
    BY <1>0, <1>1, <1>2, <2>1, <2>5 DEF Unsettled, Feed!Fail, Feed!FeedNext
  <2>6. CASE stored'.status = "complete"
    <3>1. n = bank.last \/ overlapped' \/ bank'.asked > 1 \/ denied'
      BY <1>0, <1>1, <2>6, <2>n DEF Whole, CompleteIsWhole
    <3>2. n \in 0..bank.last
      BY <1>1, <2>3
    <3>3. Feed!Complete
      BY <2>3, <2>6, <3>1, <3>2 DEF Feed!Complete, Feed!Deliver
    <3>. QED
      BY <1>1, <1>2, <2>1, <3>3 DEF Feed!FeedNext
  <2>7. CASE stored'.status = "partial"
    <3>1. n \in MaxPages..bank.last /\ n < bank.last
      BY <1>1, <2>3, <2>7, HistoryAssumption
    <3>2. Feed!Cut
      BY <2>3, <2>7, <3>1 DEF Feed!Cut, Feed!Deliver
    <3>. QED
      BY <1>1, <1>2, <2>1, <3>2 DEF Feed!FeedNext
  <2>. QED
    BY <2>2, <2>4, <2>5, <2>6, <2>7
<1>. QED
  BY <1>0, <1>3, <1>4, OnlyEndingWrites

\* The handlers, the bank and whatever fails between them implement the promise
\* of HistoryFeed: one verdict, one feed, all of the history or has_more.
THEOREM HandlersImplementFeed == Spec => ImplementsFeed
<1>1. Init => Feed!FeedInit
  <2>. SUFFICES ASSUME Init PROVE Feed!FeedInit
    OBVIOUS
  <2>1. bank.last \in 1..Pages /\ bank.asked = 0
    BY DEF Init
  <2>2. stored.status = "none" /\ stored.pages = <<>> /\ ~overlapped /\ ~denied
    BY DEF Init
  <2>. QED
    BY <2>1, <2>2 DEF Feed!FeedInit
<1>2. FeedInv /\ FeedInv' /\ [Next]_vars => [Feed!FeedNext]_(Feed!feedVars)
  BY StepIsFeedStep
<1>. QED
  BY <1>1, <1>2, FeedInvHolds, PTL DEF Spec, ImplementsFeed, Feed!FeedSpec
=============================================================================
