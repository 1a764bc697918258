----------------------- MODULE HistoryDownload_proofs -----------------------
(***************************************************************************)
(* Proofs about HistoryDownload.  Inv holds whatever handlers overlap,     *)
(* exchanges fail and challenges come: it says where a download under way  *)
(* stands.  What holds between the handler and the bank while polls take   *)
(* turns is in HistoryTurns_proofs.                                        *)
(***************************************************************************)
EXTENDS HistoryDownload, TLAPS

\* A download under way: its pages, the page to continue with, and what was
\* learned about the bank.
DownloadOK(c, last, signs) ==
    /\ InOrder(c.pages) /\ Len(c.pages) <= last
    /\ c.fetched <= Len(c.pages) /\ Len(c.pages) <= c.fetched + 1
    /\ c.step = "idle" => c = Fresh
    /\ c.step \in {"poll", "connect", "discover", "hangup", "login"} =>
          c.pages = <<>> /\ c.touchdown = 0
    /\ c.step \in {"locate", "history"} =>
          IF c.touchdown = 0 THEN c.pages = <<>>
          ELSE c.touchdown = Len(c.pages) + 1 /\ c.touchdown <= last
    /\ c.step \notin {"history", "end"} => c.fetched = 0 /\ c.needsTan = "unknown"
    /\ c.step = "history" => c.fetched < MaxPages
    /\ c.needsTan = "yes" => signs
    /\ c.needsTan = "no" => ~signs
    /\ c.step = "end" <=> c.verdict # "none"
    /\ c.verdict = "partial" => Len(c.pages) >= MaxPages /\ Len(c.pages) < last
    /\ c.verdict = "failed" => c.pages = <<>>
    /\ c.step \in {"connect", "login"} => c.number = 1
    /\ c.step = "poll" => c.resumed
    /\ c.step \in {"connect", "hangup", "login"} => ~c.resumed

\* A session, given the history's last page.
SessionOK(s, last) ==
    /\ InOrder(s.pages) /\ Len(s.pages) <= last /\ Len(s.pages) <= MaxPages + 1
    /\ s.status = "partial" => Len(s.pages) >= MaxPages /\ Len(s.pages) < last

\* Only a first page waits for approval.
TaskOK(b) == b.task # None => b.task \in Task /\ b.task.page <= 1

Inv ==
    /\ TypeOK
    /\ \A h \in Handlers : DownloadOK(client[h], bank.last, bank.signs)
    /\ SessionOK(stored, bank.last)
    /\ TaskOK(bank)

-----------------------------------------------------------------------------
(* Sequences of pages *)

LEMMA EmptyInOrder == <<>> \in Seq(1..Pages) /\ Len(<<>>) = 0 /\ InOrder(<<>>)
BY DEF InOrder

LEMMA OneInOrder ==
    ASSUME 1 \in 1..Pages
    PROVE  <<1>> \in Seq(1..Pages) /\ Len(<<1>>) = 1 /\ InOrder(<<1>>)
BY DEF InOrder

\* The page that follows the last one keeps a sequence in order.
LEMMA AppendInOrder ==
    ASSUME NEW s \in Seq(1..Pages), InOrder(s),
           NEW p \in 1..Pages, p = Len(s) + 1
    PROVE  /\ Append(s, p) \in Seq(1..Pages)
           /\ Len(Append(s, p)) = p
           /\ InOrder(Append(s, p))
<1>1. Append(s, p) \in Seq(1..Pages) /\ Len(Append(s, p)) = Len(s) + 1 /\ Len(s) \in Nat
  OBVIOUS
<1>2. \A i \in 1..(Len(s) + 1) : Append(s, p)[i] = i
  <2>. SUFFICES ASSUME NEW i \in 1..(Len(s) + 1)
                PROVE  Append(s, p)[i] = i
    OBVIOUS
  <2>1. CASE i = Len(s) + 1
    BY <2>1
  <2>2. CASE i # Len(s) + 1
    <3>1. i \in 1..Len(s)
      BY <2>2
    <3>2. Append(s, p)[i] = s[i]
      BY <3>1
    <3>. QED
      BY <3>1, <3>2 DEF InOrder
  <2>. QED
    BY <2>1, <2>2
<1>. QED
  BY <1>1, <1>2 DEF InOrder

-----------------------------------------------------------------------------
(* What a handler makes of an answer *)

LEMMA FreshOK ==
    ASSUME NEW last \in 1..Pages, NEW signs \in BOOLEAN
    PROVE  Fresh \in Download /\ DownloadOK(Fresh, last, signs)
BY HistoryAssumption, EmptyInOrder DEF Fresh, Download, DownloadOK, Steps

\* Counting a message changes nothing else.
LEMMA SentFields ==
    ASSUME NEW c \in Download
    PROVE  /\ Sent(c) \in Download
           /\ Sent(c).number = c.number + 1
           /\ Sent(c).step = c.step /\ Sent(c).resumed = c.resumed
           /\ Sent(c).connected = c.connected /\ Sent(c).touchdown = c.touchdown
           /\ Sent(c).fetched = c.fetched /\ Sent(c).needsTan = c.needsTan
           /\ Sent(c).pages = c.pages /\ Sent(c).verdict = c.verdict
BY DEF Sent, Download

\* Concluding changes the step and the verdict only.
LEMMA ConcludedFields ==
    ASSUME NEW c \in Download,
           NEW v \in {"complete", "partial", "failed", "aborted"}
    PROVE  /\ Concluded(c, v) \in Download
           /\ Concluded(c, v).step = "end" /\ Concluded(c, v).verdict = v
           /\ Concluded(c, v).number = c.number /\ Concluded(c, v).resumed = c.resumed
           /\ Concluded(c, v).touchdown = c.touchdown
           /\ Concluded(c, v).fetched = c.fetched
           /\ Concluded(c, v).needsTan = c.needsTan /\ Concluded(c, v).pages = c.pages
BY DEF Concluded, Download, Steps

\* The download after an order other than a page.
LEMMA FollowingOK ==
    ASSUME NEW c \in Download, NEW last \in 1..Pages, NEW signs \in BOOLEAN,
           DownloadOK(c, last, signs),
           c.step \in {"connect", "discover", "login", "locate"}
    PROVE  LET d == Following(Sent(c)) IN
           /\ d \in Download
           /\ DownloadOK(d, last, signs)
           /\ d.step \in {"discover", "hangup", "locate", "history"}
           /\ d.number = c.number + 1 /\ d.resumed = c.resumed
<1>0. PICK d : d = Following(Sent(c))
  OBVIOUS
<1>1. /\ d = Following(Sent(c)) /\ Sent(c) \in Download
      /\ d \in Download
      /\ d.step = CASE c.step = "connect"  -> "discover"
                    [] c.step = "discover" -> IF c.resumed THEN "locate" ELSE "hangup"
                    [] c.step = "login"    -> "locate"
                    [] c.step = "locate"   -> "history"
      /\ d.number = c.number + 1 /\ d.resumed = c.resumed
      /\ d.touchdown = c.touchdown /\ d.fetched = c.fetched
      /\ d.needsTan = c.needsTan /\ d.pages = c.pages /\ d.verdict = c.verdict
  BY <1>0, SentFields DEF Following, Download, Steps
<1>2. \/ c.step = "connect" /\ d.step = "discover"
      \/ c.step = "discover" /\ c.resumed /\ d.step = "locate"
      \/ c.step = "discover" /\ ~c.resumed /\ d.step = "hangup"
      \/ c.step = "login" /\ d.step = "locate"
      \/ c.step = "locate" /\ d.step = "history"
  BY <1>1
<1>3. c.verdict = "none" /\ c.fetched = 0 /\ 0 < MaxPages
  BY <1>2, HistoryAssumption DEF DownloadOK, Download
<1>4. c.step # "locate" => c.pages = <<>> /\ c.touchdown = 0
  BY <1>2 DEF DownloadOK
<1>5. DownloadOK(d, last, signs)
  BY <1>1, <1>2, <1>3, <1>4 DEF DownloadOK
<1>. QED
  BY <1>1, <1>2, <1>5

\* The download after a page: one page more, in its place; it goes on only
\* while there are pages, and is complete only when there are none.
LEMMA WithPageOK ==
    ASSUME NEW c \in Download, bank \in Bank,
           DownloadOK(c, bank.last, bank.signs),
           c.step = "history",
           Continues(c) => (CarriesTan(c) <=> bank.signs)
    PROVE  LET d == WithPage(Sent(c)) IN
           /\ d \in Download
           /\ DownloadOK(d, bank.last, bank.signs)
           /\ d.step \in {"history", "end"}
           /\ d.number = c.number + 1 /\ d.resumed = c.resumed
           /\ d.verdict \in {"none", "complete", "partial"}
           /\ d.verdict = "complete" => Len(d.pages) = bank.last
<1>a. PICK p : p = PageOf(Sent(c))
  OBVIOUS
<1>b. PICK e : e = [Sent(c) EXCEPT !.pages = Append(@, p),
                                   !.fetched = @ + 1,
                                   !.needsTan = IF Continues(Sent(c)) /\ @ = "unknown"
                                                THEN "no" ELSE @]
  OBVIOUS
<1>c. PICK d : d = WithPage(Sent(c))
  OBVIOUS
<1>0. /\ bank.last \in 1..Pages /\ bank.signs \in BOOLEAN
      /\ c.pages \in Seq(1..Pages) /\ Len(c.pages) \in Nat
      /\ c.touchdown \in 0..Pages /\ c.fetched \in 0..MaxPages
      /\ c.needsTan \in {"unknown", "yes", "no"}
      /\ Pages \in Nat \ {0} /\ MaxPages \in Nat \ {0}
      /\ c.verdict = "none"
  BY HistoryAssumption DEF Bank, Download, DownloadOK
<1>1. p \in 1..Pages /\ p = Len(c.pages) + 1 /\ p <= bank.last
  <2>1. p = IF c.touchdown = 0 THEN 1 ELSE c.touchdown
    BY <1>a, SentFields DEF PageOf
  <2>2. CASE c.touchdown = 0
    BY <2>1, <2>2, <1>0, EmptyInOrder DEF DownloadOK
  <2>3. CASE c.touchdown # 0
    BY <2>1, <2>3, <1>0 DEF DownloadOK
  <2>. QED
    BY <2>2, <2>3
<1>q. PICK q : q = Append(c.pages, p)
  OBVIOUS
<1>2. q \in Seq(1..Pages) /\ Len(q) = p /\ InOrder(q)
  BY <1>q, <1>0, <1>1, AppendInOrder DEF DownloadOK
<1>3. c.fetched + 1 \in 0..MaxPages /\ c.fetched + 1 <= p /\ p <= c.fetched + 2
  BY <1>0, <1>1 DEF DownloadOK
<1>4. /\ e.pages = q /\ e.fetched = c.fetched + 1
      /\ e.needsTan = IF c.touchdown > 0 /\ c.needsTan = "unknown" THEN "no" ELSE c.needsTan
      /\ e.step = "history" /\ e.verdict = "none" /\ e.resumed = c.resumed
      /\ e.number = c.number + 1 /\ e.touchdown = c.touchdown
      /\ e \in Download
  BY <1>b, <1>q, <1>0, <1>2, <1>3, SentFields DEF Download, Continues
<1>5. e.needsTan = "yes" => bank.signs
  BY <1>4 DEF DownloadOK
<1>6. e.needsTan = "no" => ~bank.signs
  <2>1. CASE c.touchdown > 0 /\ c.needsTan = "unknown"
    <3>1. Continues(c) /\ ~CarriesTan(c)
      BY <2>1, <1>0 DEF Continues, CarriesTan
    <3>. QED
      BY <3>1
  <2>2. CASE ~(c.touchdown > 0 /\ c.needsTan = "unknown")
    BY <2>2, <1>4 DEF DownloadOK
  <2>. QED
    BY <2>1, <2>2
<1>7. CASE p = bank.last
  <2>1. d = Concluded(e, "complete")
    BY <1>7, <1>a, <1>b, <1>c DEF WithPage
  <2>2. /\ d \in Download /\ d.step = "end" /\ d.verdict = "complete"
        /\ d.number = c.number + 1 /\ d.resumed = c.resumed
        /\ d.fetched = c.fetched + 1 /\ d.needsTan = e.needsTan
        /\ d.pages = q
    BY <2>1, <1>4, ConcludedFields
  <2>3. /\ InOrder(d.pages) /\ Len(d.pages) = p /\ Len(d.pages) <= bank.last
        /\ d.fetched <= Len(d.pages) /\ Len(d.pages) <= d.fetched + 1
    BY <2>2, <1>0, <1>1, <1>2, <1>3
  <2>4. (d.needsTan = "yes" => bank.signs) /\ (d.needsTan = "no" => ~bank.signs)
    BY <2>2, <1>5, <1>6
  <2>5. DownloadOK(d, bank.last, bank.signs)
    BY <2>2, <2>3, <2>4 DEF DownloadOK
  <2>. QED
    BY <1>c, <2>2, <2>3, <2>5, <1>7
<1>8. CASE p # bank.last /\ e.fetched = MaxPages
  <2>1. d = Concluded(e, "partial")
    BY <1>8, <1>a, <1>b, <1>c DEF WithPage
  <2>2. /\ d \in Download /\ d.step = "end" /\ d.verdict = "partial"
        /\ d.number = c.number + 1 /\ d.resumed = c.resumed
        /\ d.fetched = c.fetched + 1 /\ d.needsTan = e.needsTan
        /\ d.pages = q
    BY <2>1, <1>4, ConcludedFields
  <2>3. p >= MaxPages /\ p < bank.last
    BY <1>8, <1>0, <1>1, <1>3, <1>4
  <2>4. /\ InOrder(d.pages) /\ Len(d.pages) = p /\ Len(d.pages) <= bank.last
        /\ d.fetched <= Len(d.pages) /\ Len(d.pages) <= d.fetched + 1
    BY <2>2, <1>0, <1>1, <1>2, <1>3
  <2>5. (d.needsTan = "yes" => bank.signs) /\ (d.needsTan = "no" => ~bank.signs)
    BY <2>2, <1>5, <1>6
  <2>6. DownloadOK(d, bank.last, bank.signs)
    BY <2>2, <2>3, <2>4, <2>5 DEF DownloadOK
  <2>. QED
    BY <1>c, <2>2, <2>6
<1>9. CASE p # bank.last /\ e.fetched # MaxPages
  <2>1. d = [e EXCEPT !.touchdown = p + 1]
    BY <1>9, <1>a, <1>b, <1>c DEF WithPage
  <2>2. /\ p + 1 \in 0..Pages /\ p + 1 <= bank.last /\ p + 1 # 0
        /\ c.fetched + 1 < MaxPages
    <3>1. p + 1 \in 0..Pages /\ p + 1 <= bank.last /\ p + 1 # 0
      BY <1>9, <1>0, <1>1
    <3>2. c.fetched + 1 # MaxPages
      BY <1>9, <1>4
    <3>3. c.fetched + 1 < MaxPages
      BY <3>2, <1>0, <1>3
    <3>. QED
      BY <3>1, <3>3
  <2>3. /\ d \in Download /\ d.step = "history" /\ d.verdict = "none"
        /\ d.number = c.number + 1 /\ d.resumed = c.resumed
        /\ d.fetched = c.fetched + 1 /\ d.needsTan = e.needsTan
        /\ d.pages = q /\ d.touchdown = p + 1
    BY <2>1, <2>2, <1>4 DEF Download
  <2>4. /\ InOrder(d.pages) /\ Len(d.pages) = p /\ Len(d.pages) <= bank.last
        /\ d.fetched <= Len(d.pages) /\ Len(d.pages) <= d.fetched + 1
    BY <2>3, <1>0, <1>1, <1>2, <1>3
  <2>5. (d.needsTan = "yes" => bank.signs) /\ (d.needsTan = "no" => ~bank.signs)
    BY <2>3, <1>5, <1>6
  <2>6. d.touchdown # 0 /\ d.touchdown = Len(d.pages) + 1 /\ d.touchdown <= bank.last
    BY <2>2, <2>3, <2>4
  <2>7. d.fetched < MaxPages
    BY <2>2, <2>3
  <2>8. DownloadOK(d, bank.last, bank.signs)
    BY <2>3, <2>4, <2>5, <2>6, <2>7 DEF DownloadOK
  <2>. QED
    BY <1>c, <2>3, <2>8
<1>. QED
  BY <1>c, <1>7, <1>8, <1>9

\* A handler that is to end keeps what it has.
LEMMA ConcludedOK ==
    ASSUME NEW c \in Download, NEW last \in 1..Pages, NEW signs \in BOOLEAN,
           DownloadOK(c, last, signs), c.step # "idle",
           NEW v \in {"complete", "failed", "aborted"},
           v = "failed" => c.pages = <<>>
    PROVE  /\ Concluded(c, v) \in Download
           /\ DownloadOK(Concluded(c, v), last, signs)
<1>1. PICK d : d = Concluded(c, v)
  OBVIOUS
<1>2. /\ d \in Download /\ d.step = "end" /\ d.verdict = v
      /\ d.fetched = c.fetched /\ d.needsTan = c.needsTan /\ d.pages = c.pages
  BY <1>1, ConcludedFields
<1>3. DownloadOK(d, last, signs)
  BY <1>2 DEF DownloadOK
<1>. QED
  BY <1>1, <1>2, <1>3

\* The download after an answer that was of no use: nothing is added.
LEMMA WithoutOK ==
    ASSUME NEW c \in Download, NEW last \in 1..Pages, NEW signs \in BOOLEAN,
           DownloadOK(c, last, signs), c.step \in Orders,
           NEW d \in Without(Sent(c))
    PROVE  /\ d \in Download
           /\ DownloadOK(d, last, signs)
           /\ d.step \in {"discover", "hangup", "locate", "history", "end"}
           /\ d.number = c.number + 1 /\ d.resumed = c.resumed
           /\ d.verdict \in {"none", "complete", "aborted"}
<1>k. PICK k : k = Sent(c)
  OBVIOUS
<1>0. /\ k \in Download
      /\ c.step \notin {"connect", "login"} => DownloadOK(k, last, signs)
      /\ k.step = c.step /\ k.number = c.number + 1 /\ k.resumed = c.resumed
  <2>1. /\ k \in Download /\ k.number = c.number + 1
        /\ k.step = c.step /\ k.resumed = c.resumed /\ k.touchdown = c.touchdown
        /\ k.fetched = c.fetched /\ k.needsTan = c.needsTan
        /\ k.pages = c.pages /\ k.verdict = c.verdict
    BY <1>k, SentFields
  <2>2. c.step \notin {"connect", "login"} => DownloadOK(k, last, signs)
    BY <2>1 DEF DownloadOK, Orders
  <2>. QED
    BY <2>1, <2>2
<1>1. ASSUME c.step \in {"discover", "locate", "history"},
             NEW v \in {"complete", "aborted"}, d = Concluded(k, v)
      PROVE  /\ d \in Download /\ DownloadOK(d, last, signs)
             /\ d.step = "end" /\ d.verdict = v
             /\ d.number = c.number + 1 /\ d.resumed = c.resumed
  <2>1. DownloadOK(k, last, signs) /\ k.step # "idle"
    BY <1>0, <1>1
  <2>2. Concluded(k, v) \in Download /\ DownloadOK(Concluded(k, v), last, signs)
    BY <1>0, <2>1, ConcludedOK
  <2>. QED
    BY <1>0, <1>1, <2>2, ConcludedFields
<1>2. CASE d = Following(Sent(c)) /\ c.step # "history"
  <2>1. c.step \in {"connect", "discover", "login", "locate"}
    BY <1>2 DEF Orders
  <2>2. /\ d \in Download /\ DownloadOK(d, last, signs)
        /\ d.step \in {"discover", "hangup", "locate", "history"}
        /\ d.number = c.number + 1 /\ d.resumed = c.resumed
    BY <1>2, <2>1, FollowingOK
  <2>3. d.verdict = "none"
    BY <2>2 DEF DownloadOK, Download
  <2>. QED
    BY <2>2, <2>3
<1>3. \/ d = Following(Sent(c)) /\ c.step # "history"
      \/ d = Concluded(k, "complete") /\ c.step = "history"
      \/ d = Concluded(k, "aborted") /\ c.step \in {"discover", "locate"}
  <2>1. CASE c.step = "history"
    BY <1>0, <1>k, <2>1 DEF Without
  <2>2. CASE c.step \in {"discover", "locate"}
    BY <1>0, <1>k, <2>2 DEF Without
  <2>3. CASE c.step \in {"connect", "login"}
    BY <1>0, <1>k, <2>3 DEF Without
  <2>. QED
    BY <2>1, <2>2, <2>3 DEF Orders
<1>. QED
  BY <1>1, <1>2, <1>3

\* The download after an approval: the approved page is the first of the feed,
\* and the next one is asked for, if there is one.
LEMMA AfterApprovalOK ==
    ASSUME NEW c \in Download, bank \in Bank,
           DownloadOK(c, bank.last, bank.signs),
           c.step = "poll", NEW p \in {0, 1}
    PROVE  LET d == AfterApproval(Sent(c), p) IN
           /\ d \in Download
           /\ DownloadOK(d, bank.last, bank.signs)
           /\ d.step \in {"discover", "locate", "end"}
           /\ d.number = c.number + 1 /\ d.resumed
           /\ d.verdict \in {"none", "complete"}
           /\ d.verdict = "complete" => Len(d.pages) = bank.last
<1>1. /\ bank.last \in 1..Pages /\ bank.signs \in BOOLEAN /\ Pages \in Nat \ {0}
      /\ c.fetched = 0 /\ c.needsTan = "unknown" /\ c.verdict = "none" /\ c.resumed
      /\ c.pages = <<>> /\ c.touchdown = 0 /\ c.number \in Nat
  BY HistoryAssumption DEF Bank, DownloadOK, Download
<1>2. PICK d : d = AfterApproval(Sent(c), p)
  OBVIOUS
<1>k. PICK k : k = Sent(c)
  OBVIOUS
<1>5. /\ k \in Download /\ k.number = c.number + 1 /\ k.resumed /\ k.verdict = "none"
      /\ k.fetched = 0 /\ k.needsTan = "unknown" /\ k.pages = <<>> /\ k.touchdown = 0
      /\ k.connected = c.connected
  BY <1>1, <1>k, SentFields
<1>6. p = 1 => d = AfterApproval(k, 1)
  BY <1>2, <1>k
<1>3. CASE ~c.connected \/ p = 0
  <2>1. /\ d \in Download /\ d.step \in {"discover", "locate"}
        /\ d.number = c.number + 1 /\ d.resumed /\ d.verdict = "none"
        /\ d.fetched = 0 /\ d.needsTan = "unknown" /\ d.pages = <<>> /\ d.touchdown = 0
    <3>1. \/ d = [k EXCEPT !.step = "discover"]
          \/ d = [k EXCEPT !.step = "locate"]
      BY <1>2, <1>3, <1>5, <1>k DEF AfterApproval
    <3>. QED
      BY <3>1, <1>5 DEF Download, Steps
  <2>2. DownloadOK(d, bank.last, bank.signs)
    BY <2>1, <1>1, EmptyInOrder DEF DownloadOK
  <2>. QED
    BY <1>2, <2>1, <2>2
<1>4. CASE c.connected /\ p = 1
  <2>1. 1 \in 1..Pages /\ <<1>> \in Seq(1..Pages) /\ Len(<<1>>) = 1 /\ InOrder(<<1>>)
    BY <1>1, OneInOrder
  <2>2. PICK e : e = [k EXCEPT !.pages = <<1>>]
    OBVIOUS
  <2>3. /\ e \in Download /\ e.number = c.number + 1 /\ e.resumed /\ e.verdict = "none"
        /\ e.fetched = 0 /\ e.needsTan = "unknown" /\ e.pages = <<1>> /\ e.touchdown = 0
    BY <1>5, <2>1, <2>2 DEF Download
  <2>4. CASE bank.last = 1
    <3>1. d = Concluded(e, "complete")
      BY <1>4, <1>5, <1>6, <2>2, <2>4 DEF AfterApproval
    <3>2. /\ d \in Download /\ d.step = "end" /\ d.verdict = "complete"
          /\ d.number = c.number + 1 /\ d.resumed
          /\ d.fetched = 0 /\ d.needsTan = "unknown" /\ d.pages = <<1>>
      BY <2>3, <3>1, ConcludedFields
    <3>3. DownloadOK(d, bank.last, bank.signs)
      BY <3>2, <2>1, <2>4, <1>1 DEF DownloadOK
    <3>. QED
      BY <1>2, <3>2, <3>3, <2>1, <2>4
  <2>5. CASE bank.last # 1
    <3>1. /\ d \in Download /\ d.step = "locate" /\ d.verdict = "none"
          /\ d.number = c.number + 1 /\ d.resumed
          /\ d.fetched = 0 /\ d.needsTan = "unknown" /\ d.pages = <<1>> /\ d.touchdown = 2
      <4>1. d = [k EXCEPT !.step = "locate", !.pages = <<1>>, !.touchdown = 2]
        BY <1>4, <1>5, <1>6, <2>5 DEF AfterApproval
      <4>2. 2 \in 0..Pages
        BY <1>1, <2>5
      <4>. QED
        BY <4>1, <4>2, <1>5, <2>1 DEF Download, Steps
    <3>2. DownloadOK(d, bank.last, bank.signs)
      BY <3>1, <2>1, <2>5, <1>1 DEF DownloadOK
    <3>. QED
      BY <1>2, <3>1, <3>2
  <2>. QED
    BY <2>4, <2>5
<1>. QED
  BY <1>3, <1>4

-----------------------------------------------------------------------------
(* What the bank makes of a message *)

LEMMA TakenFields ==
    ASSUME bank \in Bank, NEW c
    PROVE  /\ Taken(c) \in Bank
           /\ Taken(c).last = bank.last /\ Taken(c).signs = bank.signs
           /\ Taken(c).asked = bank.asked
           /\ Taken(c).task \in {bank.task, None}
           /\ c.step \in {"connect", "login"} =>
                 Taken(c).state = "open" /\ Taken(c).number = 2 /\ Taken(c).task = None
           /\ c.step \notin {"connect", "login"} =>
                 /\ Taken(c).state = bank.state /\ Taken(c).number = bank.number + 1
                 /\ Taken(c).task = bank.task
<1>1. CASE c.step \in {"connect", "login"}
  <2>1. PICK k : k = Taken(c)
    OBVIOUS
  <2>2. k = [bank EXCEPT !.state = "open", !.number = 2, !.task = None]
    BY <1>1, <2>1 DEF Taken
  <2>3. k \in Bank
    BY <2>2 DEF Bank
  <2>4. /\ k.state = "open" /\ k.number = 2 /\ k.task = None
        /\ k.last = bank.last /\ k.signs = bank.signs /\ k.asked = bank.asked
    BY <2>2 DEF Bank
  <2>. QED
    BY <1>1, <2>1, <2>3, <2>4
<1>2. CASE c.step \notin {"connect", "login"}
  <2>1. Taken(c) = [bank EXCEPT !.number = bank.number + 1]
    BY <1>2 DEF Taken
  <2>. QED
    BY <1>2, <2>1 DEF Bank
<1>. QED
  BY <1>1, <1>2

\* Whatever the bank does, the history is the same, and it asks for approval of
\* a first page at most: a handler that sends HKTAN with a continuation has
\* learned that this bank insists on it.
LEMMA BankStep ==
    ASSUME bank \in Bank, TaskOK(bank),
           NEW c \in Download, DownloadOK(c, bank.last, bank.signs),
           Acts(c)
    PROVE  /\ bank' \in Bank /\ TaskOK(bank')
           /\ bank'.last = bank.last /\ bank'.signs = bank.signs
           /\ bank'.asked \in {bank.asked, bank.asked + 1}
           /\ bank'.asked # bank.asked => bank'.task.page <= 1
<1>0. /\ bank.last \in 1..Pages /\ Pages \in Nat \ {0} /\ bank.asked \in Nat
      /\ bank.task \in Task \cup {None}
      /\ c.needsTan \in {"unknown", "yes", "no"} /\ c.touchdown \in 0..Pages
  BY HistoryAssumption DEF Bank, Download
<1>1. CASE bank' = Taken(c)
  BY <1>1, <1>0, TakenFields DEF TaskOK
<1>2. CASE Asks(c)
  <2>1. ~Continues(c)
    BY <1>2, <1>0 DEF Asks, Continues, CarriesTan, DownloadOK
  <2>2. PageOf(c) \in {0, 1}
    BY <2>1, <1>0 DEF Continues, PageOf
  <2>3. PICK t : t = [page |-> PageOf(c), says |-> "waiting"]
    OBVIOUS
  <2>4. t \in Task /\ t.page <= 1
    BY <2>2, <2>3, <1>0 DEF Task
  <2>k. PICK k : k = Taken(c)
    OBVIOUS
  <2>5. bank' = [k EXCEPT !.task = t, !.asked = k.asked + 1]
    BY <1>2, <2>3, <2>k DEF Asks
  <2>l. /\ k \in Bank /\ k.asked = bank.asked
        /\ k.last = bank.last /\ k.signs = bank.signs
    BY <2>k, TakenFields
  <2>m. PICK d : d = bank'
    OBVIOUS
  <2>n. d \in Bank
    <3>1. t \in Task \cup {None} /\ k.asked + 1 \in Nat
      BY <2>4, <2>l, <1>0
    <3>. QED
      BY <2>l, <2>m, <2>5, <3>1 DEF Bank
  <2>o. d.task = t /\ d.asked = k.asked + 1 /\ d.last = k.last /\ d.signs = k.signs
    BY <2>l, <2>m, <2>5 DEF Bank
  <2>6. /\ bank' \in Bank /\ bank'.task = t /\ bank'.asked = bank.asked + 1
        /\ bank'.last = bank.last /\ bank'.signs = bank.signs
    BY <2>l, <2>m, <2>n, <2>o
  <2>. QED
    BY <2>6, <2>4 DEF TaskOK
<1>3. ASSUME NEW v \in {"waiting", "approved", "rejected"}, Tells(c, v)
      PROVE  /\ bank' \in Bank /\ bank'.task \in {bank.task, None}
             /\ bank'.last = bank.last /\ bank'.signs = bank.signs
             /\ bank'.asked = bank.asked
  <2>1. \/ bank' = [Taken(c) EXCEPT !.task = Taken(c).task]
        \/ bank' = [Taken(c) EXCEPT !.task = None]
    BY <1>3 DEF Tells
  <2>. QED
    BY <2>1, TakenFields DEF Bank
<1>4. CASE Ends(c)
  <2>1. bank' = [Taken(c) EXCEPT !.state = "ended"]
    BY <1>4 DEF Ends
  <2>2. /\ bank' \in Bank /\ bank'.task \in {bank.task, None}
        /\ bank'.last = bank.last /\ bank'.signs = bank.signs
        /\ bank'.asked = bank.asked
    BY <2>1, TakenFields DEF Bank
  <2>. QED
    BY <2>2, <1>0 DEF TaskOK
<1>5. CASE Refuses(c)
  <2>1. bank' = bank \/ bank' = Taken(c) \/ bank' = [bank EXCEPT !.state = "dropped"]
    BY <1>5 DEF Refuses, Dropped
  <2>2. CASE bank' # Taken(c)
    <3>1. /\ bank' \in Bank /\ bank'.task = bank.task
          /\ bank'.last = bank.last /\ bank'.signs = bank.signs
          /\ bank'.asked = bank.asked
      BY <2>1, <2>2 DEF Bank
    <3>. QED
      BY <3>1, <1>0 DEF TaskOK
  <2>. QED
    BY <1>1, <2>2
<1>6. CASE \E v \in {"waiting", "approved", "rejected"} : Tells(c, v)
  BY <1>6, <1>3, <1>0 DEF TaskOK
<1>. QED
  BY <1>1, <1>2, <1>4, <1>5, <1>6 DEF Acts, Serves, FindsUnsigned

-----------------------------------------------------------------------------
(* The invariant of the downloads *)

\* In every step the bank acts as in BankStep, or it is the user or a timeout.
LEMMA BankNext ==
    ASSUME Inv, [Next]_vars
    PROVE  /\ bank' \in Bank /\ TaskOK(bank')
           /\ bank'.last = bank.last /\ bank'.signs = bank.signs
           /\ bank'.asked \in {bank.asked, bank.asked + 1}
           /\ bank'.asked # bank.asked => bank'.task.page <= 1
<1>0. /\ bank \in Bank /\ TaskOK(bank) /\ bank.asked \in Nat
      /\ \A h \in Handlers : client[h] \in Download /\ DownloadOK(client[h], bank.last, bank.signs)
  BY DEF Inv, TypeOK, Bank
<1>1. CASE UNCHANGED bank
  BY <1>0, <1>1
<1>2. ASSUME NEW h \in Handlers, Acts(client[h])
      PROVE  /\ bank' \in Bank /\ TaskOK(bank')
             /\ bank'.last = bank.last /\ bank'.signs = bank.signs
             /\ bank'.asked \in {bank.asked, bank.asked + 1}
             /\ bank'.asked # bank.asked => bank'.task.page <= 1
  BY <1>0, <1>2, BankStep
<1>3. CASE Decide
  <2>1. PICK v \in {"approved", "rejected"} : bank' = [bank EXCEPT !.task.says = v]
    BY <1>3 DEF Decide
  <2>2. PICK t : t = [bank.task EXCEPT !.says = v]
    OBVIOUS
  <2>3. bank.task \in Task /\ bank.task.page <= 1
    BY <1>0, <1>3 DEF Decide, TaskOK
  <2>4. t \in Task /\ t.page = bank.task.page
    BY <2>2, <2>3 DEF Task
  <2>5. PICK b : b = bank'
    OBVIOUS
  <2>6. b = [bank EXCEPT !.task = t]
    BY <2>1, <2>2, <2>5
  <2>7. b \in Bank
    <3>1. t \in Task \cup {None}
      BY <2>4
    <3>. QED
      BY <1>0, <2>6, <3>1 DEF Bank
  <2>8. b.task = t /\ b.last = bank.last /\ b.signs = bank.signs /\ b.asked = bank.asked
    BY <1>0, <2>6 DEF Bank
  <2>9. TaskOK(b)
    BY <2>3, <2>4, <2>8 DEF TaskOK
  <2>. QED
    BY <2>5, <2>7, <2>8, <2>9
<1>4. CASE Drop
  <2>1. bank' = [bank EXCEPT !.state = "dropped"]
    BY <1>4 DEF Drop, Dropped
  <2>2. /\ bank' \in Bank /\ bank'.task = bank.task /\ bank'.asked = bank.asked
        /\ bank'.last = bank.last /\ bank'.signs = bank.signs
    BY <1>0, <2>1 DEF Bank
  <2>. QED
    BY <1>0, <2>2 DEF TaskOK
<1>5. \/ UNCHANGED bank \/ Decide \/ Drop
      \/ \E h \in Handlers : Acts(client[h])
  BY DEF Next, vars, Begin, Resume, Served, Unlisted, Unsigned, Challenged, StillWaiting, Approved,
         Rejected, Refused, End, Lose, Acts
<1>. QED
  BY <1>1, <1>2, <1>3, <1>4, <1>5

\* That the bank denied something is not forgotten.
LEMMA DeniedGrows ==
    ASSUME Inv, [Next]_vars
    PROVE  denied' \in BOOLEAN /\ (denied => denied')
BY DEF Inv, TypeOK, Next, vars, Decide, Drop, Begin, Resume, Served, Unlisted, Unsigned,
   Challenged, StillWaiting, Approved, Rejected, Refused, End, Lose

\* It is enough to look at the handler that acts and at the session.
LEMMA HandlerStep ==
    ASSUME Inv, [Next]_vars,
           NEW h \in Handlers, NEW d \in Download, Becomes(h, d),
           DownloadOK(d, bank.last, bank.signs),
           stored' \in Session, SessionOK(stored', bank.last),
           lost' \in 0..MaxLost, overlapped' \in BOOLEAN
    PROVE  Inv'
<1>1. client' \in [Handlers -> Download]
  BY DEF Inv, TypeOK, Becomes
<1>2. ASSUME NEW g \in Handlers
      PROVE  DownloadOK(client'[g], bank.last, bank.signs)
  <2>1. client'[g] = IF g = h THEN d ELSE client[g]
    BY DEF Inv, TypeOK, Becomes
  <2>. QED
    BY <2>1 DEF Inv
<1>3. /\ bank' \in Bank /\ TaskOK(bank')
      /\ bank'.last = bank.last /\ bank'.signs = bank.signs
  BY BankNext
<1>4. TypeOK'
  BY <1>1, <1>3, DeniedGrows DEF TypeOK
<1>5. SessionOK(stored', bank'.last)
  BY <1>3
<1>6. \A g \in Handlers : DownloadOK(client'[g], bank'.last, bank'.signs)
  BY <1>2, <1>3
<1>. QED
  BY <1>3, <1>4, <1>5, <1>6 DEF Inv

\* What AfterEnd stores is what the handler has.
LEMMA AfterEndOK ==
    ASSUME Inv, NEW h \in Handlers, client[h].step \in {"hangup", "end"}, AfterEnd(h)
    PROVE  /\ \E d \in Download : Becomes(h, d) /\ DownloadOK(d, bank.last, bank.signs)
           /\ stored' \in Session /\ SessionOK(stored', bank.last)
<1>. PICK c : c = client[h]
  OBVIOUS
<1>0. /\ c = client[h] /\ c \in Download /\ DownloadOK(c, bank.last, bank.signs)
      /\ stored \in Session /\ SessionOK(stored, bank.last)
      /\ bank.last \in 1..Pages /\ bank.signs \in BOOLEAN
  BY DEF Inv, TypeOK, Bank
<1>1. CASE c.step = "hangup"
  <2>1. PICK d : d = [c EXCEPT !.step = "login", !.number = 1]
    OBVIOUS
  <2>2. /\ d \in Download /\ d.step = "login" /\ d.number = 1
        /\ d.resumed = c.resumed /\ d.touchdown = c.touchdown /\ d.fetched = c.fetched
        /\ d.needsTan = c.needsTan /\ d.pages = c.pages /\ d.verdict = c.verdict
    BY <1>0, <2>1 DEF Download, Steps
  <2>3. DownloadOK(d, bank.last, bank.signs)
    BY <1>0, <1>1, <2>2 DEF DownloadOK
  <2>4. Becomes(h, d) /\ stored' = stored
    BY <1>0, <1>1, <2>1 DEF AfterEnd
  <2>. QED
    BY <1>0, <2>2, <2>3, <2>4
<1>2. CASE c.step = "end"
  <2>1. Becomes(h, Fresh)
    BY <1>0, <1>2 DEF AfterEnd
  <2>s. PICK s : s = stored'
    OBVIOUS
  <2>2. \/ /\ c.verdict # "aborted"
           /\ s = [stored EXCEPT !.status = c.verdict, !.pages = c.pages]
        \/ s = stored
        \/ s = [stored EXCEPT !.status = "failed"]
    BY <1>0, <1>2, <2>s DEF AfterEnd
  <2>3. s \in Session /\ SessionOK(s, bank.last)
    <3>1. CASE /\ c.verdict # "aborted"
               /\ s = [stored EXCEPT !.status = c.verdict, !.pages = c.pages]
      <4>1. c.verdict \in {"complete", "partial", "failed"} /\ c.pages \in Seq(1..Pages)
        BY <1>0, <1>2, <3>1 DEF DownloadOK, Download
      <4>2. s \in Session /\ s.status = c.verdict /\ s.pages = c.pages
        BY <1>0, <3>1, <4>1 DEF Session
      <4>3. c.fetched \in 0..MaxPages /\ MaxPages \in Nat /\ Len(c.pages) \in Nat
        BY <1>0, <4>1, HistoryAssumption DEF Download
      <4>4. Len(c.pages) <= MaxPages + 1
        BY <1>0, <4>3 DEF DownloadOK
      <4>5. SessionOK(s, bank.last)
        BY <1>0, <4>2, <4>4 DEF DownloadOK, SessionOK
      <4>. QED
        BY <4>2, <4>5
    <3>2. CASE s = stored
      BY <1>0, <3>2
    <3>3. CASE s = [stored EXCEPT !.status = "failed"]
      <4>1. s \in Session /\ s.status = "failed" /\ s.pages = stored.pages
        BY <1>0, <3>3 DEF Session
      <4>2. SessionOK(s, bank.last)
        BY <1>0, <4>1 DEF SessionOK
      <4>. QED
        BY <4>1, <4>2
    <3>. QED
      BY <2>2, <3>1, <3>2, <3>3
  <2>. QED
    BY <1>0, <2>1, <2>s, <2>3, FreshOK
<1>. QED
  BY <1>0, <1>1, <1>2

LEMMA InvInit == Init => Inv
<1>. SUFFICES ASSUME Init PROVE Inv
  OBVIOUS
<1>1. PICK last \in 1..Pages, signs \in BOOLEAN :
         bank = [state |-> "none", number |-> 0, last |-> last, signs |-> signs,
                 task |-> None, asked |-> 0]
  BY DEF Init
<1>2. bank \in Bank /\ TaskOK(bank) /\ bank.last = last /\ bank.signs = signs
  BY <1>1 DEF Bank, TaskOK
<1>3. /\ client \in [Handlers -> Download]
      /\ \A h \in Handlers : DownloadOK(client[h], last, signs)
  BY FreshOK DEF Init
<1>4. stored \in Session /\ SessionOK(stored, last)
  <2>1. /\ stored.pages = <<>> /\ stored.status = "none" /\ stored \in Session
    BY EmptyInOrder DEF Init, Session
  <2>. QED
    BY <2>1, EmptyInOrder, HistoryAssumption DEF SessionOK
<1>5. lost \in 0..MaxLost
  BY HistoryAssumption DEF Init
<1>7. overlapped \in BOOLEAN /\ denied \in BOOLEAN
  BY DEF Init
<1>6. TypeOK
  BY <1>2, <1>3, <1>4, <1>5, <1>7 DEF TypeOK
<1>. QED
  BY <1>2, <1>3, <1>4, <1>6 DEF Inv

LEMMA InvNext == Inv /\ [Next]_vars => Inv'
<1>. SUFFICES ASSUME Inv, [Next]_vars PROVE Inv'
  OBVIOUS
<1>0. /\ bank \in Bank /\ bank.last \in 1..Pages /\ bank.signs \in BOOLEAN /\ TaskOK(bank)
      /\ stored \in Session /\ SessionOK(stored, bank.last)
      /\ lost \in 0..MaxLost /\ overlapped \in BOOLEAN
      /\ \A h \in Handlers : client[h] \in Download /\ DownloadOK(client[h], bank.last, bank.signs)
  BY DEF Inv, TypeOK, Bank
<1>1. CASE UNCHANGED <<client, stored, lost, overlapped>>
  <2>1. /\ bank' \in Bank /\ TaskOK(bank')
        /\ bank'.last = bank.last /\ bank'.signs = bank.signs
    BY BankNext
  <2>2. TypeOK'
    BY <1>1, <2>1, DeniedGrows DEF Inv, TypeOK
  <2>3. /\ \A g \in Handlers : DownloadOK(client'[g], bank'.last, bank'.signs)
        /\ SessionOK(stored', bank'.last)
    BY <1>0, <1>1, <2>1
  <2>. QED
    BY <2>1, <2>2, <2>3 DEF Inv
<1>2. ASSUME NEW h \in Handlers, Begin(h)
      PROVE  Inv'
  <2>1. PICK d : d = [Fresh EXCEPT !.step = "connect"]
    OBVIOUS
  <2>2. /\ d \in Download /\ d.step = "connect" /\ d.number = 1 /\ ~d.resumed
        /\ d.touchdown = 0 /\ d.fetched = 0 /\ d.needsTan = "unknown"
        /\ d.pages = <<>> /\ d.verdict = "none"
    BY <1>0, <2>1, FreshOK DEF Fresh, Download, Steps
  <2>3. DownloadOK(d, bank.last, bank.signs)
    BY <1>0, <2>2, EmptyInOrder DEF DownloadOK
  <2>4. Becomes(h, d) /\ UNCHANGED <<stored, lost, overlapped>>
    BY <1>2, <2>1 DEF Begin
  <2>. QED
    BY <1>0, <2>2, <2>3, <2>4, HandlerStep
<1>3. ASSUME NEW h \in Handlers, Resume(h)
      PROVE  Inv'
  <2>1. PICK d : d = [Fresh EXCEPT !.step = "poll", !.resumed = TRUE,
                                   !.connected = stored.connected,
                                   !.number = stored.number]
    OBVIOUS
  <2>2. /\ d \in Download /\ d.step = "poll" /\ d.resumed
        /\ d.touchdown = 0 /\ d.fetched = 0 /\ d.needsTan = "unknown"
        /\ d.pages = <<>> /\ d.verdict = "none"
    <3>1. stored.connected \in BOOLEAN /\ stored.number \in Nat
      BY <1>0 DEF Session
    <3>. QED
      BY <1>0, <2>1, <3>1, FreshOK DEF Fresh, Download, Steps
  <2>3. DownloadOK(d, bank.last, bank.signs)
    BY <1>0, <2>2, EmptyInOrder DEF DownloadOK
  <2>4. Becomes(h, d) /\ UNCHANGED <<stored, lost>> /\ overlapped' \in BOOLEAN
    BY <1>0, <1>3, <2>1 DEF Resume
  <2>. QED
    BY <1>0, <2>2, <2>3, <2>4, HandlerStep
<1>4. ASSUME NEW h \in Handlers, Served(h)
      PROVE  Inv'
  <2>. PICK c : c = client[h]
    OBVIOUS
  <2>0. c = client[h] /\ c \in Download /\ DownloadOK(c, bank.last, bank.signs)
    BY <1>0
  <2>1. CASE c.step = "history"
    <3>1. PICK d : d = WithPage(Sent(c))
      OBVIOUS
    <3>2. d \in Download /\ DownloadOK(d, bank.last, bank.signs)
      BY <1>0, <1>4, <2>0, <2>1, <3>1, WithPageOK DEF Served, Serves
    <3>3. Becomes(h, d) /\ UNCHANGED <<stored, lost, overlapped>>
      BY <1>4, <2>0, <2>1, <3>1 DEF Served
    <3>. QED
      BY <1>0, <3>2, <3>3, HandlerStep
  <2>2. CASE c.step # "history"
    <3>1. PICK d : d = Following(Sent(c))
      OBVIOUS
    <3>2. d \in Download /\ DownloadOK(d, bank.last, bank.signs)
      <4>1. c.step \in {"connect", "discover", "login", "locate"}
        BY <1>4, <2>0, <2>2 DEF Served, Serves, Orders
      <4>. QED
        BY <1>0, <2>0, <3>1, <4>1, FollowingOK
    <3>3. Becomes(h, d) /\ UNCHANGED <<stored, lost, overlapped>>
      BY <1>4, <2>0, <2>2, <3>1 DEF Served
    <3>. QED
      BY <1>0, <3>2, <3>3, HandlerStep
  <2>. QED
    BY <2>1, <2>2
<1>u. ASSUME NEW h \in Handlers, Unlisted(h)
      PROVE  Inv'
  <2>. PICK c : c = client[h]
    OBVIOUS
  <2>0. /\ c = client[h] /\ c \in Download /\ DownloadOK(c, bank.last, bank.signs)
        /\ c.step \in {"discover", "locate"}
    BY <1>0, <1>u DEF Unlisted
  <2>k. PICK k : k = Sent(c)
    OBVIOUS
  <2>1. /\ k \in Download /\ k.step = c.step /\ k.verdict = c.verdict
        /\ k.resumed = c.resumed /\ k.touchdown = c.touchdown /\ k.fetched = c.fetched
        /\ k.needsTan = c.needsTan /\ k.pages = c.pages
    BY <2>0, <2>k, SentFields
  <2>2. DownloadOK(k, bank.last, bank.signs) /\ k.step # "idle"
    BY <2>0, <2>1 DEF DownloadOK
  <2>3. /\ Concluded(k, "aborted") \in Download
        /\ DownloadOK(Concluded(k, "aborted"), bank.last, bank.signs)
    BY <1>0, <2>1, <2>2, ConcludedOK
  <2>4. Becomes(h, Concluded(k, "aborted")) /\ UNCHANGED <<stored, lost, overlapped>>
    BY <1>u, <2>0, <2>k DEF Unlisted
  <2>. QED
    BY <1>0, <2>3, <2>4, HandlerStep
<1>5. ASSUME NEW h \in Handlers, Unsigned(h)
      PROVE  Inv'
  <2>. PICK c : c = client[h]
    OBVIOUS
  <2>0. /\ c = client[h] /\ c \in Download /\ DownloadOK(c, bank.last, bank.signs)
        /\ c.step = "history" /\ bank.signs
    BY <1>0, <1>5 DEF Unsigned, FindsUnsigned, Continues
  <2>k. PICK k : k = Sent(c)
    OBVIOUS
  <2>1. /\ k \in Download /\ k.step = "history" /\ k.verdict = c.verdict
        /\ k.resumed = c.resumed /\ k.touchdown = c.touchdown /\ k.fetched = c.fetched
        /\ k.needsTan = c.needsTan /\ k.pages = c.pages
    BY <2>0, <2>k, SentFields
  <2>2. DownloadOK(k, bank.last, bank.signs)
    BY <2>0, <2>1 DEF DownloadOK
  <2>3. PICK d : d = IF c.needsTan = "unknown" THEN [k EXCEPT !.needsTan = "yes"]
                     ELSE Concluded(k, "complete")
    OBVIOUS
  <2>4. d \in Download /\ DownloadOK(d, bank.last, bank.signs)
    <3>1. CASE c.needsTan = "unknown"
      <4>1. /\ d \in Download /\ d.step = "history" /\ d.needsTan = "yes"
            /\ d.verdict = k.verdict /\ d.touchdown = k.touchdown
            /\ d.fetched = k.fetched /\ d.pages = k.pages
        BY <2>1, <2>3, <3>1 DEF Download
      <4>2. DownloadOK(d, bank.last, bank.signs)
        BY <2>0, <2>1, <2>2, <4>1 DEF DownloadOK
      <4>. QED
        BY <4>1, <4>2
    <3>2. CASE c.needsTan # "unknown"
      <4>1. k.step # "idle" /\ d = Concluded(k, "complete")
        BY <2>1, <2>3, <3>2
      <4>. QED
        BY <1>0, <2>1, <2>2, <4>1, ConcludedOK
    <3>. QED
      BY <3>1, <3>2
  <2>5. Becomes(h, d) /\ UNCHANGED <<stored, lost, overlapped>>
    BY <1>5, <2>0, <2>k, <2>3 DEF Unsigned
  <2>. QED
    BY <1>0, <2>4, <2>5, HandlerStep
<1>6. ASSUME NEW h \in Handlers, Challenged(h)
      PROVE  Inv'
  <2>. PICK c : c = client[h]
    OBVIOUS
  <2>0. c = client[h] /\ c \in Download /\ DownloadOK(c, bank.last, bank.signs) /\ c.step \in Orders
    BY <1>0, <1>6 DEF Challenged, Asks
  <2>1. CASE c.resumed
    <3>1. /\ \E d \in Without(Sent(c)) : Becomes(h, d)
          /\ UNCHANGED <<stored, lost, overlapped>>
      BY <1>6, <2>0, <2>1 DEF Challenged
    <3>2. PICK d \in Without(Sent(c)) : Becomes(h, d)
      BY <3>1
    <3>3. d \in Download /\ DownloadOK(d, bank.last, bank.signs)
      BY <1>0, <2>0, <3>2, WithoutOK
    <3>. QED
      BY <1>0, <3>1, <3>2, <3>3, HandlerStep
  <2>2. CASE ~c.resumed
    <3>1. Becomes(h, Fresh) /\ stored' = Suspended(Sent(c)) /\ UNCHANGED <<lost, overlapped>>
      BY <1>6, <2>0, <2>2 DEF Challenged
    <3>2. /\ stored'.status = "pending" /\ stored'.pages = <<>> /\ stored' \in Session
      <4>1. Sent(c).number \in Nat
        BY <2>0, SentFields DEF Download
      <4>. QED
        BY <3>1, <4>1, EmptyInOrder DEF Suspended, Session
    <3>3. SessionOK(stored', bank.last)
      BY <1>0, <3>2, EmptyInOrder, HistoryAssumption DEF SessionOK
    <3>. QED
      BY <1>0, <3>1, <3>2, <3>3, FreshOK, HandlerStep
  <2>. QED
    BY <2>1, <2>2
<1>7. ASSUME NEW h \in Handlers, StillWaiting(h)
      PROVE  Inv'
  <2>1. PICK n, b : n = Sent(client[h]).number /\ b = client[h].connected
    OBVIOUS
  <2>2. /\ Becomes(h, Fresh) /\ UNCHANGED <<lost, overlapped>>
        /\ stored' = [status |-> "pending", number |-> n, connected |-> b, pages |-> <<>>]
    BY <1>7, <2>1 DEF StillWaiting
  <2>3. n \in Nat /\ b \in BOOLEAN
    BY <1>0, <2>1, SentFields DEF Download
  <2>4. /\ stored' \in Session /\ stored'.status = "pending" /\ stored'.pages = <<>>
    BY <2>2, <2>3, EmptyInOrder DEF Session
  <2>5. SessionOK(stored', bank.last)
    BY <1>0, <2>4, EmptyInOrder, HistoryAssumption DEF SessionOK
  <2>. QED
    BY <1>0, <2>2, <2>4, <2>5, FreshOK, HandlerStep
<1>8. ASSUME NEW h \in Handlers, Approved(h)
      PROVE  Inv'
  <2>. PICK c : c = client[h]
    OBVIOUS
  <2>p. PICK p : p = bank.task.page
    OBVIOUS
  <2>0. c = client[h] /\ c \in Download /\ DownloadOK(c, bank.last, bank.signs) /\ c.step = "poll"
    BY <1>0, <1>8 DEF Approved, Tells
  <2>1. p \in {0, 1}
    BY <1>0, <1>8, <2>p, HistoryAssumption DEF Approved, Tells, TaskOK, Task
  <2>2. PICK d : d = AfterApproval(Sent(c), p)
    OBVIOUS
  <2>3. d \in Download /\ DownloadOK(d, bank.last, bank.signs)
    BY <1>0, <2>0, <2>1, <2>2, AfterApprovalOK
  <2>4. Becomes(h, d) /\ UNCHANGED <<stored, lost, overlapped>>
    BY <1>8, <2>0, <2>p, <2>2 DEF Approved
  <2>. QED
    BY <1>0, <2>3, <2>4, HandlerStep
<1>9. ASSUME NEW h \in Handlers, NEW v \in {"failed", "complete"},
             client[h].step = "poll",
             Becomes(h, Concluded(Sent(client[h]), v)), UNCHANGED <<stored, lost, overlapped>>
      PROVE  Inv'
  <2>. PICK c : c = client[h]
    OBVIOUS
  <2>0. c = client[h] /\ c \in Download /\ DownloadOK(c, bank.last, bank.signs) /\ c.step = "poll"
    BY <1>0, <1>9
  <2>k. PICK k : k = Sent(c)
    OBVIOUS
  <2>1. /\ k \in Download /\ k.step = "poll" /\ k.verdict = c.verdict
        /\ k.resumed = c.resumed /\ k.touchdown = c.touchdown /\ k.fetched = c.fetched
        /\ k.needsTan = c.needsTan /\ k.pages = c.pages
    BY <2>0, <2>k, SentFields
  <2>2. DownloadOK(k, bank.last, bank.signs)
    BY <2>0, <2>1 DEF DownloadOK
  <2>3. Concluded(k, v) \in Download /\ DownloadOK(Concluded(k, v), bank.last, bank.signs)
    <3>1. k.pages = <<>>
      BY <2>0, <2>1 DEF DownloadOK
    <3>. QED
      BY <1>0, <2>1, <2>2, <3>1, ConcludedOK
  <2>. QED
    BY <1>0, <1>9, <2>0, <2>k, <2>3, HandlerStep
<1>10. ASSUME NEW h \in Handlers, Refused(h)
       PROVE  Inv'
  <2>. PICK c : c = client[h]
    OBVIOUS
  <2>0. /\ c = client[h] /\ c \in Download /\ DownloadOK(c, bank.last, bank.signs)
        /\ c.step = "poll" \/ c.step \in Orders
        /\ UNCHANGED <<stored, lost, overlapped>>
    BY <1>0, <1>10 DEF Refused, Refuses, Download, Steps, Orders
  <2>1. CASE c.step = "poll"
    BY <1>9, <1>10, <2>0, <2>1 DEF Refused
  <2>2. CASE c.step # "poll"
    <3>1. PICK d \in Without(Sent(c)) : Becomes(h, d)
      BY <1>10, <2>0, <2>2 DEF Refused
    <3>2. d \in Download /\ DownloadOK(d, bank.last, bank.signs)
      BY <1>0, <2>0, <2>2, <3>1, WithoutOK
    <3>. QED
      BY <1>0, <2>0, <3>1, <3>2, HandlerStep
  <2>. QED
    BY <2>1, <2>2
<1>11. ASSUME NEW h \in Handlers, client[h].step \in {"hangup", "end"}, AfterEnd(h),
              lost' \in 0..MaxLost, UNCHANGED overlapped
       PROVE  Inv'
  BY <1>0, <1>11, AfterEndOK, HandlerStep
<1>12. ASSUME NEW h \in Handlers, Lose(h)
       PROVE  Inv'
  <2>. PICK c : c = client[h]
    OBVIOUS
  <2>0. /\ c = client[h] /\ c \in Download /\ DownloadOK(c, bank.last, bank.signs)
        /\ c.step # "idle" /\ lost' \in 0..MaxLost /\ UNCHANGED overlapped
    BY <1>0, <1>12, HistoryAssumption DEF Lose
  <2>1. CASE c.step \in {"hangup", "end"}
    BY <1>11, <1>12, <2>0, <2>1 DEF Lose
  <2>2. CASE c.step = "poll"
    BY <1>0, <1>12, <2>0, <2>2, FreshOK, HandlerStep DEF Lose
  <2>3. CASE c.step \in {"connect", "login"}
    <3>1. Becomes(h, Fresh) /\ stored' = [stored EXCEPT !.status = "failed"]
      BY <1>12, <2>0, <2>3 DEF Lose
    <3>2. stored' \in Session /\ stored'.status = "failed" /\ stored'.pages = stored.pages
      BY <1>0, <3>1 DEF Session
    <3>3. SessionOK(stored', bank.last)
      BY <1>0, <3>2 DEF SessionOK
    <3>. QED
      BY <1>0, <2>0, <3>1, <3>2, <3>3, FreshOK, HandlerStep
  <2>4. CASE c.step \notin {"hangup", "end", "poll", "connect", "login"}
    <3>1. Becomes(h, Concluded(c, "aborted")) /\ UNCHANGED stored
      BY <1>12, <2>0, <2>4 DEF Lose
    <3>2. Concluded(c, "aborted") \in Download
          /\ DownloadOK(Concluded(c, "aborted"), bank.last, bank.signs)
      BY <1>0, <2>0, ConcludedOK
    <3>. QED
      BY <1>0, <2>0, <3>1, <3>2, HandlerStep
  <2>. QED
    BY <2>1, <2>2, <2>3, <2>4
<1>13. ASSUME NEW h \in Handlers, Rejected(h)
       PROVE  Inv'
  BY <1>9, <1>13 DEF Rejected, Tells
<1>14. ASSUME NEW h \in Handlers, End(h)
       PROVE  Inv'
  BY <1>0, <1>11, <1>14 DEF End
<1>. QED
  BY <1>1, <1>2, <1>3, <1>4, <1>u, <1>5, <1>6, <1>7, <1>8, <1>10, <1>12, <1>13, <1>14
  DEF Next, Decide, Drop, vars

-----------------------------------------------------------------------------
(* Theorems *)

THEOREM InvHolds == Spec => []Inv
<1>. QED
  BY InvInit, InvNext, PTL DEF Spec

\* Whatever overlaps, gets lost or is asked twice, every download, session and
\* dialog keeps its type.
THEOREM HistoryTypeCorrect == Spec => []TypeOK
<1>1. Inv => TypeOK
  BY DEF Inv
<1>. QED
  BY <1>1, InvHolds, PTL

\* The feed that is handed out is a beginning of the history, each page once
\* and in its place, for any number of handlers, pages and challenges.
THEOREM FeedInOrder == Spec => []PagesInOrder
<1>1. Inv => PagesInOrder
  BY DEF Inv, SessionOK, PagesInOrder
<1>. QED
  BY <1>1, InvHolds, PTL

\* has_more is set only when the page limit cut the history off.
THEOREM HasMoreIsTrue == Spec => []PartialIsCut
<1>1. Inv => PartialIsCut
  BY DEF Inv, SessionOK, PartialIsCut
<1>. QED
  BY <1>1, InvHolds, PTL

\* No continuation of a history costs the user another approval.
THEOREM ContinuationsNeverAsk == Spec => ContinuationsAreFree
<1>1. Inv /\ [Next]_vars => [bank'.asked # bank.asked => bank'.task.page <= 1]_bank
  BY BankNext
<1>. QED
  BY <1>1, InvHolds, PTL DEF Spec, ContinuationsAreFree

=============================================================================
