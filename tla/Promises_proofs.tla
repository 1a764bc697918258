--------------------------- MODULE Promises_proofs ---------------------------
(***************************************************************************)
(* What may be concluded from the abstract specifications alone: by a      *)
(* consumer of the operations API, by an administrator of users, and by    *)
(* the reader of a feed of transactions.  Whatever implements them has     *)
(* these properties too.                                                   *)
(***************************************************************************)
EXTENDS OperationApi, UserLifecycle, HistoryFeed, TLAPS

-----------------------------------------------------------------------------
(* The operations API *)

Refused == {"expired", "missing", "forbidden"}
Statuses == {"pending", "completed", "failed"} \cup Refused

\* OneVerdict and OwnerOnly together with the types the step needs.
ApiInv ==
    /\ verdict \in [Operations -> {"open", "completed", "failed"}]
    /\ told \in [Operations -> [Consumers -> SUBSET Statuses]]
    /\ owner \in [Operations -> Consumers \cup {None}]
    /\ OneVerdict
    /\ OwnerOnly
    /\ \A o \in Operations : owner[o] = None => verdict[o] = "open"
    /\ None \notin Consumers

\* What telling c one more s changes in the history.
LEMMA TellsFacts ==
    ASSUME ApiInv, NEW o \in Operations, NEW c \in Consumers,
           NEW s \in Statuses, Tells(o, c, s)
    PROVE  /\ told' \in [Operations -> [Consumers -> SUBSET Statuses]]
           /\ told'[o][c] = told[o][c] \cup {s}
           /\ \A q \in Operations, d \in Consumers :
                 q # o \/ d # c => told'[q][d] = told[q][d]
  BY DEF ApiInv, Tells

\* Telling c something sayable keeps the consequences, when c owns o or hears a
\* refusal only.
LEMMA TellsInv ==
    ASSUME ApiInv, NEW o \in Operations, NEW c \in Consumers,
           NEW s \in Statuses, Tells(o, c, s),
           s \in {"completed", "failed"} => s = verdict[o],
           s \in Refused \/ owner[o] = c,
           s = "forbidden" => owner[o] \notin {None, c},
           UNCHANGED <<owner, verdict>>
    PROVE  ApiInv'
<1>1. /\ told' \in [Operations -> [Consumers -> SUBSET Statuses]]
      /\ told'[o][c] = told[o][c] \cup {s}
      /\ \A q \in Operations, d \in Consumers :
            q # o \/ d # c => told'[q][d] = told[q][d]
  BY TellsFacts
<1>2. OneVerdict'
  <2> SUFFICES ASSUME NEW q \in Operations, NEW d \in Consumers
               PROVE  told'[q][d] \cap {"completed", "failed"} \subseteq {verdict[q]}
    BY DEF OneVerdict
  <2>1. told[q][d] \cap {"completed", "failed"} \subseteq {verdict[q]}
    BY DEF ApiInv, OneVerdict
  <2>2. CASE q = o /\ d = c
    BY <1>1, <2>1, <2>2
  <2>3. CASE q # o \/ d # c
    BY <1>1, <2>1, <2>3
  <2> QED
    BY <2>2, <2>3
<1>3. OwnerOnly'
  <2> SUFFICES ASSUME NEW q \in Operations, NEW d \in Consumers
               PROVE  /\ owner[q] # d => told'[q][d] \subseteq Refused
                      /\ "forbidden" \in told'[q][d] => owner[q] \notin {None, d}
    BY DEF OwnerOnly, Refused
  <2>1. /\ owner[q] # d => told[q][d] \subseteq Refused
        /\ "forbidden" \in told[q][d] => owner[q] \notin {None, d}
    BY DEF ApiInv, OwnerOnly, Refused
  <2>2. CASE q = o /\ d = c
    BY <1>1, <2>1, <2>2
  <2>3. CASE q # o \/ d # c
    BY <1>1, <2>1, <2>3
  <2> QED
    BY <2>2, <2>3
<1> QED
  BY <1>1, <1>2, <1>3 DEF ApiInv

\* Starting an operation: it was nobody's, so everybody was refused before.
LEMMA SubmitInv ==
    ASSUME ApiInv, NEW o \in Operations, NEW c \in Consumers, Submit(o, c)
    PROVE  ApiInv'
<1>1. /\ told' \in [Operations -> [Consumers -> SUBSET Statuses]]
      /\ told'[o][c] = told[o][c] \cup {"pending"}
      /\ \A q \in Operations, d \in Consumers :
            q # o \/ d # c => told'[q][d] = told[q][d]
  BY TellsFacts DEF Submit, Statuses
<1>2. /\ owner[o] = None /\ owner'[o] = c /\ verdict' = verdict
      /\ owner' \in [Operations -> Consumers \cup {None}]
      /\ \A q \in Operations : q # o => owner'[q] = owner[q]
  BY DEF Submit, ApiInv
<1>3. OneVerdict'
  <2> SUFFICES ASSUME NEW q \in Operations, NEW d \in Consumers
               PROVE  told'[q][d] \cap {"completed", "failed"} \subseteq {verdict[q]}
    BY <1>2 DEF OneVerdict
  <2>1. told[q][d] \cap {"completed", "failed"} \subseteq {verdict[q]}
    BY DEF ApiInv, OneVerdict
  <2>2. CASE q = o /\ d = c
    BY <1>1, <2>1, <2>2
  <2>3. CASE q # o \/ d # c
    BY <1>1, <2>1, <2>3
  <2> QED
    BY <2>2, <2>3
<1>4. OwnerOnly'
  <2> SUFFICES ASSUME NEW q \in Operations, NEW d \in Consumers
               PROVE  /\ owner'[q] # d => told'[q][d] \subseteq Refused
                      /\ "forbidden" \in told'[q][d] => owner'[q] \notin {None, d}
    BY DEF OwnerOnly, Refused
  <2>1. /\ owner[q] # d => told[q][d] \subseteq Refused
        /\ "forbidden" \in told[q][d] => owner[q] \notin {None, d}
    BY DEF ApiInv, OwnerOnly, Refused
  <2>2. CASE q # o
    BY <1>1, <1>2, <2>1, <2>2
  <2>3. CASE q = o
    <3>1. "forbidden" \notin told[q][d]
      BY <1>2, <2>1, <2>3
    <3>2. owner[q] # d
      BY <1>2, <2>3 DEF ApiInv
    <3> QED
      BY <1>1, <1>2, <2>1, <2>3, <3>1, <3>2
  <2> QED
    BY <2>2, <2>3
<1> QED
  BY <1>1, <1>2, <1>3, <1>4 DEF ApiInv

\* The verdict falls once: it was open, so no other verdict was told.
LEMMA SettleInv ==
    ASSUME ApiInv, NEW o \in Operations, NEW v \in {"completed", "failed"}, Settle(o, v)
    PROVE  ApiInv'
<1>1. /\ verdict[o] = "open" /\ verdict'[o] = v /\ owner' = owner
      /\ owner[o] \in Consumers
      /\ verdict' \in [Operations -> {"open", "completed", "failed"}]
      /\ \A q \in Operations : q # o => verdict'[q] = verdict[q]
  BY DEF Settle, ApiInv
<1>2. /\ told' \in [Operations -> [Consumers -> SUBSET Statuses]]
      /\ told'[o][owner[o]] \subseteq told[o][owner[o]] \cup {v}
      /\ \A q \in Operations, d \in Consumers :
            q # o \/ d # owner[o] => told'[q][d] = told[q][d]
  <2>1. CASE UNCHANGED told
    BY <1>1, <2>1 DEF ApiInv
  <2>2. CASE Tells(o, owner[o], v)
    BY <1>1, <2>2, TellsFacts DEF Statuses
  <2> QED
    BY <2>1, <2>2 DEF Settle
<1>3. OneVerdict'
  <2> SUFFICES ASSUME NEW q \in Operations, NEW d \in Consumers
               PROVE  told'[q][d] \cap {"completed", "failed"} \subseteq {verdict'[q]}
    BY DEF OneVerdict
  <2>1. told[q][d] \cap {"completed", "failed"} \subseteq {verdict[q]}
    BY DEF ApiInv, OneVerdict
  <2>2. CASE q = o /\ d = owner[o]
    BY <1>1, <1>2, <2>1, <2>2
  <2>3. CASE q = o /\ d # owner[o]
    BY <1>1, <1>2, <2>1, <2>3
  <2>4. CASE q # o
    BY <1>1, <1>2, <2>1, <2>4
  <2> QED
    BY <2>2, <2>3, <2>4
<1>4. OwnerOnly'
  BY <1>1, <1>2 DEF ApiInv, OwnerOnly
<1> QED
  BY <1>1, <1>2, <1>3, <1>4 DEF ApiInv

\* A consumer that was told a verdict knows the verdict for good, and whoever
\* did not start the operation was refused.
THEOREM ApiConsequences ==
    ASSUME None \notin Consumers
    PROVE  ApiSpec => [](OneVerdict /\ OwnerOnly)
<1>1. ApiInit => ApiInv
  BY DEF ApiInit, ApiInv, OneVerdict, OwnerOnly, Statuses
<1>2. ASSUME ApiInv, [ApiNext]_apiVars PROVE ApiInv'
  <2>1. CASE UNCHANGED apiVars
    BY <1>2, <2>1 DEF apiVars, ApiInv, OneVerdict, OwnerOnly
  <2>2. ASSUME NEW o \in Operations, NEW c \in Consumers, Inform(o, c)
        PROVE  ApiInv'
    <3>1. PICK s \in Sayable(verdict[o]) : Tells(o, c, s)
      BY <2>2 DEF Inform
    <3>2. /\ s \in Statuses /\ s # "forbidden"
          /\ s \in {"completed", "failed"} => s = verdict[o]
      BY <1>2, <3>1 DEF Sayable, Statuses, Refused, ApiInv
    <3> QED
      BY <1>2, <2>2, <3>1, <3>2, TellsInv DEF Inform
  <2>3. ASSUME NEW o \in Operations, NEW c \in Consumers, Refuse(o, c)
        PROVE  ApiInv'
    BY <1>2, <2>3, TellsInv DEF Refuse, Statuses, Refused
  <2>4. ASSUME NEW o \in Operations, NEW c \in Consumers, Forbid(o, c)
        PROVE  ApiInv'
    BY <1>2, <2>4, TellsInv DEF Forbid, Statuses, Refused
  <2> QED
    BY <1>2, <2>1, <2>2, <2>3, <2>4, SubmitInv, SettleInv DEF ApiNext
<1>3. ApiInv => OneVerdict /\ OwnerOnly
  BY DEF ApiInv
<1> QED
  BY <1>1, <1>2, <1>3, PTL DEF ApiSpec

-----------------------------------------------------------------------------
(* The life cycle of a user *)

LifeStatus == {"none", "active", "disabled", "deleted"}

\* 0 is no key.
LifeInv ==
    /\ status \in [Users -> LifeStatus]
    /\ key \in [Users -> Keys \cup {0}]
    /\ spent \subseteq Keys
    /\ 0 \notin spent
    /\ \A u \in Users : key[u] # 0 => key[u] \in spent
    /\ \A u, v \in Users : key[u] = key[v] /\ key[u] # 0 => u = v

\* What issuing a key changes.
LEMMA IssueFacts ==
    ASSUME LifeInv, NEW u \in Users, NEW k \in Keys, NEW from, NEW to \in LifeStatus,
           Issue(u, k, from, to)
    PROVE  /\ status' \in [Users -> LifeStatus] /\ status'[u] = to
           /\ key' \in [Users -> Keys \cup {0}] /\ key'[u] = k
           /\ \A v \in Users : v # u => status'[v] = status[v] /\ key'[v] = key[v]
           /\ spent' = spent \cup {k} /\ k \notin spent /\ k # 0
           /\ status[u] \in from
BY DEF LifeInv, Issue

\* A step is the issue of a key or a change of one user's status.
LEMMA LifeStep ==
    ASSUME LifeInv, LifeNext
    PROVE  \E u \in Users :
              /\ status[u] # "deleted"
              /\ \A v \in Users : v # u => status'[v] = status[v] /\ key'[v] = key[v]
              /\ status' \in [Users -> LifeStatus] /\ key' \in [Users -> Keys \cup {0}]
              /\ \/ spent' = spent /\ key'[u] \in {key[u], 0}
                 \/ /\ spent' = spent \cup {key'[u]} /\ key'[u] \in Keys \ spent
                    /\ key'[u] # 0
<1>1. ASSUME NEW u \in Users, Disable(u) \/ Delete(u)
      PROVE  /\ status[u] # "deleted" /\ spent' = spent /\ key'[u] \in {key[u], 0}
             /\ \A v \in Users : v # u => status'[v] = status[v] /\ key'[v] = key[v]
             /\ status' \in [Users -> LifeStatus] /\ key' \in [Users -> Keys \cup {0}]
  BY <1>1 DEF Disable, Delete, LifeInv, LifeStatus
<1>2. ASSUME NEW u \in Users, NEW k \in Keys,
             Register(u, k) \/ Reactivate(u, k) \/ Rotate(u, k)
      PROVE  /\ status[u] # "deleted"
             /\ \A v \in Users : v # u => status'[v] = status[v] /\ key'[v] = key[v]
             /\ status' \in [Users -> LifeStatus] /\ key' \in [Users -> Keys \cup {0}]
             /\ spent' = spent \cup {key'[u]} /\ key'[u] \in Keys \ spent /\ key'[u] # 0
  <2>1. PICK from, to : Issue(u, k, from, to) /\ to \in LifeStatus /\ "deleted" \notin from
    BY <1>2 DEF Register, Reactivate, Rotate, LifeInv, LifeStatus
  <2>. QED
    BY <2>1, IssueFacts
<1>. QED
  BY <1>1, <1>2 DEF LifeNext

LEMMA LifeInvNext == LifeInv /\ [LifeNext]_lifeVars => LifeInv'
<1>. SUFFICES ASSUME LifeInv, [LifeNext]_lifeVars PROVE LifeInv'
  OBVIOUS
<1>1. CASE UNCHANGED lifeVars
  BY <1>1 DEF LifeInv, lifeVars
<1>2. CASE LifeNext
  <2>1. PICK u \in Users :
           /\ \A v \in Users : v # u => status'[v] = status[v] /\ key'[v] = key[v]
           /\ status' \in [Users -> LifeStatus] /\ key' \in [Users -> Keys \cup {0}]
           /\ \/ spent' = spent /\ key'[u] \in {key[u], 0}
              \/ /\ spent' = spent \cup {key'[u]} /\ key'[u] \in Keys \ spent
                 /\ key'[u] # 0
    BY <1>2, LifeStep
  <2>. QED
    BY <2>1 DEF LifeInv
<1>. QED
  BY <1>1, <1>2

\* A deleted user stays deleted without a key, a key that was replaced or
\* removed never comes back, and no two users share one.
THEOREM LifecycleConsequences ==
    LifeSpec => DeletionIsFinal /\ KeysNeverReturn /\ []KeysAreOwn
<1>1. LifeInit => LifeInv
  BY DEF LifeInit, LifeInv, LifeStatus
<1>2. LifeInv /\ [LifeNext]_lifeVars =>
         [\A u \in Users : status[u] = "deleted" =>
                status'[u] = "deleted" /\ key'[u] = key[u]]_lifeVars
  BY LifeStep
<1>3. LifeInv /\ [LifeNext]_lifeVars =>
         [\A u \in Users : key'[u] # key[u] => key'[u] \notin spent]_lifeVars
  <2>. SUFFICES ASSUME LifeInv, LifeNext, NEW u \in Users, key'[u] # key[u]
                PROVE  key'[u] \notin spent
    OBVIOUS
  <2>. QED
    BY LifeStep DEF LifeInv
<1>4. LifeInv => KeysAreOwn
  BY DEF LifeInv, KeysAreOwn
<1>. QED
  BY <1>1, <1>2, <1>3, <1>4, LifeInvNext, PTL DEF LifeSpec, DeletionIsFinal, KeysNeverReturn

-----------------------------------------------------------------------------
(* The feed of transactions *)

Phases == {"none", "pending", "complete", "partial", "failed"}

HonestInv ==
    /\ last \in Nat
    /\ phase \in Phases
    /\ HonestFeed

LEMMA BeginningOf ==
    ASSUME NEW n \in Nat
    PROVE  Len(Beginning(n)) = n /\ \A i \in 1..Len(Beginning(n)) : Beginning(n)[i] = i
<1>1. Beginning(n) \in Seq(Nat) /\ Len(Beginning(n)) = n
  BY DEF Beginning
<1>. QED
  BY <1>1 DEF Beginning

LEMMA HonestInvNext ==
    ASSUME MaxPages \in Nat, HonestInv, [FeedNext]_feedVars
    PROVE  HonestInv'
<1>1. CASE UNCHANGED feedVars
  BY <1>1 DEF HonestInv, HonestFeed, feedVars
<1>2. CASE FeedNext
  <2>1. last' = last /\ (overlapped => overlapped') /\ (again => again') /\ (denied => denied') /\ last \in Nat
    BY <1>2 DEF FeedNext, HonestInv
  <2>2. CASE UNCHANGED <<phase, pages>>
    BY <2>1, <2>2 DEF HonestInv, HonestFeed
  <2>3. CASE Wait \/ Fail
    <3>1. phase' \in {"pending", "failed"} /\ pages' = <<>>
      BY <2>3 DEF Wait, Fail
    <3>. QED
      BY <2>1, <3>1 DEF HonestInv, HonestFeed, Phases
  <2>4. CASE Complete
    <3>1. PICK n \in 0..last : /\ pages' = Beginning(n) /\ phase' = "complete"
                               /\ n = last \/ overlapped' \/ again' \/ denied'
      BY <2>4 DEF Complete, Deliver
    <3>2. n \in Nat
      BY <2>1, <3>1
    <3>3. Len(pages') = n /\ \A i \in 1..Len(pages') : pages'[i] = i
      BY <3>1, <3>2, BeginningOf
    <3>. QED
      BY <2>1, <3>1, <3>3 DEF HonestInv, HonestFeed, Phases
  <2>5. CASE Cut
    <3>1. PICK n \in MaxPages..last : pages' = Beginning(n) /\ phase' = "partial" /\ n < last
      BY <2>5 DEF Cut, Deliver
    <3>2. n \in Nat /\ n >= MaxPages
      BY <2>1, <3>1
    <3>3. Len(pages') = n /\ \A i \in 1..Len(pages') : pages'[i] = i
      BY <3>1, <3>2, BeginningOf
    <3>. QED
      BY <2>1, <3>1, <3>2, <3>3 DEF HonestInv, HonestFeed, Phases
  <2>. QED
    BY <1>2, <2>2, <2>3, <2>4, <2>5 DEF FeedNext
<1>. QED
  BY <1>1, <1>2

\* A reader of the feed who polls in turn sees one result, which never changes;
\* it is the whole history or says that it is not, page by page in order, and
\* shows nothing before the operation succeeded.
THEOREM FeedConsequences ==
    ASSUME Pages \in Nat, MaxPages \in Nat
    PROVE  FeedSpec => OneFeed /\ []HonestFeed
<1>1. FeedInit => HonestInv
  <2>. SUFFICES ASSUME FeedInit PROVE HonestInv
    OBVIOUS
  <2>1. Len(<<>>) = 0
    OBVIOUS
  <2>. QED
    BY <2>1 DEF FeedInit, HonestInv, HonestFeed, Phases
<1>2. HonestInv /\ [FeedNext]_feedVars => HonestInv'
  BY HonestInvNext
<1>3. HonestInv => HonestFeed
  BY DEF HonestInv
<1>4. [FeedNext]_feedVars =>
         [phase \notin {"none", "pending"} /\ ~overlapped => UNCHANGED <<phase, pages>>]_feedVars
  BY DEF FeedNext, Open
<1>. QED
  BY <1>1, <1>2, <1>3, <1>4, PTL DEF FeedSpec, OneFeed
=============================================================================
