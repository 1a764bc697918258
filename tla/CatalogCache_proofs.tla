------------------------ MODULE CatalogCache_proofs ------------------------
(***************************************************************************)
(* Proofs about CatalogCache, whatever goes wrong.  SafeInv is about the   *)
(* life of the process and its refreshes; FreshInv carries the argument    *)
(* that the last catalog is never forgotten but by a fault: it is followed *)
(* from the commit to the announcement, the refresh and the load.          *)
(***************************************************************************)
EXTENDS CatalogCache, TLAPS

\* A refresh lives in a slot that is not Free, with what it saw so far.
SlotInv(t) ==
    /\ refresh[t].pc = "idle" => refresh[t] = Free
    /\ refresh[t].since <= db
    /\ refresh[t].read <= db
    /\ refresh[t].pc = "answered" =>
          refresh[t].read >= refresh[t].since /\ refresh[t].read >= booted
    /\ t = Warm /\ refresh[t] # Free => phase = "warming"

\* While stop() waits, it waits for every task there is, and none is added.
LifecycleInv ==
    /\ phase \in {"down", "stopped"} => \A t \in Slots : refresh[t] = Free
    /\ phase \in {"down", "waiting", "stopped"} => runner = "none" /\ inbox = {}
    /\ phase = "waiting" => \A t \in Slots : refresh[t] # Free => t \in awaited
    /\ phase = "starting" => runner = "connecting" /\ refresh[Warm] = Free

SafeInv ==
    /\ TypeOK
    /\ db >= 1 /\ booted <= db
    /\ \A a \in Admins : unsaid[a] <= db
    /\ \A v \in inbox : v <= db
    /\ \A t \in Slots : SlotInv(t)
    /\ LifecycleInv
    /\ ServesBootCatalog

\* The last catalog is loaded, or on its way, or a fault is to blame.
FreshInv ==
    /\ newest <= db
    /\ phase \in {"warming", "serving"} =>
          runner \in {"listening", "reconnecting", "backoff"}
    /\ phase \in {"warming", "serving"} => newest = db \/ Outstanding \/ missed

-----------------------------------------------------------------------------
\* A refresh put into a slot is there, and nowhere else.
LEMMA PutFacts ==
    ASSUME TypeOK, NEW t \in Slots, NEW r \in Refresh,
           refresh' = [refresh EXCEPT ![t] = r]
    PROVE  /\ refresh' \in [Slots -> Refresh]
           /\ refresh'[t] = r
           /\ \A u \in Slots : u # t => refresh'[u] = refresh[u]
  BY DEF TypeOK

\* A free slot, field by field.
LEMMA FreeFacts ==
    /\ Free \in Refresh
    /\ Free.pc = "idle" /\ Free.since = 0 /\ Free.read = 0
  BY DEF Free, Refresh

\* A refresh that has just been asked for, field by field.
LEMMA AskedFacts ==
    ASSUME NEW v \in Nat, NEW r, r = [pc |-> "asked", since |-> v, read |-> 0]
    PROVE  /\ r \in Refresh /\ r # Free
           /\ r.pc = "asked" /\ r.since = v /\ r.read = 0
  BY DEF Refresh, Free

\* Whatever ends the process leaves nothing that could break the invariant.
LEMMA GoneSafe ==
    ASSUME SafeInv, Gone, UNCHANGED <<db, unsaid, booted>>
    PROVE  SafeInv'
<1>1. refresh' \in [Slots -> Refresh] /\ \A t \in Slots : refresh'[t] = Free
  BY FreeFacts DEF Gone
<1>2. TypeOK'
  BY <1>1 DEF SafeInv, TypeOK, Gone
<1>3. \A t \in Slots : SlotInv(t)'
  BY <1>1, FreeFacts DEF SafeInv, TypeOK, SlotInv, Gone
<1>4. LifecycleInv' /\ ServesBootCatalog'
  BY <1>1 DEF Gone, LifecycleInv, ServesBootCatalog
<1> QED
  BY <1>2, <1>3, <1>4 DEF SafeInv, Gone

\* The admin tool never announces what it has not committed.
LEMMA AdminSafe ==
    ASSUME SafeInv, NEW a \in Admins, Replace(a) \/ Notify(a) \/ AdminDies(a)
    PROVE  SafeInv'
<1>1. /\ db' \in Nat /\ db <= db'
      /\ unsaid' \in [Admins -> Nat]
      /\ \A b \in Admins : unsaid'[b] <= db'
      /\ inbox' \subseteq Nat
      /\ \A v \in inbox' : v <= db'
      /\ inbox' # inbox => runner = "listening"
      /\ UNCHANGED gateway
  <2>1. CASE Replace(a)
    BY <2>1 DEF SafeInv, TypeOK, Replace
  <2>2. CASE Notify(a)
    <3>1. unsaid[a] \in Nat /\ unsaid[a] <= db
      BY DEF SafeInv, TypeOK
    <3>2. inbox' = inbox \/ (runner = "listening" /\ inbox' = inbox \cup {unsaid[a]})
      BY <2>2 DEF Notify
    <3>3. inbox' \subseteq Nat /\ \A v \in inbox' : v <= db
      BY <3>1, <3>2 DEF SafeInv, TypeOK
    <3>4. unsaid' \in [Admins -> Nat] /\ \A b \in Admins : unsaid'[b] <= db
      BY <2>2 DEF SafeInv, TypeOK, Notify
    <3> QED
      BY <2>2, <3>2, <3>3, <3>4 DEF SafeInv, TypeOK, Notify
  <2>3. CASE AdminDies(a)
    BY <2>3 DEF SafeInv, TypeOK, AdminDies
  <2> QED
    BY <2>1, <2>2, <2>3
<1>2. TypeOK'
  <2>1. missed' \in BOOLEAN
    BY DEF SafeInv, TypeOK, Replace, Notify, AdminDies
  <2> QED
    BY <1>1, <2>1 DEF SafeInv, TypeOK, gateway
<1>3. \A t \in Slots : SlotInv(t)'
  <2> SUFFICES ASSUME NEW t \in Slots PROVE SlotInv(t)'
    OBVIOUS
  <2>1. refresh[t].since \in Nat /\ refresh[t].read \in Nat
    BY DEF SafeInv, TypeOK, Refresh
  <2> QED
    BY <1>1, <2>1 DEF SafeInv, TypeOK, SlotInv, gateway
<1>4. LifecycleInv' /\ ServesBootCatalog'
  BY <1>1 DEF SafeInv, LifecycleInv, ServesBootCatalog, gateway
<1> QED
  BY <1>1, <1>2, <1>3, <1>4 DEF SafeInv, TypeOK, gateway

\* The listener's connection, before and after the first success.
LEMMA ListenerSafe ==
    ASSUME SafeInv, Boot \/ Connected \/ ConnectFails \/ BackoffOver \/ Disconnect
             \/ RunnerStops
    PROVE  SafeInv'
<1>1. CASE Boot
  <2>1. TypeOK'
    BY <1>1 DEF SafeInv, TypeOK, Boot
  <2>2. \A t \in Slots : SlotInv(t)'
    BY <1>1, FreeFacts DEF SafeInv, TypeOK, LifecycleInv, SlotInv, Boot
  <2>3. LifecycleInv' /\ ServesBootCatalog'
    BY <1>1, CatalogAssumption DEF SafeInv, LifecycleInv, ServesBootCatalog, Boot
  <2> QED
    BY <1>1, <2>1, <2>2, <2>3 DEF SafeInv, TypeOK, Boot
<1>2. CASE Connected /\ phase = "starting"
  <2> DEFINE r == [pc |-> "asked", since |-> db, read |-> 0]
  <2>1. r \in Refresh /\ r.pc = "asked" /\ r.since = db /\ r.read = 0
    BY AskedFacts DEF SafeInv, TypeOK
  <2> HIDE DEF r
  <2>2. /\ refresh' \in [Slots -> Refresh] /\ refresh'[Warm] = r
        /\ \A u \in Slots : u # Warm => refresh'[u] = refresh[u]
    BY <1>2, <2>1, PutFacts, CatalogAssumption DEF SafeInv, Connected, Warms, r
  <2>3. TypeOK'
    BY <1>2, <2>2 DEF SafeInv, TypeOK, Connected, Warms
  <2>4. \A t \in Slots : SlotInv(t)'
    <3> SUFFICES ASSUME NEW t \in Slots PROVE SlotInv(t)'
      OBVIOUS
    <3>1. CASE t = Warm
      BY <1>2, <2>1, <2>2, <3>1 DEF SafeInv, TypeOK, SlotInv, Connected
    <3>2. CASE t # Warm
      BY <1>2, <2>2, <3>2 DEF SafeInv, SlotInv, Connected
    <3> QED
      BY <3>1, <3>2
  <2>5. LifecycleInv' /\ ServesBootCatalog'
    BY <1>2 DEF LifecycleInv, ServesBootCatalog, Connected
  <2> QED
    BY <1>2, <2>3, <2>4, <2>5 DEF SafeInv, Connected
<1>3. CASE (Connected /\ phase # "starting") \/ BackoffOver \/ Disconnect
            \/ (ConnectFails /\ phase # "starting") \/ RunnerStops
  <2>1. /\ UNCHANGED <<db, unsaid, phase, refresh, cache, awaited, booted, newest>>
        /\ runner' \in {"none", "reconnecting", "listening", "backoff"}
        /\ runner # "none"
        /\ inbox' \subseteq inbox
        /\ phase # "starting" \/ runner # "connecting"
        /\ missed' \in BOOLEAN
    BY <1>3 DEF SafeInv, TypeOK, Connected, BackoffOver, Disconnect, ConnectFails, RunnerStops
  <2>2. TypeOK' /\ \A t \in Slots : SlotInv(t)'
    BY <2>1 DEF SafeInv, TypeOK, SlotInv
  <2>3. LifecycleInv' /\ ServesBootCatalog'
    BY <2>1 DEF SafeInv, LifecycleInv, ServesBootCatalog
  <2> QED
    BY <2>1, <2>2, <2>3 DEF SafeInv
<1>4. CASE ConnectFails /\ phase = "starting"
  BY <1>4, GoneSafe DEF ConnectFails
<1> QED
  BY <1>1, <1>2, <1>3, <1>4

\* The refreshes: each step moves one slot along.
LEMMA RefreshSafe ==
    ASSUME SafeInv, NEW t \in Slots,
           Deliver(t) \/ Answered(t) \/ QueryFails(t) \/ Load(t)
    PROVE  SafeInv'
<1> DEFINE Moves(r) ==
        /\ r \in Refresh
        /\ refresh'[t] = r
        /\ refresh' \in [Slots -> Refresh]
        /\ \A u \in Slots : u # t => refresh'[u] = refresh[u]
<1>0. refresh[t] \in Refresh /\ Free \in Refresh
  BY FreeFacts DEF SafeInv, TypeOK
<1>1. CASE Deliver(t)
  <2>1. PICK v \in inbox :
           /\ inbox' = inbox \ {v}
           /\ refresh' = [refresh EXCEPT
                             ![t] = [pc |-> "asked", since |-> v, read |-> 0]]
    BY <1>1 DEF Deliver
  <2> DEFINE r == [pc |-> "asked", since |-> v, read |-> 0]
  <2>2. v \in Nat /\ v <= db
    BY DEF SafeInv, TypeOK
  <2>3. r \in Refresh /\ r.pc = "asked" /\ r.since = v /\ r.read = 0
    BY <2>2, AskedFacts
  <2> HIDE DEF r
  <2>4. Moves(r)
    BY <2>1, <2>3, PutFacts DEF SafeInv, r
  <2>5. TypeOK'
    BY <1>1, <2>1, <2>4 DEF SafeInv, TypeOK, Deliver
  <2>6. \A u \in Slots : SlotInv(u)'
    <3> SUFFICES ASSUME NEW u \in Slots PROVE SlotInv(u)'
      OBVIOUS
    <3>1. CASE u = t
      BY <1>1, <2>2, <2>3, <2>4, <3>1 DEF SafeInv, TypeOK, SlotInv, Deliver
    <3>2. CASE u # t
      BY <1>1, <2>4, <3>2 DEF SafeInv, SlotInv, Deliver
    <3> QED
      BY <3>1, <3>2
  <2>7. LifecycleInv' /\ ServesBootCatalog'
    BY <1>1, <2>4, CatalogAssumption
       DEF SafeInv, LifecycleInv, ServesBootCatalog, Deliver
  <2> QED
    BY <1>1, <2>1, <2>5, <2>6, <2>7 DEF SafeInv, Deliver
<1>2. CASE Answered(t)
  <2> DEFINE r == [refresh[t] EXCEPT !.pc = "answered", !.read = db]
  <2>1. /\ r \in Refresh /\ r.pc = "answered" /\ r.read = db
        /\ r.since = refresh[t].since
    BY <1>0 DEF SafeInv, TypeOK, Refresh
  <2> HIDE DEF r
  <2>2. refresh' = [refresh EXCEPT ![t] = r]
    BY <1>2 DEF Answered, SafeInv, TypeOK, r
  <2>3. Moves(r)
    BY <2>1, <2>2, PutFacts DEF SafeInv
  <2>4. TypeOK'
    BY <1>2, <2>3 DEF SafeInv, TypeOK, Answered
  <2>5. \A u \in Slots : SlotInv(u)'
    <3> SUFFICES ASSUME NEW u \in Slots PROVE SlotInv(u)'
      OBVIOUS
    <3>1. CASE u = t
      BY <1>2, <2>1, <2>3, <3>1, FreeFacts DEF SafeInv, TypeOK, SlotInv, Answered
    <3>2. CASE u # t
      BY <1>2, <2>3, <3>2 DEF SafeInv, SlotInv, Answered
    <3> QED
      BY <3>1, <3>2
  <2>6. refresh[t] # Free
    BY <1>2, FreeFacts DEF Answered
  <2>7. LifecycleInv' /\ ServesBootCatalog'
    BY <1>2, <2>3, <2>6, CatalogAssumption
       DEF SafeInv, LifecycleInv, ServesBootCatalog, Answered
  <2> QED
    BY <1>2, <2>4, <2>5, <2>7 DEF SafeInv, Answered
<1>3. CASE QueryFails(t) /\ t = Warm
  BY <1>3, GoneSafe DEF QueryFails
<1>4. CASE (QueryFails(t) /\ t # Warm) \/ Load(t)
  <2>1. /\ refresh' = [refresh EXCEPT ![t] = Free]
        /\ UNCHANGED <<db, unsaid, inbox, runner, booted>>
        /\ refresh[t] # Free
    BY <1>4, FreeFacts DEF QueryFails, Load
  <2>2. Moves(Free)
    BY <1>0, <2>1, PutFacts DEF SafeInv
  <2>3. /\ cache' \in Nat
        /\ newest' \in Nat /\ missed' \in BOOLEAN /\ awaited' = awaited
        /\ phase' = phase \/ (t = Warm /\ phase = "warming" /\ phase' = "serving")
        /\ ServesBootCatalog'
    <3>1. CASE QueryFails(t) /\ t # Warm
      <4>1. missed' \in BOOLEAN
        BY <3>1 DEF SafeInv, TypeOK, QueryFails
      <4> QED
        BY <2>1, <3>1, <4>1 DEF SafeInv, TypeOK, ServesBootCatalog, QueryFails
    <3>2. CASE Load(t)
      <4>1. refresh[t].read \in Nat /\ refresh[t].read >= booted
        BY <1>0, <3>2 DEF SafeInv, SlotInv, Load, Refresh
      <4>2. t = Warm => phase = "warming"
        BY <2>1 DEF SafeInv, SlotInv
      <4> QED
        BY <2>1, <3>2, <4>1, <4>2 DEF SafeInv, TypeOK, Load, ServesBootCatalog
    <3> QED
      BY <1>4, <3>1, <3>2
  <2>4. TypeOK'
    BY <2>1, <2>2, <2>3 DEF SafeInv, TypeOK
  <2>5. \A u \in Slots : SlotInv(u)'
    <3> SUFFICES ASSUME NEW u \in Slots PROVE SlotInv(u)'
      OBVIOUS
    <3>1. CASE u = t
      BY <2>1, <2>2, <3>1, FreeFacts DEF SafeInv, TypeOK, SlotInv
    <3>2. CASE u # t
      BY <2>1, <2>2, <2>3, <3>2 DEF SafeInv, SlotInv
    <3> QED
      BY <3>1, <3>2
  <2>6. LifecycleInv'
    <3>1. \A u \in Slots : refresh'[u] # Free => refresh[u] # Free
      BY <2>1, <2>2
    <3> QED
      BY <2>1, <2>2, <2>3, <3>1, CatalogAssumption DEF SafeInv, LifecycleInv
  <2> QED
    BY <2>1, <2>3, <2>4, <2>5, <2>6 DEF SafeInv
<1> QED
  BY <1>1, <1>2, <1>3, <1>4

\* The end of the process, in order or not.
LEMMA EndSafe ==
    ASSUME SafeInv, Shutdown \/ Closed \/ CloseRaises \/ Awaited \/ Exit \/ Crash
    PROVE  SafeInv'
<1>1. CASE Shutdown \/ Closed \/ CloseRaises \/ Awaited
  <2>1. /\ UNCHANGED <<db, unsaid, refresh, cache, booted, newest, missed>>
        /\ phase \in {"serving", "closing", "waiting"} /\ phase' \in StopSet
        /\ inbox' \subseteq inbox /\ runner' \in {runner, "none"}
        /\ awaited' \subseteq Slots
    BY <1>1 DEF SafeInv, TypeOK, Shutdown, Closed, CloseRaises, Awaited, StopSet
  <2>2. refresh[Warm] = Free
    BY <2>1, CatalogAssumption DEF SafeInv, SlotInv
  <2>3. TypeOK' /\ ServesBootCatalog'
    BY <2>1 DEF SafeInv, TypeOK, ServesBootCatalog, StopSet
  <2>4. LifecycleInv'
    BY <1>1 DEF SafeInv, LifecycleInv, Shutdown, Closed, CloseRaises, Awaited
  <2>5. \A t \in Slots : SlotInv(t)'
    BY <2>1, <2>2 DEF SafeInv, SlotInv
  <2> QED
    BY <2>1, <2>3, <2>4, <2>5 DEF SafeInv
<1>2. CASE Exit \/ Crash
  BY <1>2, GoneSafe DEF Exit, Crash
<1> QED
  BY <1>1, <1>2

\* SafeInv is inductive.
LEMMA NextSafe == SafeInv /\ [Next]_vars => SafeInv'
<1> SUFFICES ASSUME SafeInv, [Next]_vars PROVE SafeInv'
  OBVIOUS
<1>1. CASE UNCHANGED vars
  BY <1>1 DEF vars, SafeInv, TypeOK, SlotInv, LifecycleInv, ServesBootCatalog
<1> QED
  BY <1>1, AdminSafe, ListenerSafe, RefreshSafe, EndSafe DEF Next

\* Whatever goes wrong, the invariant holds.
THEOREM SafeHolds == Spec => []SafeInv
<1>1. Init => SafeInv
  <2> SUFFICES ASSUME Init PROVE SafeInv
    OBVIOUS
  <2>1. TypeOK
    BY FreeFacts DEF Init, TypeOK
  <2>2. \A t \in Slots : SlotInv(t)
    BY FreeFacts DEF Init, SlotInv
  <2>3. LifecycleInv /\ ServesBootCatalog
    BY DEF Init, LifecycleInv, ServesBootCatalog
  <2> QED
    BY <2>1, <2>2, <2>3 DEF Init, SafeInv
<1> QED
  BY <1>1, NextSafe, PTL DEF Spec

\* Every variable stays in its type.
THEOREM CatalogTypeCorrect == Spec => []TypeOK
<1>1. SafeInv => TypeOK
  BY DEF SafeInv
<1> QED
  BY <1>1, SafeHolds, PTL

\* No refresh reads a catalog older than the one that was announced to it.
THEOREM RefreshesSeeTheirCatalog == Spec => []RefreshSeesItsCatalog
<1>1. SafeInv => RefreshSeesItsCatalog
  BY DEF SafeInv, SlotInv, RefreshSeesItsCatalog
<1> QED
  BY <1>1, SafeHolds, PTL

\* A serving gateway is never behind the catalog it found at its start.
THEOREM BootCatalogIsServed == Spec => []ServesBootCatalog
<1>1. SafeInv => ServesBootCatalog
  BY DEF SafeInv
<1> QED
  BY <1>1, SafeHolds, PTL

\* Once stop() has returned, nothing is left of the listener and its tasks.
THEOREM StopIsClean == Spec => []StoppedIsQuiet
<1>1. SafeInv => StoppedIsQuiet
  BY DEF SafeInv, LifecycleInv, StoppedIsQuiet, Quiet
<1> QED
  BY <1>1, SafeHolds, PTL

-----------------------------------------------------------------------------
(* Freshness.                                                              *)

\* The admin tool: what is committed is announced, and the announcement is
\* heard unless the admin process dies or the connection is broken.
LEMMA AdminFresh ==
    ASSUME SafeInv, FreshInv,
           NEW a \in Admins, Replace(a) \/ Notify(a) \/ AdminDies(a)
    PROVE  FreshInv'
<1>1. UNCHANGED gateway /\ missed \in BOOLEAN
  BY DEF Replace, Notify, AdminDies, SafeInv, TypeOK
<1>2. ASSUME phase \in {"warming", "serving"}
      PROVE  newest = db' \/ Outstanding' \/ missed'
  <2>1. CASE Replace(a)
    <3>1. db' = db + 1 /\ unsaid'[a] = db'
      BY <2>1 DEF Replace, SafeInv, TypeOK
    <3> QED
      BY <3>1 DEF Outstanding
  <2>2. CASE Notify(a) \/ AdminDies(a)
    <3>1. /\ db' = db /\ (missed => missed') /\ inbox \subseteq inbox'
          /\ \A b \in Admins : b # a => unsaid'[b] = unsaid[b]
      BY <1>1, <2>2 DEF Notify, AdminDies, SafeInv, TypeOK
    <3>2. newest = db \/ Outstanding \/ missed
      BY <1>2 DEF FreshInv
    <3>3. CASE unsaid[a] = db
      <4>1. CASE Notify(a)
        BY <1>1, <1>2, <3>1, <3>3, <4>1 DEF Notify, FreshInv, Outstanding
      <4>2. CASE AdminDies(a)
        BY <1>1, <3>3, <4>2 DEF AdminDies
      <4> QED
        BY <2>2, <4>1, <4>2
    <3>4. CASE unsaid[a] # db
      BY <1>1, <3>1, <3>2, <3>4 DEF Outstanding, gateway
    <3> QED
      BY <3>3, <3>4
  <2> QED
    BY <2>1, <2>2
<1>3. newest <= db'
  BY DEF FreshInv, SafeInv, TypeOK, Replace, Notify, AdminDies
<1> QED
  BY <1>1, <1>2, <1>3 DEF FreshInv, gateway

\* Starting, stopping and the listener: the load at startup begins only once
\* the listener is up, and a broken connection loses what it carries.
LEMMA LifecycleFresh ==
    ASSUME SafeInv, FreshInv,
           \/ Boot \/ Connected \/ ConnectFails \/ BackoffOver \/ Disconnect
           \/ RunnerStops \/ Shutdown \/ Closed \/ CloseRaises \/ Awaited
           \/ Exit \/ Crash
    PROVE  FreshInv'
<1>0. db \in Nat /\ db >= 1 /\ missed \in BOOLEAN
  BY DEF SafeInv, TypeOK
<1>1. CASE Boot
  BY <1>1 DEF FreshInv, Boot
<1>2. CASE Connected /\ phase = "starting"
  <2> DEFINE r == [pc |-> "asked", since |-> db, read |-> 0]
  <2>1. r \in Refresh /\ r # Free /\ r.since = db
    BY <1>0, AskedFacts
  <2> HIDE DEF r
  <2>2. refresh' = [refresh EXCEPT ![Warm] = r] /\ db' = db
    BY <1>2 DEF Connected, Warms, r
  <2>3. refresh'[Warm] = r
    BY <2>1, <2>2, PutFacts, CatalogAssumption DEF SafeInv
  <2>4. Outstanding'
    BY <2>1, <2>2, <2>3, CatalogAssumption DEF Outstanding
  <2> QED
    BY <1>2, <2>2, <2>4 DEF FreshInv, Connected
<1>3. CASE (Connected /\ phase # "starting") \/ (ConnectFails /\ phase # "starting")
            \/ BackoffOver
  BY <1>3 DEF Connected, ConnectFails, BackoffOver, FreshInv, Outstanding
<1>4. CASE Disconnect
  <2>1. /\ UNCHANGED <<db, unsaid, refresh, phase, newest>>
        /\ runner' \in {"reconnecting", "backoff"}
        /\ missed \/ db \in inbox => missed'
    BY <1>0, <1>4 DEF Disconnect
  <2> QED
    BY <2>1 DEF FreshInv, Outstanding
<1>5. CASE RunnerStops \/ Shutdown \/ Closed \/ CloseRaises \/ Awaited
  BY <1>5 DEF RunnerStops, Shutdown, Closed, CloseRaises, Awaited, FreshInv
<1>6. CASE (ConnectFails /\ phase = "starting") \/ Exit \/ Crash
  BY <1>0, <1>6 DEF ConnectFails, Exit, Crash, Gone, FreshInv
<1> QED
  BY <1>1, <1>2, <1>3, <1>4, <1>5, <1>6

\* The refreshes: the last announcement becomes a refresh, whose answer is the
\* last catalog, and its load makes that the newest one.
LEMMA RefreshFresh ==
    ASSUME SafeInv, FreshInv, NEW t \in Slots,
           Deliver(t) \/ Answered(t) \/ QueryFails(t) \/ Load(t)
    PROVE  FreshInv'
<1>0. /\ refresh \in [Slots -> Refresh] /\ Free \in Refresh
      /\ db \in Nat /\ newest \in Nat /\ missed \in BOOLEAN
  BY FreeFacts DEF SafeInv, TypeOK
<1>1. CASE Deliver(t)
  <2>1. PICK v \in inbox :
           /\ inbox' = inbox \ {v}
           /\ refresh' = [refresh EXCEPT
                             ![t] = [pc |-> "asked", since |-> v, read |-> 0]]
    BY <1>1 DEF Deliver
  <2> DEFINE r == [pc |-> "asked", since |-> v, read |-> 0]
  <2>2. r \in Refresh /\ r # Free /\ r.since = v
    BY AskedFacts DEF SafeInv, TypeOK
  <2> HIDE DEF r
  <2>3. /\ refresh'[t] = r
        /\ \A u \in Slots : u # t => refresh'[u] = refresh[u]
    BY <2>1, <2>2, PutFacts DEF SafeInv, r
  <2>4. UNCHANGED <<db, unsaid, phase, runner, newest, missed>> /\ refresh[t] = Free
    BY <1>1 DEF Deliver
  <2>5. Outstanding => Outstanding'
    BY <2>1, <2>2, <2>3, <2>4 DEF Outstanding
  <2> QED
    BY <2>4, <2>5 DEF FreshInv
<1>2. CASE Answered(t)
  <2> DEFINE r == [refresh[t] EXCEPT !.pc = "answered", !.read = db]
  <2>1. r \in Refresh /\ r # Free /\ r.since = refresh[t].since
    BY <1>0, FreeFacts DEF Refresh
  <2> HIDE DEF r
  <2>2. refresh' = [refresh EXCEPT ![t] = r]
    BY <1>0, <1>2 DEF Answered, r
  <2>3. /\ refresh'[t] = r
        /\ \A u \in Slots : u # t => refresh'[u] = refresh[u]
    BY <2>1, <2>2, PutFacts DEF SafeInv
  <2>4. UNCHANGED <<db, unsaid, inbox, phase, runner, newest, missed>>
    BY <1>2 DEF Answered
  <2>5. Outstanding => Outstanding'
    BY <2>1, <2>3, <2>4 DEF Outstanding
  <2> QED
    BY <2>4, <2>5 DEF FreshInv
<1>3. CASE QueryFails(t) /\ t = Warm
  BY <1>0, <1>3 DEF QueryFails, Gone, FreshInv
<1>4. CASE (QueryFails(t) /\ t # Warm) \/ Load(t)
  <2>1. /\ \A u \in Slots : u # t => refresh'[u] = refresh[u]
        /\ UNCHANGED <<db, unsaid, inbox, runner>>
        /\ refresh[t] # Free
    BY <1>0, <1>4, FreeFacts DEF QueryFails, Load
  <2>2. newest' <= db /\ (newest = db => newest' = db) /\ (missed => missed')
    <3>1. CASE QueryFails(t) /\ t # Warm
      BY <1>0, <3>1 DEF QueryFails, FreshInv
    <3>2. CASE Load(t)
      <4>1. refresh[t].read \in Nat /\ refresh[t].read <= db
        BY <1>0 DEF SafeInv, SlotInv, Refresh
      <4> QED
        BY <1>0, <3>2, <4>1 DEF Load, FreshInv
    <3> QED
      BY <1>4, <3>1, <3>2
  <2>3. refresh[t].since = db => newest' = db \/ missed'
    <3>1. CASE QueryFails(t) /\ t # Warm
      BY <3>1 DEF QueryFails
    <3>2. CASE Load(t)
      <4>1. refresh[t].since = db => refresh[t].read = db
        BY <1>0, <3>2 DEF Load, SafeInv, SlotInv, Refresh
      <4> QED
        BY <1>0, <3>2, <4>1 DEF Load, FreshInv
    <3> QED
      BY <1>4, <3>1, <3>2
  <2>4. Outstanding => Outstanding' \/ refresh[t].since = db
    BY <2>1 DEF Outstanding
  <2>5. phase' \in {"warming", "serving"} => phase \in {"warming", "serving"}
    BY <1>4, <2>1 DEF QueryFails, Load, SafeInv, SlotInv
  <2> QED
    BY <2>1, <2>2, <2>3, <2>4, <2>5 DEF FreshInv
<1> QED
  BY <1>1, <1>2, <1>3, <1>4

\* Whatever goes wrong: a serving gateway that has not loaded the last catalog
\* is about to, or a fault kept it from the gateway; for any number of admin
\* processes, refreshes in any order, and catalogs.
THEOREM StaleIsTransient == Spec => []StaleHasWork
<1>1. Init => FreshInv
  BY DEF Init, FreshInv
<1>2. SafeInv /\ FreshInv /\ [Next]_vars => FreshInv'
  <2> SUFFICES ASSUME SafeInv, FreshInv, [Next]_vars PROVE FreshInv'
    OBVIOUS
  <2>1. CASE UNCHANGED vars
    BY <2>1 DEF vars, FreshInv, Outstanding
  <2> QED
    BY <2>1, AdminFresh, LifecycleFresh, RefreshFresh DEF Next
<1>3. FreshInv => StaleHasWork
  BY DEF FreshInv, StaleHasWork
<1> QED
  BY <1>1, <1>2, <1>3, SafeHolds, PTL DEF Spec
=============================================================================
