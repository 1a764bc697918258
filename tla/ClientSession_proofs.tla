-------------------------- MODULE ClientSession_proofs --------------------------
(***************************************************************************)
(* Proofs about ClientSession, for any banks, as many revisions as there   *)
(* are versions, and any wire format that keeps what the assumptions of    *)
(* ClientSession ask of it.  Whatever a client works with is a copy of     *)
(* what the bank sent at one time, and a copy decides as the original:     *)
(* that the copies stay with their originals is the invariant.             *)
(***************************************************************************)
EXTENDS ClientSession, WellFoundedInduction, TLAPS

\* The same types and versions in the same places.
SameKinds(s, t) ==
    /\ DOMAIN s = DOMAIN t
    /\ \A i \in DOMAIN t : s[i].type = t[i].type /\ s[i].version = t[i].version

\* s is what became of the segments t, one by one.
AreCopies(s, t) == SameKinds(s, t) /\ \A i \in DOMAIN t : s[i] \in Copies(t[i])

\* Each part of the parameters is a copy of what the bank b sent at one time, is
\* not newer than what the bank has, and if it is as new it is the same.
SourcedPart(b, ctx, part) ==
    /\ ctx.sent[part] \in BankData
    /\ AreCopies(ctx.store[part].segments, ctx.sent[part].segments[part])
    /\ ctx.store[part].version \in 0 .. b[part]
    /\ b[part] # 0 /\ ctx.store[part].version = b[part] => ctx.sent[part] = b.data

Sourced(b, ctx) == \A part \in Parts : SourcedPart(b, ctx, part)

BankTyped ==
    /\ bank \in [data : BankData, bpd : 1 .. MaxRevisions + 1, upd : 0 .. MaxRevisions + 1,
                 sendsAll : BOOLEAN]
    /\ bank.upd <= bank.bpd

Typed ==
    IF message = None THEN BankTyped
    ELSE /\ bank = None /\ session = None /\ client = Idle
         /\ pending = None /\ answer = None

SessionSourced == session # None => Sourced(bank, _extract_params_dict(session))

PendingSourced ==
    pending # None =>
        /\ pending = Waiting(pending.op, pending.connected, pending.ctx, pending.format)
        /\ pending.op \in Operations /\ pending.connected \in BOOLEAN
        /\ pending.format \in {None, "MT940", "CAMT"}
        /\ Sourced(bank, pending.ctx)
        /\ pending.format # None => Offered(Bpd(pending.ctx), pending.format)

ClientTyped ==
    /\ client.connected \in BOOLEAN
    /\ ~ client.connected => client = Idle
    /\ client.operations \subseteq DOMAIN FinTSOperations
    /\ client.connected => client.listed \in BankData

AnswerTyped == answer # None => answer.op \in Requests

MethodsAsSent ==
    (answer # None /\ answer.op = "methods" /\ CompactMethods(answer.sent)) =>
        answer.methods = _extract_tan_methods(answer.sent.segments["bpd"])

ClientInv == ClientTyped /\ ListedAccountsAreFound
AnswerInv == AnswerTyped /\ BalancesOfTheirAccounts /\ ContinuedInKind /\ MethodsAsSent

Inv == Typed /\ SessionSourced /\ PendingSourced /\ ClientInv /\ AnswerInv

-----------------------------------------------------------------------------
(* The first and the last of several. *)

LEMMA Least ==
    ASSUME NEW S \in SUBSET Nat, S # {}
    PROVE  \E m \in S : \A k \in S : m <= k
  <1> DEFINE R == OpToRel(<, Nat)
  <1>1. IsWellFoundedOn(R, Nat)
    BY NatLessThanWellFounded
  <1>2. \A x, y \in Nat : << x, y >> \in R <=> x < y
    BY DEF OpToRel
  <1> HIDE DEF R
  <1>3. PICK m \in S : \A k \in S : ~ (<< k, m >> \in R)
    BY <1>1, WFMin
  <1>4. ASSUME NEW k \in S PROVE m <= k
    <2>1. m \in Nat /\ k \in Nat
      OBVIOUS
    <2>2. ~ (k < m)
      BY <1>2, <1>3, <2>1
    <2> QED
      BY <2>1, <2>2
  <1> QED
    BY <1>4

LEMMA First ==
    ASSUME NEW S \in SUBSET Nat, S # {}
    PROVE  Min1(S) \in S
  BY Least DEF Min1

LEMMA Greatest ==
    ASSUME NEW n \in Nat, NEW S \in SUBSET (1 .. n), S # {}
    PROVE  Max1(S) \in S
  <1> DEFINE below == {n - k : k \in S}
  <1>1. below \in SUBSET Nat /\ below # {}
    <2>1. \A k \in S : k \in 1 .. n
      OBVIOUS
    <2>2. \A k \in 1 .. n : n - k \in Nat
      OBVIOUS
    <2> QED
      BY <2>1, <2>2
  <1>2. PICK m \in below : \A k \in below : m <= k
    BY <1>1, Least
  <1>3. PICK top \in S : m = n - top
    BY <1>2
  <1>4. ASSUME NEW k \in S PROVE k <= top
    <2>1. n - k \in below /\ k \in Nat /\ top \in Nat
      OBVIOUS
    <2> QED
      BY <1>2, <1>3, <2>1
  <1> QED
    BY <1>4 DEF Max1

-----------------------------------------------------------------------------
(* Copies of segments. *)

\* A segment that is not refused has the type and the version of its header.
LEMMA ReadInKind ==
    ASSUME NEW type, NEW version, NEW raw, ~ Is(parse_segment(type, version, raw), "fail")
    PROVE  /\ parse_segment(type, version, raw).type = type
           /\ parse_segment(type, version, raw).version = version
  BY DEF parse_segment, ParseWith, Robust, _create_fallback_segment, Is, Fail

LEMMA DeliveredAreCopies ==
    ASSUME NEW d \in BankData, NEW part \in Parts
    PROVE  AreCopies(Segments[d][part], d.segments[part])
  <1> DEFINE s == d.segments[part]
  <1>1. Segments[d][part] = Delivered(s)
    BY DEF Segments
  <1>2. \A i \in DOMAIN s : Received(s[i]) \in Copies(s[i]) /\ ~ Is(Received(s[i]), "fail")
    BY WireKeepsParameters DEF IsSegment, Is
  <1>3. \A i \in DOMAIN s :
            Received(s[i]).type = s[i].type /\ Received(s[i]).version = s[i].version
    BY <1>2, ReadInKind DEF Received
  <1> HIDE DEF s
  <1>4. /\ DOMAIN Delivered(s) = DOMAIN s
        /\ \A i \in DOMAIN s : Delivered(s)[i] = Received(s[i])
    BY DEF Delivered
  <1>5. AreCopies(Delivered(s), s)
    BY <1>2, <1>3, <1>4 DEF AreCopies, SameKinds
  <1> QED
    BY <1>1, <1>5 DEF s

\* The segments of saved and restored parameters: none is lost.
LEMMA RestoredAreCopies ==
    ASSUME NEW d \in BankData, NEW part \in Parts, NEW parameters,
           AreCopies(parameters.segments, d.segments[part])
    PROVE  AreCopies(from_bytes(serialize(parameters)).segments, d.segments[part])
  <1> DEFINE t == d.segments[part]
             s == parameters.segments
             wires == [i \in DOMAIN s |-> WireOf(s[i])]
             read == [i \in DOMAIN wires |-> ParsedWire(wires[i])]
  <1>1. DOMAIN s = DOMAIN t /\ \A i \in DOMAIN t : s[i] \in Copies(t[i])
    BY DEF AreCopies, SameKinds
  <1>2. DOMAIN read = DOMAIN s /\ \A i \in DOMAIN s : read[i] = Reread(s[i])
    BY DEF Reread
  <1>3. \A i \in DOMAIN t : Reread(s[i]) \in Copies(t[i]) /\ ~ Is(Reread(s[i]), "fail")
    <2>1. \A i \in DOMAIN t : Reread(s[i]) \in Copies(t[i])
      BY <1>1, WireKeepsParameters
    <2>2. \A i \in DOMAIN t : IsSegment(Reread(s[i]))
      BY <2>1, WireKeepsParameters
    <2> QED
      BY <2>1, <2>2 DEF IsSegment, Is
  <1>4. ASSUME NEW i \in DOMAIN t
        PROVE  Reread(s[i]).type = s[i].type /\ Reread(s[i]).version = s[i].version
    <2>1. Reread(s[i]) = parse_segment(s[i].type, s[i].version, Written(s[i]))
      BY DEF Reread, ParsedWire, WireOf
    <2> QED
      BY <1>3, <2>1, ReadInKind
  <1>5. from_bytes(serialize(parameters)).segments = AllOrNothing(read)
    BY DEF from_bytes, serialize, ParsedMessage
  <1> HIDE DEF read, t
  <1>6. AllOrNothing(read) = read
    BY <1>1, <1>2, <1>3 DEF AllOrNothing, Failed
  <1>7. AreCopies(read, t)
    BY <1>1, <1>2, <1>3, <1>4 DEF AreCopies, SameKinds, t
  <1> QED
    BY <1>5, <1>6, <1>7 DEF t

\* What is used of the bank depends on types and versions alone.
LEMMA KindsDecide ==
    ASSUME NEW s, NEW t, SameKinds(s, t)
    PROVE  Uses(s) = Uses(t) /\ \A format : Offered(s, format) <=> Offered(t, format)
  <1>1. ASSUME NEW type PROVE Versions(s, type) = Versions(t, type)
    BY DEF Versions, SameKinds
  <1>2. get_supported_operations(s) = get_supported_operations(t)
    BY <1>1 DEF get_supported_operations
  <1>3. /\ HKSALVersion(s) = HKSALVersion(t) /\ HKKAZVersion(s) = HKKAZVersion(t)
        /\ HKCAZVersion(s) = HKCAZVersion(t) /\ HKTANVersion(s) = HKTANVersion(t)
    BY <1>1 DEF HKSALVersion, HKKAZVersion, HKCAZVersion, HKTANVersion,
                find_highest_supported_version, find_highest_hitans
  <1> QED
    BY <1>2, <1>3 DEF Uses, Offered

\* What the bank asks approval for, the types of CAMT, and the TAN methods.
LEMMA RulesKept ==
    ASSUME NEW d \in BankData, NEW s, AreCopies(s, d.segments["bpd"])
    PROVE  /\ Rules(s) = Rules(d.segments["bpd"])
           /\ CompactMethods(d) => _extract_tan_methods(s) = _extract_tan_methods(d.segments["bpd"])
  <1> DEFINE t == d.segments["bpd"]
             Pins == {i \in DOMAIN t : IsOf(t[i], HIPINS1)}
             Camts == {i \in DOMAIN t : t[i].type = "HICAZS"}
  <1>1. /\ DOMAIN s = DOMAIN t /\ DOMAIN t \subseteq Nat
        /\ \A i \in DOMAIN t : /\ s[i].type = t[i].type /\ KeepsRules(s[i], t[i])
                               /\ ~ Is(s[i], "none") /\ ~ Is(t[i], "none")
    <2>1. DOMAIN t \subseteq Nat /\ \A i \in DOMAIN t : IsSegment(t[i])
      BY SessionAssumption DEF IsList, Parts
    <2> QED
      BY <2>1, WireKeepsParameters DEF AreCopies, SameKinds, Parts, IsSegment, Is
  <1> HIDE DEF t
  <1>2. /\ Pins = {i \in DOMAIN s : IsOf(s[i], HIPINS1)}
        /\ Camts = {i \in DOMAIN s : s[i].type = "HICAZS"}
    BY <1>1 DEF KeepsRules
  <1>3. \A S \in SUBSET DOMAIN t : S # {} => Min1(S) \in S
    BY <1>1, First
  <1>4. ASSUME NEW type PROVE segment_requires_tan(s, type) = segment_requires_tan(t, type)
    <2> DEFINE k == Min1(Pins)
    <2>1. /\ find_segment_first(s, HIPINS1) = IF Pins = {} THEN Absent ELSE s[k]
          /\ find_segment_first(t, HIPINS1) = IF Pins = {} THEN Absent ELSE t[k]
      BY <1>2, Zenon DEF find_segment_first, FirstOf
    <2>2. CASE Pins = {}
      BY <2>1, <2>2 DEF segment_requires_tan, Is, Absent
    <2>3. CASE Pins # {}
      <3>1. k \in DOMAIN t /\ IsOf(t[k], HIPINS1)
        BY <1>3, <2>3
      <3>2. PinRules(s[k]) = PinRules(t[k]) /\ ~ Is(s[k], "none") /\ ~ Is(t[k], "none")
        BY <1>1, <3>1 DEF KeepsRules
      <3> HIDE DEF k, Pins
      <3> QED
        BY <2>1, <2>3, <3>2 DEF segment_requires_tan
    <2> QED
      BY <2>2, <2>3
  <1>5. _get_supported_camt_types(s) = _get_supported_camt_types(t)
    <2> DEFINE k == Min1(Camts)
               OfS == FirstOf(s, LAMBDA x : x.type = "HICAZS")
               OfT == FirstOf(t, LAMBDA x : x.type = "HICAZS")
    <2>1. /\ OfS = IF Camts = {} THEN Absent ELSE s[k]
          /\ OfT = IF Camts = {} THEN Absent ELSE t[k]
      BY <1>2 DEF FirstOf
    <2>2. /\ _get_supported_camt_types(s) = IF Is(OfS, "none") THEN <<>> ELSE CamtTypes(OfS)
          /\ _get_supported_camt_types(t) = IF Is(OfT, "none") THEN <<>> ELSE CamtTypes(OfT)
      BY DEF _get_supported_camt_types
    <2>3. CASE Camts = {}
      <3>1. OfS = Absent /\ OfT = Absent
        BY <2>1, <2>3
      <3> HIDE DEF OfS, OfT
      <3> QED
        BY <2>2, <3>1 DEF Is, Absent
    <2>4. CASE Camts # {}
      <3>1. k \in DOMAIN t /\ t[k].type = "HICAZS"
        BY <1>3, <2>4
      <3>2. CamtTypes(s[k]) = CamtTypes(t[k]) /\ ~ Is(s[k], "none") /\ ~ Is(t[k], "none")
        BY <1>1, <3>1 DEF KeepsRules
      <3>3. OfS = s[k] /\ OfT = t[k]
        BY <2>1, <2>4
      <3> HIDE DEF k, OfS, OfT
      <3> QED
        BY <2>2, <3>2, <3>3
    <2> QED
      BY <2>3, <2>4
  <1>6. Rules(s) = Rules(t)
    BY <1>4, <1>5 DEF Rules
  <1>7. ASSUME CompactMethods(d)
        PROVE  _extract_tan_methods(s) = _extract_tan_methods(t)
    <2>1. \A i \in DOMAIN t : t[i].type = "HITANS" => Compact(t[i])
      BY <1>7 DEF CompactMethods, t
    <2>2. \A i \in DOMAIN t : MethodsOf(s[i]) = MethodsOf(t[i])
      BY <1>1, <2>1 DEF KeepsRules, MethodsOf
    <2>3. [i \in DOMAIN s |-> MethodsOf(s[i])] = [i \in DOMAIN t |-> MethodsOf(t[i])]
      BY <1>1, <2>2
    <2>4. FlatMap(MethodsOf, s) = FlatMap(MethodsOf, t)
      BY <2>3 DEF FlatMap
    <2> QED
      BY <2>4 DEF _extract_tan_methods
  <1> QED
    BY <1>6, <1>7 DEF t

\* What the user parameters say of accounts.
LEMMA AccountsKept ==
    ASSUME NEW d \in BankData, NEW s, AreCopies(s, d.segments["upd"])
    PROVE  Accounts(s) = Accounts(d.segments["upd"])
  <1> DEFINE t == d.segments["upd"]
  <1>1. /\ DOMAIN s = DOMAIN t
        /\ \A i \in DOMAIN t : KeepsAccount(s[i], t[i])
    BY WireKeepsParameters DEF AreCopies, SameKinds, Parts
  <1> HIDE DEF t
  <1>2. _upd_accounts(s) = _upd_accounts(t)
    BY <1>1 DEF KeepsAccount, _upd_accounts
  <1>3. FallbackAccounts(s) = FallbackAccounts(t)
    <2>1. \A i \in DOMAIN t : /\ FallbackInfo(s[i]) = FallbackInfo(t[i])
                             /\ Text_(s[i].fields["iban"]) = FallbackInfo(s[i]).iban
                             /\ Text_(t[i].fields["iban"]) = FallbackInfo(t[i]).iban
      BY <1>1 DEF KeepsAccount, FallbackInfo
    <2>2. {j \in DOMAIN s : Text_(s[j].fields["iban"]) # ""}
              = {j \in DOMAIN t : Text_(t[j].fields["iban"]) # ""}
      BY <1>1, <2>1
    <2> QED
      BY <2>1, <2>2 DEF FallbackAccounts
  <1>4. Accounts(s) = Accounts(t)
    BY <1>2, <1>3 DEF Accounts
  <1> QED
    BY <1>4 DEF t

-----------------------------------------------------------------------------
(* Parameters come from the bank. *)

\* What a snapshot or a saved session gives back has the same origin.
LEMMA SourcedResumed ==
    ASSUME NEW b, NEW ctx, Sourced(b, ctx)
    PROVE  Sourced(b, Resumed(ctx))
  <1> DEFINE new == Resumed(ctx)
  <1>1. new.sent = ctx.sent
    BY DEF Resumed, _extract_params_dict, create_session_state
  <1>2. \A part \in Parts : new.store[part] = from_bytes(serialize(ctx.store[part]))
    BY DEF Resumed, _extract_params_dict, create_session_state, from_dict, to_dict
  <1>3. \A part \in Parts : new.store[part].version = ctx.store[part].version
    <2>1. ASSUME NEW p PROVE from_bytes(serialize(p)).version = p.version
      BY DEF from_bytes, serialize
    <2> QED
      BY <1>2, <2>1
  <1> HIDE DEF new
  <1>4. \A part \in Parts : SourcedPart(b, new, part)
    BY <1>1, <1>2, <1>3, RestoredAreCopies DEF Sourced, SourcedPart
  <1> QED
    BY <1>4 DEF Sourced, new

\* A login leaves each part as it was, or takes over what the bank sends of it.
LEMMA LoginReads ==
    ASSUME BankTyped, NEW ctx,
           \A part \in Parts : ctx.store[part].version \in 0 .. bank[part]
    PROVE  \A part \in Parts :
              /\ part \notin Sends(ctx) =>
                    /\ initialize(ctx).store[part] = ctx.store[part]
                    /\ initialize(ctx).sent[part] = ctx.sent[part]
              /\ part \in Sends(ctx) =>
                    /\ initialize(ctx).store[part].version = bank[part]
                    /\ initialize(ctx).store[part].segments = Segments[bank.data][part]
                    /\ initialize(ctx).sent[part] = bank.data
  <1> DEFINE versions == [part \in Parts |-> bank[part]]
             login == Answered(bank.data, versions, Sends(ctx))
             bpd == _extract_bpd(login)
             upd == _extract_upd(login)
             new == initialize(ctx)
  <1>1. Sends(ctx) \in SUBSET Parts /\ versions \in [Parts -> 0 .. MaxRevisions + 1]
        /\ bank.data \in BankData
    BY SessionAssumption DEF Sends, Parts, BankTyped
  <1>2. /\ "bpd" \in Sends(ctx) => /\ ~ Is(bpd, "none") /\ bpd.version = bank["bpd"]
                                   /\ bpd.segments = Segments[bank.data]["bpd"]
        /\ "bpd" \notin Sends(ctx) => Is(bpd, "none")
        /\ "upd" \in Sends(ctx) => /\ ~ Is(upd, "none") /\ upd.version = bank["upd"]
                                   /\ upd.segments = Segments[bank.data]["upd"]
        /\ "upd" \notin Sends(ctx) => Is(upd, "none")
    <2>1. versions["bpd"] = bank["bpd"] /\ versions["upd"] = bank["upd"]
      BY DEF Parts
    <2> HIDE DEF versions
    <2> QED
      BY <1>1, <2>1, AnswersAreRead
  <1>3. /\ new.store["bpd"] = IF Newer(bpd, ctx.store["bpd"]) THEN bpd ELSE ctx.store["bpd"]
        /\ new.store["upd"] = IF Newer(upd, ctx.store["upd"]) THEN upd ELSE ctx.store["upd"]
        /\ \A part \in Parts :
              new.sent[part] = IF part \in Sends(ctx) THEN bank.data ELSE ctx.sent[part]
    BY DEF initialize, update_from_response
  <1>4. bank["bpd"] \in Nat /\ bank["upd"] \in Nat
    BY SessionAssumption DEF BankTyped
  <1> HIDE DEF bpd, upd, login, versions, new
  <1>5. /\ Newer(bpd, ctx.store["bpd"]) <=> "bpd" \in Sends(ctx)
        /\ Newer(upd, ctx.store["upd"]) <=> "upd" \in Sends(ctx)
    BY <1>2, <1>4 DEF Newer, Parts
  <1> QED
    BY <1>2, <1>3, <1>5 DEF Parts, new

LEMMA SourcedLogin ==
    ASSUME BankTyped, NEW ctx, ctx = Unknown \/ Sourced(bank, ctx)
    PROVE  Sourced(bank, initialize(ctx))
  <1> DEFINE new == initialize(ctx)
  <1>1. bank.data \in BankData /\ \A part \in Parts : bank[part] \in Nat
    BY SessionAssumption DEF BankTyped, Parts
  <1>2. \A part \in Parts : ctx.store[part].version \in 0 .. bank[part]
    <2>1. CASE ctx = Unknown
      BY <1>1, <2>1 DEF Unknown, EmptyStore, NoParameters, Parts
    <2>2. CASE Sourced(bank, ctx)
      BY <2>2 DEF Sourced, SourcedPart
    <2> QED
      BY <2>1, <2>2
  <1>3. ASSUME NEW part \in Parts
        PROVE  SourcedPart(bank, new, part)
    <2>1. CASE part \in Sends(ctx)
      <3>1. /\ new.store[part].version = bank[part]
            /\ new.store[part].segments = Segments[bank.data][part]
            /\ new.sent[part] = bank.data
        BY <1>2, <2>1, LoginReads
      <3> QED
        BY <1>1, <3>1, DeliveredAreCopies DEF SourcedPart
    <2>2. CASE part \notin Sends(ctx)
      <3>1. ~ (ctx.store[part].version < bank[part]) /\ bank[part] # 0
        BY <2>2 DEF Sends
      <3>2. Sourced(bank, ctx)
        BY <1>1, <3>1 DEF Unknown, EmptyStore, NoParameters, Parts
      <3>3. new.store[part] = ctx.store[part] /\ new.sent[part] = ctx.sent[part]
        BY <1>2, <2>2, LoginReads
      <3> QED
        BY <3>2, <3>3 DEF Sourced, SourcedPart, Bpd
    <2> QED
      BY <2>1, <2>2
  <1> QED
    BY <1>3 DEF Sourced, Bpd, Parts

\* A revision leaves nothing that is as new as the bank's, but for user parameters
\* of version 0, which are not kept track of.
LEMMA SourcedRevised ==
    ASSUME BankTyped, NEW ctx, Sourced(bank, ctx), NEW d \in BankData
    PROVE  Sourced([bank EXCEPT !.data = d, !.bpd = @ + 1, !.upd = IF @ = 0 THEN 0 ELSE @ + 1], ctx)
  <1> DEFINE b == [bank EXCEPT !.data = d, !.bpd = @ + 1, !.upd = IF @ = 0 THEN 0 ELSE @ + 1]
  <1>1. /\ bank["bpd"] \in Nat /\ bank["upd"] \in Nat
        /\ b["bpd"] = bank["bpd"] + 1
        /\ b["upd"] = IF bank["upd"] = 0 THEN 0 ELSE bank["upd"] + 1
    BY SessionAssumption DEF BankTyped
  <1> HIDE DEF b
  <1>2. ASSUME NEW part \in Parts PROVE SourcedPart(b, ctx, part)
    <2>1. SourcedPart(bank, ctx, part)
      BY DEF Sourced
    <2>2. /\ bank[part] \in Nat /\ b[part] \in {bank[part], bank[part] + 1}
          /\ b[part] # 0 => b[part] = bank[part] + 1
      BY <1>1 DEF Parts
    <2>3. /\ ctx.store[part].version \in 0 .. b[part]
          /\ b[part] # 0 => ctx.store[part].version # b[part]
      <3> DEFINE v == ctx.store[part].version
                 n == bank[part]
                 m == b[part]
      <3>1. v \in 0 .. n
        BY <2>1 DEF SourcedPart
      <3>2. /\ n \in Nat /\ m \in {n, n + 1}
            /\ m # 0 => m = n + 1
        BY <2>2
      <3> HIDE DEF v, n, m
      <3>3. /\ v \in 0 .. m
            /\ m # 0 => v # m
        BY <3>1, <3>2
      <3> QED
        BY <3>3 DEF v, m
    <2> QED
      BY <2>1, <2>3 DEF SourcedPart
  <1> QED
    BY <1>2 DEF Sourced, b

-----------------------------------------------------------------------------
(* Parameters decide what those of the bank decide. *)

LEMMA SourcedActs ==
    ASSUME NEW ctx, Sourced(bank, ctx)
    PROVE  ActsAsSent(ctx) /\ IsCurrent(ctx)
  <1> DEFINE e == ctx.sent["bpd"]
             f == ctx.sent["upd"]
  <1>1. /\ e \in BankData /\ e # None /\ AreCopies(Bpd(ctx), e.segments["bpd"])
        /\ f \in BankData /\ f # None /\ AreCopies(Upd(ctx), f.segments["upd"])
    BY SessionAssumption DEF Sourced, SourcedPart, Parts, Bpd, Upd
  <1>2. /\ AsSent(ctx.sent, "bpd") = e.segments["bpd"]
        /\ AsSent(ctx.sent, "upd") = f.segments["upd"]
    BY <1>1 DEF AsSent
  <1>3. Uses(Bpd(ctx)) = Uses(e.segments["bpd"])
    BY <1>1, KindsDecide DEF AreCopies
  <1>4. /\ Rules(Bpd(ctx)) = Rules(e.segments["bpd"])
        /\ Accounts(Upd(ctx)) = Accounts(f.segments["upd"])
        /\ CompactMethods(e) =>
               _extract_tan_methods(Bpd(ctx)) = _extract_tan_methods(e.segments["bpd"])
    BY <1>1, RulesKept, AccountsKept
  <1>5. IsCurrent(ctx)
    BY DEF IsCurrent, Sourced, SourcedPart
  <1> QED
    BY <1>1, <1>2, <1>3, <1>4, <1>5 DEF ActsAsSent

LEMMA UnknownActs ==
    ASSUME BankTyped
    PROVE  ActsAsSent(Unknown) /\ IsCurrent(Unknown)
  <1>1. /\ Bpd(Unknown) = <<>> /\ Upd(Unknown) = <<>>
        /\ \A part \in Parts : AsSent(Unknown.sent, part) = <<>>
        /\ Unknown.sent["bpd"] = None
    BY DEF Unknown, EmptyStore, NoParameters, Bpd, Upd, AsSent, Parts
  <1>2. ActsAsSent(Unknown)
    BY <1>1 DEF ActsAsSent, Parts
  <1>3. IsCurrent(Unknown)
    BY DEF IsCurrent, Unknown, EmptyStore, NoParameters, Parts
  <1> QED
    BY <1>2, <1>3

LEMMA StoresFollow ==
    ASSUME Typed, SessionSourced, PendingSourced, MethodsAsSent
    PROVE  StoresActAsSent
  <1> SUFFICES ASSUME message = None
               PROVE  \A ctx \in {build_parameters_from_state(session)}
                                     \cup (IF pending = None THEN {} ELSE Contexts) :
                          ActsAsSent(ctx) /\ IsCurrent(ctx)
    BY DEF StoresActAsSent, MethodsAsSent
  <1>1. BankTyped
    BY DEF Typed
  <1>2. ASSUME NEW ctx, ctx = build_parameters_from_state(session)
        PROVE  ActsAsSent(ctx) /\ IsCurrent(ctx)
    BY <1>1, <1>2, SourcedActs, UnknownActs DEF SessionSourced, build_parameters_from_state
  <1>3. ASSUME NEW ctx \in Contexts, pending # None
        PROVE  ActsAsSent(ctx) /\ IsCurrent(ctx)
    BY <1>3, SourcedActs, SourcedResumed DEF PendingSourced, Contexts
  <1> QED
    BY <1>2, <1>3

-----------------------------------------------------------------------------
(* Accounts. *)

\* The BIC of the bank's list is all that joining changes.
LEMMA JoinKeeps ==
    ASSUME NEW infos, NEW sepas, NEW i \in DOMAIN infos,
           {"number", "sub", "iban"} \subseteq DOMAIN infos[i]
    PROVE  LET joined == _join_sepa_info(infos, sepas)
           IN joined[i].number = infos[i].number /\ joined[i].sub = infos[i].sub
              /\ joined[i].iban = infos[i].iban
  <1> DEFINE joined == _join_sepa_info(infos, sepas)
  <1>1. joined[i] = infos[i] \/ \E bic : joined[i] = [infos[i] EXCEPT !.bic = bic]
    BY DEF _join_sepa_info
  <1>2. CASE joined[i] = infos[i]
    BY <1>2
  <1>3. ASSUME NEW bic, joined[i] = [infos[i] EXCEPT !.bic = bic]
        PROVE  joined[i].number = infos[i].number /\ joined[i].sub = infos[i].sub
               /\ joined[i].iban = infos[i].iban
    BY <1>3
  <1> QED
    BY <1>1, <1>2, <1>3

LEMMA JoinDomain ==
    ASSUME NEW infos, NEW sepas
    PROVE  DOMAIN _join_sepa_info(infos, sepas) = DOMAIN infos
  BY DEF _join_sepa_info

LEMMA HISPAIsRead ==
    ASSUME BankTyped, NEW hispa \in Listings
    PROVE  hispa = <<>> \/ hispa = Rows(bank.data)
  BY AccountsAreNamed DEF Listings, Rows, BankTyped

LEMMA UserParametersSourced ==
    ASSUME NEW ctx, Sourced(bank, ctx)
    PROVE  LET u == ctx.sent["upd"].segments["upd"]
           IN /\ ctx.sent["upd"] \in BankData
              /\ _upd_accounts(Upd(ctx)) = _upd_accounts(u)
              /\ FallbackAccounts(Upd(ctx)) = FallbackAccounts(u)
  <1> DEFINE f == ctx.sent["upd"]
  <1>1. f \in BankData /\ AreCopies(Upd(ctx), f.segments["upd"])
    BY DEF Sourced, SourcedPart, Parts, Upd
  <1>2. Accounts(Upd(ctx)) = Accounts(f.segments["upd"])
    BY <1>1, AccountsKept
  <1> QED
    BY <1>1, <1>2 DEF Accounts

\* What is taken of an account of the user parameters.
LEMMA UserAccountsRead ==
    ASSUME NEW u, ~ Failed(_upd_accounts(u))
    PROVE  /\ DOMAIN _upd_accounts(u) = DOMAIN u
           /\ \A i \in DOMAIN u :
                LET part == u[i].fields["account_information"]
                    info == _upd_accounts(u)[i]
                IN /\ {"number", "sub", "iban"} \subseteq DOMAIN info
                   /\ info.number = IF Is(part, "none") THEN "None"
                                    ELSE part.obj["account_number"].val
                   /\ info.sub = IF Is(part, "none") THEN ""
                                 ELSE Text_(part.obj["subaccount_number"])
                   /\ info.iban = Text_(u[i].fields["iban"])
  <1>1. Failed(<< Fail >>)
    <2>1. 1 \in DOMAIN << Fail >> /\ << Fail >>[1] = Fail /\ Is(Fail, "fail")
      BY DEF Is, Fail
    <2> QED
      BY <2>1 DEF Failed
  <1>2. _upd_accounts(u) = [i \in DOMAIN u |-> AccountInfo(u[i])]
    BY <1>1 DEF _upd_accounts
  <1>3. ASSUME NEW i \in DOMAIN u
        PROVE  LET part == u[i].fields["account_information"]
                   info == AccountInfo(u[i])
               IN /\ {"number", "sub", "iban"} \subseteq DOMAIN info
                  /\ info.number = IF Is(part, "none") THEN "None"
                                   ELSE part.obj["account_number"].val
                  /\ info.sub = IF Is(part, "none") THEN ""
                                ELSE Text_(part.obj["subaccount_number"])
                  /\ info.iban = Text_(u[i].fields["iban"])
    BY DEF AccountInfo
  <1> QED
    BY <1>2, <1>3

\* What ListedAccountsAreFound asks of an account that is listed and one of HISPA.
Agree(listed, found) ==
    Numbered(listed) /\ Numbered(found) =>
        /\ listed.iban = found.iban => account_key(listed) = account_key(found)
        /\ account_key(listed) = account_key(found) => listed.iban \in {"", found.iban}

\* Only the number, the subaccount and the IBAN count.
LEMMA AgreeAlike ==
    ASSUME NEW x, NEW y, NEW found, Agree(y, found),
           x.number = y.number, x.sub = y.sub, x.iban = y.iban
    PROVE  Agree(x, found)
  BY DEF Agree, Numbered, account_key

\* An account of the user parameters, and a row of HISPA.
LEMMA NamedAlikeFound ==
    ASSUME NEW d \in BankData, NEW e \in BankData, NEW i, NEW j,
           ~ Failed(_upd_accounts(e.segments["upd"])),
           i \in DOMAIN _upd_accounts(e.segments["upd"]), j \in DOMAIN SEPAAccounts(Rows(d))
    PROVE  Agree(_upd_accounts(e.segments["upd"])[i], SEPAAccounts(Rows(d))[j])
  <1> DEFINE u == e.segments["upd"]
             info == _upd_accounts(u)[i]
             part == u[i].fields["account_information"]
             found == SEPAAccounts(Rows(d))[j]
  <1> SUFFICES ASSUME Numbered(info), Numbered(found)
               PROVE  /\ info.iban = found.iban => account_key(info) = account_key(found)
                      /\ account_key(info) = account_key(found) => info.iban \in {"", found.iban}
    BY DEF Agree
  <1>1. i \in DOMAIN u
    BY UserAccountsRead
  <1>2. /\ info.number = (IF Is(part, "none") THEN "None" ELSE part.obj["account_number"].val)
        /\ info.sub = (IF Is(part, "none") THEN "" ELSE Text_(part.obj["subaccount_number"]))
        /\ info.iban = Text_(u[i].fields["iban"])
    BY <1>1, UserAccountsRead
  <1>3. NamedAlike(u[i], found)
    BY <1>1, AccountsAreNamed
  <1>4. ~ Is(part, "none") /\ info.number # "" /\ found.number # ""
    BY <1>2 DEF Numbered
  <1> DEFINE sub == part.obj["subaccount_number"]
             listed == Key(part.obj["account_number"].val, IF Is(sub, "val") THEN sub.val ELSE "")
  <1>5. account_key(info) = listed
    BY <1>2, <1>4 DEF account_key, Text_
  <1>6. account_key(found) = Key(found.number, found.sub)
    BY DEF account_key
  <1>7. /\ info.iban = found.iban => listed = Key(found.number, found.sub)
        /\ listed = Key(found.number, found.sub) => info.iban \in {"", found.iban}
    <2>1. part.obj["account_number"].val # ""
      BY <1>2, <1>4
    <2> QED
      BY <1>2, <1>3, <1>4, <2>1 DEF NamedAlike
  <1> HIDE DEF info, found, listed
  <1> QED
    BY <1>5, <1>6, <1>7

\* An account that was made of a row of HISPA, and a row of HISPA.
LEMMA MadeFound ==
    ASSUME NEW d \in BankData, NEW i \in DOMAIN SEPAAccounts(Rows(d)),
           NEW j \in DOMAIN SEPAAccounts(Rows(d))
    PROVE  Agree(Made(SEPAAccounts(Rows(d))[i]), SEPAAccounts(Rows(d))[j])
  <1> DEFINE sepas == SEPAAccounts(Rows(d))
             row == sepas[i]
             made == Made(row)
             found == sepas[j]
  <1>1. made.number = (IF row.number # "" THEN row.number ELSE row.iban)
        /\ made.sub = row.sub /\ made.iban = row.iban
    BY DEF Made
  <1>2. NamedOnce(sepas) /\ NumberedOnce(sepas)
    BY AccountsAreNamed
  <1> HIDE DEF sepas, made
  <1> SUFFICES ASSUME Numbered(made), Numbered(found)
               PROVE  /\ made.iban = found.iban => account_key(made) = account_key(found)
                      /\ account_key(made) = account_key(found) => made.iban \in {"", found.iban}
    BY DEF Agree, made, sepas
  <1>3. row.number # "" /\ made.number = row.number /\ found.number # ""
    BY <1>1 DEF Numbered
  <1>4. account_key(made) = Key(row.number, row.sub) /\ account_key(found) = Key(found.number, found.sub)
    BY <1>1, <1>3 DEF account_key
  <1>5. i \in DOMAIN sepas /\ j \in DOMAIN sepas
    BY DEF sepas
  <1>6. row.iban = found.iban => Key(row.number, row.sub) = Key(found.number, found.sub)
    BY <1>2, <1>3, <1>5 DEF NumberedOnce
  <1>7. Key(row.number, row.sub) = Key(found.number, found.sub) => row.iban = found.iban
    BY <1>2, <1>3, <1>5 DEF NamedOnce
  <1> QED
    BY <1>1, <1>4, <1>6, <1>7

LEMMA ListingFound ==
    ASSUME BankTyped, NEW ctx, Sourced(bank, ctx), NEW hispa \in Listings,
           ~ Failed(fetch_all(Upd(ctx), hispa)),
           NEW i \in DOMAIN fetch_all(Upd(ctx), hispa), NEW j \in DOMAIN SEPAAccounts(Rows(bank.data))
    PROVE  Agree(fetch_all(Upd(ctx), hispa)[i], SEPAAccounts(Rows(bank.data))[j])
  <1> DEFINE d == bank.data
             e == ctx.sent["upd"]
             u == e.segments["upd"]
             infos == _upd_accounts(u)
             sepas == fetch_sepa_accounts(Upd(ctx), hispa)
             made == [k \in DOMAIN sepas |-> Made(sepas[k])]
             base == IF DOMAIN infos = {} THEN made ELSE infos
             accounts == fetch_all(Upd(ctx), hispa)
             found == SEPAAccounts(Rows(d))
  <1>1. /\ e \in BankData /\ d \in BankData /\ infos = _upd_accounts(Upd(ctx))
        /\ FallbackAccounts(Upd(ctx)) = FallbackAccounts(u)
    BY UserParametersSourced DEF BankTyped
  <1>2. ~ Failed(infos) /\ accounts = _join_sepa_info(base, sepas)
    BY <1>1 DEF fetch_all
  <1>3. i \in DOMAIN base
    BY <1>2, JoinDomain
  <1>4. {"number", "sub", "iban"} \subseteq DOMAIN base[i] /\ Agree(base[i], found[j])
    <2>1. CASE DOMAIN infos # {}
      <3>1. base = infos /\ i \in DOMAIN infos
        BY <1>3, <2>1
      <3>2. {"number", "sub", "iban"} \subseteq DOMAIN infos[i]
        BY <1>2, <3>1, UserAccountsRead
      <3>3. Agree(infos[i], found[j])
        BY <1>1, <1>2, <3>1, NamedAlikeFound
      <3> HIDE DEF infos, found, base
      <3> QED
        BY <3>1, <3>2, <3>3
    <2>2. CASE DOMAIN infos = {}
      <3>1. DOMAIN FallbackAccounts(u) = {}
        BY <1>2, <2>2, UserAccountsRead DEF FallbackAccounts
      <3>2. i \in DOMAIN sepas /\ base[i] = Made(sepas[i])
        BY <1>3, <2>2
      <3>3. sepas = found
        <4>1. sepas = SEPAAccounts(hispa) /\ DOMAIN SEPAAccounts(hispa) # {}
          BY <1>1, <3>1, <3>2 DEF fetch_sepa_accounts
        <4>2. hispa # <<>>
          BY <4>1 DEF SEPAAccounts
        <4> QED
          BY <4>1, <4>2, HISPAIsRead
      <3>4. {"number", "sub", "iban"} \subseteq DOMAIN base[i]
        BY <3>2 DEF Made
      <3>5. Agree(Made(found[i]), found[j])
        BY <1>1, <3>2, <3>3, MadeFound
      <3> HIDE DEF found, base, sepas
      <3> QED
        BY <3>2, <3>3, <3>4, <3>5
    <2> QED
      BY <2>1, <2>2
  <1>5. /\ accounts[i].number = base[i].number /\ accounts[i].sub = base[i].sub
        /\ accounts[i].iban = base[i].iban
    BY <1>2, <1>3, <1>4, JoinKeeps
  <1> HIDE DEF accounts, base, found
  <1>6. Agree(accounts[i], found[j])
    BY <1>4, <1>5, AgreeAlike
  <1> QED
    BY <1>6 DEF accounts, found

-----------------------------------------------------------------------------
(* Balances. *)

Has(fields, name) == \E i \in DOMAIN fields : fields[i].name = name
IsSequence(s) == \E S : s \in Seq(S)

LEMMA SequenceOfOne ==
    ASSUME NEW name, NEW type
    PROVE  /\ IsSequence(Req(name, type)) /\ Has(Req(name, type), name)
           /\ IsSequence(Opt(name, type)) /\ Has(Opt(name, type), name)
  <1>1. ASSUME NEW opt \in BOOLEAN
        PROVE  LET s == << Field(name, type, opt, FALSE, 1) >> IN IsSequence(s) /\ Has(s, name)
    <2> DEFINE f == Field(name, type, opt, FALSE, 1)
    <2>1. << f >> \in Seq({f})
      OBVIOUS
    <2>2. 1 \in DOMAIN << f >> /\ << f >>[1].name = name
      BY DEF Field
    <2> QED
      BY <2>1, <2>2 DEF IsSequence, Has
  <1> QED
    BY <1>1 DEF Req, Opt

LEMMA SequenceOfBoth ==
    ASSUME NEW s, NEW t, IsSequence(s), IsSequence(t)
    PROVE  /\ IsSequence(s \o t)
           /\ \A name : Has(s, name) \/ Has(t, name) => Has(s \o t, name)
  <1>1. PICK S : s \in Seq(S)
    BY DEF IsSequence
  <1>2. PICK T : t \in Seq(T)
    BY DEF IsSequence
  <1> DEFINE B == S \cup T
  <1>3. s \in Seq(B) /\ t \in Seq(B)
    BY <1>1, <1>2
  <1> HIDE DEF B
  <1>4. /\ s \o t \in Seq(B)
        /\ \A i \in DOMAIN s : i \in DOMAIN (s \o t) /\ (s \o t)[i] = s[i]
        /\ \A i \in DOMAIN t : Len(s) + i \in DOMAIN (s \o t) /\ (s \o t)[Len(s) + i] = t[i]
    BY <1>3
  <1>5. \A name : Has(s, name) => Has(s \o t, name)
    BY <1>4 DEF Has
  <1>6. \A name : Has(t, name) => Has(s \o t, name)
    BY <1>4 DEF Has
  <1> QED
    BY <1>4, <1>5, <1>6 DEF IsSequence

LEMMA BalanceNames ==
    /\ IsSequence(BalanceFields)
    /\ Has(BalanceFields, "balance_booked") /\ Has(BalanceFields, "line_of_credit")
  BY SequenceOfOne, SequenceOfBoth DEF BalanceFields

\* A group or segment holds what is given for one of its fields.
LEMMA ObjHolds ==
    ASSUME NEW type, NEW given, NEW name, Has(type.fields, name), name \in DOMAIN given
    PROVE  Obj(type, given).obj[name] = given[name]
  BY DEF Obj, Has

\* The segment of each version of a balance, and the groups in it.
LEMMA BalanceClasses ==
    /\ \A version \in {5, 6, 7} :
          LET class == CHOOSE c \in {HISAL5, HISAL6, HISAL7} : c.version = version
          IN Has(class.fields, "balance_booked") /\ Has(class.fields, "line_of_credit")
    /\ Has(BalanceSimple.fields, "amount") /\ Has(Balance.fields, "amount")
    /\ Has(Amount.fields, "amount") /\ Has(Amount.fields, "currency")
  <1>1. \A c \in {HISAL5, HISAL6, HISAL7} :
            Has(c.fields, "balance_booked") /\ Has(c.fields, "line_of_credit")
    <2>1. Has(HISAL5.fields, "balance_booked") /\ Has(HISAL5.fields, "line_of_credit")
      BY SequenceOfOne, SequenceOfBoth DEF HISAL5, Segment
    <2>2. Has(HISAL6.fields, "balance_booked") /\ Has(HISAL6.fields, "line_of_credit")
      BY BalanceNames, SequenceOfOne, SequenceOfBoth DEF HISAL6, Segment
    <2>3. Has(HISAL7.fields, "balance_booked") /\ Has(HISAL7.fields, "line_of_credit")
      BY BalanceNames, SequenceOfOne, SequenceOfBoth DEF HISAL7, Segment
    <2> QED
      BY <2>1, <2>2, <2>3
  <1>2. HISAL5.version = 5 /\ HISAL6.version = 6 /\ HISAL7.version = 7
    BY DEF HISAL5, HISAL6, HISAL7, Segment
  <1>3. \A version \in {5, 6, 7} :
            (CHOOSE c \in {HISAL5, HISAL6, HISAL7} : c.version = version)
                \in {HISAL5, HISAL6, HISAL7}
    BY <1>2
  <1>4. Has(BalanceSimple.fields, "amount")
    BY SequenceOfOne, SequenceOfBoth DEF BalanceSimple, Group
  <1>5. Has(Balance.fields, "amount")
    BY SequenceOfOne, SequenceOfBoth DEF Balance, Group
  <1>6. Has(Amount.fields, "amount") /\ Has(Amount.fields, "currency")
    BY SequenceOfOne, SequenceOfBoth DEF Amount, Group
  <1> QED
    BY <1>1, <1>3, <1>4, <1>5, <1>6

\* A balance is told with the amount and the credit line of the bank, and but for
\* version 5 with its currency.
LEMMA BalanceTold ==
    ASSUME NEW d \in BankData, NEW version \in {5, 6, 7}, NEW sepa \in Named, NEW id,
           sepa.iban \in DOMAIN d.balances
    PROVE  LET told == d.balances[sepa.iban]
               r == _balance_from_operations(id, BalanceRead(d, version, sepa))
           IN /\ r.id = id /\ r.amount = told.amount /\ r.credit = told.amount
              /\ version # 5 => r.currency = told.currency
  <1> DEFINE b == d.balances[sepa.iban]
             day == [date |-> "20250131"]
             money == Obj(Amount, [amount |-> [decimal |-> b.amount], currency |-> Val(b.currency)])
             simple == [credit_debit |-> Val(b.sign), date |-> day,
                        amount |-> [decimal |-> b.amount], currency |-> Val(b.currency)]
             full == [credit_debit |-> Val(b.sign), date |-> day, amount |-> money]
             booked == IF version = 5 THEN Obj(BalanceSimple, simple) ELSE Obj(Balance, full)
             class == CHOOSE c \in {HISAL5, HISAL6, HISAL7} : c.version = version
             given == [account |-> AccountAs(version, sepa), account_product |-> Val("A1"),
                       currency |-> Val(b.currency), balance_booked |-> booked,
                       line_of_credit |-> money]
             hisal == BalanceRead(d, version, sepa)
  <1>1. hisal.fields = Obj(class, given).obj
    BY BalancesAreRead DEF HISAL, Filled
  <1>2. hisal.fields["balance_booked"] = booked /\ hisal.fields["line_of_credit"] = money
    <2>1. Has(class.fields, "balance_booked") /\ Has(class.fields, "line_of_credit")
      BY BalanceClasses
    <2>2. /\ "balance_booked" \in DOMAIN given /\ given["balance_booked"] = booked
          /\ "line_of_credit" \in DOMAIN given /\ given["line_of_credit"] = money
      OBVIOUS
    <2> HIDE DEF class, given, booked, money, hisal
    <2> QED
      BY <1>1, <2>1, <2>2, ObjHolds
  <1>3. /\ Is(money, "obj") /\ ~ Is(money, "none")
        /\ money.obj["amount"] = [decimal |-> b.amount] /\ money.obj["currency"] = Val(b.currency)
    <2>1. Is(money, "obj") /\ ~ Is(money, "none")
      BY DEF Obj, Is
    <2> QED
      BY <2>1, BalanceClasses, ObjHolds
  <1> DEFINE result == _balance_to_hisal(booked)
  <1>4. result.amount = b.amount /\ (version # 5 => result.currency = b.currency)
    <2>1. CASE version = 5
      <3>1. booked.obj["amount"] = [decimal |-> b.amount]
        BY <2>1, BalanceClasses, ObjHolds
      <3> HIDE DEF booked
      <3> QED
        BY <2>1, <3>1 DEF _balance_to_hisal, Is
    <2>2. CASE version # 5
      <3>1. booked.obj["amount"] = money
        <4>1. "amount" \in DOMAIN full /\ full["amount"] = money
          OBVIOUS
        <4> HIDE DEF full, money
        <4> QED
          BY <2>2, <4>1, BalanceClasses, ObjHolds
      <3> HIDE DEF booked, money
      <3> QED
        BY <1>3, <2>2, <3>1 DEF _balance_to_hisal, Val
    <2> QED
      BY <2>1, <2>2
  <1> HIDE DEF booked, money, hisal, result
  <1>5. LET r == _balance_from_operations(id, hisal)
        IN /\ r.id = id /\ r.amount = result.amount /\ r.currency = result.currency
           /\ r.credit = b.amount
    BY <1>2, <1>3 DEF _balance_from_operations, result
  <1> QED
    BY <1>4, <1>5 DEF hisal

LEMMA FallbackNamed ==
    ASSUME NEW e \in BankData, NEW i \in DOMAIN FallbackAccounts(e.segments["upd"])
    PROVE  FallbackAccounts(e.segments["upd"])[i] \in Named
  <1> DEFINE Of(d) == {SEPAAccounts(Rows(d))[k] : k \in DOMAIN SEPAAccounts(Rows(d))}
                          \cup {FallbackAccounts(d.segments["upd"])[k] :
                                   k \in DOMAIN FallbackAccounts(d.segments["upd"])}
  <1>1. FallbackAccounts(e.segments["upd"])[i] \in Of(e)
    OBVIOUS
  <1>2. Named = UNION {Of(d) : d \in BankData}
    BY DEF Named
  <1> HIDE DEF Of
  <1> QED
    BY <1>1, <1>2

\* The accounts of an operation: a finite list in which a number names one IBAN.
LEMMA AccountsSourced ==
    ASSUME BankTyped, NEW ctx, Sourced(bank, ctx), NEW hispa \in Listings
    PROVE  LET sepas == fetch_sepa_accounts(Upd(ctx), hispa)
           IN /\ \E n \in Nat : DOMAIN sepas \subseteq 1 .. n
              /\ NamedOnce(sepas)
              /\ \A i \in DOMAIN sepas : sepas[i] \in Named
  <1> DEFINE d == bank.data
             e == ctx.sent["upd"]
             u == e.segments["upd"]
             sepas == fetch_sepa_accounts(Upd(ctx), hispa)
  <1>1. d \in BankData /\ e \in BankData /\ FallbackAccounts(Upd(ctx)) = FallbackAccounts(u)
    BY UserParametersSourced DEF BankTyped
  <1>2. CASE DOMAIN SEPAAccounts(hispa) # {}
    <2>1. sepas = SEPAAccounts(hispa)
      BY <1>2 DEF fetch_sepa_accounts
    <2>2. hispa # <<>>
      BY <1>2 DEF SEPAAccounts
    <2>3. sepas = SEPAAccounts(Rows(d))
      BY <2>1, <2>2, HISPAIsRead
    <2>4. NamedOnce(SEPAAccounts(Rows(d))) /\ IsList(Rows(d))
      BY <1>1, AccountsAreNamed
    <2>5. DOMAIN sepas \subseteq 1 .. Len(Rows(d)) /\ Len(Rows(d)) \in Nat
      BY <2>3, <2>4 DEF SEPAAccounts, IsList
    <2>6. \A i \in DOMAIN SEPAAccounts(Rows(d)) : SEPAAccounts(Rows(d))[i] \in Named
      BY <1>1 DEF Named
    <2> HIDE DEF sepas
    <2> QED
      BY <2>3, <2>4, <2>5, <2>6 DEF sepas
  <1>3. CASE DOMAIN SEPAAccounts(hispa) = {}
    <2>1. sepas = FallbackAccounts(u)
      BY <1>1, <1>3 DEF fetch_sepa_accounts
    <2>2. NamedOnce(FallbackAccounts(u)) /\ IsList(u)
      BY <1>1, AccountsAreNamed, SessionAssumption DEF Parts
    <2>3. DOMAIN sepas \subseteq 1 .. Len(u) /\ Len(u) \in Nat
      BY <2>1, <2>2 DEF FallbackAccounts, IsList
    <2>4. \A i \in DOMAIN FallbackAccounts(u) : FallbackAccounts(u)[i] \in Named
      BY <1>1, FallbackNamed
    <2> HIDE DEF sepas
    <2> QED
      BY <2>1, <2>2, <2>3, <2>4 DEF sepas
  <1> QED
    BY <1>2, <1>3

LEMMA BalanceVersion ==
    ASSUME NEW bpd
    PROVE  HKSALVersion(bpd) \in {0, 5, 6, 7}
  <1> DEFINE offered == Versions(bpd, "HISALS") \cap {5, 6, 7}
  <1>1. CASE offered = {}
    BY <1>1 DEF HKSALVersion, find_highest_supported_version, HighestOf
  <1>2. CASE offered # {}
    <2>1. offered \in SUBSET (1 .. 7)
      OBVIOUS
    <2>2. Max1(offered) \in offered
      BY <1>2, <2>1, Greatest
    <2> QED
      BY <1>2, <2>2 DEF HKSALVersion, find_highest_supported_version, HighestOf
  <1> QED
    BY <1>1, <1>2

\* What BalancesOfTheirAccounts asks of an answer.
BalancesTold(a) ==
    /\ \A i \in DOMAIN a.accounts :
          a.accounts[i].iban \in a.served /\ a.accounts[i].number # "" =>
              \E r \in a.results : IsBalanceOf(r, a.accounts[i], a)
    /\ \A r \in a.results : \E i \in DOMAIN a.accounts : IsBalanceOf(r, a.accounts[i], a)
    /\ \A r, s \in a.results : r.id = s.id => r = s

LEMMA BalancesFetched ==
    ASSUME BankTyped, NEW ctx, Sourced(bank, ctx), NEW hispa \in Listings,
           NEW served \in SUBSET DOMAIN bank.data.balances
    PROVE  /\ BalancesTold(_fetch_balances(ctx, hispa, served))
           /\ _fetch_balances(ctx, hispa, served).op = "balances"
  <1> DEFINE d == bank.data
             sepas == fetch_sepa_accounts(Upd(ctx), hispa)
             ids == {account_key(sepas[i]) : i \in DOMAIN sepas}
             fitting(id) == {i \in DOMAIN sepas : account_key(sepas[i]) = id}
             lookup == [id \in ids |-> LastOf(sepas, LAMBDA s : account_key(s) = id)]
             version == HKSALVersion(Bpd(ctx))
             asked == IF version = 0 \/ ~ CanAsk(ctx, "HKSAL") THEN {} ELSE ids
             answered == {id \in asked : lookup[id].iban \in served}
             a == _fetch_balances(ctx, hispa, served)
             Result(id) == _balance_from_operations(id, BalanceRead(d, version, lookup[id]))
  <1>1. /\ a.op = "balances" /\ a.data = d /\ a.version = version /\ a.accounts = sepas
        /\ a.served = (IF asked = {} THEN {} ELSE served)
        /\ a.results = {Result(id) : id \in answered}
    BY DEF _fetch_balances
  <1>2. PICK n \in Nat : DOMAIN sepas \subseteq 1 .. n
    BY AccountsSourced
  <1>3. NamedOnce(sepas) /\ \A i \in DOMAIN sepas : sepas[i] \in Named
    BY AccountsSourced
  <1>4. d \in BankData /\ version \in {0, 5, 6, 7}
    BY BalanceVersion DEF BankTyped
  <1>5. ASSUME NEW id \in ids
        PROVE  \E i \in DOMAIN sepas : lookup[id] = sepas[i] /\ account_key(sepas[i]) = id
    <2>1. fitting(id) # {} /\ fitting(id) \in SUBSET (1 .. n)
      BY <1>2
    <2>2. Max1(fitting(id)) \in fitting(id)
      BY <2>1, Greatest
    <2>3. lookup[id] = sepas[Max1(fitting(id))]
      BY <2>1 DEF LastOf
    <2> QED
      BY <2>2, <2>3
  <1>6. ASSUME NEW id \in answered
        PROVE  /\ Result(id).id = id
               /\ \A i \in DOMAIN sepas :
                     lookup[id].iban = sepas[i].iban /\ id = account_key(sepas[i]) =>
                         IsBalanceOf(Result(id), sepas[i], a)
    <2> DEFINE told == d.balances[lookup[id].iban]
               r == Result(id)
    <2>1. id \in ids /\ asked # {} /\ version \in {5, 6, 7} /\ lookup[id].iban \in served
      BY <1>4
    <2>2. lookup[id] \in Named /\ lookup[id].iban \in DOMAIN d.balances /\ a.served = served
      <3>1. PICK i \in DOMAIN sepas : lookup[id] = sepas[i] /\ account_key(sepas[i]) = id
        BY <1>5, <2>1
      <3> HIDE DEF lookup, asked, version, sepas, a
      <3> QED
        BY <1>1, <1>3, <2>1, <3>1
    <2>3. /\ r.id = id /\ r.amount = told.amount /\ r.credit = told.amount
          /\ version # 5 => r.currency = told.currency
      <3> HIDE DEF lookup, asked, version, sepas, a
      <3> QED
        BY <1>4, <2>1, <2>2, BalanceTold
    <2>4. a.data = d /\ a.version = version
      BY <1>1
    <2> HIDE DEF lookup, asked, version, sepas, a, Result, answered
    <2>5. ASSUME NEW i \in DOMAIN sepas, lookup[id].iban = sepas[i].iban, id = account_key(sepas[i])
          PROVE  IsBalanceOf(r, sepas[i], a)
      BY <2>1, <2>2, <2>3, <2>4, <2>5 DEF IsBalanceOf, Told
    <2> QED
      BY <2>3, <2>5
  <1>7. ASSUME NEW i \in DOMAIN sepas, sepas[i].iban \in a.served, sepas[i].number # ""
        PROVE  /\ account_key(sepas[i]) \in answered
               /\ lookup[account_key(sepas[i])].iban = sepas[i].iban
    <2> DEFINE id == account_key(sepas[i])
    <2>1. id \in ids /\ asked # {} /\ id \in asked /\ sepas[i].iban \in served
      BY <1>1, <1>7
    <2>2. PICK j \in DOMAIN sepas : lookup[id] = sepas[j] /\ account_key(sepas[j]) = id
      BY <1>5, <2>1
    <2> HIDE DEF lookup, asked, sepas
    <2>3. sepas[i].iban = sepas[j].iban
      BY <1>3, <1>7, <2>2 DEF NamedOnce, account_key
    <2> QED
      BY <2>1, <2>2, <2>3
  <1>8. answered \subseteq ids
    OBVIOUS
  <1> HIDE DEF sepas, ids, lookup, version, asked, answered, a, Result
  <1>9. ASSUME NEW i \in DOMAIN sepas, sepas[i].iban \in a.served, sepas[i].number # ""
        PROVE  \E r \in a.results : IsBalanceOf(r, sepas[i], a)
    <2>1. /\ account_key(sepas[i]) \in answered
          /\ lookup[account_key(sepas[i])].iban = sepas[i].iban
      BY <1>7, <1>9
    <2>2. Result(account_key(sepas[i])) \in a.results
      BY <1>1, <2>1
    <2>3. IsBalanceOf(Result(account_key(sepas[i])), sepas[i], a)
      BY <1>6, <2>1
    <2> QED
      BY <2>2, <2>3
  <1>10. ASSUME NEW r \in a.results
         PROVE  \E i \in DOMAIN sepas : IsBalanceOf(r, sepas[i], a)
    <2>1. PICK id \in answered : r = Result(id)
      BY <1>1, <1>10
    <2>2. PICK i \in DOMAIN sepas : lookup[id] = sepas[i] /\ account_key(sepas[i]) = id
      BY <1>5, <1>8, <2>1
    <2>3. IsBalanceOf(Result(id), sepas[i], a)
      BY <1>6, <2>1, <2>2
    <2> QED
      BY <2>1, <2>3
  <1>11. ASSUME NEW r \in a.results, NEW s \in a.results, r.id = s.id
         PROVE  r = s
    <2>1. PICK id \in answered : r = Result(id)
      BY <1>1, <1>11
    <2>2. PICK other \in answered : s = Result(other)
      BY <1>1, <1>11
    <2>3. r.id = id /\ s.id = other
      BY <1>6, <2>1, <2>2
    <2> QED
      BY <1>11, <2>1, <2>2, <2>3
  <1>12. BalancesTold(a)
    BY <1>1, <1>9, <1>10, <1>11 DEF BalancesTold
  <1> QED
    BY <1>1, <1>12 DEF a

-----------------------------------------------------------------------------
(* Formats. *)

\* A format that was offered when the request was sent is offered when the answer
\* is processed, by whichever way the parameters came there.
LEMMA OfferedResumed ==
    ASSUME NEW ctx, Sourced(bank, ctx), NEW format
    PROVE  Offered(Bpd(Resumed(ctx)), format) <=> Offered(Bpd(ctx), format)
  <1> DEFINE bpd == ctx.sent["bpd"].segments["bpd"]
  <1>1. Resumed(ctx).sent = ctx.sent
    BY DEF Resumed, _extract_params_dict, create_session_state
  <1>2. SameKinds(Bpd(ctx), bpd) /\ SameKinds(Bpd(Resumed(ctx)), bpd)
    BY <1>1, SourcedResumed DEF Sourced, SourcedPart, AreCopies, Parts, Bpd
  <1> HIDE DEF bpd
  <1> QED
    BY <1>2, KindsDecide

LEMMA PreferredIsOffered ==
    ASSUME NEW bpd
    PROVE  LET format == _fetch_with_mt940_preferred(bpd)
           IN format \in {None, "MT940", "CAMT"} /\ (format # None => Offered(bpd, format))
  BY DEF _fetch_with_mt940_preferred, Offered

LEMMA TransactionsContinue ==
    ASSUME NEW p, NEW ctx, NEW entries \in BOOLEAN, NEW more \in BOOLEAN,
           p.format \in {None, "MT940", "CAMT"}, p.connected \in BOOLEAN,
           p.format # None => Offered(Bpd(ctx), p.format)
    PROVE  LET a == _complete_transactions(p, ctx, entries, more)
           IN a.op = "transactions" /\ (a.entries => ~ a.failed /\ a.rest = a.first)
  <1> DEFINE a == _complete_transactions(p, ctx, entries, more)
             paged == p.format # None /\ p.connected
  <1>1. /\ a.op = "transactions" /\ a.entries = (paged /\ entries) /\ a.first = p.format
        /\ paged /\ entries => ContinuationFormat(p.format, entries) = p.format
    BY DEF _complete_transactions, ContinuationFormat
  <1>2. ASSUME paged, entries
        PROVE  ~ a.failed /\ a.rest = p.format
    BY <1>1, <1>2 DEF _complete_transactions
  <1> QED
    BY <1>1, <1>2

-----------------------------------------------------------------------------
(* What a step leaves alone, and what it sets. *)

LEMMA SessionKept ==
    ASSUME SessionSourced, session' \in {session, None}, bank' = bank
    PROVE  SessionSourced'
  BY DEF SessionSourced

LEMMA SessionCreated ==
    ASSUME NEW ctx, Sourced(bank, ctx), session' = create_session_state(ctx), bank' = bank
    PROVE  SessionSourced'
  <1>1. Sourced(bank, Resumed(ctx))
    BY SourcedResumed
  <1> QED
    BY <1>1 DEF SessionSourced, Resumed

LEMMA PendingKept ==
    ASSUME PendingSourced, pending' \in {pending, None}, bank' = bank
    PROVE  PendingSourced'
  BY DEF PendingSourced

LEMMA PendingSet ==
    ASSUME NEW op \in Operations, NEW connected \in BOOLEAN, NEW ctx, Sourced(bank, ctx),
           NEW format \in {None, "MT940", "CAMT"}, format # None => Offered(Bpd(ctx), format),
           pending' = Waiting(op, connected, ctx, format), bank' = bank
    PROVE  PendingSourced'
  <1>1. /\ pending'.op = op /\ pending'.connected = connected /\ pending'.ctx = ctx
        /\ pending'.format = format
    BY DEF Waiting
  <1> QED
    BY <1>1 DEF PendingSourced

\* A poll or a restart restores the parameters of what is pending.
LEMMA PendingResumed ==
    ASSUME PendingSourced, pending # None, bank' = bank,
           pending' = [pending EXCEPT !.ctx = Resumed(pending.ctx)]
    PROVE  PendingSourced'
  <1> DEFINE ctx == Resumed(pending.ctx)
  <1>1. /\ pending = Waiting(pending.op, pending.connected, pending.ctx, pending.format)
        /\ pending.op \in Operations /\ pending.connected \in BOOLEAN
        /\ pending.format \in {None, "MT940", "CAMT"} /\ Sourced(bank, pending.ctx)
        /\ pending.format # None => Offered(Bpd(pending.ctx), pending.format)
    BY DEF PendingSourced
  <1>2. pending' = Waiting(pending.op, pending.connected, ctx, pending.format)
    BY <1>1 DEF Waiting
  <1>3. Sourced(bank, ctx) /\ (pending.format # None => Offered(Bpd(ctx), pending.format))
    BY <1>1, SourcedResumed, OfferedResumed
  <1> HIDE DEF ctx
  <1> QED
    BY <1>1, <1>2, <1>3, PendingSet

LEMMA ClientKept ==
    ASSUME ClientInv, client' \in {client, Idle}
    PROVE  ClientInv'
  <1>1. CASE client' = client
    BY <1>1 DEF ClientInv, ClientTyped, ListedAccountsAreFound
  <1>2. CASE client' = Idle
    BY <1>2 DEF ClientInv, ClientTyped, ListedAccountsAreFound, Idle
  <1> QED
    BY <1>1, <1>2

LEMMA ClientConnected ==
    ASSUME BankTyped, NEW ctx, Sourced(bank, ctx), NEW hispa \in Listings,
           ~ Failed(fetch_all(Upd(ctx), hispa)), client' = Connected(ctx, hispa)
    PROVE  ClientInv'
  <1>1. /\ client'.connected = TRUE /\ client'.accounts = fetch_all(Upd(ctx), hispa)
        /\ client'.operations = get_supported_operations(Bpd(ctx)) /\ client'.listed = bank.data
    BY DEF Connected
  <1>2. ClientTyped'
    BY <1>1 DEF ClientTyped, get_supported_operations, BankTyped
  <1>3. ListedAccountsAreFound'
    <2>1. \A i \in DOMAIN client'.accounts, j \in DOMAIN SEPAAccounts(Rows(client'.listed)) :
              Agree(client'.accounts[i], SEPAAccounts(Rows(client'.listed))[j])
      <3> DEFINE accounts == fetch_all(Upd(ctx), hispa)
                 found == SEPAAccounts(Rows(bank.data))
      <3>1. \A i \in DOMAIN accounts, j \in DOMAIN found : Agree(accounts[i], found[j])
        BY ListingFound
      <3> HIDE DEF accounts
      <3> QED
        BY <1>1, <3>1 DEF accounts
    <2> QED
      BY <2>1, Zenon DEF ListedAccountsAreFound, Agree
  <1> QED
    BY <1>2, <1>3 DEF ClientInv

LEMMA AnswerKept ==
    ASSUME AnswerInv, answer' \in {answer, None}
    PROVE  AnswerInv'
  <1>1. CASE answer' = None
    BY <1>1 DEF AnswerInv, AnswerTyped, BalancesOfTheirAccounts, ContinuedInKind, MethodsAsSent
  <1>2. CASE answer' = answer
    <2>1. AnswerTyped' /\ ContinuedInKind'
      BY <1>2 DEF AnswerInv, AnswerTyped, ContinuedInKind
    <2>2. MethodsAsSent'
      BY <1>2 DEF AnswerInv, MethodsAsSent
    <2>3. BalancesOfTheirAccounts'
      <3>1. BalancesOfTheirAccounts <=> (answer # None /\ answer.op = "balances" => BalancesTold(answer))
        BY DEF BalancesOfTheirAccounts, BalancesTold
      <3>2. BalancesOfTheirAccounts'
                <=> (answer' # None /\ answer'.op = "balances" => BalancesTold(answer'))
        BY DEF BalancesOfTheirAccounts, BalancesTold
      <3>3. BalancesOfTheirAccounts
        BY DEF AnswerInv
      <3> QED
        BY <1>2, <3>1, <3>2, <3>3
    <2> QED
      BY <2>1, <2>2, <2>3 DEF AnswerInv
  <1> QED
    BY <1>1, <1>2

LEMMA AnswerAccounts ==
    ASSUME answer' = Answer("accounts")
    PROVE  AnswerInv'
  BY DEF Answer, AnswerInv, AnswerTyped, BalancesOfTheirAccounts, ContinuedInKind, MethodsAsSent,
         Requests

LEMMA AnswerBalances ==
    ASSUME BankTyped, NEW ctx, Sourced(bank, ctx), NEW hispa \in Listings,
           NEW served \in SUBSET DOMAIN bank.data.balances,
           answer' = _fetch_balances(ctx, hispa, served)
    PROVE  AnswerInv'
  <1>1. answer'.op = "balances" /\ BalancesTold(answer')
    BY BalancesFetched
  <1>2. BalancesOfTheirAccounts'
    BY <1>1 DEF BalancesOfTheirAccounts, BalancesTold
  <1> QED
    BY <1>1, <1>2 DEF AnswerInv, AnswerTyped, ContinuedInKind, MethodsAsSent, Requests

LEMMA AnswerTransactions ==
    ASSUME answer'.op = "transactions",
           answer'.entries => ~ answer'.failed /\ answer'.rest = answer'.first
    PROVE  AnswerInv'
  BY DEF AnswerInv, AnswerTyped, BalancesOfTheirAccounts, ContinuedInKind, MethodsAsSent, Requests

LEMMA AnswerMethods ==
    ASSUME NEW ctx, Sourced(bank, ctx),
           answer' = [op |-> "methods", methods |-> _extract_tan_methods(Bpd(ctx)),
                      sent |-> ctx.sent["bpd"]]
    PROVE  AnswerInv'
  <1>1. ctx.sent["bpd"] \in BankData /\ AreCopies(Bpd(ctx), ctx.sent["bpd"].segments["bpd"])
    BY DEF Sourced, SourcedPart, Parts, Bpd
  <1>2. MethodsAsSent'
    BY <1>1, RulesKept DEF MethodsAsSent
  <1> QED
    BY <1>2 DEF AnswerInv, AnswerTyped, BalancesOfTheirAccounts, ContinuedInKind, Requests

-----------------------------------------------------------------------------
(* Every step keeps the invariant. *)

LEMMA Starts == Init => Inv
  <1> SUFFICES ASSUME Init PROVE Inv
    OBVIOUS
  <1>1. session = None /\ client = Idle /\ pending = None /\ answer = None
    BY DEF Init
  <1>2. Typed
    <2>1. CASE message = None
      <3>1. /\ bank \in [data : BankData, bpd : {1}, upd : {0, 1}, sendsAll : BOOLEAN]
        BY <2>1, SessionAssumption DEF Init
      <3> QED
        BY <2>1, <3>1, SessionAssumption DEF Typed, BankTyped
    <2>2. CASE message # None
      BY <1>1, <2>2, SessionAssumption DEF Init, Typed
    <2> QED
      BY <2>1, <2>2
  <1>3. SessionSourced /\ PendingSourced
    BY <1>1 DEF SessionSourced, PendingSourced
  <1>4. ClientInv
    BY <1>1 DEF ClientInv, ClientTyped, ListedAccountsAreFound, Idle
  <1>5. AnswerInv
    BY <1>1 DEF AnswerInv, AnswerTyped, BalancesOfTheirAccounts, ContinuedInKind, MethodsAsSent
  <1> QED
    BY <1>2, <1>3, <1>4, <1>5 DEF Inv

\* An operation starts from parameters of the bank, the first one after a dialog
\* that fetched them.
LEMMA StartSourced ==
    ASSUME Inv, message = None
    PROVE  Sourced(bank, Synchronised) /\ Sourced(bank, initialize(Synchronised))
  <1>1. BankTyped /\ SessionSourced
    BY DEF Inv, Typed
  <1>2. Sourced(bank, Synchronised)
    <2>1. CASE session = None
      BY <1>1, <2>1, SourcedLogin DEF Synchronised
    <2>2. CASE session # None
      BY <1>1, <2>2 DEF Synchronised, build_parameters_from_state, SessionSourced
    <2> QED
      BY <2>1, <2>2
  <1> QED
    BY <1>1, <1>2, SourcedLogin

\* A request that is challenged waits with the parameters it was sent under.
LEMMA WaitKeeps ==
    ASSUME Inv, message = None, NEW op \in Operations, NEW connected \in BOOLEAN,
           NEW ctx, Sourced(bank, ctx), NEW format \in {None, "MT940", "CAMT"},
           format # None => Offered(Bpd(ctx), format),
           Wait(Waiting(op, connected, ctx, format))
    PROVE  Inv'
  <1>1. /\ pending' = Waiting(op, connected, ctx, format) /\ session' = create_session_state(ctx)
        /\ bank' = bank /\ client' = client /\ answer' = answer /\ message' = message
    BY DEF Wait, Waiting
  <1>2. PendingSourced'
    BY <1>1, PendingSet
  <1>3. SessionSourced'
    BY <1>1, SessionCreated
  <1>4. Typed'
    BY <1>1 DEF Inv, Typed, BankTyped
  <1> QED
    BY <1>1, <1>2, <1>3, <1>4, ClientKept, AnswerKept DEF Inv

LEMMA OperationKeeps ==
    ASSUME Inv, Free, NEW start, start = Synchronised, NEW ctx, ctx = initialize(start),
           Operation(start, ctx)
    PROVE  Inv'
  <1>1. message = None /\ BankTyped /\ Sourced(bank, ctx)
    BY StartSourced DEF Inv, Typed, Free
  <1> DEFINE preferred == _fetch_with_mt940_preferred(Bpd(ctx))
  <1>2. CASE ConnectChallenged(start, ctx)
    <2>1. PICK op \in Operations : Wait(Waiting(op, FALSE, ctx, None))
      BY <1>2 DEF ConnectChallenged
    <2> QED
      BY <1>1, <2>1, WaitKeeps
  <1>3. CASE Connect(ctx)
    <2>1. PICK hispa \in Listings :
              ~ Failed(fetch_all(Upd(ctx), hispa)) /\ client' = Connected(ctx, hispa)
      BY <1>3 DEF Connect
    <2>2. /\ session' = create_session_state(ctx) /\ answer' = Answer("accounts")
          /\ bank' = bank /\ pending' = pending /\ message' = message
      BY <1>3 DEF Connect
    <2>3. ClientInv'
      BY <1>1, <2>1, ClientConnected
    <2>4. SessionSourced' /\ PendingSourced'
      BY <1>1, <2>2, SessionCreated, PendingKept DEF Inv
    <2>5. Typed'
      BY <1>1, <2>2 DEF Typed, BankTyped
    <2> QED
      BY <2>2, <2>3, <2>4, <2>5, AnswerAccounts DEF Inv
  <1>4. CASE GetBalancesChallenged(start, ctx)
    BY <1>1, <1>4, WaitKeeps DEF GetBalancesChallenged, Operations
  <1>5. CASE GetBalances(ctx)
    <2>1. PICK hispa \in Listings, served \in SUBSET DOMAIN bank.data.balances :
              answer' = _fetch_balances(ctx, hispa, served)
      BY <1>5 DEF GetBalances
    <2>2. AnswerInv'
      BY <1>1, <2>1, AnswerBalances
    <2>3. bank' = bank /\ session' = session /\ client' = client /\ pending' = pending
          /\ message' = message
      BY <1>5 DEF GetBalances
    <2>4. SessionSourced' /\ PendingSourced' /\ ClientInv'
      BY <2>3, SessionKept, PendingKept, ClientKept DEF Inv
    <2>5. Typed'
      BY <1>1, <2>3 DEF Typed, BankTyped
    <2> QED
      BY <2>2, <2>4, <2>5 DEF Inv
  <1>6. CASE GetTransactionsChallenged(start, ctx)
    <2>1. PICK format \in {None, preferred} : Wait(Waiting("transactions", TRUE, ctx, format))
      BY <1>6 DEF GetTransactionsChallenged
    <2>2. /\ format \in {None, "MT940", "CAMT"}
          /\ format # None => Offered(Bpd(ctx), format)
      BY <2>1, PreferredIsOffered
    <2>3. "transactions" \in Operations
      BY DEF Operations
    <2> QED
      BY <1>1, <2>1, <2>2, <2>3, WaitKeeps
  <1> QED
    BY <1>2, <1>3, <1>4, <1>5, <1>6 DEF Operation

LEMMA StillWaitingKeeps ==
    ASSUME Inv, StillWaiting
    PROVE  Inv'
  <1>1. /\ message = None /\ pending # None
        /\ pending' = [pending EXCEPT !.ctx = Resumed(pending.ctx)]
        /\ bank' = bank /\ session' = session /\ client' = client /\ answer' = answer
        /\ message' = message
    BY DEF StillWaiting, Free
  <1>2. PendingSourced'
    BY <1>1, PendingResumed DEF Inv
  <1>3. Typed'
    BY <1>1 DEF Inv, Typed, BankTyped
  <1> QED
    BY <1>1, <1>2, <1>3, SessionKept, ClientKept, AnswerKept DEF Inv

LEMMA RejectedKeeps ==
    ASSUME Inv, Rejected
    PROVE  Inv'
  <1>1. /\ message = None /\ pending' = None
        /\ bank' = bank /\ session' = session /\ client' = client /\ answer' = answer
        /\ message' = message
    BY DEF Rejected, Free
  <1>2. Typed'
    BY <1>1 DEF Inv, Typed, BankTyped
  <1> QED
    BY <1>1, <1>2, PendingKept, SessionKept, ClientKept, AnswerKept DEF Inv

\* What was approved is completed with the parameters of the request or with those
\* restored, and both are as the bank sent them.
LEMMA ApprovedKeeps ==
    ASSUME Inv, Approved
    PROVE  Inv'
  <1>1. /\ message = None /\ pending # None /\ pending' = None
        /\ bank' = bank /\ message' = message
    BY DEF Approved, Free
  <1>2. PICK ctx \in Contexts, hispa \in Listings, entries, more \in BOOLEAN,
             served \in SUBSET DOMAIN bank.data.balances :
          /\ Discovers(ctx, hispa)
          /\ answer' = Completed(ctx, hispa, served, entries, more)
          /\ session' = IF answer'.op = "transactions" /\ answer'.failed /\ pending.connected
                        THEN session ELSE create_session_state(ctx)
    BY DEF Approved
  <1>3. /\ BankTyped /\ SessionSourced /\ ClientInv
        /\ pending.op \in Operations /\ pending.connected \in BOOLEAN
        /\ pending.format \in {None, "MT940", "CAMT"}
        /\ Sourced(bank, pending.ctx)
        /\ pending.format # None => Offered(Bpd(pending.ctx), pending.format)
    BY <1>1 DEF Inv, Typed, PendingSourced
  <1>4. /\ Sourced(bank, ctx)
        /\ pending.format # None => Offered(Bpd(ctx), pending.format)
    BY <1>3, SourcedResumed, OfferedResumed DEF Contexts
  <1>5. ClientInv'
    BY <1>2, <1>3, <1>4, ClientKept, ClientConnected DEF Discovers
  <1>6. AnswerInv'
    <2>1. CASE pending.op = "accounts"
      BY <1>2, <2>1, AnswerAccounts DEF Completed
    <2>2. CASE pending.op = "balances"
      BY <1>2, <1>3, <1>4, <2>2, AnswerBalances DEF Completed
    <2>3. CASE pending.op = "transactions"
      <3>1. answer' = _complete_transactions(pending, ctx, entries, more)
        BY <1>2, <2>3 DEF Completed
      <3> QED
        BY <1>3, <1>4, <3>1, TransactionsContinue, AnswerTransactions
    <2> QED
      BY <1>3, <2>1, <2>2, <2>3 DEF Operations
  <1>7. SessionSourced'
    <2>1. CASE session' = session
      BY <1>1, <1>3, <2>1, SessionKept
    <2>2. CASE session' = create_session_state(ctx)
      BY <1>1, <1>4, <2>2, SessionCreated
    <2> QED
      BY <1>2, <2>1, <2>2
  <1>8. Typed' /\ PendingSourced'
    BY <1>1, <1>3 DEF Typed, BankTyped, PendingSourced
  <1> QED
    BY <1>5, <1>6, <1>7, <1>8 DEF Inv

LEMMA GetTanMethodsKeeps ==
    ASSUME Inv, GetTanMethods
    PROVE  Inv'
  <1>1. /\ message = None /\ bank' = bank /\ session' = session /\ client' = client
        /\ pending' = pending /\ message' = message
    BY DEF GetTanMethods, Free
  <1> DEFINE used == IF HasMethods(session) THEN build_parameters_from_state(session)
                     ELSE initialize(Unknown)
  <1>2. answer' = [op |-> "methods", methods |-> _extract_tan_methods(Bpd(used)),
                   sent |-> used.sent["bpd"]]
    BY DEF GetTanMethods
  <1>3. BankTyped /\ SessionSourced
    BY <1>1 DEF Inv, Typed
  <1>4. Sourced(bank, used)
    <2>1. CASE HasMethods(session)
      BY <1>3, <2>1 DEF HasMethods, build_parameters_from_state, SessionSourced
    <2>2. CASE ~ HasMethods(session)
      BY <1>3, <2>2, SourcedLogin
    <2> QED
      BY <2>1, <2>2
  <1> HIDE DEF used
  <1>5. AnswerInv'
    BY <1>2, <1>4, AnswerMethods
  <1>6. Typed'
    BY <1>1, <1>3 DEF Typed, BankTyped
  <1> QED
    BY <1>1, <1>5, <1>6, SessionKept, PendingKept, ClientKept DEF Inv

LEMMA RestartKeeps ==
    ASSUME Inv, Restart
    PROVE  Inv'
  <1>1. /\ message = None /\ client' = Idle /\ session' \in {session, None}
        /\ bank' = bank /\ answer' = answer /\ message' = message
    BY DEF Restart, Free
  <1>2. PendingSourced'
    BY <1>1, PendingKept, PendingResumed DEF Restart, Inv
  <1>3. Typed'
    BY <1>1 DEF Inv, Typed, BankTyped
  <1> QED
    BY <1>1, <1>2, <1>3, SessionKept, ClientKept, AnswerKept DEF Inv

\* Whatever is saved is behind the bank after a revision, and still a copy of what
\* the bank sent before.
LEMMA ReviseKeeps ==
    ASSUME Inv, Revise
    PROVE  Inv'
  <1>1. /\ message = None /\ answer = None /\ bank.bpd <= MaxRevisions
        /\ session' = session /\ client' = client /\ pending' = pending /\ answer' = answer
        /\ message' = message
    BY DEF Revise, Free
  <1>2. PICK d \in BankData :
          bank' = [bank EXCEPT !.data = d, !.bpd = @ + 1, !.upd = IF @ = 0 THEN 0 ELSE @ + 1]
    BY DEF Revise
  <1>3. BankTyped
    BY <1>1 DEF Inv, Typed
  <1>4. BankTyped'
    <2>1. /\ bank'.data = d /\ bank'.bpd = bank.bpd + 1 /\ bank'.sendsAll = bank.sendsAll
          /\ bank'.upd = IF bank.upd = 0 THEN 0 ELSE bank.upd + 1
          /\ bank' = [data |-> bank'.data, bpd |-> bank'.bpd, upd |-> bank'.upd,
                      sendsAll |-> bank'.sendsAll]
      BY <1>2, <1>3 DEF BankTyped
    <2>2. /\ bank.bpd \in 1 .. MaxRevisions + 1 /\ bank.upd \in 0 .. MaxRevisions + 1
          /\ bank.upd <= bank.bpd /\ bank.sendsAll \in BOOLEAN
      BY <1>3 DEF BankTyped
    <2>3. /\ bank'.bpd \in 1 .. MaxRevisions + 1 /\ bank'.upd \in 0 .. MaxRevisions + 1
          /\ bank'.upd <= bank'.bpd
      BY <1>1, <2>1, <2>2, SessionAssumption
    <2> QED
      BY <2>1, <2>2, <2>3 DEF BankTyped
  <1>5. Typed'
    BY <1>1, <1>4 DEF Typed
  <1>6. \A ctx : Sourced(bank, ctx) => Sourced(bank', ctx)
    BY <1>2, <1>3, SourcedRevised
  <1>7. SessionSourced' /\ PendingSourced'
    BY <1>1, <1>6 DEF Inv, SessionSourced, PendingSourced
  <1> QED
    BY <1>1, <1>5, <1>7, ClientKept, AnswerKept DEF Inv

LEMMA ReturnedKeeps ==
    ASSUME Inv, Returned
    PROVE  Inv'
  <1>1. /\ message = None /\ answer' = None
        /\ bank' = bank /\ session' = session /\ client' = client /\ pending' = pending
        /\ message' = message
    BY DEF Returned, Inv, Typed
  <1>2. Typed'
    BY <1>1 DEF Inv, Typed, BankTyped
  <1> QED
    BY <1>1, <1>2, SessionKept, PendingKept, ClientKept, AnswerKept DEF Inv

LEMMA StepsKeep == Inv /\ [Next]_vars => Inv'
  <1> SUFFICES ASSUME Inv, [Next]_vars PROVE Inv'
    OBVIOUS
  <1>1. ASSUME Free, NEW start \in {Synchronised}, NEW ctx \in {initialize(start)},
               Operation(start, ctx)
        PROVE  Inv'
    BY <1>1, OperationKeeps
  <1>2. CASE UNCHANGED vars
    <2>1. /\ bank' = bank /\ session' = session /\ client' = client /\ pending' = pending
          /\ answer' = answer /\ message' = message
      BY <1>2 DEF vars
    <2>2. Typed'
      BY <2>1 DEF Inv, Typed, BankTyped
    <2> QED
      BY <2>1, <2>2, SessionKept, PendingKept, ClientKept, AnswerKept DEF Inv
  <1> QED
    BY <1>1, <1>2, StillWaitingKeeps, RejectedKeeps, ApprovedKeeps, GetTanMethodsKeeps,
       RestartKeeps, ReviseKeeps, ReturnedKeeps DEF Next

-----------------------------------------------------------------------------

\* Every copy of the parameters that a session, a snapshot or a dialog holds goes
\* back to what the bank sent at one time; what the client knows and answers was
\* made from such copies.
THEOREM CopiesStayWithTheBank == Spec => []Inv
  BY Starts, StepsKeep, PTL DEF Spec

\* The states of clients, sessions and banks (FinTS3ClientDecoupled, SessionState).
THEOREM TypesAreKept == Spec => []TypeOK
  <1>1. Inv => TypeOK
    <2> SUFFICES ASSUME Inv PROVE TypeOK
      OBVIOUS
    <2>1. client.connected \in BOOLEAN /\ (~ client.connected => client = Idle)
          /\ client.operations \subseteq DOMAIN FinTSOperations
      BY DEF Inv, ClientInv, ClientTyped
    <2>2. pending = None \/ (pending.op \in Operations /\ pending.format \in {None, "MT940", "CAMT"})
      BY DEF Inv, PendingSourced
    <2>3. answer = None \/ answer.op \in Requests
      BY DEF Inv, AnswerInv, AnswerTyped
    <2>4. /\ message = None \/ (bank = None /\ answer = None /\ session = None)
          /\ bank = None \/ (/\ bank.data \in BankData
                             /\ bank.sendsAll \in BOOLEAN
                             /\ bank.bpd \in 1 .. MaxRevisions + 1 /\ bank.upd \in 0 .. bank.bpd)
      BY SessionAssumption DEF Inv, Typed, BankTyped
    <2> QED
      BY <2>1, <2>2, <2>3, <2>4 DEF TypeOK
  <1> QED
    BY <1>1, CopiesStayWithTheBank, PTL

\* However often parameters are saved, restored and resumed from, by whichever
\* poll, restart or login, and whatever the bank revised meanwhile, the client
\* decides as from what the bank sent (ParameterStore, create_session_state,
\* build_parameters_from_state, resume_and_poll).
THEOREM StoresAlwaysActAsSent == Spec => []StoresActAsSent
  <1>1. Inv => StoresActAsSent
    BY StoresFollow DEF Inv, AnswerInv
  <1> QED
    BY <1>1, CopiesStayWithTheBank, PTL

\* An account that a connected client listed with its number is found again under
\* the id it was listed with when the bank names it with a number in HISPA, and under
\* that id no other is found (AccountDiscoveryService, account_key).  Of an account
\* without a number nothing is claimed: it may be listed under an id that nothing has
\* (see BalancesAsTold, which is violated).
THEOREM ListedAccountsAreAlwaysFound == Spec => []ListedAccountsAreFound
  <1>1. Inv => ListedAccountsAreFound
    BY DEF Inv, ClientInv
  <1> QED
    BY <1>1, CopiesStayWithTheBank, PTL

\* No id gets two balances or one that was told of no account with this id, and an
\* account with a number gets its own when it was told, whichever requests failed and
\* whichever version of HKSAL was used (_fetch_balances).  An account without a number
\* may lose its balance (see BalancesAsTold, which is violated).
THEOREM BalancesAreAlwaysOfTheirAccounts == Spec => []BalancesOfTheirAccounts
  <1>1. Inv => BalancesOfTheirAccounts
    BY DEF Inv, AnswerInv
  <1> QED
    BY <1>1, CopiesStayWithTheBank, PTL

\* A download that an approval released goes on in the format of its first page,
\* which the bank still offers under the parameters restored since
\* (_complete_transactions_from_approval).
THEOREM DownloadsContinueInKind == Spec => []ContinuedInKind
  <1>1. Inv => ContinuedInKind
    BY DEF Inv, AnswerInv
  <1> QED
    BY <1>1, CopiesStayWithTheBank, PTL
=============================================================================
