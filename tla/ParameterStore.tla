---------------------------- MODULE ParameterStore ----------------------------
(***************************************************************************)
(* Bank and user parameter data (BPD, UPD) of a client: how answers of the *)
(* bank are taken over, how they are saved and restored                    *)
(* (protocol/parameters.py, dialog/responses.py), and everything that is   *)
(* decided from them: which versions of a request are sent, whether it     *)
(* needs an approval, which accounts there are and which TAN methods.      *)
(***************************************************************************)
EXTENDS Segments, TLC

Max1(S) == CHOOSE n \in S : \A m \in S : m <= n
Min1(S) == CHOOSE n \in S : \A m \in S : n <= m

\* int of a version on the wire, where it has up to three digits.
VersionOf(v) == CHOOSE n \in 0 .. 999 : ToString(n) = v.int

NoParameters == [version |-> 0, segments |-> <<>>, head |-> Absent]
EmptyStore == [bpd |-> NoParameters, upd |-> NoParameters]

\* The first and the last of several that fit count.
FirstOf(s, Test(_)) ==
    LET fitting == {i \in DOMAIN s : Test(s[i])}
    IN IF fitting = {} THEN Absent ELSE s[Min1(fitting)]

LastOf(s, Test(_)) ==
    LET fitting == {i \in DOMAIN s : Test(s[i])}
    IN IF fitting = {} THEN Absent ELSE s[Max1(fitting)]

find_segments(segments, type) == SelectSeq(segments, LAMBDA s : s.type = type)

\* A search by class finds no segment that fell back to a generic one.
IsOf(s, class) == s.typed /\ s.type = class.type /\ s.version = class.version
find_segment_first(segments, class) == FirstOf(segments, LAMBDA s : IsOf(s, class))

-----------------------------------------------------------------------------
(* Answers of the bank. *)

\* ?I???S
IsParameter(type) == Len(type) = 6 /\ SubSeq(type, 2, 2) = "I" /\ SubSeq(type, 6, 6) = "S"

_extract_bpd(message) ==
    LET head == find_segment_first(message, HIBPA3)
    IN IF Is(head, "none") THEN Absent
       ELSE [version |-> VersionOf(head.fields["bpd_version"]), head |-> head,
             segments |-> SelectSeq(message, LAMBDA s : IsParameter(s.type))]

_extract_upd(message) ==
    LET head == find_segment_first(message, HIUPA4)
    IN IF Is(head, "none") THEN Absent
       ELSE [version |-> VersionOf(head.fields["upd_version"]), head |-> head,
             segments |-> find_segments(message, "HIUPD")]

\* Mutant: only a higher version is taken over.
NewerOnly(received, known) == IF Is(received, "none") THEN FALSE ELSE received.version > known.version

\* Parameters of the version that is known replace it as well.
Newer(received, known) == IF Is(received, "none") THEN FALSE ELSE received.version >= known.version

update_from_response(store, message) ==
    LET bpd == _extract_bpd(message)
        upd == _extract_upd(message)
    IN [bpd |-> IF Newer(bpd, store.bpd) THEN bpd ELSE store.bpd,
        upd |-> IF Newer(upd, store.upd) THEN upd ELSE store.upd]

-----------------------------------------------------------------------------
(* Saving and restoring. *)

WireOf(segment) == [type |-> segment.type, version |-> segment.version,
                    raw |-> Written(segment)]

serialize(parameters) ==
    [version |-> parameters.version,
     segments |-> [i \in DOMAIN parameters.segments |-> WireOf(parameters.segments[i])],
     head |-> IF Is(parameters.head, "none") THEN Absent ELSE WireOf(parameters.head)]

Parts == {"bpd", "upd"}
to_dict(store) == [part \in Parts |-> serialize(store[part])]

ParsedWire(w) == parse_segment(w.type, w.version, w.raw)

\* What a segment is after it was saved.
Reread(segment) == ParsedWire(WireOf(segment))

\* Bytes that cannot be parsed leave no segment at all.
AllOrNothing(segments) == IF Failed(segments) THEN <<>> ELSE segments
ParsedMessage(wires) == AllOrNothing([i \in DOMAIN wires |-> ParsedWire(wires[i])])

\* The version is the one that was noted beside the bytes.
from_bytes(saved) ==
    LET heads == ParsedMessage(IF Is(saved.head, "none") THEN <<>> ELSE << saved.head >>)
    IN [version |-> saved.version,
        segments |-> ParsedMessage(saved.segments),
        head |-> IF heads = <<>> THEN Absent ELSE heads[1]]

from_dict(dict) == [part \in Parts |-> from_bytes(dict[part])]

-----------------------------------------------------------------------------
(* What is decided from the segments of the bank parameters (bpd). *)

\* The parameter segment of each operation (operations/enums.py).
FinTSOperations ==
    [GET_BALANCE |-> "HISALS", GET_TRANSACTIONS |-> "HIKAZS", GET_TRANSACTIONS_XML |-> "HICAZS",
     GET_CREDIT_CARD_TRANSACTIONS |-> "HIKKUS", GET_HOLDINGS |-> "HIWPDS",
     GET_SEPA_ACCOUNTS |-> "HISPAS", GET_SCHEDULED_DEBITS |-> "HIDBSS",
     GET_STATUS_PROTOCOL |-> "HIPROS"]

\* The versions in which a segment is there.
Versions(bpd, type) == {bpd[i].version : i \in {j \in DOMAIN bpd : bpd[j].type = type}}

get_supported_operations(bpd) ==
    {op \in DOMAIN FinTSOperations : Versions(bpd, FinTSOperations[op]) # {}}

\* 0 where find_highest_supported_version raises or returns nothing.
HighestOf(versions) == IF versions = {} THEN 0 ELSE Max1(versions)

find_highest_supported_version(bpd, type, versions) == HighestOf(Versions(bpd, type) \cap versions)

HKSALVersion(bpd) == find_highest_supported_version(bpd, "HISALS", {5, 6, 7})
HKKAZVersion(bpd) == find_highest_supported_version(bpd, "HIKAZS", {5, 6, 7})
HKCAZVersion(bpd) == find_highest_supported_version(bpd, "HICAZS", {1})

HKTAN_VERSIONS == {2, 6, 7}

find_highest_hitans(bpd) == HighestOf(Versions(bpd, "HITANS"))
get_hktan_class(hitans) == HighestOf({v \in HKTAN_VERSIONS : v <= hitans})
HKTANVersion(bpd) == get_hktan_class(find_highest_hitans(bpd))

\* A HIPINS without a list of transactions makes this raise TypeError.
PinRules(hipins) == hipins.fields["parameter"].obj["transaction_tans_required"]
segment_requires_tan(bpd, type) ==
    LET hipins == find_segment_first(bpd, HIPINS1)
        rules == PinRules(hipins)
        rule == FirstOf(rules.list, LAMBDA r : r.obj["transaction"] = Val(type))
    IN IF Is(hipins, "none") THEN "yes"
       ELSE IF Is(rules, "none") THEN "TypeError"
       ELSE IF Is(rule, "none") THEN "yes"
       ELSE IF rule.obj["tan_required"].bool THEN "yes" ELSE "no"

\* An HKTAN goes with the request, so that the bank may ask for an approval.
inject_hktan(bpd, type) ==
    segment_requires_tan(bpd, type) = "yes" /\ HKTANVersion(bpd) # 0

IsCamt(s) == \E i \in 1 .. Len(s) : i + 4 <= Len(s) /\ SubSeq(s, i, i + 4) = "camt."

\* HICAZS is of no known class: its elements are strings, lists of them, and
\* one list of what is left.
Leaves(v) == IF Is(v, "list") THEN v.list ELSE << v >>
_collect_camt_identifiers(v) ==
    LET strings == SelectSeq(FlatMap(Leaves, Leaves(v)), LAMBDA x : Is(x, "val") /\ IsCamt(x.val))
    IN [i \in DOMAIN strings |-> strings[i].val]

\* The first HICAZS counts; the order is that of its elements.
Distinct(s) ==
    FoldLeft(LAMBDA ids, id : IF id \in ToSet(ids) THEN ids ELSE Append(ids, id), <<>>, s)

CamtTypes(hicazs) ==
    LET Named(field) == _collect_camt_identifiers(hicazs.fields[field.name])
    IN Distinct(FlatMap(Named, LayoutOf(hicazs)))
_get_supported_camt_types(bpd) ==
    LET offered == FirstOf(bpd, LAMBDA s : s.type = "HICAZS")
    IN IF Is(offered, "none") THEN <<>> ELSE CamtTypes(offered)

-----------------------------------------------------------------------------
(* Accounts. *)

\* Mutant: str(None).
TextOfNone(v) == IF Is(v, "val") THEN v.val ELSE "None"

Text_(v) == IF Is(v, "val") THEN v.val ELSE ""

\* The permissions of an account; one without any list makes this raise.
AccountInfo(account) ==
    LET part == account.fields["account_information"]
        allowed == account.fields["allowed_transactions"].list
    IN [number |-> IF Is(part, "none") THEN "None" ELSE part.obj["account_number"].val,
        sub |-> IF Is(part, "none") THEN "" ELSE Text_(part.obj["subaccount_number"]),
        iban |-> Text_(account.fields["iban"]),
        bic |-> "",
        currency |-> Text_(account.fields["account_currency"]),
        allowed |-> {allowed[i].obj["transaction_code"].val : i \in DOMAIN allowed}]

Unlisted(account) == Is(account.fields["allowed_transactions"], "none")
_upd_accounts(upd) ==
    IF \E i \in DOMAIN upd : Unlisted(upd[i]) THEN << Fail >>
    ELSE [i \in DOMAIN upd |-> AccountInfo(upd[i])]

\* Only SEPA accounts are used.  An account keeps its place in the list of the bank.
as_sepa_account(account) ==
    [iban |-> account.obj["iban"].val, bic |-> account.obj["bic"].val,
     number |-> account.obj["account_number"].val, sub |-> account.obj["subaccount_number"].val,
     blz |-> Text_(account.obj["bank_identifier"].obj["bank_code"])]

SEPAAccounts(hispa) ==
    [i \in {j \in DOMAIN hispa : hispa[j].obj["is_sepa"].bool} |-> as_sepa_account(hispa[i])]

\* Those of the user parameters that have an IBAN.
FallbackInfo(account) ==
    LET part == account.fields["account_information"]
    IN [iban |-> Text_(account.fields["iban"]), bic |-> "",
        number |-> IF Is(part, "none") THEN "" ELSE part.obj["account_number"].val,
        sub |-> IF Is(part, "none") THEN "" ELSE Text_(part.obj["subaccount_number"]),
        blz |-> ""]
FallbackAccounts(upd) ==
    [i \in {j \in DOMAIN upd : Text_(upd[j].fields["iban"]) # ""} |-> FallbackInfo(upd[i])]

\* HISPA, or the user parameters when it names no account.
fetch_sepa_accounts(upd, hispa) ==
    IF DOMAIN SEPAAccounts(hispa) # {} THEN SEPAAccounts(hispa) ELSE FallbackAccounts(upd)

_join_sepa_info(infos, sepas) ==
    LET Joined(acc) ==
            LET byIban == LastOf(sepas, LAMBDA s : s.iban # "" /\ s.iban = acc.iban)
                byNumber == LastOf(sepas, LAMBDA s : s.number = acc.number /\ s.sub = acc.sub)
            IN IF ~ Is(byIban, "none") THEN [acc EXCEPT !.bic = byIban.bic]
               ELSE IF ~ Is(byNumber, "none") THEN [acc EXCEPT !.bic = byNumber.bic]
               ELSE acc
    IN [i \in DOMAIN infos |-> Joined(infos[i])]

\* An account of HISPA that the user parameters say nothing of.
Made(sepa) == [number |-> IF sepa.number # "" THEN sepa.number ELSE sepa.iban, sub |-> sepa.sub,
               iban |-> sepa.iban, bic |-> sepa.bic, currency |-> "EUR", allowed |-> {}]

fetch_all(upd, hispa) ==
    LET sepas == fetch_sepa_accounts(upd, hispa)
        infos == _upd_accounts(upd)
    IN IF Failed(infos) THEN infos
       ELSE _join_sepa_info(IF DOMAIN infos = {} THEN [i \in DOMAIN sepas |-> Made(sepas[i])] ELSE infos, sepas)

\* The id under which an account is listed, and the one by which it is found.
Key(number, sub) == << number, IF sub = "" THEN "0" ELSE sub >>

\* Mutant: the subaccount is no part of the key.
account_key_of_number(account) == Key(account.number, "")

account_key(account) == Key(account.number, account.sub)

-----------------------------------------------------------------------------
(* TAN methods. *)

_convert_twostep_params(tsp, version) ==
    LET Of(name) == IF name \in DOMAIN tsp.obj THEN tsp.obj[name] ELSE Absent
        polls == Of("decoupled_max_poll_number")
        decoupled == version = 7 /\ Is(polls, "int") /\ polls # [int |-> "0"]
        name == Of("name")
    IN [code |-> Of("security_function"), technical_id |-> Of("technical_id"),
        name |-> IF Is(name, "none") \/ name = Val("") THEN Val("Unknown") ELSE name,
        max_tan_length |-> Of("max_length_input"),
        is_decoupled |-> decoupled,
        max_polls |-> IF decoupled THEN polls ELSE Absent,
        first_poll |-> IF decoupled THEN Of("wait_before_first_poll") ELSE Absent,
        next_poll |-> IF decoupled THEN Of("wait_before_next_poll") ELSE Absent,
        cancel |-> Of("cancel_allowed") = [bool |-> TRUE]]

\* The methods of all typed HITANS, each code once.
MethodsOf(hitans) ==
    LET rows == hitans.fields["parameter"].obj["twostep_parameters"].list
    IN IF hitans.type = "HITANS" /\ hitans.typed
       THEN [i \in DOMAIN rows |-> _convert_twostep_params(rows[i], hitans.version)]
       ELSE <<>>
_extract_tan_methods(bpd) ==
    LET all == SelectSeq(FlatMap(MethodsOf, bpd), LAMBDA m : m.code # Val(""))
    IN FoldLeft(LAMBDA ms, m : IF \E i \in DOMAIN ms : ms[i].code = m.code THEN ms ELSE Append(ms, m),
                <<>>, all)
=============================================================================
