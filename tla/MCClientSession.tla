--------------------------- MODULE MCClientSession ---------------------------
EXTENDS ClientWire

\* Every segment geldstrom knows, with elements present and absent.
Messages == UNION {SegmentSamples(c) : c \in Registry}

-----------------------------------------------------------------------------
(* Three banks.  The first offers MT940 and CAMT and has few decoupled         *)
(* methods, the second CAMT only, leaves out elements and the numbers of       *)
(* accounts, and has parameters that geldstrom does not know; the third asks   *)
(* for no approval and says nothing of accounts in the user parameters.        *)

Number_(n) == [int |-> n]
Yes == [bool |-> TRUE]
No == [bool |-> FALSE]

Common == [max_number_tasks |-> Number_("1"), min_number_signatures |-> Number_("1"),
           security_class |-> Number_("0")]
Plain(class) == Filled(class, Common)
With(class, parameter) == Filled(class, [parameter |-> parameter] @@ Common)

Unregistered(type, version, parts) ==
    [type |-> type, version |-> version, typed |-> FALSE,
     fields |-> Obj(Group(GenericFields),
         [data1 |-> Val("1"), data2 |-> Val("1"), data3 |-> Val("0"), data4 |-> List(parts)]).obj]

Rule(type, tan) == Obj(TransactionTANRequired, [transaction |-> Val(type), tan_required |-> tan])
Pins(rules) == With(HIPINS1, Obj(ParameterPinTan,
    [min_pin_length |-> Number_("5"), transaction_tans_required |-> List(rules)]))

Method(code, name, polls) == Obj(TwoStepParameters7,
    [security_function |-> Val(code), tan_process |-> Val("2"), technical_id |-> Val("T"),
     name |-> name, cancel_allowed |-> Yes] @@ polls)
Polled == [decoupled_max_poll_number |-> Number_("9"), wait_before_first_poll |-> Number_("2"),
           wait_before_next_poll |-> Number_("3"), manual_confirmation_allowed |-> No,
           automated_polling_allowed |-> Yes]
Tans(methods) == With(HITANS7, Obj(ParameterTwostepTAN7,
    [one_step_allowed |-> No, multiple_tasks_allowed |-> No, task_hash_algorithm |-> Val("0"),
     twostep_parameters |-> List(methods)]))

Bpa(languages) == Filled(HIBPA3,
    [bpd_version |-> Number_("1"), bank_identifier |-> BankCode, bank_name |-> Val("B"),
     number_tasks |-> Number_("1"), supported_languages |-> List(languages),
     supported_hbci_versions |-> List(<< Val("300") >>)])
Upa == Filled(HIUPA4, [user_identifier |-> Val("U"), upd_version |-> Number_("1"), upd_usage |-> Val("0")])

May(type) == Obj(AllowedTransaction, [transaction_code |-> Val(type), required_signatures |-> Number_("1")])
Limited(type) == [May(type) EXCEPT !.obj["limit"] =
    Obj(AccountLimit, [limit_type |-> Val("E"), limit_amount |-> Number_("9"), limit_currency |-> Val("EUR")])]

Part(number, sub) == Obj(AccountInformationDEG,
    [account_number |-> Val(number), subaccount_number |-> sub, bank_identifier |-> BankCode])
AccountOf(part, iban, allowed) == Filled(HIUPD6,
    [account_information |-> part, iban |-> iban, account_currency |-> Val("EUR"),
     name_account_owner_1 |-> Val("O"), allowed_transactions |-> List(allowed)])

Sepa(is, iban, number, sub) == Obj(AccountInternationalSEPA,
    [is_sepa |-> is, iban |-> Val(iban), bic |-> Val("B1"), account_number |-> Val(number),
     subaccount_number |-> Val(sub), bank_identifier |-> BankCode])

Owes(amount, currency) == [amount |-> amount, sign |-> "D", currency |-> currency]
Has(amount, currency) == [amount |-> amount, sign |-> "C", currency |-> currency]

Offering ==
    [heads |-> [bpd |-> Bpa(<< Val("1") >>), upd |-> Upa],
     segments |->
        [bpd |-> << Plain(HISPAS(1)), Plain(HISALS(6)),
                     With(HISALS(7), Obj(BalanceParameter, [number_of_days |-> Number_("9")])),
                     Plain(HIKAZS(7)), Unregistered("HICAZS", 1, << Val("90"), Val("camt.052"), Val("camt.053") >>),
                     Pins(<< Rule("HKSPA", No), Rule("HKSAL", No), Rule("HKKAZ", Yes) >>),
                     Tans(<< Method("946", Val("App"), Polled), Method("947", Val("New"), Polled) >>) >>,
         upd |-> << AccountOf(Part("11", Absent), Val("D1"), << May("HKSAL"), Limited("HKKAZ") >>),
                     AccountOf(Part("11", Val("7")), Val("D2"), << May("HKSAL") >>) >>],
     sepa |-> Filled(HISPA1, [accounts |-> List(<< Sepa(Yes, "D1", "11", ""), Sepa(Yes, "D2", "11", "7") >>)]),
     balances |-> [D1 |-> Owes("12,5", "EUR"), D2 |-> Has("7,", "USD")]]

Sparing ==
    [heads |-> [bpd |-> Bpa(<< Val("1"), Val("2") >>), upd |-> Upa],
     segments |->
        [bpd |-> << Plain(HISPAS(2)), Plain(HISALS(5)), Unregistered("HISALS", 8, << Val("J") >>),
                     Unregistered("HICAZS", 1, << Val("90"), Absent, Val("camt.052") >>),
                     Unregistered("DIKKUS", 2, << Val("90") >>),
                     Tans(<< Method("940", Absent, <<>>), Method("946", Val("App"), Polled) >>) >>,
         upd |-> << AccountOf(Absent, Val("D1"), << May("HKSAL") >>),
                     AccountOf(Absent, Val("D2"), << May("HKSAL") >>) >>],
     sepa |-> Filled(HISPA1, [accounts |->
                 List(<< Sepa(Yes, "D1", "11", ""), Sepa(Yes, "D2", "", ""), Sepa(No, "D3", "12", "") >>)]),
     balances |-> [D1 |-> Owes("12,5", "USD"), D2 |-> Has("7,", "USD")]]

Silent ==
    [Sparing EXCEPT !.segments = [bpd |-> << Plain(HISPAS(1)), Plain(HISALS(6)) >>, upd |-> <<>>]]

Banks == {Offering, Sparing, Silent}
=============================================================================
