---------------------------- MODULE SegmentLayouts ----------------------------
(***************************************************************************)
(* The declarations of the data element groups and segments of FinTS that  *)
(* geldstrom knows: protocol/formals and protocol/segments.  A group is    *)
(* the sequence of its fields in the order of the wire; a derived class    *)
(* has the fields of its base first.  Groups that no segment uses are left *)
(* out.                                                                    *)
(***************************************************************************)
EXTENDS WireTypes

Field(name, type, opt, many, max) ==
    [name |-> name, type |-> type, opt |-> opt, many |-> many, max |-> max]

Req(name, type) == << Field(name, type, FALSE, FALSE, 1) >>
Opt(name, type) == << Field(name, type, TRUE, FALSE, 1) >>
Many(name, type, max) == << Field(name, type, FALSE, TRUE, max) >>
OptMany(name, type, max) == << Field(name, type, TRUE, TRUE, max) >>

-----------------------------------------------------------------------------
(* formals/identifiers.py *)

BankIdentifier == Group(Req("country_identifier", Country) \o Opt("bank_code", Text(30)))

AccountIdentifier == Group(
    Req("account_number", ID) \o Req("subaccount_number", ID) \o
    Req("bank_identifier", BankIdentifier))

AccountInternational == Group(
    Opt("iban", Text(34)) \o Opt("bic", Text(11)) \o Opt("account_number", ID) \o
    Opt("subaccount_number", ID) \o Opt("bank_identifier", BankIdentifier))

AccountInternationalSEPA == Group(
    Req("is_sepa", Bool) \o Req("iban", Text(34)) \o Req("bic", Text(11)) \o
    Req("account_number", ID) \o Req("subaccount_number", ID) \o
    Req("bank_identifier", BankIdentifier))

(* formals/amounts.py *)

Amount == Group(Req("amount", Decimal) \o Req("currency", Currency))

Balance == Group(
    Req("credit_debit", CreditDebit) \o Req("amount", Amount) \o
    Req("date", Date) \o Opt("time", Time))

BalanceSimple == Group(
    Req("credit_debit", CreditDebit) \o Req("amount", Decimal) \o
    Req("currency", Currency) \o Req("date", Date) \o Opt("time", Time))

Timestamp == Group(Req("date", Date) \o Opt("time", Time))

(* formals/responses.py *)

Response == Group(
    Req("code", Digits(4)) \o Req("reference_element", Text(7)) \o
    Req("text", Text(80)) \o OptMany("parameters", AnyText, 10))

ReferenceMessage == Group(Req("dialog_id", ID) \o Req("message_number", NumberBelow(4)))

(* formals/parameters.py *)

CommunicationParameter == Group(
    Req("service_type", ServiceType) \o Req("address", Text(512)) \o
    Opt("address_adjunct", Text(512)) \o Opt("filter_function", FixedText(3)) \o
    Opt("filter_function_version", NumberBelow(3)))

AccountLimit == Group(
    Opt("limit_type", Code) \o Opt("limit_amount", Number) \o
    Opt("limit_currency", Text(3)) \o Opt("limit_days", Number))

AllowedTransaction == Group(
    Req("transaction_code", Text(6)) \o Req("required_signatures", NumberBelow(1)) \o
    Opt("limit", AccountLimit))

(* formals/security.py *)

SecurityProfile == Group(
    Req("security_method", SecurityMethod) \o Req("security_method_version", Number))

SecurityIdentificationDetails == Group(
    Req("identified_role", IdentifiedRole) \o Opt("cid", Binary) \o Opt("identifier", ID))

SecurityDateTime == Group(
    Req("date_time_type", DateTimeType) \o Opt("date", Date) \o Opt("time", Time))

EncryptionAlgorithm == Group(
    Req("usage_encryption", UsageEncryption) \o Req("operation_mode", OperationMode) \o
    Req("encryption_algorithm", EncryptionAlgorithmCoded) \o
    Req("algorithm_parameter_value", Binary) \o
    Req("algorithm_parameter_name", AlgorithmParameterName) \o
    Req("algorithm_parameter_iv_name", AlgorithmParameterIVName) \o
    Opt("algorithm_parameter_iv_value", Binary))

HashAlgorithm == Group(
    Req("usage_hash", Text(3)) \o Req("hash_algorithm", Text(3)) \o
    Req("algorithm_parameter_name", Text(3)) \o Opt("algorithm_parameter_value", Binary))

SignatureAlgorithm == Group(
    Req("usage_signature", Text(3)) \o Req("signature_algorithm", Text(3)) \o
    Req("operation_mode", Text(3)))

KeyName == Group(
    Req("bank_identifier", BankIdentifier) \o Req("user_id", ID) \o Req("key_type", KeyType) \o
    Req("key_number", NumberBelow(3)) \o Req("key_version", NumberBelow(3)))

Certificate == Group(Req("certificate_type", Code) \o Req("certificate_content", Binary))

UserDefinedSignature == Group(Req("pin", Text(99)) \o Opt("tan", Text(99)))

(* formals/tan.py *)

TANMediaFields ==
    Req("tan_medium_class", TANMediaClass) \o Req("status", TANMediumStatus) \o
    Opt("card_number", ID) \o Opt("card_sequence", ID) \o Opt("card_type", Number) \o
    Opt("account", AccountIdentifier) \o Opt("valid_from", Date) \o Opt("valid_until", Date) \o
    Opt("tan_list_number", Text(20)) \o Opt("tan_medium_name", Text(32)) \o
    Opt("mobile_number_masked", Text(35)) \o Opt("mobile_number", Text(35)) \o
    Opt("sms_charge_account", AccountInternational) \o
    Opt("number_free_tans", NumberBelow(3)) \o Opt("last_use", Date) \o Opt("active_since", Date)
TANMedia4 == Group(TANMediaFields)
TANMedia5 == Group(TANMediaFields \o Opt("security_function", Number))

ChallengeValidUntil == Group(Req("date", Date) \o Req("time", Time))

ParameterChallengeClass == Group(OptMany("parameters", AnyText, 9))

ResponseHHDUC == Group(
    Req("atc", Text(5)) \o Req("ac", Binary) \o Req("ef_id_data", Binary) \o
    Req("cvr", Binary) \o Req("version_info_chiptan", Binary))

(* formals/transactions.py *)

SupportedMessageTypes == Group(Many("expected_type", AnyText, 99))
BookedCamtStatements == Group(Many("camt_statements", Binary, Unlimited))

(* segments/bank.py, segments/params.py *)

AccountInformationDEG == Group(
    Req("account_number", ID) \o Opt("subaccount_number", ID) \o
    Req("bank_identifier", BankIdentifier))

GetSEPAAccountParameter == Group(
    Opt("single_account_query_allowed", Bool) \o Opt("national_account_allowed", Bool) \o
    Opt("structured_usage_allowed", Bool) \o
    OptMany("supported_sepa_formats", AnyText, Unlimited))

BalanceParameter == Group(
    Opt("number_of_days", Number) \o Opt("available_balance_provided", Bool))

TransactionParameter == Group(Opt("number_of_days", Number) \o Opt("data_format", AnyText))

(* segments/pintan.py *)

TransactionTANRequired == Group(Req("transaction", Text(6)) \o Req("tan_required", Bool))

ParameterPinTan == Group(
    Opt("min_pin_length", NumberBelow(2)) \o Opt("max_pin_length", NumberBelow(2)) \o
    Opt("max_tan_length", NumberBelow(2)) \o Opt("user_id_field_text", Text(30)) \o
    Opt("customer_id_field_text", Text(30)) \o
    OptMany("transaction_tans_required", TransactionTANRequired, 999))

TwoStepParametersCommon ==
    Req("security_function", Text(3)) \o Opt("tan_process", Code) \o Req("technical_id", Text(32))

\* What the first five versions share after the name of the procedure.
TANInputFields ==
    Req("name", Text(30)) \o Req("max_length_input", Number) \o
    Req("allowed_format", AllowedFormat) \o Req("text_return_value", Text(30)) \o
    Req("max_length_return_value", Number) \o Req("number_of_supported_lists", Number) \o
    Req("multiple_tans_allowed", Bool)

TANListFields ==
    Req("tan_time_dialog_association", TANTimeDialogAssociation) \o
    Req("tan_list_number_required", TANListNumberRequired) \o Req("cancel_allowed", Bool)

MediaFields ==
    Req("initialization_mode", InitializationMode) \o
    Req("description_required", DescriptionRequired) \o Opt("supported_media_number", Number)

TwoStepParameters1 == Group(
    TwoStepParametersCommon \o TANInputFields \o Req("tan_time_delayed_allowed", Bool))

TwoStepParameters2 == Group(
    TwoStepParametersCommon \o TANInputFields \o TANListFields \o
    Req("challenge_class_required", Bool) \o Req("challenge_value_required", Bool))

TwoStepParameters3 == Group(
    TwoStepParametersCommon \o TANInputFields \o TANListFields \o
    Req("challenge_class_required", Bool) \o Req("challenge_value_required", Bool) \o MediaFields)

TwoStepParameters4 == Group(
    TwoStepParametersCommon \o Req("zka_id", Text(32)) \o Req("zka_version", Text(10)) \o
    TANInputFields \o TANListFields \o Req("sms_charge_account_required", Bool) \o
    Req("challenge_class_required", Bool) \o Req("challenge_value_required", Bool) \o
    Req("challenge_structured", Bool) \o MediaFields)

TwoStepParameters5 == Group(
    TwoStepParametersCommon \o Req("zka_id", Text(32)) \o Req("zka_version", Text(10)) \o
    TANInputFields \o TANListFields \o
    Req("sms_charge_account_required", SMSChargeAccountRequired) \o
    Req("principal_account_required", PrincipalAccountRequired) \o
    Req("challenge_class_required", Bool) \o Req("challenge_structured", Bool) \o MediaFields)

TwoStepFields6 ==
    TwoStepParametersCommon \o Opt("zka_id", Text(32)) \o Opt("zka_version", Text(10)) \o
    Opt("name", Text(30)) \o Opt("max_length_input", Number) \o
    Opt("allowed_format", AllowedFormat) \o Opt("text_return_value", Text(30)) \o
    Opt("max_length_return_value", Number) \o Opt("multiple_tans_allowed", Bool) \o
    Opt("tan_time_dialog_association", TANTimeDialogAssociation) \o
    Opt("cancel_allowed", Bool) \o
    Opt("sms_charge_account_required", SMSChargeAccountRequired) \o
    Opt("principal_account_required", PrincipalAccountRequired) \o
    Opt("challenge_class_required", Bool) \o Opt("challenge_structured", Bool) \o
    Opt("initialization_mode", InitializationMode) \o
    Opt("description_required", DescriptionRequired) \o
    Opt("response_hhd_uc_required", Bool) \o Opt("supported_media_number", Number)
TwoStepParameters6 == Group(TwoStepFields6)

TwoStepParameters7 == Group(
    TwoStepFields6 \o Opt("decoupled_max_poll_number", Number) \o
    Opt("wait_before_first_poll", Number) \o Opt("wait_before_next_poll", Number) \o
    Opt("manual_confirmation_allowed", Bool) \o Opt("automated_polling_allowed", Bool))

ParameterTwostepCommon ==
    Req("one_step_allowed", Bool) \o Req("multiple_tasks_allowed", Bool) \o
    Req("task_hash_algorithm", TaskHashAlgorithm)

ParameterTwostepTAN1 == Group(
    ParameterTwostepCommon \o Req("security_profile_bank_signature", Code) \o
    Many("twostep_parameters", TwoStepParameters1, 98))
ParameterTwostepTAN2 == Group(
    ParameterTwostepCommon \o Many("twostep_parameters", TwoStepParameters2, 98))
ParameterTwostepTAN3 == Group(
    ParameterTwostepCommon \o Many("twostep_parameters", TwoStepParameters3, 98))
ParameterTwostepTAN4 == Group(
    ParameterTwostepCommon \o Many("twostep_parameters", TwoStepParameters4, 98))
ParameterTwostepTAN5 == Group(
    ParameterTwostepCommon \o Many("twostep_parameters", TwoStepParameters5, 98))
ParameterTwostepTAN6 == Group(
    ParameterTwostepCommon \o Many("twostep_parameters", TwoStepParameters6, 98))
ParameterTwostepTAN7 == Group(
    ParameterTwostepCommon \o Many("twostep_parameters", TwoStepParameters7, 98))

-----------------------------------------------------------------------------
(* Segments: type, version and the fields after the header. *)

Segment(type, version, fields) == [type |-> type, version |-> version, fields |-> fields]

(* segments/accounts.py *)

HKSPA1 == Segment("HKSPA", 1, OptMany("accounts", AccountIdentifier, 999))
HISPA1 == Segment("HISPA", 1, OptMany("accounts", AccountInternationalSEPA, 999))

(* segments/auth.py *)

HKIDN2 == Segment("HKIDN", 2,
    Req("bank_identifier", BankIdentifier) \o Req("customer_id", AnyText) \o
    Req("system_id", AnyText) \o Req("system_id_status", SystemIDStatus))

HKVVB3 == Segment("HKVVB", 3,
    Req("bpd_version", NumberBelow(3)) \o Req("upd_version", NumberBelow(3)) \o
    Req("language", Language) \o Req("product_name", Text(25)) \o Req("product_version", Text(5)))

HKTAN2 == Segment("HKTAN", 2,
    Req("tan_process", Code) \o Opt("task_hash_value", Binary) \o
    Opt("task_reference", Text(35)) \o Opt("tan_list_number", Text(20)) \o
    Opt("further_tan_follows", Bool) \o Opt("cancel_task", Bool) \o
    Opt("challenge_class", NumberBelow(2)) \o
    Opt("parameter_challenge_class", ParameterChallengeClass))

HKTANFields ==
    Req("tan_process", Code) \o Opt("segment_type", Text(6)) \o
    Opt("account", AccountInternational) \o Opt("task_hash_value", Binary) \o
    Opt("task_reference", Text(35)) \o Opt("further_tan_follows", Bool) \o
    Opt("cancel_task", Bool) \o Opt("sms_charge_account", AccountInternational) \o
    Opt("challenge_class", NumberBelow(2)) \o
    Opt("parameter_challenge_class", ParameterChallengeClass) \o
    Opt("tan_medium_name", Text(32)) \o Opt("response_hhd_uc", ResponseHHDUC)
HKTAN6 == Segment("HKTAN", 6, HKTANFields)
HKTAN7 == Segment("HKTAN", 7, HKTANFields)

HITANFields ==
    Req("tan_process", Code) \o Opt("task_hash_value", Binary) \o
    Opt("task_reference", Text(35)) \o Opt("challenge", Text(2048)) \o
    Opt("challenge_hhduc", Binary) \o Opt("challenge_valid_until", ChallengeValidUntil) \o
    Opt("tan_medium_name", Text(32))
HITAN6 == Segment("HITAN", 6, HITANFields)
HITAN7 == Segment("HITAN", 7, HITANFields)

HKTABFields == Req("tan_media_type", TANMediaType) \o Req("tan_media_class", TANMediaClass)
HKTAB4 == Segment("HKTAB", 4, HKTABFields)
HKTAB5 == Segment("HKTAB", 5, HKTABFields)
HITAB4 == Segment("HITAB", 4,
    Req("tan_usage_option", TANUsageOption) \o OptMany("tan_media_list", TANMedia4, 99))
HITAB5 == Segment("HITAB", 5,
    Req("tan_usage_option", TANUsageOption) \o OptMany("tan_media_list", TANMedia5, 99))

(* segments/bank.py *)

HIBPA3 == Segment("HIBPA", 3,
    Req("bpd_version", NumberBelow(3)) \o Req("bank_identifier", BankIdentifier) \o
    Req("bank_name", Text(60)) \o Req("number_tasks", NumberBelow(3)) \o
    Many("supported_languages", Language, 9) \o Many("supported_hbci_versions", Code, 9) \o
    Opt("max_message_length", NumberBelow(4)) \o Opt("min_timeout", NumberBelow(4)) \o
    Opt("max_timeout", NumberBelow(4)))

HIUPA4 == Segment("HIUPA", 4,
    Req("user_identifier", ID) \o Req("upd_version", NumberBelow(3)) \o
    Req("upd_usage", UPDUsage) \o Opt("username", Text(35)) \o Opt("extension", Text(2048)))

HIUPD6 == Segment("HIUPD", 6,
    Opt("account_information", AccountInformationDEG) \o Opt("iban", Text(34)) \o
    Opt("customer_id", ID) \o Opt("account_type", NumberBelow(2)) \o
    Opt("account_currency", Currency) \o Req("name_account_owner_1", Text(27)) \o
    Opt("name_account_owner_2", Text(27)) \o Opt("account_product_name", Text(30)) \o
    Opt("account_limit", AccountLimit) \o
    OptMany("allowed_transactions", AllowedTransaction, 999) \o Opt("extension", Text(2048)))

HKKOM4 == Segment("HKKOM", 4,
    Opt("start_bank_identifier", BankIdentifier) \o Opt("end_bank_identifier", BankIdentifier) \o
    Opt("max_number_responses", NumberBelow(4)) \o Opt("touchdown_point", Text(35)))

HIKOM4 == Segment("HIKOM", 4,
    Req("bank_identifier", BankIdentifier) \o Req("default_language", Language) \o
    Many("communication_parameters", CommunicationParameter, 9))

(* segments/dialog.py *)

HNHBK3 == Segment("HNHBK", 3,
    Req("message_size", Number) \o Req("hbci_version", NumberBelow(3)) \o
    Req("dialog_id", ID) \o Req("message_number", NumberBelow(4)) \o
    Opt("reference_message", ReferenceMessage))

HNHBS1 == Segment("HNHBS", 1, Req("message_number", NumberBelow(4)))
HIRMG2 == Segment("HIRMG", 2, Many("responses", Response, 99))
HIRMS2 == Segment("HIRMS", 2, Many("responses", Response, 99))
HKSYN3 == Segment("HKSYN", 3, Req("synchronization_mode", SynchronizationMode))

HISYN4 == Segment("HISYN", 4,
    Req("system_id", ID) \o Opt("message_number", NumberBelow(4)) \o
    Opt("security_reference_signature_key", Number) \o
    Opt("security_reference_digital_signature", Number))

HKEND1 == Segment("HKEND", 1, Req("dialog_id", ID))

(* segments/message.py *)

HNVSK3 == Segment("HNVSK", 3,
    Req("security_profile", SecurityProfile) \o Req("security_function", Code) \o
    Req("security_role", SecurityRole) \o
    Req("security_identification_details", SecurityIdentificationDetails) \o
    Req("security_datetime", SecurityDateTime) \o
    Req("encryption_algorithm", EncryptionAlgorithm) \o Req("key_name", KeyName) \o
    Req("compression_function", CompressionFunction) \o Opt("certificate", Certificate))

HNVSD1 == Segment("HNVSD", 1, Req("data", Binary))

HNSHK4 == Segment("HNSHK", 4,
    Req("security_profile", SecurityProfile) \o Req("security_function", Code) \o
    Req("security_reference", Text(14)) \o
    Req("security_application_area", SecurityApplicationArea) \o
    Req("security_role", SecurityRole) \o
    Req("security_identification_details", SecurityIdentificationDetails) \o
    Req("security_reference_number", Number) \o Req("security_datetime", SecurityDateTime) \o
    Req("hash_algorithm", HashAlgorithm) \o Req("signature_algorithm", SignatureAlgorithm) \o
    Req("key_name", KeyName) \o Opt("certificate", Certificate))

HNSHA2 == Segment("HNSHA", 2,
    Req("security_reference", Text(14)) \o Opt("validation_result", Binary) \o
    Opt("user_defined_signature", UserDefinedSignature))

(* segments/params.py: in this file the common fields are optional. *)

LooseParameterFields ==
    Opt("max_number_tasks", NumberBelow(3)) \o Opt("min_number_signatures", NumberBelow(1)) \o
    Opt("security_class", NumberBelow(1))

GenericFields ==
    Opt("data1", Untyped) \o Opt("data2", Untyped) \o Opt("data3", Untyped) \o Opt("data4", Untyped) \o
    Opt("data5", Untyped) \o Opt("data6", Untyped) \o Opt("data7", Untyped) \o Opt("data8", Untyped) \o
    Opt("data9", Untyped) \o Opt("data10", Untyped) \o Opt("extra_data", Untyped)

HISPAS(version) == Segment("HISPAS", version,
    LooseParameterFields \o Opt("parameter", GetSEPAAccountParameter))
HISALS(version) == Segment("HISALS", version,
    LooseParameterFields \o Opt("parameter", BalanceParameter))
HIKAZS(version) == Segment("HIKAZS", version,
    LooseParameterFields \o Opt("parameter", TransactionParameter))
HISHV3 == Segment("HISHV", 3, GenericFields)

(* segments/pintan.py: here they are required. *)

ParameterFields ==
    Req("max_number_tasks", NumberBelow(3)) \o Req("min_number_signatures", NumberBelow(1)) \o
    Req("security_class", NumberBelow(1))

HIPINS1 == Segment("HIPINS", 1, ParameterFields \o Req("parameter", ParameterPinTan))
HITANS1 == Segment("HITANS", 1, ParameterFields \o Req("parameter", ParameterTwostepTAN1))
HITANS2 == Segment("HITANS", 2, ParameterFields \o Req("parameter", ParameterTwostepTAN2))
HITANS3 == Segment("HITANS", 3, ParameterFields \o Req("parameter", ParameterTwostepTAN3))
HITANS4 == Segment("HITANS", 4, ParameterFields \o Req("parameter", ParameterTwostepTAN4))
HITANS5 == Segment("HITANS", 5, ParameterFields \o Req("parameter", ParameterTwostepTAN5))
HITANS6 == Segment("HITANS", 6, ParameterFields \o Req("parameter", ParameterTwostepTAN6))
HITANS7 == Segment("HITANS", 7, ParameterFields \o Req("parameter", ParameterTwostepTAN7))

(* segments/saldo.py *)

TouchdownFields ==
    Opt("max_number_responses", NumberBelow(4)) \o Opt("touchdown_point", Text(35))

HKSAL5 == Segment("HKSAL", 5,
    Req("account", AccountIdentifier) \o Req("all_accounts", Bool) \o TouchdownFields)
HKSAL6 == Segment("HKSAL", 6, HKSAL5.fields)
HKSAL7 == Segment("HKSAL", 7,
    Req("account", AccountInternational) \o Req("all_accounts", Bool) \o TouchdownFields)

HISAL5 == Segment("HISAL", 5,
    Req("account", AccountIdentifier) \o Req("account_product", Text(30)) \o
    Req("currency", Currency) \o Req("balance_booked", BalanceSimple) \o
    Opt("balance_pending", BalanceSimple) \o Opt("line_of_credit", Amount) \o
    Opt("available_amount", Amount) \o Opt("used_amount", Amount) \o
    Opt("booking_date", Date) \o Opt("booking_time", Time))

BalanceFields ==
    Req("account_product", Text(30)) \o Req("currency", Currency) \o
    Req("balance_booked", Balance) \o Opt("balance_pending", Balance) \o
    Opt("line_of_credit", Amount) \o Opt("available_amount", Amount) \o
    Opt("used_amount", Amount) \o Opt("overdraft", Amount) \o
    Opt("booking_timestamp", Timestamp) \o Opt("date_due", Date)
HISAL6 == Segment("HISAL", 6, Req("account", AccountIdentifier) \o BalanceFields)
HISAL7 == Segment("HISAL", 7, Req("account", AccountInternational) \o BalanceFields)

(* segments/transactions.py *)

PeriodFields ==
    Req("all_accounts", Bool) \o Opt("date_start", Date) \o Opt("date_end", Date) \o
    TouchdownFields

HKKAZ5 == Segment("HKKAZ", 5, Req("account", AccountIdentifier) \o PeriodFields)
HKKAZ6 == Segment("HKKAZ", 6, Req("account", AccountIdentifier) \o PeriodFields)
HKKAZ7 == Segment("HKKAZ", 7, Req("account", AccountInternational) \o PeriodFields)

HIKAZFields == Req("statement_booked", Binary) \o Opt("statement_pending", Binary)
HIKAZ5 == Segment("HIKAZ", 5, HIKAZFields)
HIKAZ6 == Segment("HIKAZ", 6, HIKAZFields)
HIKAZ7 == Segment("HIKAZ", 7, HIKAZFields)

HKCAZ1 == Segment("HKCAZ", 1,
    Req("account", AccountInternational) \o
    Req("supported_camt_messages", SupportedMessageTypes) \o PeriodFields)

HICAZ1 == Segment("HICAZ", 1,
    Req("account", AccountInternational) \o Req("camt_descriptor", AnyText) \o
    Req("statement_booked", BookedCamtStatements) \o Opt("statement_pending", Binary))

-----------------------------------------------------------------------------
(* FinTSSegment._segment_registry: what the parser knows by type and version. *)
Registry ==
    {HKSPA1, HISPA1, HKIDN2, HKVVB3, HKTAN2, HKTAN6, HKTAN7, HITAN6, HITAN7, HKTAB4, HKTAB5,
     HITAB4, HITAB5, HIBPA3, HIUPA4, HIUPD6, HKKOM4, HIKOM4, HNHBK3, HNHBS1, HIRMG2, HIRMS2,
     HKSYN3, HISYN4, HKEND1, HNVSK3, HNVSD1, HNSHK4, HNSHA2, HISHV3, HIPINS1,
     HITANS1, HITANS2, HITANS3, HITANS4, HITANS5, HITANS6, HITANS7,
     HKSAL5, HKSAL6, HKSAL7, HISAL5, HISAL6, HISAL7,
     HKKAZ5, HKKAZ6, HKKAZ7, HIKAZ5, HIKAZ6, HIKAZ7, HKCAZ1, HICAZ1}
    \cup {HISPAS(v) : v \in 1 .. 3} \cup {HISALS(v) : v \in 4 .. 7} \cup {HIKAZS(v) : v \in 4 .. 7}
=============================================================================
