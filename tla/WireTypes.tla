------------------------------ MODULE WireTypes ------------------------------
(***************************************************************************)
(* The data elements of FinTS messages: protocol/types.py and              *)
(* protocol/formals/enums.py of geldstrom.                                 *)
(*                                                                         *)
(* A value on the wire is nothing at all (Absent), a string (val), bytes   *)
(* (bin) or a list of these.  A value of the program has one field that    *)
(* names its Python type, so that values of different types are different. *)
(* Numbers, dates and amounts are kept as the strings that denote them.    *)
(***************************************************************************)
EXTENDS Naturals, Sequences, SequencesExt

Absent == [none |-> TRUE]
Fail == [fail |-> TRUE]          \* the exception of a validator

Val(s) == [val |-> s]
Bin(s) == [bin |-> s]
List(s) == [list |-> s]

Is(v, tag) == tag \in DOMAIN v
Failed(s) == \E i \in DOMAIN s : Is(s[i], "fail")

-----------------------------------------------------------------------------
(* Types of data elements. *)

Unlimited == 9999

Text(n) == [kind |-> "text", min |-> 0, max |-> n]
AnyText == Text(Unlimited)
FixedText(n) == [kind |-> "text", min |-> n, max |-> n]
ID == Text(30)
Code == Text(Unlimited)
Currency == FixedText(3)
Digits(n) == [kind |-> "digits", min |-> n, max |-> n]
Country == Digits(3)
Number == [kind |-> "number", below |-> Unlimited]
NumberBelow(digits) == [kind |-> "number", below |-> digits]   \* lt = 10 ^ digits
Binary == [kind |-> "binary"]
Bool == [kind |-> "bool"]
Date == [kind |-> "date"]
Time == [kind |-> "time"]
Decimal == [kind |-> "decimal"]
Enum(members) == [kind |-> "enum", members |-> members]
Untyped == [kind |-> "any"]
Group(fields) == [kind |-> "group", fields |-> fields]

-----------------------------------------------------------------------------
(* The enumerations of the standard, by their values on the wire. *)

SecurityMethod == Enum({"DDV", "RAH", "RDH", "PIN"})
IdentifiedRole == Enum({"1", "2"})
DateTimeType == Enum({"1", "6"})
SecurityRole == Enum({"1", "3", "4"})
SecurityApplicationArea == Enum({"1", "2"})
CompressionFunction == Enum({"0", "1", "2", "3", "4", "5", "6", "7", "999"})
KeyType == Enum({"D", "S", "V"})
UsageEncryption == Enum({"2"})
OperationMode == Enum({"2", "16", "17", "18", "19", "999"})
EncryptionAlgorithmCoded == Enum({"13", "14"})
AlgorithmParameterName == Enum({"5", "6"})
AlgorithmParameterIVName == Enum({"1"})
CreditDebit == Enum({"C", "D"})
SynchronizationMode == Enum({"0", "1", "2"})
SystemIDStatus == Enum({"0", "1"})
UPDUsage == Enum({"0", "1"})
Language == Enum({"0", "1", "2", "3"})
ServiceType == Enum({"1", "2", "3"})
TANMediaType == Enum({"0", "1", "2"})
TANMediaClass == Enum({"A", "L", "G", "M", "S", "B"})
TANMediumStatus == Enum({"1", "2", "3", "4"})
TANTimeDialogAssociation == Enum({"1", "2", "3", "4"})
AllowedFormat == Enum({"1", "2"})
TANUsageOption == Enum({"0", "1", "2"})
TANListNumberRequired == Enum({"0", "1", "2"})
InitializationMode == Enum({"00", "01", "02"})
DescriptionRequired == Enum({"0", "1", "2"})
SMSChargeAccountRequired == Enum({"0", "1", "2"})
PrincipalAccountRequired == Enum({"0", "2"})
TaskHashAlgorithm == Enum({"0", "1", "2"})

-----------------------------------------------------------------------------
(* Lexical classes of strings. *)

Chars(s) == {SubSeq(s, i, i) : i \in 1 .. Len(s)}
Digit == {"0", "1", "2", "3", "4", "5", "6", "7", "8", "9"}
IsDigits(s) == s # "" /\ Chars(s) \subseteq Digit
IsDecimal(s) == /\ Chars(s) \subseteq Digit \cup {","}
                /\ Chars(s) \cap Digit # {}
                /\ \A i, j \in 1 .. Len(s) :
                      SubSeq(s, i, i) = "," /\ SubSeq(s, j, j) = "," => i = j

\* int(s): leading zeros do not count.
Numeral(s) ==
    LET start == CHOOSE i \in 1 .. Len(s) :
                    /\ i = Len(s) \/ SubSeq(s, i, i) # "0"
                    /\ \A j \in 1 .. i - 1 : SubSeq(s, j, j) = "0"
    IN SubSeq(s, start, Len(s))

\* str() of a value that arrives where text is expected: a list is written the
\* way Python writes lists, 'None' included.
ItemLength(v) == IF Is(v, "val") THEN Len(v.val) + 2 ELSE 4

TextLength(v) ==
    LET w == IF Is(v, "repr") THEN v.repr ELSE v
    IN CASE Is(w, "val") -> Len(w.val)
         [] Is(w, "bin") -> Len(w.bin) + 3
         [] Is(w, "list") -> FoldLeft(LAMBDA n, x : n + ItemLength(x), 2 * Len(w.list), w.list)

ToText(v) == IF Is(v, "val") \/ Is(v, "repr") THEN v ELSE [repr |-> v]

-----------------------------------------------------------------------------
(* What the validator of a field makes of a value of the wire. *)

parse_fints_text(v, type) ==
    IF TextLength(v) \in type.min .. type.max THEN ToText(v) ELSE Fail

parse_fints_digits(v, type) ==
    IF Is(v, "val") /\ (v.val = "" \/ IsDigits(v.val)) /\ Len(v.val) \in type.min .. type.max
    THEN v ELSE Fail

parse_fints_numeric(v, type) ==
    IF Is(v, "val") /\ IsDigits(v.val) /\ Len(Numeral(v.val)) <= type.below
    THEN [int |-> Numeral(v.val)] ELSE Fail

parse_fints_amount(v) == IF Is(v, "val") /\ IsDecimal(v.val) THEN [decimal |-> v.val] ELSE Fail

parse_fints_bool(v) ==
    CASE v = Val("J") -> [bool |-> TRUE]
      [] v = Val("N") -> [bool |-> FALSE]
      [] OTHER -> Fail

parse_fints_date(v) == IF Is(v, "val") /\ IsDigits(v.val) /\ Len(v.val) = 8
                       THEN [date |-> v.val] ELSE Fail

parse_fints_time(v) == IF Is(v, "val") /\ IsDigits(v.val) /\ Len(v.val) = 6
                       THEN [time |-> v.val] ELSE Fail

parse_fints_binary(v) == IF Is(v, "bin") THEN v ELSE Fail

parse_enum(v, type) == IF Is(v, "val") /\ v.val \in type.members THEN v ELSE Fail

\* None is refused by every validator but that of an untyped field.
Convert(v, type) ==
    CASE type.kind = "any" -> v
      [] Is(v, "none") -> Fail
      [] type.kind = "text" -> parse_fints_text(v, type)
      [] type.kind = "digits" -> parse_fints_digits(v, type)
      [] type.kind = "number" -> parse_fints_numeric(v, type)
      [] type.kind = "decimal" -> parse_fints_amount(v)
      [] type.kind = "bool" -> parse_fints_bool(v)
      [] type.kind = "date" -> parse_fints_date(v)
      [] type.kind = "time" -> parse_fints_time(v)
      [] type.kind = "binary" -> parse_fints_binary(v)
      [] type.kind = "enum" -> parse_enum(v, type)

\* The data element that stands for a value.  The standard has one for an
\* amount too; escape_value knows none and raises TypeError.
Lexeme(v) ==
    CASE Is(v, "int") -> Val(v.int)
      [] Is(v, "bool") -> Val(IF v.bool THEN "J" ELSE "N")
      [] Is(v, "date") -> Val(v.date)
      [] Is(v, "time") -> Val(v.time)
      [] Is(v, "decimal") -> Val(v.decimal)
      [] OTHER -> v

\* Mutant: a time is written without its seconds.
escape_value_minutes(v) == IF Is(v, "time") THEN Val(SubSeq(v.time, 1, 4)) ELSE Lexeme(v)

escape_value(v) == IF Is(v, "decimal") THEN Fail ELSE Lexeme(v)
=============================================================================
