------------------------------ MODULE WireFormat ------------------------------
(***************************************************************************)
(* Parser and serializer of FinTS segments: protocol/base.py and           *)
(* protocol/parser.py of geldstrom, for the declarations of                *)
(* SegmentLayouts.  For TLC only: the operators are recursive.             *)
(*                                                                         *)
(* A segment on the wire is the sequence of the elements after its header. *)
(* Escaping is not modelled: a string is one token, whatever it contains.  *)
(***************************************************************************)
EXTENDS Segments

Prefix(s, n) == SubSeq(s, 1, IF n < Len(s) THEN n ELSE Len(s))

IsGroup(type) == type.kind = "group"

\* How many elements a group takes when it stands flat inside another one.
RECURSIVE _count_fields(_)
_count_fields(fields) ==
    IF fields = <<>> THEN 0
    ELSE (IF IsGroup(Head(fields).type) THEN _count_fields(Head(fields).type.fields) ELSE 1)
         + _count_fields(Tail(fields))

_count_model_fields(type) == _count_fields(type.fields)

Default(field) == IF field.opt THEN Absent ELSE Fail

ListOf(field, items) ==
    IF items = <<>> THEN Default(field)
    ELSE IF Failed(items) \/ Len(items) > field.max THEN Fail
    ELSE List(items)

-----------------------------------------------------------------------------
(* Reading a group. *)

\* Mutant: the element that shows the omission is lost.
WithTANProcessLosing(type, data) ==
    IF /\ type \in {TwoStepParameters6, TwoStepParameters7}
       /\ Len(data) >= 2
       /\ ~ Is(data[2], "none")
       /\ data[2] \notin {Val(d) : d \in Digit}
    THEN << data[1], Absent >> \o Suffix(data, 2)
    ELSE data

\* Some banks omit tan_process: then the second element is no single digit.
WithTANProcess(type, data) ==
    IF /\ type \in {TwoStepParameters6, TwoStepParameters7}
       /\ Len(data) >= 2
       /\ ~ Is(data[2], "none")
       /\ data[2] \notin {Val(d) : d \in Digit}
    THEN << data[1], Absent >> \o Suffix(data, 1)
    ELSE data

\* Where the next item of a list starts when an item is shorter than declared:
\* at something that looks like a security function.
_find_deg_boundary(data, expected) ==
    LET Starts(i) == /\ Is(data[i + 1], "val")
                     /\ IsDigits(data[i + 1].val)
                     /\ Len(data[i + 1].val) = 3
                     /\ SubSeq(data[i + 1].val, 1, 1) # "0"
        found == {i \in (expected \div 2) .. (expected - 1) : i < Len(data) /\ Starts(i)}
    IN IF found = {} THEN expected ELSE CHOOSE i \in found : \A j \in found : i <= j

Element(field, v) ==
    IF ~ Is(v, "none") THEN Convert(v, field.type)
    ELSE IF ~ field.opt /\ field.type.kind \in {"text", "digits"} THEN Convert(Val(""), field.type)
    ELSE Default(field)

RECURSIVE from_wire_list(_, _), ReadFields(_, _), _parse_list_of_degs(_, _)

\* What is left of a list is dropped at the first item that cannot be read.
_parse_list_of_degs(type, data) ==
    LET size == _count_model_fields(type)
        whole == from_wire_list(type, Prefix(data, size))
        end == _find_deg_boundary(data, size)
        shorter == from_wire_list(type, Prefix(data, end))
    IN IF data = <<>> THEN <<>>
       ELSE IF ~ Is(whole, "fail")
            THEN << whole >> \o _parse_list_of_degs(type, Suffix(data, size))
       ELSE IF end > 0 /\ ~ Is(shorter, "fail")
            THEN << shorter >> \o _parse_list_of_degs(type, Suffix(data, end))
       ELSE <<>>

\* The values of the fields of a group, by position.
ReadFields(fields, data) ==
    LET field == Head(fields)
        size == _count_model_fields(field.type)
        Then(value, used) == << value >> \o ReadFields(Tail(fields), Suffix(data, used))
    IN IF fields = <<>> THEN <<>>
       ELSE IF data = <<>> THEN [i \in DOMAIN fields |-> Default(fields[i])]
       ELSE IF field.many /\ IsGroup(field.type)
            THEN Then(ListOf(field, _parse_list_of_degs(field.type, data)), Len(data))
       ELSE IF field.many
            THEN Then(ListOf(field, [i \in DOMAIN data |-> Convert(data[i], field.type)]), Len(data))
       ELSE IF IsGroup(field.type)
            THEN Then(from_wire_list(field.type, Prefix(data, size)), size)
       ELSE Then(Element(field, data[1]), 1)

from_wire_list(type, data) == Model(type.fields, ReadFields(type.fields, WithTANProcess(type, data)))

-----------------------------------------------------------------------------
(* Reading a segment. *)

Elements(v) == IF Is(v, "list") THEN v.list ELSE << v >>

\* list[DEG]: every list up to the next element that is none, empty ones skipped.
RECURSIVE ListRun(_)
ListRun(raw) == IF raw = <<>> \/ ~ (Is(raw[1], "list") \/ Is(raw[1], "none"))
                THEN 0 ELSE 1 + ListRun(Tail(raw))

_parse_deg_list(type, raw) ==
    LET lists == SelectSeq(raw, LAMBDA v : Is(v, "list"))
    IN [i \in DOMAIN lists |-> from_wire_list(type, lists[i].list)]

RECURSIVE _parse_segment_as_class(_, _)
_parse_segment_as_class(fields, raw) ==
    LET field == Head(fields)
        run == ListRun(raw)
        Then(value, used) == << value >> \o _parse_segment_as_class(Tail(fields), Suffix(raw, used))
        items == Elements(raw[1])
    IN IF fields = <<>> THEN <<>>
       ELSE IF raw = <<>> THEN [i \in DOMAIN fields |-> Default(fields[i])]
       ELSE IF field.many /\ IsGroup(field.type)
            THEN Then(ListOf(field, _parse_deg_list(field.type, Prefix(raw, run))), run)
       ELSE IF Is(raw[1], "none") THEN Then(Default(field), 1)
       ELSE IF field.many
            THEN Then(ListOf(field, [i \in DOMAIN items |-> Convert(items[i], field.type)]), 1)
       ELSE IF IsGroup(field.type) THEN Then(from_wire_list(field.type, items), 1)
       ELSE Then(Convert(raw[1], field.type), 1)

\* Parsed and Written of module Segments.
ParseAs(fields, raw) == Model(fields, _parse_segment_as_class(fields, raw))

-----------------------------------------------------------------------------
(* Writing a segment. *)

RECURSIVE to_wire_list(_, _)

to_wire_list(type, model) ==
    LET Of(field) ==
            LET v == model.obj[field.name]
                Item(x) == IF IsGroup(field.type) THEN List(to_wire_list(field.type, x)) ELSE x
            IN IF Is(v, "none") THEN << v >>
               ELSE IF field.many THEN [i \in DOMAIN v.list |-> Item(v.list[i])]
               ELSE << Item(v) >>
    IN FlatMap(Of, type.fields)

\* An untyped value may be a list: each of its items becomes an element, a list
\* among them the string Python writes for it.
_serialize_value(v) == IF Is(v, "list") THEN ToText(v) ELSE v

\* HNHBK3.to_wire_list: the size of the message has twelve digits.
Padded(v) == [int |-> SubSeq("000000000000", 1, 12 - Len(v.int)) \o v.int]

serialize_segment(segment) ==
    LET Of(field) ==
            LET v == IF field.name = "message_size" THEN Padded(segment.fields[field.name])
                     ELSE segment.fields[field.name]
                Item(x) == IF IsGroup(field.type) THEN List(to_wire_list(field.type, x))
                           ELSE _serialize_value(x)
            IN IF Is(v, "none") THEN << v >>
               ELSE IF Is(v, "list") THEN [i \in DOMAIN v.list |-> Item(v.list[i])]
               ELSE << Item(v) >>
    IN FlatMap(Of, LayoutOf(segment))

\* Empty elements are trimmed at the end of a group, and of each group in it;
\* nested groups are then joined to the others.
RECURSIVE _implode_deg(_)
_implode_deg(deg) ==
    LET last == CHOOSE n \in 0 .. Len(deg) :
                   /\ n > 0 => ~ Is(deg[n], "none")
                   /\ \A i \in n + 1 .. Len(deg) : Is(deg[i], "none")
        Parts(v) == IF Is(v, "list")
                    THEN IF _implode_deg(v.list) = <<>> THEN << Absent >> ELSE _implode_deg(v.list)
                    ELSE << escape_value(v) >>
    IN FlatMap(Parts, Prefix(deg, last))

\* What the tokenizer makes of an element: one part is no list, an empty part is
\* None, one at the end is dropped.
Blank(v) == IF v = Val("") THEN Absent ELSE v
DropLast(s) == IF s # <<>> /\ Is(Last(s), "none") THEN Front(s) ELSE s

ExplodeElement(parts) ==
    CASE parts = <<>> -> Absent
      [] Len(parts) = 1 -> Blank(parts[1])
      [] OTHER -> List(DropLast([i \in DOMAIN parts |-> Blank(parts[i])]))

\* Bytes and back: explode_segments after implode_segments.
Transmit(elements) ==
    LET parts == [i \in DOMAIN elements |-> _implode_deg(Elements(elements[i]))]
    IN IF \E i \in DOMAIN parts : Failed(parts[i]) THEN << Fail >>
       ELSE DropLast([i \in DOMAIN parts |-> ExplodeElement(parts[i])])

Transmitted(segment) == Transmit(serialize_segment(segment))

\* Written by the client and read again, by itself or by the bank.
Rewrite(segment) ==
    LET raw == Transmitted(segment)
    IN IF Failed(raw) THEN Fail ELSE parse_segment(segment.type, segment.version, raw)
=============================================================================
