------------------------------- MODULE Segments -------------------------------
(***************************************************************************)
(* Segments of known and of unknown types (protocol/parser.py and          *)
(* protocol/base.py).  How the elements of a known segment are read and    *)
(* how a segment is written are parameters: what is shown of a client      *)
(* holds for every such format.  WireFormat is that of geldstrom.          *)
(***************************************************************************)
EXTENDS SegmentLayouts

CONSTANTS
    Parsed(_, _),   \* the model that elements make for the fields of a class, or Fail
    Written(_)      \* the elements of a segment that was written, as a parser gets them

Suffix(s, n) == SubSeq(s, n + 1, Len(s))           \* without the first n

FlatMap(Op(_), s) == FlattenSeq([i \in DOMAIN s |-> Op(s[i])])

\* The model of the values that were found, field by field, or the exception
\* of the first validator that refuses one.
Model(fields, values) ==
    IF Failed(values) THEN Fail
    ELSE [obj |-> [name \in {fields[i].name : i \in DOMAIN fields} |->
                     values[CHOOSE i \in DOMAIN fields : fields[i].name = name]]]

-----------------------------------------------------------------------------

\* HI???S
is_parameter_segment(type) ==
    Len(type) = 6 /\ SubSeq(type, 1, 2) = "HI" /\ SubSeq(type, 6, 6) = "S"

_create_fallback_segment(type, version, raw) ==
    LET Value(i) == IF i <= 10 /\ i <= Len(raw) THEN raw[i]
                    ELSE IF i = 11 /\ Len(raw) > 10 THEN List(Suffix(raw, 10))
                    ELSE Absent
    IN [type |-> type, version |-> version, typed |-> FALSE,
        fields |-> Model(GenericFields, [i \in 1 .. 11 |-> Value(i)]).obj]

\* The class of a type and version, if there is one.
get_segment_class(type, version) == {c \in Registry : c.type = type /\ c.version = version}

\* Robust mode.  A segment that is known, no parameter segment and not valid makes
\* the parser refuse the message.
Robust(parsed, type, version, raw) ==
    IF ~ Is(parsed, "fail")
    THEN [type |-> type, version |-> version, typed |-> TRUE, fields |-> parsed.obj]
    ELSE IF is_parameter_segment(type) THEN _create_fallback_segment(type, version, raw)
    ELSE Fail

ParseWith(classes, type, version, raw) ==
    IF classes = {} THEN _create_fallback_segment(type, version, raw)
    ELSE Robust(Parsed((CHOOSE c \in classes : TRUE).fields, raw), type, version, raw)

parse_segment(type, version, raw) ==
    ParseWith(get_segment_class(type, version), type, version, raw)

LayoutOf(segment) ==
    IF segment.typed
    THEN (CHOOSE c \in get_segment_class(segment.type, segment.version) : TRUE).fields
    ELSE GenericFields
=============================================================================
