------------------------------ MODULE ClientWire ------------------------------
(***************************************************************************)
(* The client of ClientSession with the wire format of geldstrom: its      *)
(* parameters are Encode, ParseAs, Transmitted, CompactSegment and Saved.  *)
(***************************************************************************)
EXTENDS ClientSession, BankMessages

\* A segment, saved again and again until nothing changes any more.
RECURSIVE SavedAgain(_)
SavedAgain(copies) ==
    LET more == copies \cup {Reread(c) : c \in copies}
    IN IF more = copies THEN copies ELSE SavedAgain(more)
AllCopies ==
    [s \in UNION {ToSet(d.segments[part]) : d \in BankData, part \in Parts} |->
        SavedAgain({Received(s)})]
Saved(segment) == AllCopies[segment]

AnswersReadOrRefused ==
    message # None =>
        parse_segment(message.type, message.version, Encode(message))
            \in {message} \cup (IF message.type = "HITAB" THEN {Fail} ELSE {})

IsRequest(segment) == SubSeq(segment.type, 1, 2) = "HK"
RequestsAsSpecified ==
    message # None /\ IsRequest(message) =>
        TrimEnd(Transmitted(message)) = Encode(message)

\* Some banks omit the TAN process of a method without a placeholder: the fifth
\* part of the fourth element, where there is one method.
Methods(segment) == segment.fields["parameter"].obj["twostep_parameters"].list
OmitsProcess(segment) ==
    /\ segment.type = "HITANS" /\ segment.version \in {6, 7}
    /\ Len(Methods(segment)) = 1 /\ Is(Methods(segment)[1].obj["tan_process"], "none")
OmissionTolerated ==
    message # None /\ OmitsProcess(message) =>
        LET omitted == [Encode(message) EXCEPT ![4] = List(RemoveAt(@.list, 5))]
        IN parse_segment(message.type, message.version, omitted) = message

\* The parser reads every answer as the bank meant it, field by field, also where
\* a TAN process is omitted.  The one exception is refused and not misread: lists
\* of TAN media with a group left out in the middle.  And what the client writes
\* for a request is what the standard asks for, whichever optional elements are
\* missing.
WireAsSpecified == AnswersReadOrRefused /\ OmissionTolerated /\ RequestsAsSpecified

\* Nothing that is followed by something else ends in empty elements, and no
\* value has several parts where the serializer writes one element for each.
RECURSIVE EndsFull(_, _), CompactGroup(_, _)
EndsFull(type, v) ==
    IF ~ IsGroup(type) THEN ~ Is(v, "none")
    ELSE IF Is(v, "none") THEN FALSE
    ELSE LET field == Last(type.fields)
             last == v.obj[field.name]
         IN IF field.many /\ Is(last, "list") THEN EndsFull(field.type, Last(last.list))
            ELSE EndsFull(field.type, last)

CompactGroup(type, v) ==
    LET Values(field, x) == IF field.many /\ Is(x, "list") THEN x.list ELSE << x >>
        TypedParts(field) == [j \in DOMAIN Values(field, v.obj[field.name]) |->
                                 [type |-> field.type, part |-> Values(field, v.obj[field.name])[j]]]
        parts == FlatMap(TypedParts, type.fields)
    IN \A i \in DOMAIN parts :
          IsGroup(parts[i].type) =>
              /\ Is(parts[i].part, "none") \/ CompactGroup(parts[i].type, parts[i].part)
              /\ \/ EndsFull(parts[i].type, parts[i].part)
                 \/ \A j \in DOMAIN parts : j > i => Is(parts[j].part, "none")

CompactField(field, v) ==
    LET items == IF field.many /\ Is(v, "list") THEN v.list ELSE << v >>
    IN /\ Is(v, "list") => field.many
       /\ field.many /\ ~ IsGroup(field.type) => Len(items) = 1
       /\ IsGroup(field.type) =>
              \A j \in DOMAIN items : Is(items[j], "none") \/ CompactGroup(field.type, items[j])

CompactSegment(segment) ==
    \A field \in ToSet(LayoutOf(segment)) : CompactField(field, segment.fields[field.name])

\* A segment that the client saves and restores is the same again if it is
\* compact.  A balance is never saved: the serializer has no amounts.
RestoredIfCompact ==
    message # None /\ message.type # "HISAL" /\ CompactSegment(message) => Rewrite(message) = message
=============================================================================
