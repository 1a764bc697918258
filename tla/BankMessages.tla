----------------------------- MODULE BankMessages -----------------------------
(***************************************************************************)
(* How the FinTS standard writes segments, and samples of every segment    *)
(* that geldstrom declares.  This is the other side of the wire: a bank    *)
(* keeps the place of whatever it leaves out.                              *)
(***************************************************************************)
EXTENDS WireFormat

-----------------------------------------------------------------------------
(* Encoding. *)

\* A group inside a group keeps its width, but for a list at the end.
RECURSIVE Flat(_, _)
Flat(type, model) ==
    LET Of(field) ==
            LET v == model.obj[field.name]
                Item(x) == IF IsGroup(field.type) THEN Flat(field.type, x) ELSE << Lexeme(x) >>
            IN IF Is(v, "none")
               THEN IF field.many THEN <<>>
                    ELSE IF IsGroup(field.type)
                    THEN [i \in 1 .. _count_model_fields(field.type) |-> Absent]
                    ELSE << Absent >>
               ELSE IF field.many THEN FlatMap(Item, v.list)
               ELSE Item(v)
    IN FlatMap(Of, type.fields)

RECURSIVE TrimEnd(_)
TrimEnd(s) == IF s # <<>> /\ Last(s) \in {Absent, Val("")} THEN TrimEnd(Front(s)) ELSE s

\* A repeated group is one element for each item; a repeated simple value is one
\* element for all of them.
Encode(segment) ==
    LET Of(field) ==
            LET v == IF field.name = "message_size" THEN Padded(segment.fields[field.name])
                     ELSE segment.fields[field.name]
                Item(x) == ExplodeElement(TrimEnd(Flat(field.type, x)))
            IN IF Is(v, "none") THEN << v >>
               ELSE IF field.many /\ IsGroup(field.type)
                    THEN [i \in DOMAIN v.list |-> Item(v.list[i])]
               ELSE IF field.many
                    THEN << ExplodeElement([i \in DOMAIN v.list |-> Lexeme(v.list[i])]) >>
               ELSE IF IsGroup(field.type) THEN << Item(v) >>
               ELSE << Blank(Lexeme(v)) >>
    IN TrimEnd(FlatMap(Of, LayoutOf(segment)))

-----------------------------------------------------------------------------
(* Samples: two values of every type. *)

Pick(k, one, other) == IF k = 1 THEN one ELSE other

SimpleSample(field, k) ==
    CASE field.name = "tan_process" -> Val("2")
      [] field.name = "security_function" /\ field.type.kind = "text" -> Val(Pick(k, "940", "962"))
      [] field.type.kind = "text" /\ field.type.min = 3 -> Val(Pick(k, "EUR", "USD"))
      [] field.type.kind = "text" -> Val(Pick(k, "A1", "B2"))
      [] field.type.kind = "digits" -> Val(SubSeq(Pick(k, "3010", "0280"), 1, field.type.min))
      [] field.type.kind = "number" -> [int |-> Pick(k, "7", "0")]
      [] field.type.kind = "decimal" -> [decimal |-> Pick(k, "12,5", "7,")]
      [] field.type.kind = "bool" -> [bool |-> k = 1]
      [] field.type.kind = "date" -> [date |-> Pick(k, "20250131", "20240229")]
      [] field.type.kind = "time" -> [time |-> Pick(k, "093000", "235959")]
      [] field.type.kind = "binary" -> Bin(Pick(k, "X", "Y"))
      [] field.type.kind = "enum" -> Val(CHOOSE m \in field.type.members : TRUE)
      [] field.type.kind = "any" -> Pick(k, Val("A1"), List(<< Val("A1"), Absent, Val("B2") >>))

RECURSIVE FullGroup(_, _)
FullSample(field, k) ==
    LET one == IF IsGroup(field.type) THEN FullGroup(field.type, k) ELSE SimpleSample(field, k)
    IN IF field.many THEN List(<< one >>) ELSE one
FullGroup(type, k) ==
    Model(type.fields, [i \in DOMAIN type.fields |-> FullSample(type.fields[i], k)])

\* Every way to leave out one optional field, all of them, or all but one; a
\* blank where text is required; the same inside of one group; and lists of two.
RECURSIVE GroupSamples(_)
FieldSamples(field) ==
    LET one == FullSample(field, 1)
        other == IF IsGroup(field.type) THEN FullGroup(field.type, 2) ELSE SimpleSample(field, 2)
        inner == IF IsGroup(field.type) THEN GroupSamples(field.type) ELSE {}
        blank == IF field.name = "subaccount_number" /\ ~ field.opt
                 THEN {Val("")} ELSE {}
    IN (IF field.opt THEN {Absent} ELSE {}) \cup blank
       \cup IF field.many
            THEN {List(<< x >>) : x \in inner} \cup {List(<< other, x >>) : x \in inner}
                 \cup {List(<< x, other >>) : x \in inner} \cup {List(<< other, one.list[1] >>)}
            ELSE {other} \cup inner

RowSamples(fields) ==
    LET full == [i \in DOMAIN fields |-> FullSample(fields[i], 1)]
        Absentees == {i \in DOMAIN fields : fields[i].opt}
        Without(gone) == [i \in DOMAIN fields |-> IF i \in gone THEN Absent ELSE full[i]]
    IN {full, Without(Absentees)}
       \cup {Without(Absentees \ {i}) : i \in Absentees}
       \cup UNION {{[full EXCEPT ![i] = v] : v \in FieldSamples(fields[i])} : i \in DOMAIN fields}

\* A group without anything in it is no group on the wire.
GroupSamples(type) ==
    {Model(type.fields, row) : row \in {r \in RowSamples(type.fields) :
                                           \E i \in DOMAIN r : r[i] # Absent}}

\* The blank is no legal value of an element of a segment that is required.
SegmentSamples(class) ==
    {[type |-> class.type, version |-> class.version, typed |-> TRUE,
      fields |-> Model(class.fields, row).obj] :
        row \in {r \in RowSamples(class.fields) : \A i \in DOMAIN r : r[i] # Val("")}}
=============================================================================
