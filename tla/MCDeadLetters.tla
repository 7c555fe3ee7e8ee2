---------------------------- MODULE MCDeadLetters ----------------------------
(* DeadLetters with integers of two and three bits, topics with and        *)
(* without a character that JSON escapes, and frames of this engine's own  *)
(* and of other programs.                                                  *)
EXTENDS DeadLetters

\* Topic 2 has a quote in it; 3 is the text that JSON writes for it.
MCEscape == [t \in Topics |-> IF t = 1 THEN 1 ELSE t + 1]

Scalars ==
  {Leaf(t, 0) : t \in {"none", "other", "bool", "string", "char_ptr", "double", "float"}}
    \cup {Leaf("int", n) : n \in -2..1} \cup {Leaf("int64", n) : n \in -4..3}
    \cup {Leaf("uint64", n) : n \in 0..7}

\* Scalars, and arrays and maps of up to two of them, one level of nesting more
\* for some.
Compound(base) ==
  {Value(t, 0, e) : t \in {"list", "map"}, e \in {<<>>} \cup {<<x>> : x \in base}}
    \cup {Value(t, 0, <<x, Leaf("string", 1)>>) : t \in {"list", "map"}, x \in base}

\* Two of them name a topic.
MCExpiring == {Leaf("int64", 3), Leaf("string", 2), Value("map", 0, <<Leaf("char_ptr", 1)>>)}
MCPayloads ==
  MCExpiring \cup
    Scalars \cup Compound(Scalars \cup Compound({Leaf("string", 0), Leaf("int64", 3)}))
    \cup {Value("strings", 0, e) : e \in {<<>>, <<Leaf("string", 0), Leaf("string", 1)>>}}

WireValues ==
  {Leaf(t, 1) : t \in {"nil", "bool", "uint", "float", "str", "ext"}} \cup {Leaf("nint", -1)}

\* A map on the wire with two entries, whose keys are equal for k = 1.
WireMap(t, k, x) ==
  Value("map", 0, <<Entry(Leaf(t, 1), x), Entry(Leaf("str", k), Leaf("uint", 6))>>)
WireMaps ==
  {WireMap(t, k, y) :
     t \in {"str", "uint", "nil"}, k \in {1, 2},
     y \in WireValues \cup {WireMap(u, k2, Leaf("str", 2)) : u \in {"str", "uint"}, k2 \in {1, 2}}}

\* Frames of other programs: a field missing, a field twice, a key that is no
\* string, fields of another type, two payloads.
Lacking(f) == SelectSeq(Serialize([g \in Fields |-> Default(g)]),
                        LAMBDA entry : entry.key # Leaf("str", f))
Field(t, f, x) == Entry(Leaf(t, f), x)
MCForeign ==
  {Lacking(f) : f \in Fields}
    \cup {Lacking("none") \o <<Field(t, f, x)>> :
             t \in {"str", "uint"}, f \in Fields, x \in WireValues}
    \cup {Lacking("payload") \o <<Field("str", "payload", x)>> : x \in WireMaps}
    \cup {<<Field("str", "payload", x), Field("str", "payload", y)>> :
             x \in WireMaps, y \in {WireMap("str", 3, Leaf("bool", 1))}}
=============================================================================
