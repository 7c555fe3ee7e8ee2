-------------------------------- MODULE Codec --------------------------------
(***************************************************************************)
(* Messages and their encodings: serialize and deserialize of message.cpp, *)
(* between a Message and msgpack objects, and any_to_json of               *)
(* dead_letter_store.cpp, from a Message to the record on disk.            *)
(*                                                                         *)
(* A value has a type, a number that stands for its content, and elements  *)
(* if it is a map or an array: a sequence, or for a map of the program a   *)
(* function of its keys, where a number stands for the text of a key.  A   *)
(* map on the wire is a sequence of entries; its keys are objects of any   *)
(* type, and may repeat.  serialize, serialize_tls and serialize_into      *)
(* write the same ten fields and differ only in where the bytes go.        *)
(***************************************************************************)
EXTENDS Integers, Sequences, FiniteSets
LOCAL INSTANCE SequencesExt

CONSTANTS
  IntBits,    \* width of int
  LongBits    \* width of int64_t and uint64_t

ASSUME WidthAssumption == IntBits \in Nat \ {0} /\ LongBits \in Nat /\ LongBits > IntBits

Value(type, content, elements) == [t |-> type, v |-> content, e |-> elements]
Leaf(type, content) == Value(type, content, <<>>)
Nothing == Leaf("none", 0)

Entry(k, x) == [key |-> k, val |-> x]

Map(Op(_), s) == [i \in DOMAIN s |-> Op(s[i])]

\* What a cast to int leaves of an integer.
Narrow(n) == ((n + 2^(IntBits - 1)) % 2^IntBits) - 2^(IntBits - 1)

-----------------------------------------------------------------------------
(* pack_any and unpack_object                                              *)

\* A type that is not listed packs as nil.
WireType ==
  [none |-> "nil", other |-> "nil", bool |-> "bool", string |-> "str", char_ptr |-> "str",
   double |-> "float", float |-> "float", map |-> "map", strings |-> "array", list |-> "array"]

Integral == {"int", "int64", "uint64"}

\* Mutant of ScalarType: a bool is taken for a number.
ScalarTypeBoolAsInt(x) ==
  IF x.t \in Integral \cup {"bool"} THEN (IF x.v >= 0 THEN "uint" ELSE "nint") ELSE WireType[x.t]

ScalarType(x) ==
  IF x.t \in Integral THEN (IF x.v >= 0 THEN "uint" ELSE "nint") ELSE WireType[x.t]

\* unordered_map gives the entries of a map in some order.
RECURSIVE Pack(_)
Pack(x) ==
  Value(ScalarType(x), IF ScalarType(x) = "nil" THEN 0 ELSE x.v,
        IF x.t = "map" THEN Map(LAMBDA k : Entry(Leaf("str", k), Pack(x.e[k])),
                                SetToSeq(DOMAIN x.e))
                       ELSE Map(Pack, x.e))

\* The key of a nested map is taken for a string whatever it is, which for another
\* type is undefined: some text comes out, the same for all such keys of a frame
\* here, or the program ends (Misread, in DeadLetters).
KeyText(key, garbage) == IF key.t = "str" THEN key.v ELSE garbage

\* Any integer becomes an int; an array of strings, unless it is empty, a vector
\* of strings; a type that is not listed an empty value.  Of two entries with the
\* same key the later one counts.
RECURSIVE Unpack(_, _)
UnpackEntries(s, garbage) ==
  LET texts == Map(LAMBDA entry : KeyText(entry.key, garbage), s)
      last(k) == CHOOSE i \in DOMAIN s : texts[i] = k /\ \A j \in DOMAIN s : texts[j] = k => j <= i
  IN [k \in Range(texts) |-> Unpack(s[last(k)].val, garbage)]

Unpack(w, garbage) ==
  CASE w.t \in {"uint", "nint"} -> Leaf("int", Narrow(w.v))
    [] w.t = "bool" -> Leaf("bool", w.v)
    [] w.t = "float" -> Leaf("double", w.v)
    [] w.t = "str" -> Leaf("string", w.v)
    [] w.t = "map" -> Value("map", 0, UnpackEntries(w.e, garbage))
    [] w.t = "array" ->
         Value(IF w.e # <<>> /\ \A i \in DOMAIN w.e : w.e[i].t = "str" THEN "strings" ELSE "list",
               0, Map(LAMBDA x : Unpack(x, garbage), w.e))
    [] OTHER -> Nothing

\* An object with such a key in it.
RECURSIVE OddKeys(_)
OddKeys(w) ==
  \/ w.t = "map" /\ \E i \in DOMAIN w.e : w.e[i].key.t # "str" \/ OddKeys(w.e[i].val)
  \/ w.t = "array" /\ \E i \in DOMAIN w.e : OddKeys(w.e[i])

-----------------------------------------------------------------------------
(* serialize and deserialize                                               *)

FieldOrder == <<"msg_type", "sender", "event", "payload", "recipient", "durability", "timestamp",
                "correlation_id", "wait_timeout", "run_timeout">>
Fields == Range(FieldOrder)
Timeouts == {"wait_timeout", "run_timeout"}

\* The types of a field on the wire that deserialize takes; it leaves the
\* default when it finds another, or no such field.
Accepts(f) ==
  CASE f \in {"msg_type", "sender", "event", "recipient", "correlation_id"} -> {"str"}
    [] f = "payload" -> {"map"}
    [] f = "durability" -> {"uint", "nint"}
    [] f \in Timeouts \cup {"timestamp"} -> {"float", "uint"}

\* MessageType::EVENT, also for a string it does not know; ASYNC_FLUSH.
EventType == 1
MessageTypes == 0..6
AsyncFlush == 1
Default(f) ==
  CASE f = "msg_type" -> Leaf("string", EventType)
    [] f \in {"sender", "event"} -> Leaf("string", 0)
    [] f = "payload" -> Value("map", 0, <<>>)
    [] f = "durability" -> Leaf("int", AsyncFlush)
    [] OTHER -> Nothing

\* The payload skips the entries whose key is not a string.
StringKeyed(s) == SelectSeq(s, LAMBDA entry : entry.key.t = "str")

ReadField(f, w, garbage) ==
  CASE f = "msg_type" /\ w.v \notin MessageTypes -> Leaf("string", EventType)
    [] f \in Timeouts -> Leaf("float", w.v)
    [] f = "timestamp" -> Leaf("double", w.v)
    [] f = "payload" -> Value("map", 0, UnpackEntries(StringKeyed(w.e), garbage))
    [] OTHER -> Unpack(w, garbage)

\* A Message is a function of the ten fields, its frame a sequence of entries.  A
\* frame of another sender may lack fields, hold others, or repeat one.
Serialize(m) == Map(LAMBDA f : Entry(Leaf("str", f), Pack(m[f])), FieldOrder)

\* The entries that deserialize takes for field f.  The last one stays, of several
\* payloads the entries of all.
Given(frame, f) ==
  SelectSeq(frame, LAMBDA entry : entry.key = Leaf("str", f) /\ entry.val.t \in Accepts(f))
Merged(s) == Value("map", 0, FlattenSeq(Map(LAMBDA entry : entry.val.e, s)))

Deserialize(frame, garbage) ==
  [f \in Fields |->
     LET given == Given(frame, f) IN
       IF given = <<>> THEN Default(f)
       ELSE ReadField(f, IF f = "payload" THEN Merged(given) ELSE Last(given).val, garbage)]

\* A frame from which deserialize reads a key that is not a string as one.
Misread(frame) ==
  LET payload == StringKeyed(Merged(Given(frame, "payload")).e)
  IN \E i \in DOMAIN payload : OddKeys(payload[i].val)

-----------------------------------------------------------------------------
(* message_to_json                                                         *)

\* A vector of strings is not among the types any_to_json knows.
JsonType ==
  [none |-> "null", other |-> "null", strings |-> "null", bool |-> "bool", string |-> "string",
   char_ptr |-> "string", double |-> "number", float |-> "number", int |-> "number",
   int64 |-> "number", uint64 |-> "number", map |-> "object", list |-> "array"]

RECURSIVE ToJson(_)
ToJson(x) ==
  IF JsonType[x.t] = "null" THEN Leaf("null", 0)
                            ELSE Value(JsonType[x.t], x.v, Map(ToJson, x.e))

MessageToJson(m) == [f \in Fields |-> ToJson(m[f])]

-----------------------------------------------------------------------------
(* What the codec keeps                                                    *)

\* A value as its receiver should see it, whose types are fewer than the sender's.
RECURSIVE Arrival(_)
Arrival(x) ==
  CASE x.t \in Integral -> Leaf("int", x.v)
    [] x.t = "float" -> Leaf("double", x.v)
    [] x.t = "char_ptr" -> Leaf("string", x.v)
    [] x.t \in {"strings", "list"} ->
         LET items == Map(Arrival, x.e)
         IN Value(IF {item.t : item \in Range(items)} = {"string"} THEN "strings" ELSE "list",
                  0, items)
    [] OTHER -> Value(x.t, x.v, Map(Arrival, x.e))

\* A value with nothing in it that the codec loses: no type that pack_any does not
\* know, and no integer that is too long for an int.
RECURSIVE Kept(_)
Kept(x) ==
  /\ x.t # "other"
  /\ x.t \in Integral => x.v \in -(2^(IntBits - 1))..(2^(IntBits - 1) - 1)
  /\ \A i \in DOMAIN x.e : Kept(x.e[i])
=============================================================================
