----------------------------- MODULE DeadLetters -----------------------------
(***************************************************************************)
(* The dead-letter store (DeadLetterStore) with the messages that it gets: *)
(* they came over the wire and are written as JSON (Codec).                *)
(***************************************************************************)
EXTENDS DeadLetterStore, Codec

CONSTANTS
  Payloads,     \* values that a C++ module sends in a payload
  Foreign,      \* frames of other programs
  Expiring,     \* payloads of messages that nobody takes in time
  Texts         \* what a key that is misread may look like

ASSUME MessageAssumption ==
  /\ Topics \subseteq Nat                 \* the content of the strings that name them
  /\ Expiring \subseteq Payloads /\ None \notin Payloads
  /\ Texts # {}

VARIABLES
  value,       \* what the sender put into the payload
  message      \* the message as the engine took it in

\* A message with one value in its payload, under the key "topic".
TopicKey == 1
MessageWith(x) ==
  [f \in Fields |-> IF f = "payload" THEN Value("map", 0, [k \in {TopicKey} |-> x]) ELSE Default(f)]

\* The strings under the key "topic", at any depth.
RECURSIVE Named(_)
Named(json) ==
  {json.e[k].v : k \in {k \in DOMAIN json.e : /\ json.t = "object" /\ k = TopicKey
                                             /\ json.e[k].t = "string"}}
    \cup UNION {Named(json.e[k]) : k \in DOMAIN json.e}
Mentions(m) == Topics \cap Named(MessageToJson(m)["payload"])

\* A frame with a key that deserialize misreads gives some message, or ends the
\* engine.
WireInit ==
  /\ \E garbage \in Texts :
       \/ value \in Payloads /\ message = Deserialize(Serialize(MessageWith(value)), garbage)
       \/ /\ value = None
          /\ \E frame \in Foreign :
               \/ message = Deserialize(frame, garbage)
               \/ Misread(frame) /\ message = None
  /\ Init

\* Every record of a behaviour is of the same message, and the lines differ in
\* the rest.
WireNext ==
  /\ \/ Midnight \/ Replaying
     \/ \E w \in Writers :
          \/ Persisting(w)
          \/ value \in Expiring /\ \E topic \in Topics : PickFile(w, topic, Mentions(message))
  /\ UNCHANGED <<value, message>>

WireSpec == WireInit /\ [][WireNext]_<<value, message, vars>>

-----------------------------------------------------------------------------
(* Properties                                                              *)

\* A message that deserialize returned goes through any further hop unchanged,
\* whatever the frame was: with fields missing, repeated or of another type, or with
\* keys that are no strings, if the engine outlives those.  And what a module puts
\* into a payload arrives as the receiver should see it, save a type that pack_any
\* does not know and an integer that is too long for an int; such a one never does
\* (message.cpp, pack_any, unpack_object and deserialize).
CodecExact ==
  /\ message # None =>
       \A garbage \in Texts : Deserialize(Serialize(message), garbage) = message
  /\ value # None => (message["payload"].e[TopicKey] = Arrival(value) <=> Kept(value))
=============================================================================
